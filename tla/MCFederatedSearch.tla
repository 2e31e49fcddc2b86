-------------------------- MODULE MCFederatedSearch --------------------------
EXTENDS FederatedSearch, TLC

CONSTANTS k1, k2, k3

\* The two sources are named after adapters; the third adapter is nobody's name.
KeyAdapter == k1 :> "linear" @@ k2 :> "drive" @@ k3 :> "web"
SourceName == <<"linear", "drive">>
=============================================================================
