-------------------------- MODULE MCEmbedScheduler --------------------------
EXTENDS EmbedScheduler, TLC

CONSTANTS t1, t2, a1, a2, a3

\* Two adds of one tenant and one of another.
Owner == a1 :> t1 @@ a2 :> t1 @@ a3 :> t2

\* Every add of one tenant.
OneOwner == [a \in Adds |-> t1]
=============================================================================
