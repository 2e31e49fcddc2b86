-------------------------- MODULE MCDegradeMetrics --------------------------
EXTENDS DegradeMetrics, TLC

\* Rates in quarters: four searches are enough at a high watermark of 1/2, six
\* (of five) at 3/4.
Quarters(size, high, low, max) == [size |-> size, high |-> high, low |-> low, max |-> max]

MCDefault == Quarters(4, 2, 1, 2)
MCConfigs == {MCDefault, Quarters(5, 2, 1, 2), Quarters(4, 2, 0, 2),
              Quarters(4, 3, 1, 2), Quarters(4, 4, 1, 2), Quarters(4, 2, 1, 1)}

Symmetry == Permutations(Tenants) \cup Permutations(Flags)
=============================================================================
