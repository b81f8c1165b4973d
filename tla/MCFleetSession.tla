--------------------------- MODULE MCFleetSession ---------------------------
EXTENDS FleetSession, TLC

CONSTANTS a, b, c, h1, h2, k1, k2

MCCaller == {a, b, c}
Symmetry == Permutations(MCCaller) \cup Permutations({h1, h2})
              \cup Permutations({k1, k2})
=============================================================================
