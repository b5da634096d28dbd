--------------------------- MODULE MCRateLimiter ---------------------------
EXTENDS RateLimiter, TLC

CONSTANTS a1, a2

Limits   == [auth |-> 1, general |-> 2]
Symmetry == Permutations(Client)
============================================================================
