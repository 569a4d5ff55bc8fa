----------------------------- MODULE MCRateLimit -----------------------------
EXTENDS RateLimit, TLC

MCSymmetry == Permutations(Request)
=============================================================================
