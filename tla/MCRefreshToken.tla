--------------------------- MODULE MCRefreshToken ---------------------------
EXTENDS RefreshToken, TLC

MCSymmetry == Permutations(Request) \cup Permutations(Password)
=============================================================================
