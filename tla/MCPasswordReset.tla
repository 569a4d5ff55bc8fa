--------------------------- MODULE MCPasswordReset ---------------------------
EXTENDS PasswordReset, TLC

\* No two requests differ but by name.
MCSymmetry == Permutations(Request)
=============================================================================
