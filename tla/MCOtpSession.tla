---------------------------- MODULE MCOtpSession ----------------------------
EXTENDS OtpSession, TLC

\* 900, 300 and 180 seconds, in the order that matters.
MCTtl == [k \in Kind |-> IF k = "email_verify" THEN 3
                         ELSE IF k = "email_login" THEN 2 ELSE 1]

MCSymmetry == Permutations(Token) \cup Permutations(Request)
=============================================================================
