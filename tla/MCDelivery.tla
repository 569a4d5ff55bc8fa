----------------------------- MODULE MCDelivery -----------------------------
EXTENDS Delivery, TLC

CONSTANTS j1, j2

Mail(template) == [queue |-> "mail", template |-> template, to |-> "u", code |-> "c"]
Sms == [queue |-> "sms", to |-> "u", otp |-> "c"]

\* Two templates with one code; the same code drawn twice for one number.
MCPayloads == {(j1 :> Mail("otp")) @@ (j2 :> Mail("verify-email")),
               (j1 :> Sms) @@ (j2 :> Sms)}
=============================================================================
