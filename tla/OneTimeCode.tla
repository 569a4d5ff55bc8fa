---------------------------- MODULE OneTimeCode ----------------------------
(***************************************************************************)
(* What a one-time-code session promises, with no Redis, no counters and   *)
(* no requests: a session is minted for one purpose, lives until it is     *)
(* either used once or voided (expired, burned or withdrawn), and only a   *)
(* used session leads to a token pair, once, for its own purpose.          *)
(***************************************************************************)
EXTENDS Naturals

CONSTANTS Token,    \* session tokens: a fresh UUID per session
          Purpose   \* the flows a session can be minted for

VARIABLES phase,    \* where each session is in its life
          purpose,  \* the flow it was minted for, "none" before
          grants    \* token pairs issued for it, per verify endpoint

vars == <<phase, purpose, grants>>

Phase == {"unborn", "live", "used", "void"}

TypeOK ==
    /\ phase \in [Token -> Phase]
    /\ purpose \in [Token -> Purpose \cup {"none"}]
    /\ grants \in [Token -> [Purpose -> Nat]]

Init ==
    /\ phase = [t \in Token |-> "unborn"]
    /\ purpose = [t \in Token |-> "none"]
    /\ grants = [t \in Token |-> [p \in Purpose |-> 0]]

\* A session starts its life, for one purpose.
Mint(t, p) ==
    /\ phase[t] = "unborn"
    /\ phase' = [phase EXCEPT ![t] = "live"]
    /\ purpose' = [purpose EXCEPT ![t] = p]
    /\ UNCHANGED grants

\* A correct code claims the session.
Use(t) ==
    /\ phase[t] = "live"
    /\ phase' = [phase EXCEPT ![t] = "used"]
    /\ UNCHANGED <<purpose, grants>>

\* Sessions end unused: they expire, are burned, or are withdrawn.
Void(S) ==
    /\ \A t \in S : phase[t] = "live"
    /\ phase' = [t \in Token |-> IF t \in S THEN "void" ELSE phase[t]]
    /\ UNCHANGED <<purpose, grants>>

\* The one claim of a session is answered with a token pair.
Grant(t) ==
    /\ phase[t] = "used"
    /\ \A p \in Purpose : grants[t][p] = 0
    /\ grants' = [grants EXCEPT ![t][purpose[t]] = 1]
    /\ UNCHANGED <<phase, purpose>>

Next ==
    \/ \E t \in Token, p \in Purpose : Mint(t, p)
    \/ \E t \in Token : Use(t) \/ Grant(t)
    \/ \E S \in SUBSET Token : Void(S)

Spec == Init /\ [][Next]_vars
=============================================================================
