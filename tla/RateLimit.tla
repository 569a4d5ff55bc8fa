------------------------------ MODULE RateLimit ------------------------------
(***************************************************************************)
(* The fixed-window limiter of AuthService, one Redis key: assertRateLimit *)
(* and its twin ensureForgotPasswordRateLimit.  A request increments the   *)
(* key; the one that finds it absent gives it an expiry in a second call;  *)
(* each is then admitted or refused by the number it drew.                 *)
(***************************************************************************)
EXTENDS Requests, Naturals, FiniteSets

CONSTANTS
    Max,         \* requests per window
    Window,      \* seconds of a window, in ticks
    MaxWindows,  \* bound on the windows opened
    MaxCount,    \* where the model stops counting; all above Max is refused alike
    MaxLost      \* bound on requests lost between two awaits

ASSUME LimitAssumption == Max \in Nat \ {0} /\ Window \in Nat \ {0}
ASSUME LimitBoundsAssumption ==
    MaxWindows \in Nat /\ MaxLost \in Nat /\ MaxCount \in Nat /\ MaxCount > Max

VARIABLES
    count,     \* the key's value, 0 when it is absent
    left,      \* ticks left, 0 when the key is absent or has no expiry
    window,    \* history: windows opened so far
    admitted,  \* history: requests admitted, by window
    lost       \* history: requests lost between two awaits

limitVars == <<count, left, req, window, admitted, lost>>

Windows == 1..MaxWindows
Drawn == [pc: {"expire", "decide"}, n: Nat \ {0}, window: Windows]

LimitTypeOK ==
    /\ count \in Nat
    /\ left \in 0..Window
    /\ req \in [Request -> Drawn \cup {Idle}]
    /\ window \in 0..MaxWindows
    /\ admitted \in [Windows -> Nat]
    /\ lost \in 0..MaxLost

LimitInit ==
    /\ count = 0 /\ left = 0
    /\ req = [r \in Request |-> Idle]
    /\ window = 0
    /\ admitted = [w \in Windows |-> 0]
    /\ lost = 0

\* The window the next request belongs to.
Current == IF count = 0 THEN window + 1 ELSE window

\* What INCR answers.
Drawing == IF count < MaxCount THEN count + 1 ELSE count

-----------------------------------------------------------------------------

\* Mutant: every request pushes the expiry out.
IncrSliding(r) ==
    /\ At(r, "idle")
    /\ Current \in Windows
    /\ count' = Drawing
    /\ window' = Current
    /\ Goto(r, [pc |-> "expire", n |-> Drawing, window |-> Current])
    /\ UNCHANGED <<left, admitted, lost>>

\* Mutant: the expiry is set by the first request refused.
IncrExpireLate(r) ==
    /\ At(r, "idle")
    /\ Current \in Windows
    /\ count' = Drawing
    /\ window' = Current
    /\ Goto(r, [pc |-> IF count = Max THEN "expire" ELSE "decide",
                n |-> Drawing, window |-> Current])
    /\ UNCHANGED <<left, admitted, lost>>

\* INCR, which creates an absent key without expiry.
Incr(r) ==
    /\ At(r, "idle")
    /\ Current \in Windows
    /\ count' = Drawing
    /\ window' = Current
    /\ Goto(r, [pc |-> IF count = 0 THEN "expire" ELSE "decide",
                n |-> Drawing, window |-> Current])
    /\ UNCHANGED <<left, admitted, lost>>

\* EXPIRE, void when the key is gone.
Expire(r) ==
    /\ At(r, "expire")
    /\ left' = IF count > 0 THEN Window ELSE 0
    /\ req' = [req EXCEPT ![r].pc = "decide"]
    /\ UNCHANGED <<count, window, admitted, lost>>

\* Mutant: off by one.
DecideOneMore(r) ==
    /\ At(r, "decide")
    /\ admitted' = IF req[r].n > Max + 1 THEN admitted
                   ELSE [admitted EXCEPT ![req[r].window] = @ + 1]
    /\ End(r)
    /\ UNCHANGED <<count, left, window, lost>>

\* count > max refuses.
Decide(r) ==
    /\ At(r, "decide")
    /\ admitted' = IF req[r].n > Max THEN admitted
                   ELSE [admitted EXCEPT ![req[r].window] = @ + 1]
    /\ End(r)
    /\ UNCHANGED <<count, left, window, lost>>

\* One tick of the Redis clock.
LimitTick ==
    /\ left > 0
    /\ left' = left - 1
    /\ count' = IF left = 1 THEN 0 ELSE count
    /\ UNCHANGED <<req, window, admitted, lost>>

\* A Redis error, or the death of the process, at any await.
LoseDraw(r) ==
    /\ ~At(r, "idle")
    /\ lost < MaxLost
    /\ lost' = lost + 1
    /\ End(r)
    /\ UNCHANGED <<count, left, window, admitted>>

-----------------------------------------------------------------------------
LimitProceed(r) == Expire(r) \/ Decide(r)

LimitNext == LimitTick \/ \E r \in Request : Incr(r) \/ LimitProceed(r) \/ LoseDraw(r)

LimitSpec == LimitInit /\ [][LimitNext]_limitVars

\* Redis' clock runs, and a handler whose await is answered goes on.
FairLimitSpec ==
    LimitSpec /\ WF_limitVars(LimitTick) /\ \A r \in Request : WF_limitVars(LimitProceed(r))

-----------------------------------------------------------------------------
(* Properties *)

\* However the requests of a window interleave, it admits no more than Max.
AdmittedBounded == \A w \in Windows : admitted[w] <= Max

\* A key without expiry is one whose EXPIRE is still to come or was lost.
KeyExpires ==
    count > 0 /\ left = 0 => lost > 0 \/ \E r \in Request : At(r, "expire")

\* A window that is running is not pushed out: only its first request sets
\* its end.
WindowFixed == [][left > 0 => left' <= left]_limitVars

\* "Too many requests. Please try again later." (assertRateLimit): an
\* identifier at its limit is eventually below it, unless a request was lost
\* between its INCR and its EXPIRE.
LimitLiftsUnlessLost == count >= Max ~> count < Max \/ lost > 0
=============================================================================
