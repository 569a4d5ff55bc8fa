---------------------------- MODULE PasswordReset ----------------------------
(***************************************************************************)
(* The reset code of one e-mail address: forgotPassword stores a code in   *)
(* Redis, resetPassword compares a submitted one with it, and failures are *)
(* counted under a second key whose TTL is the code's but runs from the    *)
(* first failure.  A new code overwrites the old one and leaves the        *)
(* counter alone.  Every await is a step.                                  *)
(*                                                                         *)
(* Codes are abstracted to the order they are minted in.  The rate limit   *)
(* in front of forgotPassword is module RateLimit, the two writes of an    *)
(* accepted reset to the users row are module RefreshToken.                *)
(***************************************************************************)
EXTENDS Requests, Naturals, FiniteSets

CONSTANTS
    MaxAttempts,  \* OTP_MAX_ATTEMPTS
    CodeTtl,      \* REDIS_TTL, in ticks
    MaxCodes,     \* bound on the codes minted
    MaxAborts     \* bound on requests lost between two awaits

ASSUME RequestAssumption == IsFiniteSet(Request)
ASSUME MaxAttemptsAssumption == MaxAttempts \in Nat \ {0}
ASSUME CodeTtlAssumption == CodeTtl \in Nat \ {0}
ASSUME BoundsAssumption == MaxCodes \in Nat /\ MaxAborts \in Nat

VARIABLES
    code,         \* the stored code, NoCode when the key is absent
    ttl,          \* ticks left on the code, 0 when absent
    failures,     \* the failure counter, 0 when the key is absent
    failuresTtl,  \* ticks left on the counter, 0 when it has no expiry
    minted,       \* codes generated so far: 1, 2, ...
    wrong,        \* history: failed comparisons with each code
    resets,       \* history: password updates each code was accepted for
    answered,     \* history: codes whose reset was answered
    fresh,        \* history: the last code was stored with no counter and no
                  \*          other request in flight
    aborts        \* history: requests lost between two awaits

redis == <<code, ttl, failures, failuresTtl>>
history == <<wrong, resets, answered, fresh, aborts>>
vars == <<redis, minted, req, history>>

NoCode == 0
Code == 1..MaxCodes

RequestState ==
    {Idle}
    \cup [pc: {"store", "accept", "update", "revoke", "delete", "forget"}, of: Code]
    \cup [pc: {"get"}, of: Code \cup {NoCode}]
    \cup [pc: {"incr", "expire", "burn", "clear"}]

TypeOK ==
    /\ code \in Code \cup {NoCode}
    /\ ttl \in 0..CodeTtl
    /\ failures \in Nat
    /\ failuresTtl \in 0..CodeTtl
    /\ minted \in 0..MaxCodes
    /\ req \in [Request -> RequestState]
    /\ wrong \in [Code -> Nat]
    /\ resets \in [Code -> Nat]
    /\ answered \in SUBSET Code
    /\ fresh \in BOOLEAN
    /\ aborts \in 0..MaxAborts

Init ==
    /\ code = NoCode /\ ttl = 0
    /\ failures = 0 /\ failuresTtl = 0
    /\ minted = 0
    /\ req = [r \in Request |-> Idle]
    /\ wrong = [c \in Code |-> 0]
    /\ resets = [c \in Code |-> 0]
    /\ answered = {}
    /\ fresh = FALSE
    /\ aborts = 0

-----------------------------------------------------------------------------
(* forgotPassword. *)

\* The address has an account and the rate limit is not reached: a code is drawn.
ForgotPassword(r) ==
    /\ At(r, "idle")
    /\ minted < MaxCodes
    /\ minted' = minted + 1
    /\ Goto(r, [pc |-> "store", of |-> minted + 1])
    /\ UNCHANGED <<redis, history>>

\* SET EX over whatever is stored; whether the mail is queued makes no difference.
StoreCode(r) ==
    /\ At(r, "store")
    /\ code' = req[r].of
    /\ ttl' = CodeTtl
    /\ fresh' = (failures = 0 /\ \A q \in Request \ {r} : At(q, "idle"))
    /\ End(r)
    /\ UNCHANGED <<failures, failuresTtl, minted, wrong, resets, answered, aborts>>

-----------------------------------------------------------------------------
(* resetPassword. *)

\* A code was once mailed, or is made up.
ResetPassword(r, g) ==
    /\ At(r, "idle")
    /\ g <= minted
    /\ Goto(r, [pc |-> "get", of |-> g])
    /\ UNCHANGED <<redis, minted, history>>

\* GET and the comparison; a missing code is a failure like a wrong one.
CompareCode(r) ==
    /\ At(r, "get")
    /\ \/ /\ code # NoCode /\ code = req[r].of
          /\ Goto(r, [pc |-> "accept", of |-> code])
          /\ UNCHANGED wrong
       \/ /\ code # NoCode /\ code # req[r].of
          /\ Goto(r, [pc |-> "incr"])
          /\ wrong' = [wrong EXCEPT ![code] = @ + 1]
       \/ /\ code = NoCode
          /\ Goto(r, [pc |-> "incr"])
          /\ UNCHANGED wrong
    /\ UNCHANGED <<redis, minted, resets, answered, fresh, aborts>>

\* findByEmail; the hash that follows shares no state.
FindUser(r) ==
    /\ At(r, "accept")
    /\ Goto(r, [req[r] EXCEPT !.pc = "update"])
    /\ UNCHANGED <<redis, minted, history>>

\* updatePassword: the new password counts from here.
AcceptCode(r) ==
    /\ At(r, "update")
    /\ resets' = [resets EXCEPT ![req[r].of] = @ + 1]
    /\ Goto(r, [req[r] EXCEPT !.pc = "revoke"])
    /\ UNCHANGED <<redis, minted, wrong, answered, fresh, aborts>>

\* updateRefreshToken(null), whose effect is in module RefreshToken.
RevokeSession(r) ==
    /\ At(r, "revoke")
    /\ Goto(r, [req[r] EXCEPT !.pc = "delete"])
    /\ UNCHANGED <<redis, minted, history>>

\* Mutant: the code stays until its TTL runs out.
DeleteNothing(r) ==
    /\ At(r, "delete")
    /\ Goto(r, [req[r] EXCEPT !.pc = "forget"])
    /\ UNCHANGED <<redis, minted, history>>

\* DEL of the code key, whichever code it holds by now.
DeleteCode(r) ==
    /\ At(r, "delete")
    /\ code' = NoCode /\ ttl' = 0
    /\ Goto(r, [req[r] EXCEPT !.pc = "forget"])
    /\ UNCHANGED <<failures, failuresTtl, minted, history>>

\* DEL of the counter key; the reset is answered.
ForgetFailures(r) ==
    /\ At(r, "forget")
    /\ failures' = 0 /\ failuresTtl' = 0
    /\ answered' = answered \cup {req[r].of}
    /\ End(r)
    /\ UNCHANGED <<code, ttl, minted, wrong, resets, fresh, aborts>>

-----------------------------------------------------------------------------
(* registerResetFailure. *)

\* Mutant: off by one.
AfterCountEarly(r, n) ==
    IF n + 1 >= MaxAttempts THEN Goto(r, [pc |-> "burn"]) ELSE End(r)

\* attempts >= maxAttempts.
AfterCount(r, n) == IF n >= MaxAttempts THEN Goto(r, [pc |-> "burn"]) ELSE End(r)

\* Mutant: the limit is taken for the last failure allowed.
CountFailureOneMore(r) ==
    /\ At(r, "incr")
    /\ failures' = failures + 1
    /\ IF failures = 0 THEN Goto(r, [pc |-> "expire"]) ELSE AfterCount(r, failures)
    /\ UNCHANGED <<code, ttl, failuresTtl, minted, history>>

\* Mutant: the counter is not given an expiry.
CountFailureForever(r) ==
    /\ At(r, "incr")
    /\ failures' = failures + 1
    /\ AfterCount(r, failures + 1)
    /\ UNCHANGED <<code, ttl, failuresTtl, minted, history>>

\* INCR; its answer decides what follows.
CountFailure(r) ==
    /\ At(r, "incr")
    /\ failures' = failures + 1
    /\ IF failures = 0 THEN Goto(r, [pc |-> "expire"]) ELSE AfterCount(r, failures + 1)
    /\ UNCHANGED <<code, ttl, failuresTtl, minted, history>>

\* EXPIRE, void when the key is gone.
BoundFailures(r) ==
    /\ At(r, "expire")
    /\ failuresTtl' = IF failures > 0 THEN CodeTtl ELSE 0
    /\ AfterCount(r, 1)
    /\ UNCHANGED <<code, ttl, failures, minted, history>>

\* DEL of the code key: too many failures.
BurnCode(r) ==
    /\ At(r, "burn")
    /\ code' = NoCode /\ ttl' = 0
    /\ Goto(r, [pc |-> "clear"])
    /\ UNCHANGED <<failures, failuresTtl, minted, history>>

\* DEL of the counter key.
ClearFailures(r) ==
    /\ At(r, "clear")
    /\ failures' = 0 /\ failuresTtl' = 0
    /\ End(r)
    /\ UNCHANGED <<code, ttl, minted, history>>

-----------------------------------------------------------------------------
(* Environment. *)

\* One tick of the Redis clock.
Tick ==
    /\ ttl > 0 \/ failuresTtl > 0
    /\ ttl' = IF ttl > 0 THEN ttl - 1 ELSE 0
    /\ code' = IF ttl = 1 THEN NoCode ELSE code
    /\ failuresTtl' = IF failuresTtl > 0 THEN failuresTtl - 1 ELSE 0
    /\ failures' = IF failuresTtl = 1 THEN 0 ELSE failures
    /\ UNCHANGED <<minted, req, history>>

\* A Redis or database error, or the death of the process, at any await.
Abort(r) ==
    /\ ~At(r, "idle")
    /\ aborts < MaxAborts
    /\ aborts' = aborts + 1
    /\ End(r)
    /\ UNCHANGED <<redis, minted, wrong, resets, answered, fresh>>

-----------------------------------------------------------------------------
Proceed(r) ==
    \/ StoreCode(r) \/ CompareCode(r) \/ FindUser(r) \/ AcceptCode(r)
    \/ RevokeSession(r) \/ DeleteCode(r) \/ ForgetFailures(r) \/ CountFailure(r) \/ BoundFailures(r) \/ BurnCode(r)
    \/ ClearFailures(r)

Next ==
    \/ \E r \in Request :
        ForgotPassword(r) \/ Proceed(r) \/ Abort(r)
        \/ \E g \in Code \cup {NoCode} : ResetPassword(r, g)
    \/ Tick

Spec == Init /\ [][Next]_vars

\* Redis' clock runs, and a handler whose await is answered goes on.
FairSpec == Spec /\ WF_vars(Tick) /\ \A r \in Request : WF_vars(Proceed(r))

-----------------------------------------------------------------------------
(* Properties *)

\* "Count failures and burn the code after too many" (resetPassword): a code
\* stored with no counter left and nothing in flight is compared with at most
\* MaxAttempts wrong ones, and one more for every other request that read it
\* before the burn, and for every burn or count that was lost.
GuessesBounded ==
    fresh /\ code # NoCode =>
        wrong[code] < MaxAttempts + Cardinality(Request) + aborts

\* Such a code is not taken away before its time by anything but a reset with
\* it or MaxAttempts wrong codes.
FreshCodeKept ==
    [][fresh /\ code # NoCode /\ ttl > 1 /\ code' = NoCode
        => wrong[code] >= MaxAttempts \/ resets[code] > 0]_vars

\* A code whose reset was answered is never stored again, so no later request
\* is accepted with it, whatever resets and new codes it raced.
AnsweredCodeGone == code \notin answered

\* A counter without expiry is one whose EXPIRE is still to come or was lost.
CounterExpires ==
    failures > 0 /\ failuresTtl = 0 =>
        aborts > 0 \/ \E r \in Request : At(r, "expire")

\* Unless a request was lost, failures do not add up for ever: the counter is
\* deleted or expires.
FailuresForgotten == failures > 0 ~> failures = 0 \/ aborts > 0
=============================================================================
