----------------------------- MODULE FencedLock -----------------------------
(***************************************************************************)
(* RedisService.acquireLock and releaseLock on one key: SET NX EX with a   *)
(* fresh token, and a script that deletes the key only if it still holds   *)
(* that token.  What a process does while it has the lock is the business  *)
(* of the modules that extend this one.                                    *)
(***************************************************************************)
EXTENDS Naturals

CONSTANTS
    Process,   \* processes that use the key
    LockTtl,   \* ttlSeconds, in ticks
    Token      \* random UUIDs: one that is drawn is stored and held nowhere

NoToken == "no token"
Nobody == "nobody"

ASSUME LockTtlAssumption == LockTtl \in Nat \ {0}
ASSUME NamesAssumption == NoToken \notin Token /\ Nobody \notin Process

VARIABLES
    value,    \* the token the key holds, NoToken when it is absent
    ttl,      \* ticks left on the key
    token,    \* the token each process holds, NoToken outside
    overran,  \* history: processes inside whose key ran out
    author    \* history: who stored the last token

lockVars == <<value, ttl, token, overran, author>>

LockTypeOK ==
    /\ value \in Token \cup {NoToken}
    /\ ttl \in 0..LockTtl
    /\ token \in [Process -> Token \cup {NoToken}]
    /\ overran \in SUBSET Process
    /\ author \in Process

LockInit ==
    /\ value = NoToken
    /\ ttl = 0
    /\ token = [p \in Process |-> NoToken]
    /\ overran = {}
    /\ author \in Process

Inside(p) == token[p] # NoToken

Fresh(t) == t # value /\ \A p \in Process : token[p] # t

-----------------------------------------------------------------------------
\* Mutant: SET without NX.
AcquireAnyway(p, heard) ==
    /\ ~Inside(p)
    /\ \E t \in Token :
        /\ Fresh(t)
        /\ value' = t
        /\ token' = IF heard THEN [token EXCEPT ![p] = t] ELSE token
    /\ ttl' = LockTtl
    /\ author' = p
    /\ UNCHANGED overran

\* Mutant: SET NX without EX.
AcquireForever(p, heard) ==
    /\ ~Inside(p)
    /\ value = NoToken
    /\ \E t \in Token :
        /\ Fresh(t)
        /\ value' = t
        /\ token' = IF heard THEN [token EXCEPT ![p] = t] ELSE token
    /\ ttl' = 0
    /\ author' = p
    /\ UNCHANGED overran

\* acquireLock on a free key; the caller may be dead, or its connection lost,
\* before the answer arrives.
Acquire(p, heard) ==
    /\ ~Inside(p)
    /\ value = NoToken
    /\ \E t \in Token :
        /\ Fresh(t)
        /\ value' = t
        /\ token' = IF heard THEN [token EXCEPT ![p] = t] ELSE token
    /\ ttl' = LockTtl
    /\ author' = p
    /\ UNCHANGED overran

\* acquireLock on a held key changes nothing.
Refused(p) ==
    /\ ~Inside(p)
    /\ value # NoToken
    /\ UNCHANGED lockVars

\* Mutant: DEL whatever the key holds.
ReleaseAnyway(p) ==
    /\ Inside(p)
    /\ value' = NoToken
    /\ ttl' = 0
    /\ token' = [token EXCEPT ![p] = NoToken]
    /\ overran' = overran \ {p}
    /\ UNCHANGED author

\* releaseLock: compare and delete.
Release(p) ==
    /\ Inside(p)
    /\ value' = IF value = token[p] THEN NoToken ELSE value
    /\ ttl' = IF value = token[p] THEN 0 ELSE ttl
    /\ token' = [token EXCEPT ![p] = NoToken]
    /\ overran' = overran \ {p}
    /\ UNCHANGED author

\* The process dies inside, or loses Redis before its release.
Desert(p) ==
    /\ Inside(p)
    /\ token' = [token EXCEPT ![p] = NoToken]
    /\ overran' = overran \ {p}
    /\ UNCHANGED <<value, ttl, author>>

\* One tick of the Redis clock.
LockTick ==
    /\ ttl > 0
    /\ ttl' = ttl - 1
    /\ value' = IF ttl = 1 THEN NoToken ELSE value
    /\ overran' = IF ttl = 1 THEN overran \cup {p \in Process : token[p] = value} ELSE overran
    /\ UNCHANGED <<token, author>>

-----------------------------------------------------------------------------
LockNext ==
    \/ LockTick
    \/ \E p \in Process :
        \/ \E heard \in BOOLEAN : Acquire(p, heard)
        \/ Refused(p) \/ Release(p) \/ Desert(p)

LockSpec == LockInit /\ [][LockNext]_lockVars

FairLockSpec == LockSpec /\ WF_lockVars(LockTick)

-----------------------------------------------------------------------------
(* Properties *)

\* "a holder can only delete its OWN lock" (acquireLock): whoever is inside and
\* has not overrun the TTL still has the lock, whatever late releases arrive.
InTimeHoldsLock == \A p \in Process : Inside(p) /\ p \notin overran => value = token[p]

\* So no two processes are inside unless one of them has overrun.
InTimeAlone ==
    \A p, q \in Process : Inside(p) /\ Inside(q) /\ p # q => p \in overran \/ q \in overran

\* A lock whose holder is gone is free again.
LockFreed == value # NoToken ~> value = NoToken

\* The lease the lock implements.
L == INSTANCE Lease WITH
    Term <- LockTtl,
    holder <- IF value = NoToken THEN Nobody ELSE author,
    left <- ttl,
    inside <- {p \in Process : Inside(p)}
LeaseSpec == L!Spec
=============================================================================
