-------------------------- MODULE MediaSweep_proofs --------------------------
(***************************************************************************)
(* Theorems of MediaSweep for any number of replicas, keys, providers and  *)
(* prefixes, and of FencedLock, which it extends, for any number of        *)
(* processes and any TTL.                                                  *)
(***************************************************************************)
EXTENDS MediaSweep, TLAPS

-----------------------------------------------------------------------------
(* FencedLock. *)

\* The key has an expiry while it holds a token; nobody shares a token; who
\* holds the stored token is who stored it; and InTimeHoldsLock.
LockInv ==
    /\ LockTypeOK
    /\ value # NoToken <=> ttl > 0
    /\ \A p, q \in Process : Inside(p) /\ Inside(q) /\ p # q => token[p] # token[q]
    /\ \A p \in Process : Inside(p) /\ token[p] = value => author = p
    /\ InTimeHoldsLock

USE LockTtlAssumption, NamesAssumption

LEMMA LockInitInv == LockInit => LockInv
  BY DEF LockInit, LockInv, LockTypeOK, Inside, InTimeHoldsLock

LEMMA AcquireStep ==
    ASSUME LockInv, NEW p \in Process, NEW heard \in BOOLEAN, Acquire(p, heard)
    PROVE  LockInv' /\ L!Enter(p)
  <1> USE DEF LockInv
  <1>1. PICK t \in Token :
          /\ Fresh(t) /\ value' = t
          /\ token' = IF heard THEN [token EXCEPT ![p] = t] ELSE token
    BY DEF Acquire
  <1>2. /\ ~Inside(p) /\ value = NoToken /\ ttl' = LockTtl /\ ttl' > 0
        /\ author' = p /\ overran' = overran /\ t # NoToken
    BY DEF Acquire
  <1>3. token' \in [Process -> Token \cup {NoToken}]
    BY <1>1 DEF LockTypeOK
  <1>4. LockTypeOK'
    BY <1>1, <1>2, <1>3 DEF LockTypeOK
  <1>5. \A q \in Process \ {p} : token'[q] = token[q]
    BY <1>1 DEF LockTypeOK
  <1>6. token'[p] = IF heard THEN t ELSE NoToken
    BY <1>1, <1>2 DEF LockTypeOK, Inside
  <1>7. \A q \in Process : token[q] # t
    BY <1>1 DEF Fresh
  <1>8. \A q \in Process : Inside(q) => q \in overran
    BY <1>2 DEF InTimeHoldsLock, Inside
  <1>9. \A q, r \in Process : Inside(q)' /\ Inside(r)' /\ q # r => token'[q] # token'[r]
    BY <1>5, <1>6, <1>7 DEF Inside
  <1>10. \A q \in Process : Inside(q)' /\ token'[q] = value' => author' = q
    BY <1>1, <1>2, <1>5, <1>7
  <1>11. InTimeHoldsLock'
    BY <1>1, <1>2, <1>5, <1>6, <1>8 DEF InTimeHoldsLock, Inside
  <1>12. L!Enter(p)
    <2>1. {q \in Process : Inside(q)}' \in
            {{q \in Process : Inside(q)}, {q \in Process : Inside(q)} \cup {p}}
      <3>1. CASE heard
        BY <1>2, <1>5, <1>6, <3>1 DEF Inside
      <3>2. CASE ~heard
        BY <1>5, <1>6, <1>2, <3>2 DEF Inside
      <3>3. QED
        BY <3>1, <3>2
    <2>2. QED
      BY <1>1, <1>2, <2>1 DEF L!Enter, L!Nobody, Nobody
  <1>13. QED
    BY <1>1, <1>2, <1>4, <1>9, <1>10, <1>11, <1>12

LEMMA LeaveStep ==
    ASSUME LockInv, NEW p \in Process, Release(p) \/ Desert(p)
    PROVE  LockInv' /\ L!Leave(p)
  <1> USE DEF LockInv
  <1>1. /\ Inside(p) /\ token' = [token EXCEPT ![p] = NoToken]
        /\ overran' = overran \ {p} /\ author' = author
    BY DEF Release, Desert
  <1>2. \/ value = token[p] /\ value' = NoToken /\ ttl' = 0
        \/ value' = value /\ ttl' = ttl
    BY DEF Release, Desert
  <1>3. token'[p] = NoToken /\ \A q \in Process \ {p} : token'[q] = token[q]
    BY <1>1 DEF LockTypeOK
  <1>4. \A q \in Process : Inside(q)' <=> q # p /\ Inside(q)
    BY <1>3 DEF Inside
  <1>5. LockTypeOK' /\ (value # NoToken <=> ttl > 0)'
    BY <1>1, <1>2 DEF LockTypeOK
  <1>6. \A q, r \in Process : Inside(q)' /\ Inside(r)' /\ q # r => token'[q] # token'[r]
    BY <1>3, <1>4
  <1>7. \A q \in Process : Inside(q)' /\ token'[q] = value' => author' = q
    BY <1>1, <1>2, <1>3, <1>4 DEF Inside
  <1>8. InTimeHoldsLock'
    <2> SUFFICES ASSUME NEW q \in Process, Inside(q)', q \notin overran'
                 PROVE  value' = token'[q]
      BY DEF InTimeHoldsLock
    <2>1. q # p /\ Inside(q) /\ q \notin overran /\ token'[q] = token[q]
      BY <1>1, <1>3, <1>4
    <2>2. value = token[q] /\ value # token[p]
      BY <1>1, <2>1 DEF InTimeHoldsLock
    <2>3. QED
      BY <1>2, <2>1, <2>2
  <1>9. L!Leave(p)
    <2>1. p \in {q \in Process : Inside(q)}
          /\ {q \in Process : Inside(q)}' = {q \in Process : Inside(q)} \ {p}
      BY <1>1, <1>4
    <2>2. CASE value = token[p] /\ value' = NoToken /\ ttl' = 0
      BY <1>1, <2>1, <2>2 DEF L!Leave, L!Nobody, Nobody, Inside
    <2>3. CASE value' = value /\ ttl' = ttl
      BY <1>1, <2>1, <2>3 DEF L!Leave
    <2>4. QED
      BY <1>2, <2>2, <2>3
  <1>10. QED
    BY <1>5, <1>6, <1>7, <1>8, <1>9

LEMMA TickStep ==
    ASSUME LockInv, LockTick
    PROVE  LockInv' /\ L!RunOut
  <1> USE DEF LockInv
  <1>1. /\ ttl > 0 /\ ttl' = ttl - 1 /\ token' = token /\ author' = author
        /\ value' = (IF ttl = 1 THEN NoToken ELSE value)
        /\ overran' = (IF ttl = 1 THEN overran \cup {p \in Process : token[p] = value} ELSE overran)
    BY DEF LockTick
  <1>2. \A p \in Process : Inside(p)' <=> Inside(p)
    BY <1>1 DEF Inside
  <1>3. ttl \in 1..LockTtl
    BY <1>1 DEF LockTypeOK
  <1>4. LockTypeOK' /\ (value # NoToken <=> ttl > 0)'
    BY <1>1, <1>3 DEF LockTypeOK
  <1>5. InTimeHoldsLock'
    BY <1>1, <1>2 DEF InTimeHoldsLock
  <1>6. L!RunOut
    BY <1>1, <1>2, <1>3 DEF L!RunOut, L!Nobody, Nobody
  <1>7. \A p \in Process : Inside(p)' /\ token'[p] = value' => author' = p
    BY <1>1, <1>2 DEF Inside
  <1>8. QED
    BY <1>1, <1>2, <1>4, <1>5, <1>6, <1>7

LEMMA LockStep == LockInv /\ [LockNext]_lockVars => LockInv' /\ [L!Next]_(L!vars)
  <1> SUFFICES ASSUME LockInv, [LockNext]_lockVars PROVE LockInv' /\ [L!Next]_(L!vars)
    OBVIOUS
  <1>1. CASE UNCHANGED lockVars
    BY <1>1 DEF lockVars, LockInv, LockTypeOK, Inside, InTimeHoldsLock, L!vars
  <1>2. CASE LockTick
    BY <1>2, TickStep DEF L!Next
  <1>3. ASSUME NEW p \in Process, NEW heard \in BOOLEAN, Acquire(p, heard)
        PROVE  LockInv' /\ L!Next
    BY <1>3, AcquireStep DEF L!Next
  <1>4. ASSUME NEW p \in Process, Release(p) \/ Desert(p) PROVE LockInv' /\ L!Next
    BY <1>4, LeaveStep DEF L!Next
  <1>5. QED
    BY <1>1, <1>2, <1>3, <1>4 DEF LockNext, Refused

LEMMA LockInvariance == LockSpec => []LockInv
  BY LockInitInv, LockStep, PTL DEF LockSpec

\* Whoever is inside and has not overrun the TTL has the lock.
THEOREM InTimeHoldsLockAlways == LockSpec => []InTimeHoldsLock
  BY LockInvariance, PTL DEF LockInv

\* Two processes are inside together only if one of them has overrun.
THEOREM InTimeAloneAlways == LockSpec => []InTimeAlone
  <1>1. LockInv => InTimeAlone
    BY DEF LockInv, InTimeHoldsLock, InTimeAlone
  <1>2. QED
    BY <1>1, LockInvariance, PTL

\* acquireLock and releaseLock implement a lease.
THEOREM ImplementsLease == LockSpec => LeaseSpec
  <1>1. LockInit => L!Init
    BY DEF LockInit, L!Init, L!Nobody, Nobody, Inside
  <1>2. QED
    BY <1>1, LockStep, LockInvariance, PTL DEF LockSpec, LeaseSpec, L!Spec

-----------------------------------------------------------------------------
(* MediaSweep. *)

USE SweepAssumption

\* What sweep s knows of the references in held: those of the providers it
\* has asked are in its set, and no orphan is.
Knows(s, held) ==
    /\ s.pc = "collect" =>
        \A i \in Asked, k \in Key : i < s.next /\ <<i, k>> \in held => k \in s.referenced
    /\ s.pc \in {"list", "delete"} =>
        \A i \in Asked, k \in Key : <<i, k>> \in held => k \in s.referenced
    /\ s.pc = "delete" => s.orphans \cap s.referenced = {}

\* Every sweep runs inside the lock, knows the references it should, and the
\* references counted as kept are still there.
SweepInv ==
    /\ TypeOK
    /\ \A p \in Process : At(p, "idle") <=> ~Inside(p)
    /\ \A p \in Process : Knows(sweep[p], kept[p])
    /\ \A p \in Process : kept[p] \subseteq References

LEMMA SweepInitInv == Init => SweepInv
  <1> SUFFICES ASSUME Init PROVE SweepInv
    OBVIOUS
  <1>1. LockTypeOK /\ \A p \in Process : ~Inside(p)
    BY LockTtlAssumption DEF Init, LockInit, LockTypeOK, Inside
  <1>2. TypeOK
    BY <1>1 DEF Init, TypeOK
  <1>3. QED
    BY <1>1, <1>2 DEF Init, SweepInv, At, Idle, Knows

\* A step of sweep p that keeps the lock, the references and what is kept.
LEMMA OwnStep ==
    ASSUME SweepInv, LockTypeOK', NEW p \in Process, NEW s \in Sweeping, ~At(p, "idle"),
           sweep' = [sweep EXCEPT ![p] = s], Knows(s, kept[p]),
           object' \in [Key -> {"absent", "young", "old"}],
           UNCHANGED <<lockVars, refs, kept>>
    PROVE  SweepInv'
  <1>1. sweep'[p] = s /\ \A q \in Process \ {p} : sweep'[q] = sweep[q]
    BY DEF SweepInv, TypeOK
  <1>2. sweep' \in [Process -> Sweeping \cup {Idle}]
    BY DEF SweepInv, TypeOK
  <1>3. TypeOK'
    BY <1>2 DEF SweepInv, TypeOK
  <1>4. \A q \in Process : Inside(q)' <=> Inside(q)
    BY DEF lockVars, Inside
  <1>5. \A q \in Process : At(q, "idle")' <=> At(q, "idle")
    BY <1>1 DEF At, Sweeping
  <1>6. \A q \in Process : Knows(sweep[q], kept[q])'
    BY <1>1 DEF SweepInv, Knows
  <1>7. QED
    BY <1>3, <1>4, <1>5, <1>6 DEF SweepInv, References

LEMMA SweepStep == SweepInv /\ LockTypeOK' /\ [Next]_vars => SweepInv'
  <1> SUFFICES ASSUME SweepInv, LockTypeOK', [Next]_vars PROVE SweepInv'
    OBVIOUS
  <1> USE DEF SweepInv
  <1>0. \A p \in Process : ~At(p, "idle") => sweep[p] \in Sweeping
    BY DEF TypeOK, At, Idle
  <1>1. ASSUME NEW p \in Process, NEW heard \in BOOLEAN, Begin(p, heard) PROVE SweepInv'
    <2>1. References \subseteq Asked \X Key
      BY DEF References
    <2>2. CASE heard
      <3> DEFINE s == [pc |-> "collect", next |-> 1, referenced |-> {}, aged |-> {}, orphans |-> {}]
      <3>1. /\ sweep' = [sweep EXCEPT ![p] = s]
            /\ kept' = [kept EXCEPT ![p] = References]
            /\ UNCHANGED mediaVars
        BY <1>1, <2>2 DEF Begin
      <3>2. s \in Sweeping
        BY DEF Sweeping
      <3>3. TypeOK'
        <4> HIDE DEF s
        <4>1. QED
          BY <2>1, <3>1, <3>2 DEF TypeOK, mediaVars
      <3>4. /\ sweep'[p] = s /\ kept'[p] = References
            /\ \A q \in Process \ {p} : sweep'[q] = sweep[q] /\ kept'[q] = kept[q]
        <4> HIDE DEF s
        <4>1. QED
          BY <3>1 DEF TypeOK
      <3>5. Inside(p)' /\ \A q \in Process \ {p} : Inside(q)' <=> Inside(q)
        BY <1>1, <2>2, NamesAssumption DEF Begin, Acquire, Inside, TypeOK, LockTypeOK
      <3>6. Knows(s, References)
        BY DEF Knows, Asked
      <3>7. s.pc = "collect"
        OBVIOUS
      <3> HIDE DEF s
      <3>8. References' = References
        BY <3>1 DEF References, mediaVars
      <3>9. \A q \in Process : Knows(sweep[q], kept[q])'
        BY <3>4, <3>6 DEF Knows
      <3>10. QED
        BY <3>3, <3>4, <3>5, <3>7, <3>8, <3>9 DEF At
    <2>3. CASE ~heard
      BY <1>1, <2>3 DEF Begin, Acquire, TypeOK, Inside, At, References, mediaVars
    <2>4. QED
      BY <2>2, <2>3
  <1>2. ASSUME NEW p \in Process, Collect(p) PROVE SweepInv'
    <2> DEFINE s == [sweep[p] EXCEPT !.referenced = @ \cup refs[sweep[p].next], !.next = @ + 1]
    <2>1. sweep[p] \in Sweeping /\ At(p, "collect") /\ sweep[p].next \in Asked /\ ~At(p, "idle")
      BY <1>0, <1>2 DEF Collect, At
    <2>2. refs[sweep[p].next] \in SUBSET Key
      BY <2>1 DEF TypeOK
    <2>3. s \in Sweeping /\ s.pc = "collect"
          /\ s.referenced = sweep[p].referenced \cup refs[sweep[p].next]
          /\ s.next = sweep[p].next + 1
      <3> DEFINE r == sweep[p].referenced \cup refs[sweep[p].next]
                 n == sweep[p].next + 1
      <3>1. r \in SUBSET Key /\ n \in Nat \ {0}
        BY <2>1, <2>2 DEF Sweeping, Asked
      <3>2. s = [sweep[p] EXCEPT !.referenced = r, !.next = n]
        OBVIOUS
      <3> HIDE DEF r, n
      <3>3. s \in Sweeping /\ s.pc = "collect" /\ s.referenced = r /\ s.next = n
        BY <2>1, <3>1, <3>2 DEF Sweeping, At
      <3>4. QED
        BY <3>3 DEF r, n
    <2>4. Knows(s, kept[p])
      <3> SUFFICES ASSUME NEW i \in Asked, NEW k \in Key, i < s.next, <<i, k>> \in kept[p]
                   PROVE  k \in s.referenced
        BY <2>3 DEF Knows
      <3>1. k \in refs[i]
        BY DEF References
      <3>2. i < sweep[p].next \/ i = sweep[p].next
        BY <2>1, <2>3 DEF Asked
      <3>3. QED
        BY <2>1, <2>3, <3>1, <3>2 DEF Knows, At
    <2>5. QED
      BY <1>2, <2>1, <2>3, <2>4, OwnStep DEF Collect, mediaVars, TypeOK
  <1>3. ASSUME NEW p \in Process, FixCutoff(p) PROVE SweepInv'
    <2> DEFINE a == {k \in Key : object[k] = "old"}
               s == [sweep[p] EXCEPT !.pc = "list", !.next = 1, !.aged = a]
    <2>1. sweep[p] \in Sweeping /\ At(p, "collect") /\ sweep[p].next \notin Asked /\ ~At(p, "idle")
      BY <1>0, <1>3 DEF FixCutoff, At
    <2>2. s \in Sweeping /\ s.pc = "list" /\ s.referenced = sweep[p].referenced
      <3>1. a \in SUBSET Key
        OBVIOUS
      <3> DEFINE n == 1
      <3>0. n \in Nat \ {0} /\ s = [sweep[p] EXCEPT !.pc = "list", !.next = n, !.aged = a]
        OBVIOUS
      <3> HIDE DEF a, n
      <3>2. s \in Sweeping
        <4> HIDE DEF s
        <4>1. QED
          BY <2>1, <3>0, <3>1 DEF Sweeping
      <3>3. s.pc = "list" /\ s.referenced = sweep[p].referenced
        BY <2>1 DEF Sweeping
      <3>4. QED
        BY <3>2, <3>3
    <2>3. Knows(s, kept[p])
      <3> SUFFICES ASSUME NEW i \in Asked, NEW k \in Key, <<i, k>> \in kept[p]
                   PROVE  k \in s.referenced
        BY <2>2 DEF Knows
      <3>1. i < sweep[p].next
        BY <2>1 DEF Asked, Sweeping
      <3>2. QED
        BY <2>1, <2>2, <3>1 DEF Knows, At
    <2>4. QED
      BY <1>3, <2>1, <2>2, <2>3, OwnStep DEF FixCutoff, mediaVars, TypeOK
  <1>4. ASSUME NEW p \in Process, List(p) PROVE SweepInv'
    <2>0. PICK dated \in SUBSET Key :
            sweep' = [sweep EXCEPT ![p].pc = "delete", ![p].next = @ + 1,
                  ![p].orphans = {k \in Prefixes[sweep[p].next] \cap dated :
                                    /\ object[k] # "absent"
                                    /\ k \in sweep[p].aged
                                    /\ k \notin sweep[p].referenced}]
      BY <1>4 DEF List
    <2> DEFINE os == {k \in Prefixes[sweep[p].next] \cap dated :
                        /\ object[k] # "absent"
                        /\ k \in sweep[p].aged
                        /\ k \notin sweep[p].referenced}
               s == [sweep[p] EXCEPT !.pc = "delete", !.next = @ + 1, !.orphans = os]
    <2>1. sweep[p] \in Sweeping /\ At(p, "list") /\ ~At(p, "idle")
      BY <1>0, <1>4 DEF List, At
    <2>2. os \in SUBSET Key
      BY <2>1 DEF Sweeping
    <2>3. s \in Sweeping /\ s.pc = "delete" /\ s.referenced = sweep[p].referenced /\ s.orphans = os
      <3> DEFINE n == sweep[p].next + 1
      <3>1. n \in Nat \ {0}
        BY <2>1 DEF Sweeping
      <3> HIDE DEF os, n
      <3>2. [sweep[p] EXCEPT !.pc = "delete", !.next = n, !.orphans = os] \in Sweeping
        BY <2>1, <2>2, <3>1 DEF Sweeping
      <3>3. QED
        BY <2>1, <2>2, <3>2 DEF Sweeping, n
    <2>4. Knows(s, kept[p])
      BY <2>1, <2>3 DEF Knows, At
    <2>5. sweep' = [sweep EXCEPT ![p] = s]
      BY <2>0
    <2>6. QED
      BY <1>4, <2>1, <2>3, <2>4, <2>5, OwnStep DEF List, mediaVars, TypeOK
  <1>5. ASSUME NEW p \in Process, NEW k \in Key, Delete(p, k) PROVE SweepInv'
    <2> DEFINE s == [sweep[p] EXCEPT !.orphans = @ \ {k}]
    <2>1. sweep[p] \in Sweeping /\ At(p, "delete") /\ ~At(p, "idle")
      BY <1>0, <1>5 DEF Delete, At
    <2>2. s \in Sweeping /\ s.pc = "delete" /\ s.referenced = sweep[p].referenced
          /\ s.orphans \subseteq sweep[p].orphans
      BY <2>1 DEF Sweeping, At
    <2>3. Knows(s, kept[p])
      BY <2>1, <2>2 DEF Knows, At
    <2>4. object' \in [Key -> {"absent", "young", "old"}]
      BY <1>5 DEF Delete, TypeOK
    <2>5. QED
      BY <1>5, <2>1, <2>2, <2>3, <2>4, OwnStep DEF Delete
  <1>6. ASSUME NEW p \in Process, NextPrefix(p) PROVE SweepInv'
    <2> DEFINE c == IF sweep[p].next <= Len(Prefixes) THEN "list" ELSE "release"
               s == [sweep[p] EXCEPT !.pc = c]
    <2>1. sweep[p] \in Sweeping /\ At(p, "delete") /\ ~At(p, "idle")
      BY <1>0, <1>6 DEF NextPrefix, At
    <2>2. c \in {"list", "release"}
      OBVIOUS
    <2>3. s \in Sweeping /\ s.pc = c /\ s.referenced = sweep[p].referenced
      <3> HIDE DEF c
      <3>1. QED
        BY <2>1, <2>2 DEF Sweeping
    <2>4. Knows(s, kept[p])
      <3> HIDE DEF c
      <3>1. QED
        BY <2>1, <2>2, <2>3 DEF Knows, At
    <2>5. sweep' = [sweep EXCEPT ![p] = s]
      BY <1>6 DEF NextPrefix
    <2>6. QED
      BY <1>6, <2>1, <2>3, <2>4, <2>5, OwnStep DEF NextPrefix, mediaVars, TypeOK
  <1>7. ASSUME NEW p \in Process, Throw(p) PROVE SweepInv'
    <2> DEFINE s == [sweep[p] EXCEPT !.pc = "release", !.orphans = {}]
    <2>1. sweep[p] \in Sweeping /\ ~At(p, "idle")
      BY <1>0, <1>7 DEF Throw, At
    <2>2. s \in Sweeping /\ s.pc = "release"
      BY <2>1 DEF Sweeping
    <2>3. Knows(s, kept[p])
      BY <2>2 DEF Knows
    <2>4. QED
      BY <1>7, <2>1, <2>2, <2>3, OwnStep DEF Throw, mediaVars, TypeOK
  <1>8. ASSUME NEW p \in Process, Finish(p) \/ Die(p) PROVE SweepInv'
    <2>1. /\ sweep' = [sweep EXCEPT ![p] = Idle] /\ UNCHANGED <<object, refs, kept>>
          /\ token' = [token EXCEPT ![p] = NoToken]
      BY <1>8 DEF Finish, Die, Release, Desert, mediaVars
    <2>2. sweep'[p] = Idle /\ \A q \in Process \ {p} : sweep'[q] = sweep[q]
      BY <2>1 DEF TypeOK
    <2>3. ~Inside(p)' /\ \A q \in Process \ {p} : Inside(q)' <=> Inside(q)
      BY <2>1 DEF Inside, TypeOK, LockTypeOK
    <2>4. TypeOK'
      BY <2>1 DEF TypeOK
    <2>5. Knows(Idle, kept[p])
      BY DEF Knows, Idle
    <2>6. QED
      BY <2>1, <2>2, <2>3, <2>4, <2>5 DEF At, Idle, Knows, References
  <1>9. ASSUME NEW k \in Key, Upload(k) PROVE SweepInv'
    <2> DEFINE s(p) == IF At(p, "idle") THEN Idle ELSE [sweep[p] EXCEPT !.aged = @ \ {k}]
    <2>1. \A p \in Process :
            /\ s(p) \in Sweeping \cup {Idle} /\ s(p).pc = sweep[p].pc
            /\ ~At(p, "idle") => /\ s(p).next = sweep[p].next
                                 /\ s(p).referenced = sweep[p].referenced
                                 /\ s(p).orphans = sweep[p].orphans
      <3> TAKE p \in Process
      <3>1. CASE At(p, "idle")
        BY <3>1 DEF At, Idle
      <3>2. CASE ~At(p, "idle")
        <4>1. sweep[p] \in Sweeping
          BY <1>0, <3>2
        <4>2. QED
          BY <3>2, <4>1 DEF Sweeping
      <3>3. QED
        BY <3>1, <3>2
    <2>2. sweep' = [p \in Process |-> s(p)] /\ UNCHANGED <<lockVars, refs, kept>>
      BY <1>9 DEF Upload
    <2>3. \A p \in Process : sweep'[p] = s(p)
      BY <2>2
    <2> HIDE DEF s
    <2>4. TypeOK'
      <3>1. sweep' \in [Process -> Sweeping \cup {Idle}]
        BY <2>1, <2>2
      <3>2. object' \in [Key -> {"absent", "young", "old"}]
        BY <1>9 DEF SweepInv, TypeOK, Upload
      <3>3. QED
        BY <2>2, <3>1, <3>2 DEF SweepInv, TypeOK
    <2>5. \A p \in Process : (Inside(p)' <=> Inside(p)) /\ (At(p, "idle")' <=> At(p, "idle"))
      BY <2>1, <2>2, <2>3 DEF lockVars, Inside, At
    <2>6. \A p \in Process : Knows(sweep[p], kept[p])'
      <3> TAKE p \in Process
      <3>1. CASE At(p, "idle")
        BY <2>1, <2>3, <3>1 DEF At, Knows
      <3>2. CASE ~At(p, "idle")
        BY <2>1, <2>2, <2>3, <3>2 DEF Knows
      <3>3. QED
        BY <3>1, <3>2
    <2>7. QED
      BY <2>2, <2>4, <2>5, <2>6 DEF References
  <1>10. ASSUME NEW k \in Key, Age(k) PROVE SweepInv'
    <2>1. TypeOK' /\ UNCHANGED <<lockVars, refs, sweep, kept>>
      BY <1>10 DEF Age, TypeOK
    <2>2. QED
      BY <2>1 DEF lockVars, Inside, At, Knows, References
  <1>11. ASSUME NEW i \in Asked, NEW k \in Key, Attach(i, k) PROVE SweepInv'
    <2>1. TypeOK' /\ UNCHANGED <<lockVars, sweep, kept>>
      BY <1>11 DEF Attach, TypeOK
    <2>2. References \subseteq References'
      BY <1>11 DEF Attach, TypeOK, References
    <2>3. QED
      BY <2>1, <2>2 DEF lockVars, Inside, At, Knows
  <1>12. ASSUME NEW i \in Asked, NEW k \in Key, NEW to \in Asked \cup {0}, Detach(i, k, to)
         PROVE  SweepInv'
    <2>1. /\ refs' = [j \in Asked |-> IF j = i THEN refs[j] \ {k}
                                     ELSE IF j = to THEN refs[j] \cup {k} ELSE refs[j]]
          /\ kept' = [p \in Process |-> kept[p] \ {<<i, k>>}]
          /\ UNCHANGED <<lockVars, object, sweep>>
      BY <1>12 DEF Detach
    <2>2. TypeOK'
      BY <2>1 DEF TypeOK
    <2>3. \A p \in Process : kept'[p] = kept[p] \ {<<i, k>>}
      BY <2>1
    <2>4. References \ {<<i, k>>} \subseteq References'
      <3> SUFFICES ASSUME NEW j \in Asked, NEW l \in Key, l \in refs[j], j # i \/ l # k
                   PROVE  l \in refs'[j]
        BY DEF References
      <3>1. QED
        BY <2>1
    <2>5. \A p \in Process : kept'[p] \subseteq References'
      BY <2>3, <2>4
    <2>6. \A p \in Process : Knows(sweep[p], kept[p])'
      BY <2>1, <2>3 DEF Knows
    <2>7. QED
      BY <2>1, <2>2, <2>5, <2>6 DEF lockVars, Inside, At
  <1>13. ASSUME Tick \/ (\E p \in Process : Skip(p)) \/ UNCHANGED vars PROVE SweepInv'
    <2>1. UNCHANGED <<object, refs, sweep, kept, token>>
      BY <1>13 DEF Tick, LockTick, Skip, Refused, lockVars, mediaVars, vars
    <2>2. QED
      BY <2>1 DEF TypeOK, Inside, At, Knows, References
  <1>14. QED
    BY <1>1, <1>2, <1>3, <1>4, <1>5, <1>6, <1>7, <1>8, <1>9, <1>10, <1>11, <1>12, <1>13
    DEF Next, Proceed

LEMMA SweepLocks == [Next]_vars => [LockNext]_lockVars
  BY DEF Next, vars, Begin, Skip, Proceed, Collect, FixCutoff, List, Delete, NextPrefix, Finish,
         Throw, Die, Upload, Age, Attach, Detach, Tick, LockNext

\* Sweeps use the lock as FencedLock says.
THEOREM SweepUsesLock == Spec => LockSpec
  BY SweepLocks, PTL DEF Spec, Init, LockSpec

LEMMA SweepInvariance == Spec => []SweepInv
  <1>1. LockInv => LockTypeOK
    BY DEF LockInv
  <1>2. QED
    BY <1>1, SweepInitInv, SweepStep, SweepUsesLock, LockInvariance, PTL DEF Spec

\* No sweep marks for deletion a key that one provider has reported without
\* interruption since the sweep began, however sweeps overlap.
THEOREM SteadyKeptHolds == Spec => []SteadyKept
  <1>1. SweepInv => SteadyKept
    <2> SUFFICES ASSUME SweepInv, NEW p \in Process, sweep[p].pc = "delete", NEW i \in Asked,
                        NEW k \in sweep[p].orphans, <<i, k>> \in kept[p]
                 PROVE  FALSE
      BY DEF SteadyKept
    <2>1. k \in Key
      BY DEF SweepInv, References
    <2>2. QED
      BY <2>1 DEF SweepInv, Knows
  <1>2. QED
    BY <1>1, SweepInvariance, PTL

\* Of two replicas that sweep together, one has overrun the lock's TTL.
THEOREM InTimeSweepAloneHolds == Spec => []InTimeSweepAlone
  <1>1. SweepInv /\ InTimeAlone => InTimeSweepAlone
    BY DEF SweepInv, InTimeAlone, InTimeSweepAlone
  <1>2. QED
    BY <1>1, SweepInvariance, SweepUsesLock, InTimeAloneAlways, PTL
=============================================================================
