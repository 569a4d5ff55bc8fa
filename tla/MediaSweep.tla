----------------------------- MODULE MediaSweep -----------------------------
(***************************************************************************)
(* MediaCleanupService: the scheduled sweep that deletes stored objects no *)
(* provider refers to.  Replicas keep each other out with the fenced lock  *)
(* whose actions this module extends; the application goes on uploading    *)
(* and referring to objects while a sweep reads the references one         *)
(* provider at a time, then lists and deletes.  Every await is a step.     *)
(*                                                                         *)
(* Time is what the grace window tells apart: an object is young or old.   *)
(***************************************************************************)
EXTENDS FencedLock, Sequences

CONSTANTS
    Key,        \* object names
    Provider,   \* number of MediaReferenceProviders, asked in order
    Prefixes    \* the keys of each configured prefix, a sequence of sets

ASSUME SweepAssumption ==
    /\ Provider \in Nat
    /\ Prefixes \in Seq(SUBSET Key)

VARIABLES
    object,  \* absent, young or old, for each key
    refs,    \* the keys each provider reports
    sweep,   \* the sweep each process is in
    kept     \* history: references (provider, key) that each sweep has not
             \*          seen withdrawn since it began

mediaVars == <<object, refs>>
vars == <<lockVars, mediaVars, sweep, kept>>

Asked == 1..Provider

Idle == [pc |-> "idle"]
Sweeping ==
    [pc: {"collect", "list", "delete", "release"},
     next: Nat \ {0},        \* the provider or prefix that is next
     referenced: SUBSET Key,
     aged: SUBSET Key,       \* objects older than the cutoff
     orphans: SUBSET Key]    \* orphans of this prefix left to delete

TypeOK ==
    /\ LockTypeOK
    /\ object \in [Key -> {"absent", "young", "old"}]
    /\ refs \in [Asked -> SUBSET Key]
    /\ sweep \in [Process -> Sweeping \cup {Idle}]
    /\ kept \in [Process -> SUBSET (Asked \X Key)]

Init ==
    /\ LockInit
    /\ object \in [Key -> {"absent", "old"}]
    /\ refs \in [Asked -> SUBSET Key]
    /\ sweep = [p \in Process |-> Idle]
    /\ kept = [p \in Process |-> {}]

At(p, pc) == sweep[p].pc = pc
References == {ik \in Asked \X Key : ik[2] \in refs[ik[1]]}

-----------------------------------------------------------------------------
(* sweepOrphans. *)

\* The lock is acquired; unheard, the call fails and the lock stays.
Begin(p, heard) ==
    /\ At(p, "idle")
    /\ Prefixes # <<>>
    /\ Acquire(p, heard)
    /\ IF heard
       THEN /\ sweep' = [sweep EXCEPT ![p] = [pc |-> "collect", next |-> 1, referenced |-> {},
                                              aged |-> {}, orphans |-> {}]]
            /\ kept' = [kept EXCEPT ![p] = References]
       ELSE UNCHANGED <<sweep, kept>>
    /\ UNCHANGED mediaVars

\* Another replica holds the lock.
Skip(p) ==
    /\ At(p, "idle")
    /\ Prefixes # <<>>
    /\ Refused(p)
    /\ UNCHANGED <<mediaVars, sweep, kept>>

\* Mutant: the last provider's answer replaces the others.
CollectLast(p) ==
    /\ At(p, "collect")
    /\ sweep[p].next \in Asked
    /\ sweep' = [sweep EXCEPT ![p].referenced = refs[sweep[p].next], ![p].next = @ + 1]
    /\ UNCHANGED <<lockVars, mediaVars, kept>>

\* collectReferencedKeys of the next provider.
Collect(p) ==
    /\ At(p, "collect")
    /\ sweep[p].next \in Asked
    /\ sweep' = [sweep EXCEPT ![p].referenced = @ \cup refs[sweep[p].next], ![p].next = @ + 1]
    /\ UNCHANGED <<lockVars, mediaVars, kept>>

\* All providers are asked: the cutoff is fixed.
FixCutoff(p) ==
    /\ At(p, "collect")
    /\ sweep[p].next \notin Asked
    /\ sweep' = [sweep EXCEPT ![p].pc = "list", ![p].next = 1,
                              ![p].aged = {k \in Key : object[k] = "old"}]
    /\ UNCHANGED <<lockVars, mediaVars, kept>>

\* listObjects of the next prefix, and its orphans; an object may be listed
\* without timeCreated and is then spared.
List(p) ==
    /\ At(p, "list")
    /\ sweep[p].next <= Len(Prefixes)
    /\ \E dated \in SUBSET Key :
        sweep' = [sweep EXCEPT ![p].pc = "delete", ![p].next = @ + 1,
              ![p].orphans = {k \in Prefixes[sweep[p].next] \cap dated :
                                /\ object[k] # "absent"
                                /\ k \in sweep[p].aged
                                /\ k \notin sweep[p].referenced}]
    /\ UNCHANGED <<lockVars, mediaVars, kept>>

\* deleteObject of one orphan, which may fail and is then left.
Delete(p, k) ==
    /\ At(p, "delete")
    /\ k \in sweep[p].orphans
    /\ object' \in {object, [object EXCEPT ![k] = "absent"]}
    /\ sweep' = [sweep EXCEPT ![p].orphans = @ \ {k}]
    /\ UNCHANGED <<lockVars, refs, kept>>

\* The prefix is done.
NextPrefix(p) ==
    /\ At(p, "delete")
    /\ sweep[p].orphans = {}
    /\ sweep' = [sweep EXCEPT ![p].pc = IF sweep[p].next <= Len(Prefixes) THEN "list" ELSE "release"]
    /\ UNCHANGED <<lockVars, mediaVars, kept>>

\* A provider or the listing throws: finally.
Throw(p) ==
    /\ At(p, "collect") \/ At(p, "list")
    /\ sweep' = [sweep EXCEPT ![p].pc = "release", ![p].orphans = {}]
    /\ UNCHANGED <<lockVars, mediaVars, kept>>

\* releaseLock.
Finish(p) ==
    /\ At(p, "release")
    /\ Release(p)
    /\ sweep' = [sweep EXCEPT ![p] = Idle]
    /\ UNCHANGED <<mediaVars, kept>>

\* The process dies, or the release is lost.
Die(p) ==
    /\ ~At(p, "idle")
    /\ Desert(p)
    /\ sweep' = [sweep EXCEPT ![p] = Idle]
    /\ UNCHANGED <<mediaVars, kept>>

-----------------------------------------------------------------------------
(* The application and the clocks. *)

\* The object's timeCreated is now: no cutoff that is fixed lies after it.
Upload(k) ==
    /\ object' = [object EXCEPT ![k] = "young"]
    /\ sweep' = [p \in Process |-> IF At(p, "idle") THEN Idle
                                    ELSE [sweep[p] EXCEPT !.aged = @ \ {k}]]
    /\ UNCHANGED <<lockVars, refs, kept>>

\* The grace window of an object passes.
Age(k) ==
    /\ object[k] = "young"
    /\ object' = [object EXCEPT ![k] = "old"]
    /\ UNCHANGED <<lockVars, refs, sweep, kept>>

\* A row that refers to an object is written.
Attach(i, k) ==
    /\ k \notin refs[i]
    /\ refs' = [refs EXCEPT ![i] = @ \cup {k}]
    /\ UNCHANGED <<lockVars, object, sweep, kept>>

\* A row is removed, or handed on to another provider's table at once.
Detach(i, k, to) ==
    /\ k \in refs[i]
    /\ refs' = [j \in Asked |-> IF j = i THEN refs[j] \ {k}
                                ELSE IF j = to THEN refs[j] \cup {k} ELSE refs[j]]
    /\ kept' = [p \in Process |-> kept[p] \ {<<i, k>>}]
    /\ UNCHANGED <<lockVars, object, sweep>>

Tick ==
    /\ LockTick
    /\ UNCHANGED <<mediaVars, sweep, kept>>

-----------------------------------------------------------------------------
Proceed(p) ==
    \/ Collect(p) \/ FixCutoff(p) \/ List(p) \/ (\E k \in Key : Delete(p, k))
    \/ NextPrefix(p) \/ Finish(p)

Next ==
    \/ \E p \in Process :
        (\E heard \in BOOLEAN : Begin(p, heard)) \/ Skip(p) \/ Proceed(p) \/ Throw(p) \/ Die(p)
    \/ \E k \in Key : Upload(k) \/ Age(k)
    \/ \E i \in Asked, k \in Key : Attach(i, k) \/ \E to \in Asked \cup {0} : Detach(i, k, to)
    \/ Tick

Spec == Init /\ [][Next]_vars

\* Redis expires keys, whatever its clients do.
FairSpec == Spec /\ WF_vars(Tick)

-----------------------------------------------------------------------------
(* Properties *)

\* A key that some provider has reported without interruption since the sweep
\* began is not marked for deletion, even when sweeps overlap.
SteadyKept ==
    \A p \in Process :
        sweep[p].pc = "delete" =>
            \A i \in Asked, k \in sweep[p].orphans : <<i, k>> \notin kept[p]

\* Sweeps that end in time are alone: InTimeAlone of FencedLock, for the sweeps
\* and not the lock's own bookkeeping.
InTimeSweepAlone ==
    \A p, q \in Process : ~At(p, "idle") /\ ~At(q, "idle") /\ p # q => p \in overran \/ q \in overran
=============================================================================
