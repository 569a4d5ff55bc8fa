-------------------------- MODULE Broadcast_proofs --------------------------
(***************************************************************************)
(* Theorems of Broadcast for every set of workers, users and broadcasts,   *)
(* every finite set of chunks, every limit on attempts, tries and stalls,  *)
(* and any number of crashes, overtakes and faults: types, what a row says *)
(* of the push, and what a job leaves behind.                              *)
(***************************************************************************)
EXTENDS Broadcast, FiniteSetTheorems, TLAPS

-----------------------------------------------------------------------------
(* The inductive invariant. *)

\* A worker in process, or in one of its parts.
Processing(w) ==
    run[w].pc \in {"existing", "insert", "find", "push", "markSent", "markRest", "markSkipped"}
Pushing(w) == run[w].pc \in {"push", "markSent", "markRest", "markSkipped"}

\* Every recipient of a chunk has a row.
Inserted(c) == \A u \in cast.recipients[c] : row[u] # "none"

\* A lock belongs to an active job; a job ends by its attempts or by stalling.
JobInv ==
    \A c \in Chunk :
        /\ job[c].state = "active" <=> job[c].owner # NoWorker
        /\ job[c].state \in {"waiting", "active", "doomed"} => job[c].made < Attempts
        /\ job[c].state = "doomed" => job[c].stalls > MaxStalls
        /\ job[c].state = "failed" => job[c].made >= Attempts \/ job[c].stalls > MaxStalls

\* What a worker holds is of its chunk.  It inserts every row that was missing,
\* pushes when none is, and holds all that are pending, whoever else works on
\* the same rows; and the users it is about to mark SENT were accepted.
RunInv ==
    \A w \in Worker : ~At(w, "idle") =>
        /\ run[w].rows \subseteq cast.recipients[run[w].chunk]
        /\ At(w, "terminal") => job[run[w].chunk].state = "failed"
        /\ At(w, "insert") => \A u \in cast.recipients[run[w].chunk] \ run[w].rows : row[u] # "none"
        /\ At(w, "find") \/ Pushing(w) => Inserted(run[w].chunk)
        /\ Pushing(w) => \A u \in cast.recipients[run[w].chunk] :
                            row[u] = "pending" => u \in run[w].rows
        /\ At(w, "markRest") => \A u \in Targets(w) : row[u] # "pending"
        /\ At(w, "markSent") => \A u \in Targets(w) : u \in accepted

\* A completed job has seen to all its rows.
CompletedInv ==
    \A c \in Chunk : job[c].state = "completed" =>
        \A u \in cast.recipients[c] : row[u] \notin {"none", "pending"}

\* Without overtaking, whoever processes a chunk has its lock.
LockInv == Unspent("overtake") => \A w \in Worker : Processing(w) => Owns(w)

IInv == TypeOK /\ JobInv /\ RunInv /\ CompletedInv /\ LockInv /\ SentIsAccepted

\* What is about to be pushed is pending, if nobody else has the user.
FreshRowsInv ==
    Disjoint /\ Unspent("overtake") =>
        \A w \in Worker : At(w, "push") => \A u \in run[w].rows : row[u] = "pending"

\* The chunks that can have made an attempt of c fail as a whole.
SharingInserted(c) == {d \in Sharing(c) : Inserted(d)}

\* Each attempt lost to a conflict is another chunk's insert.
LossInv ==
    \A c \in Chunk :
        /\ ~Inserted(c) /\ cast.repeated[c] = {} /\ job[c].stalls <= MaxStalls /\ Unspent("fault")
        => /\ job[c].made <= Cardinality(SharingInserted(c))
           /\ \A w \in Worker :
                At(w, "insert") /\ run[w].chunk = c /\ Owns(w) /\ Conflicts(w) =>
                    job[c].made < Cardinality(SharingInserted(c))

\* While nothing goes wrong, an active job has a worker on it, and a pending row
\* is some unfinished chunk's.
CalmInv ==
    Unspent("crash") /\ Unspent("overtake") =>
        /\ \A c \in Chunk :
            /\ job[c].stalls = 0
            /\ \A w \in Worker : job[c].owner = w => Processing(w) /\ run[w].chunk = c
        /\ Unspent("fault") => \A u \in User : row[u] = "pending" =>
              \E d \in Chunk : u \in cast.recipients[d] /\ ~Settled(d)

\* A chunk that shares no user is inserted as a whole or not at all, never if it
\* lists a user twice; its rows are pending until its job is over.
AloneInv ==
    \A c \in Chunk : Sharing(c) = {} =>
        /\ Inserted(c) \/ \A u \in cast.recipients[c] : row[u] = "none"
        /\ cast.recipients[c] \cap cast.repeated[c] # {} =>
              \A u \in cast.recipients[c] : row[u] = "none"
        /\ Unspent("crash") /\ Unspent("fault") /\ job[c].stalls <= MaxStalls =>
            /\ job[c].state = "failed" =>
                  Inserted(c) \/ cast.recipients[c] \cap cast.repeated[c] # {}
            /\ (\E u \in cast.recipients[c] : row[u] = "pending") =>
                  \/ job[c].state \in {"waiting", "active"}
                  \/ \E w \in Worker : At(w, "terminal") /\ run[w].chunk = c

USE LimitsAssumption, WorkerAssumption

-----------------------------------------------------------------------------
(* What the parts of the state look like. *)

LEMMA CastFacts ==
    ASSUME TypeOK
    PROVE  /\ \A c \in Chunk : cast.recipients[c] \subseteq User /\ cast.repeated[c] \subseteq User
           /\ \A b \in {"crash", "overtake", "fault"} : cast[b] \in Nat /\ budget[b] \in Nat
           /\ cast.crash = cast["crash"] /\ cast.overtake = cast["overtake"]
           /\ cast.fault = cast["fault"]
  <1>1. cast \in Cast
    BY CastAssumption DEF TypeOK
  <1>2. QED
    BY <1>1 DEF Cast, TypeOK

LEMMA RunFacts ==
    ASSUME TypeOK, NEW w \in Worker, ~At(w, "idle")
    PROVE  /\ run[w] \in Running
           /\ run[w].chunk \in Chunk /\ run[w].rows \subseteq User /\ run[w].tries \in 0..Tries
           /\ run[w].pc \in {"existing", "insert", "find", "push", "markSent", "markRest",
                             "markSkipped", "terminal"}
  <1>0. run[w] \in Running \cup {Idle}
    BY DEF TypeOK
  <1>1. run[w] \in Running
    BY <1>0 DEF At, Idle
  <1>2. QED
    BY <1>1 DEF Running

JobState == {"waiting", "active", "doomed", "completed", "failed"}

LEMMA JobFacts ==
    ASSUME TypeOK, NEW c \in Chunk
    PROVE  /\ job[c].state \in JobState /\ job[c].owner \in Worker \cup {NoWorker}
           /\ job[c].made \in 0..Attempts /\ job[c].stalls \in Nat
  BY DEF TypeOK, JobState

\* How a worker moves on, and that it moves no other.
LEMMA Moved ==
    ASSUME TypeOK, NEW w \in Worker, ~At(w, "idle")
    PROVE  /\ \A p : Goto(w, p) => /\ run'[w] = [run[w] EXCEPT !.pc = p]
                                   /\ \A x \in Worker \ {w} : run'[x] = run[x]
           /\ \A p, users : Continue(w, p, users) =>
                 /\ run'[w] = [run[w] EXCEPT !.pc = p, !.rows = users]
                 /\ \A x \in Worker \ {w} : run'[x] = run[x]
           /\ End(w) => run'[w] = Idle /\ \A x \in Worker \ {w} : run'[x] = run[x]
  BY DEF TypeOK, Goto, Continue, End

\* The fields of a worker that goes on.
LEMMA MovedFields ==
    ASSUME TypeOK, NEW w \in Worker, ~At(w, "idle")
    PROVE  /\ \A p : Goto(w, p) => /\ run'[w].pc = p /\ run'[w].chunk = run[w].chunk
                                   /\ run'[w].rows = run[w].rows
           /\ \A p, users : Continue(w, p, users) =>
                 run'[w].pc = p /\ run'[w].chunk = run[w].chunk /\ run'[w].rows = users
           /\ End(w) => run'[w].pc = "idle"
  <1>1. run[w] \in Running
    BY RunFacts
  <1>2. DOMAIN run[w] = {"pc", "chunk", "rows", "tries"}
        /\ run[w] = [pc |-> run[w].pc, chunk |-> run[w].chunk, rows |-> run[w].rows,
                     tries |-> run[w].tries]
    BY <1>1 DEF Running
  <1>3. ASSUME NEW p, Goto(w, p)
        PROVE  run'[w].pc = p /\ run'[w].chunk = run[w].chunk /\ run'[w].rows = run[w].rows
    <2>1. run'[w] = [run[w] EXCEPT !.pc = p]
      BY <1>3, Moved
    <2>2. QED
      BY <1>2, <2>1
  <1>4. ASSUME NEW p, NEW users, Continue(w, p, users)
        PROVE  run'[w].pc = p /\ run'[w].chunk = run[w].chunk /\ run'[w].rows = users
    <2>1. run'[w] = [run[w] EXCEPT !.pc = p, !.rows = users]
      BY <1>4 DEF Continue, TypeOK
    <2>2. QED
      BY <1>2, <2>1
  <1>5. ASSUME End(w) PROVE run'[w].pc = "idle"
    <2>1. run'[w] = Idle
      BY <1>5, Moved
    <2>2. QED
      BY <2>1 DEF Idle
  <1>6. QED
    BY <1>3, <1>4, <1>5

\* What a failed attempt does.
LEMMA FailMoves ==
    ASSUME TypeOK, NEW w \in Worker, ~At(w, "idle"), Fail(w), NEW c, c = run[w].chunk
    PROVE  /\ \A x \in Worker \ {w} : run'[x] = run[x]
           /\ \A d \in Chunk \ {c} : job'[d] = job[d]
           /\ \/ /\ job[c].owner # w /\ job' = job /\ run'[w] = Idle
              \/ /\ job[c].owner = w /\ job[c].made + 1 < Attempts
                 /\ job'[c] = [job[c] EXCEPT !.state = "waiting", !.owner = NoWorker,
                                             !.made = job[c].made + 1]
                 /\ run'[w] = Idle
              \/ /\ job[c].owner = w /\ job[c].made + 1 >= Attempts
                 /\ job'[c] = [job[c] EXCEPT !.state = "failed", !.owner = NoWorker,
                                             !.made = job[c].made + 1]
                 /\ run'[w] = [run[w] EXCEPT !.pc = "terminal"]
  <1>1. c \in Chunk /\ job \in [Chunk -> [state: JobState, owner: Worker \cup {NoWorker},
                                          made: 0..Attempts, stalls: Nat]]
    BY RunFacts DEF TypeOK, JobState
  <1>2. CASE ~Owns(w) /\ End(w) /\ UNCHANGED job
    BY <1>1, <1>2, Moved DEF Owns
  <1>3. CASE /\ Owns(w) /\ job[c].made + 1 < Attempts
             /\ job' = [job EXCEPT ![c].state = "waiting", ![c].owner = NoWorker,
                                   ![c].made = job[c].made + 1]
             /\ End(w)
    BY <1>1, <1>3, Moved DEF Owns
  <1>4. CASE /\ Owns(w) /\ job[c].made + 1 >= Attempts
             /\ job' = [job EXCEPT ![c].state = "failed", ![c].owner = NoWorker,
                                   ![c].made = job[c].made + 1]
             /\ Goto(w, "terminal")
    BY <1>1, <1>4, Moved DEF Owns
  <1>5. QED
    BY <1>2, <1>3, <1>4 DEF Fail

LEMMA FailFrame ==
    ASSUME TypeOK, NEW w \in Worker, ~At(w, "idle"), Fail(w), NEW d \in Chunk, d # run[w].chunk
    PROVE  job'[d] = job[d]
  BY DEF Fail, TypeOK

LEMMA CompleteMoves ==
    ASSUME TypeOK, NEW w \in Worker, ~At(w, "idle"), Complete(w), NEW c, c = run[w].chunk
    PROVE  /\ \A x \in Worker \ {w} : run'[x] = run[x]
           /\ run'[w] = Idle
           /\ \A d \in Chunk \ {c} : job'[d] = job[d]
           /\ job[c].owner # w => job' = job
           /\ job[c].owner = w =>
                 job'[c] = [job[c] EXCEPT !.state = "completed", !.owner = NoWorker]
  <1>1. c \in Chunk
    BY RunFacts
  <1>2. QED
    BY <1>1, Moved DEF Complete, Owns, TypeOK

-----------------------------------------------------------------------------
(* Types. *)

JobType == [Chunk -> [state: JobState, owner: Worker \cup {NoWorker}, made: 0..Attempts, stalls: Nat]]
RunType == [Worker -> Running \cup {Idle}]
Pc == {"existing", "insert", "find", "push", "markSent", "markRest", "markSkipped", "terminal"}

LEMMA RunTypeStep ==
    ASSUME TypeOK, NEW w \in Worker, ~At(w, "idle")
    PROVE  /\ \A p \in Pc : Goto(w, p) => run' \in RunType
           /\ \A p \in Pc : \A users \in SUBSET User : Continue(w, p, users) => run' \in RunType
           /\ End(w) => run' \in RunType
  <1>1. run[w] \in Running /\ run \in RunType
    BY RunFacts DEF TypeOK, RunType
  <1>2. ASSUME NEW p \in Pc, Goto(w, p) PROVE run' \in RunType
    <2>1. [run[w] EXCEPT !.pc = p] \in Running
      BY <1>1 DEF Running, Pc
    <2>2. QED
      BY <1>1, <1>2, <2>1 DEF Goto, RunType
  <1>3. ASSUME NEW p \in Pc, NEW users \in SUBSET User, Continue(w, p, users) PROVE run' \in RunType
    <2>1. [run[w] EXCEPT !.pc = p, !.rows = users] \in Running
      BY <1>1 DEF Running, Pc
    <2>2. QED
      BY <1>1, <1>3, <2>1 DEF Continue, RunType
  <1>4. End(w) => run' \in RunType
    BY <1>1 DEF End, RunType
  <1>5. QED
    BY <1>2, <1>3, <1>4

\* Whoever has a job's lock finds it with attempts left.
LEMMA OwnerFacts ==
    ASSUME TypeOK, JobInv, NEW w \in Worker, NEW c \in Chunk, job[c].owner = w
    PROVE  job[c].state = "active" /\ job[c].made + 1 \in 0..Attempts
  <1>1. job[c].owner # NoWorker
    OBVIOUS
  <1>2. job[c].state = "active" /\ job[c].made < Attempts
    BY <1>1 DEF JobInv
  <1>3. QED
    BY <1>2, JobFacts

LEMMA FailType ==
    ASSUME TypeOK, JobInv, NEW w \in Worker, ~At(w, "idle"), Fail(w)
    PROVE  run' \in RunType /\ job' \in JobType
  <1> DEFINE c == run[w].chunk
  <1>1. c \in Chunk /\ job \in JobType /\ job[c].made \in 0..Attempts
    BY RunFacts DEF TypeOK, JobType, JobState
  <1>2. Owns(w) => job[c].made + 1 \in 0..Attempts
    BY <1>1, OwnerFacts DEF Owns
  <1>3. run' \in RunType
    BY RunTypeStep DEF Fail, Pc
  <1>4. job' = job \/ (Owns(w) /\ \E s \in JobState :
            job' = [job EXCEPT ![c].state = s, ![c].owner = NoWorker, ![c].made = job[c].made + 1])
    BY DEF Fail, JobState
  <1>5. job' \in JobType
    <2>1. CASE job' = job
      BY <1>1, <2>1
    <2>2. ASSUME NEW s \in JobState, Owns(w),
                 job' = [job EXCEPT ![c].state = s, ![c].owner = NoWorker, ![c].made = job[c].made + 1]
          PROVE  job' \in JobType
      <3>1. [job[c] EXCEPT !.state = s, !.owner = NoWorker, !.made = job[c].made + 1]
               \in [state: JobState, owner: Worker \cup {NoWorker}, made: 0..Attempts, stalls: Nat]
        BY <1>1, <1>2, <2>2 DEF JobType
      <3>2. QED
        BY <1>1, <2>2, <3>1 DEF JobType
    <2>3. QED
      BY <1>4, <2>1, <2>2
  <1>6. QED
    BY <1>3, <1>5

LEMMA CompleteType ==
    ASSUME TypeOK, NEW w \in Worker, ~At(w, "idle"), Complete(w)
    PROVE  run' \in RunType /\ job' \in JobType
  <1>1. run[w].chunk \in Chunk /\ job \in JobType
    BY RunFacts DEF TypeOK, JobType, JobState
  <1>2. job' \in JobType
    BY <1>1 DEF Complete, JobType, JobState
  <1>3. QED
    BY <1>2, RunTypeStep DEF Complete

\* What is left of TypeOK once the types of job and run are known.
LEMMA RowType ==
    ASSUME TypeOK, NEW users, NEW s \in Status, Set(users, s)
    PROVE  row' \in [User -> Status]
  BY DEF TypeOK, Set, Status

LEMMA PushedType ==
    ASSUME TypeOK, NEW w \in Worker, ~At(w, "idle"), Push(w)
    PROVE  pushed' \in [User -> Nat] /\ accepted' \in SUBSET User
  <1>1. Targets(w) \subseteq User
    BY RunFacts DEF Targets
  <1>2. pushed' = pushed \/ Call(w)
    BY DEF Push
  <1>3. accepted' = accepted \/ accepted' = accepted \cup Targets(w)
    BY DEF Push, NoAnswer
  <1>4. QED
    BY <1>1, <1>2, <1>3 DEF Call, TypeOK

\* A budget is spent by one.
LEMMA BudgetStep ==
    ASSUME TypeOK, cast' = cast, NEW b \in {"crash", "overtake", "fault"}, budget[b] > 0,
           budget' = [budget EXCEPT ![b] = @ - 1]
    PROVE  /\ budget' \in [{"crash", "overtake", "fault"} -> Nat]
           /\ \A d \in DOMAIN budget' : budget'[d] <= cast'[d]
           /\ \A d \in {"crash", "overtake", "fault"} : Unspent(d)' => Unspent(d)
           /\ ~Unspent(b)'
           /\ \A d \in {"crash", "overtake", "fault"} : d # b => budget'[d] = budget[d]
  <1>1. /\ budget \in [{"crash", "overtake", "fault"} -> Nat]
        /\ \A d \in {"crash", "overtake", "fault"} :
              cast[d] \in Nat /\ budget[d] \in Nat /\ budget[d] <= cast[d]
    BY CastFacts DEF TypeOK
  <1>2. budget' \in [{"crash", "overtake", "fault"} -> Nat]
    BY <1>1
  <1>3. \A d \in {"crash", "overtake", "fault"} :
           budget'[d] = IF d = b THEN budget[d] - 1 ELSE budget[d]
    BY <1>1
  <1>4. QED
    BY <1>1, <1>2, <1>3 DEF Unspent

LEMMA TypeStep ==
    ASSUME TypeOK, JobInv, [Next]_vars
    PROVE  TypeOK' /\ cast' = cast
  <1>0. cast' = cast /\ cast' \in Casts
    BY DEF Next, vars, TypeOK
  <1>1. TypeOK' <=>
            /\ row' \in [User -> Status] /\ job' \in JobType /\ run' \in RunType
            /\ pushed' \in [User -> Nat] /\ accepted' \in SUBSET User /\ cast' \in Casts
            /\ budget' \in [{"crash", "overtake", "fault"} -> Nat]
            /\ \A b \in DOMAIN budget' : budget'[b] <= cast'[b]
    BY DEF TypeOK, JobType, JobState, RunType
  <1>2. /\ row \in [User -> Status] /\ job \in JobType /\ run \in RunType /\ pushed \in [User -> Nat]
        /\ accepted \in SUBSET User
        /\ budget \in [{"crash", "overtake", "fault"} -> Nat]
        /\ \A b \in DOMAIN budget : budget[b] <= cast[b]
    BY DEF TypeOK, JobType, JobState, RunType
  <1>3. ASSUME budget' = budget, row' = row \/ row' \in [User -> Status], job' \in JobType,
               run' \in RunType, pushed' \in [User -> Nat], accepted' \in SUBSET User
        PROVE  TypeOK'
    BY <1>0, <1>1, <1>2, <1>3
  <1>4. ASSUME NEW w \in Worker, NEW c \in Chunk, Start(w, c) PROVE TypeOK'
    <2>1. [pc |-> "existing", chunk |-> c, rows |-> {}, tries |-> 0] \in Running
      BY DEF Running
    <2>2. run' \in RunType
      BY <1>2, <1>4, <2>1 DEF Start, RunType
    <2>3. job' \in JobType
      BY <1>2, <1>4 DEF Start, JobType, JobState
    <2>4. QED
      BY <1>2, <1>3, <1>4, <2>2, <2>3 DEF Start
  <1>5. ASSUME NEW w \in Worker, NEW c \in Chunk, Doom(w, c) PROVE TypeOK'
    <2>1. [pc |-> "terminal", chunk |-> c, rows |-> {}, tries |-> 0] \in Running
      BY DEF Running
    <2>2. run' \in RunType
      BY <1>2, <1>5, <2>1 DEF Doom, RunType
    <2>3. job[c].made < Attempts /\ job[c].made \in 0..Attempts
      BY <1>5, JobFacts DEF Doom, JobInv
    <2>4. job[c].made + 1 \in 0..Attempts
      BY <2>3
    <2>5. job' \in JobType
      BY <1>2, <1>5, <2>4 DEF Doom, JobType, JobState
    <2>6. QED
      BY <1>2, <1>3, <1>5, <2>2, <2>5 DEF Doom
  <1>6. ASSUME NEW w \in Worker, Proceed(w) PROVE TypeOK'
    <2>1. ~At(w, "idle")
      BY <1>6 DEF Proceed, Advance, FindExisting, BulkInsert, FindPending, Push, NoAnswer,
                  MarkSent, MarkRest, MarkSkipped, MarkFailed, At
    <2>2. run[w].rows \in SUBSET User /\ cast.recipients[run[w].chunk] \in SUBSET User
      BY <2>1, RunFacts, CastFacts
    <2>3. CASE FindExisting(w)
      <3>1. run' \in RunType
        BY <2>1, <2>2, <2>3, RunTypeStep DEF FindExisting, Pc
      <3>2. QED
        BY <1>2, <1>3, <2>3, <3>1 DEF FindExisting
    <2>4. CASE BulkInsert(w)
      <3>1. run' \in RunType /\ job' \in JobType
        BY <1>2, <2>1, <2>4, RunTypeStep, FailType DEF BulkInsert, Pc
      <3>2. row' = row \/ row' \in [User -> Status]
        BY <2>4, RowType DEF BulkInsert, Status
      <3>3. QED
        BY <1>2, <1>3, <2>4, <3>1, <3>2 DEF BulkInsert
    <2>5. CASE FindPending(w)
      <3>1. run' \in RunType
        BY <2>1, <2>2, <2>5, RunTypeStep DEF FindPending, Pc
      <3>2. QED
        BY <1>2, <1>3, <2>5, <3>1 DEF FindPending
    <2>6. CASE Push(w)
      <3>1. ASSUME run' = [run EXCEPT ![w].tries = @ + 1], run[w].tries + 1 < Tries
            PROVE  run' \in RunType
        <4>1. run[w] \in Running /\ run[w].tries + 1 \in 0..Tries
          BY <2>1, <3>1, RunFacts
        <4>2. [run[w] EXCEPT !.tries = run[w].tries + 1] \in Running
          BY <4>1 DEF Running
        <4>3. QED
          BY <1>2, <3>1, <4>2 DEF RunType
      <3>2. run' \in RunType /\ job' \in JobType
        BY <1>2, <2>1, <2>6, <3>1, RunTypeStep, FailType DEF Push, NoAnswer, Pc
      <3>3. QED
        BY <1>3, <2>1, <2>6, <3>2, PushedType DEF Push
    <2>7. CASE MarkSent(w)
      <3>1. run' \in RunType
        BY <2>1, <2>7, RunTypeStep DEF MarkSent, Pc
      <3>2. row' \in [User -> Status]
        BY <2>7, RowType DEF MarkSent, Status
      <3>3. QED
        BY <1>2, <1>3, <2>7, <3>1, <3>2 DEF MarkSent
    <2>8. CASE MarkRest(w) \/ MarkSkipped(w)
      <3>1. run' \in RunType /\ job' \in JobType
        BY <2>1, <2>8, CompleteType DEF MarkRest, MarkSkipped
      <3>2. row' \in [User -> Status]
        BY <2>8, RowType DEF MarkRest, MarkSkipped, Status
      <3>3. QED
        BY <1>2, <1>3, <2>8, <3>1, <3>2 DEF MarkRest, MarkSkipped
    <2>9. CASE MarkFailed(w)
      <3>1. run' \in RunType
        BY <2>1, <2>9, RunTypeStep DEF MarkFailed
      <3>2. row' \in [User -> Status]
        BY <2>9, RowType DEF MarkFailed, Status
      <3>3. QED
        BY <1>2, <1>3, <2>9, <3>1, <3>2 DEF MarkFailed
    <2>10. QED
      BY <1>6, <2>3, <2>4, <2>5, <2>6, <2>7, <2>8, <2>9 DEF Proceed, Advance
  <1>7. ASSUME NEW w \in Worker, Crash(w) \/ Fault(w) PROVE TypeOK'
    <2>1. ~At(w, "idle")
      BY <1>7 DEF Crash, Fault, At
    <2>2. run' \in RunType /\ job' \in JobType
      BY <1>2, <1>7, <2>1, RunTypeStep, FailType DEF Crash, Fault
    <2>3. \E b \in {"crash", "overtake", "fault"} :
              budget[b] > 0 /\ budget' = [budget EXCEPT ![b] = @ - 1]
      BY <1>7 DEF Crash, Fault
    <2>4. QED
      BY <1>0, <1>1, <1>2, <1>7, <2>2, <2>3, BudgetStep DEF Crash, Fault
  <1>8. ASSUME NEW c \in Chunk, Stall(c) PROVE TypeOK'
    <2>1. job' \in JobType
      BY <1>2, <1>8 DEF Stall, JobType, JobState
    <2>2. \/ budget' = budget
          \/ \E b \in {"crash", "overtake", "fault"} :
              budget[b] > 0 /\ budget' = [budget EXCEPT ![b] = @ - 1]
      BY <1>8 DEF Stall
    <2>3. QED
      BY <1>0, <1>1, <1>2, <1>8, <2>1, <2>2, BudgetStep DEF Stall
  <1>9. CASE UNCHANGED vars
    BY <1>2, <1>3, <1>9 DEF vars
  <1>10. QED
    BY <1>0, <1>4, <1>5, <1>6, <1>7, <1>8, <1>9 DEF Next, Drained

-----------------------------------------------------------------------------
(* What every step has in common. *)

LEMMA Busy ==
    ASSUME NEW w \in Worker, Proceed(w) \/ Crash(w) \/ Fault(w)
    PROVE  ~At(w, "idle")
  BY DEF Proceed, Advance, FindExisting, BulkInsert, FindPending, Push, NoAnswer, MarkSent,
         MarkRest, MarkSkipped, MarkFailed, Crash, Fault, At

\* A worker's step moves no other worker.
LEMMA Others ==
    ASSUME TypeOK, NEW w \in Worker,
           Proceed(w) \/ Crash(w) \/ Fault(w) \/ \E c \in Chunk : Start(w, c) \/ Doom(w, c)
    PROVE  \A x \in Worker \ {w} : run'[x] = run[x]
  <1>1. CASE \E c \in Chunk : Start(w, c) \/ Doom(w, c)
    BY <1>1 DEF Start, Doom, TypeOK
  <1>2. CASE FindExisting(w) \/ FindPending(w) \/ MarkSent(w) \/ MarkFailed(w) \/ Crash(w)
    BY <1>2, Busy, Moved DEF FindExisting, FindPending, MarkSent, MarkFailed, Crash, Proceed,
                             Advance
  <1>3. CASE BulkInsert(w)
    BY <1>3, Busy, Moved, FailMoves DEF BulkInsert, Proceed, Advance
  <1>4. CASE MarkRest(w) \/ MarkSkipped(w)
    BY <1>4, Busy, CompleteMoves DEF MarkRest, MarkSkipped, Proceed, Advance
  <1>5. CASE Fault(w)
    BY <1>5, Busy, Moved, FailMoves DEF Fault
  <1>6. CASE Push(w)
    <2>1. CASE run' = [run EXCEPT ![w].tries = @ + 1]
      BY <2>1 DEF TypeOK
    <2>2. CASE Fail(w) \/ \E p \in {"markSent", "markSkipped"} : Goto(w, p)
      BY <1>6, <2>2, Busy, Moved, FailMoves DEF Proceed, Advance
    <2>3. QED
      BY <1>6, <2>1, <2>2 DEF Push, NoAnswer
  <1>7. QED
    BY <1>1, <1>2, <1>3, <1>4, <1>5, <1>6 DEF Proceed, Advance

LEMMA UnspentFalls ==
    ASSUME TypeOK, [Next]_vars
    PROVE  \A b \in {"crash", "overtake", "fault"} : Unspent(b)' => Unspent(b)
  <1>1. cast' = cast
    BY DEF Next, vars
  <1>2. \/ budget' = budget
        \/ \E b \in {"crash", "overtake", "fault"} :
              budget[b] > 0 /\ budget' = [budget EXCEPT ![b] = @ - 1]
    BY DEF Next, vars, Drained, Start, Doom, Proceed, Advance, FindExisting, BulkInsert,
           FindPending, Push, NoAnswer, MarkSent, MarkRest, MarkSkipped, MarkFailed, Crash,
           Fault, Stall
  <1>3. CASE budget' = budget
    BY <1>1, <1>3 DEF Unspent
  <1>4. QED
    BY <1>1, <1>2, <1>3, BudgetStep

\* A row becomes pending only when it is inserted, and once it says how the push
\* ended it goes on to say that.
LEMMA RowMoves ==
    ASSUME TypeOK, [Next]_vars, NEW u \in User
    PROVE  \/ row'[u] = row[u]
           \/ row[u] = "none" /\ row'[u] = "pending" /\ \E w \in Worker :
                 BulkInsert(w) /\ ~Conflicts(w) /\ u \in run[w].rows
           \/ row'[u] \in {"sent", "skipped", "failed"}
  <1>1. row[u] \in Status
    BY DEF TypeOK
  <1>2. ASSUME NEW users, NEW s, Set(users, s) PROVE row'[u] = IF u \in users THEN s ELSE row[u]
    BY <1>2 DEF Set
  <1>3. ASSUME NEW w \in Worker, BulkInsert(w), row' # row
        PROVE  /\ ~Conflicts(w) /\ row'[u] = IF u \in run[w].rows THEN "pending" ELSE row[u]
               /\ u \in run[w].rows => row[u] = "none"
    BY <1>2, <1>3 DEF BulkInsert, Conflicts
  <1>4. ASSUME NEW w \in Worker, MarkSent(w) \/ MarkRest(w) \/ MarkSkipped(w) \/ MarkFailed(w)
        PROVE  row'[u] = row[u] \/ row'[u] \in {"sent", "skipped", "failed"}
    BY <1>2, <1>4 DEF MarkSent, MarkRest, MarkSkipped, MarkFailed
  <1>5. \/ row' = row
        \/ \E w \in Worker : \/ BulkInsert(w) \/ MarkSent(w) \/ MarkRest(w)
                             \/ MarkSkipped(w) \/ MarkFailed(w)
    BY DEF Next, vars, Drained, Start, Doom, Proceed, Advance, FindExisting, FindPending, Push,
           NoAnswer, Crash, Fault, Stall
  <1>6. QED
    BY <1>3, <1>4, <1>5

\* A chunk's rows, once inserted, stay.
LEMMA InsertedStays ==
    ASSUME TypeOK, [Next]_vars, cast' = cast, NEW c \in Chunk, Inserted(c)
    PROVE  Inserted(c)'
  BY RowMoves, CastFacts DEF Inserted

-----------------------------------------------------------------------------
LEMMA JobStep ==
    ASSUME TypeOK, JobInv, [Next]_vars
    PROVE  JobInv'
  <1> SUFFICES ASSUME NEW c \in Chunk PROVE JobInv!(c)'
    BY DEF JobInv
  <1>0. JobInv!(c) /\ job[c].state \in JobState /\ job[c].owner \in Worker \cup {NoWorker}
        /\ job[c].made \in 0..Attempts /\ job[c].stalls \in Nat /\ job \in JobType
    BY JobFacts DEF JobInv, JobType, JobState, TypeOK
  <1>1. ASSUME job'[c] = job[c] PROVE JobInv!(c)'
    BY <1>0, <1>1
  <1>2. ASSUME NEW w \in Worker, NEW d \in Chunk, Start(w, d) PROVE JobInv!(c)'
    <2>1. c # d => job'[c] = job[c]
      BY <1>0, <1>2 DEF Start, JobType
    <2>2. c = d => job'[c] = [job[c] EXCEPT !.state = "active", !.owner = w]
      BY <1>0, <1>2 DEF Start, JobType
    <2>3. c = d => /\ job'[c].state = "active" /\ job'[c].owner = w /\ job'[c].made = job[c].made
                   /\ job[c].state = "waiting"
      BY <1>0, <1>2, <2>2 DEF Start, JobType
    <2>4. QED
      BY <1>0, <1>1, <2>1, <2>3
  <1>3. ASSUME NEW w \in Worker, NEW d \in Chunk, Doom(w, d) PROVE JobInv!(c)'
    <2>1. c # d => job'[c] = job[c]
      BY <1>0, <1>3 DEF Doom, JobType
    <2>2. c = d => /\ job'[c].state = "failed" /\ job'[c].owner = job[c].owner
                   /\ job'[c].stalls = job[c].stalls /\ job[c].state = "doomed"
      BY <1>0, <1>3 DEF Doom, JobType
    <2>3. QED
      BY <1>0, <1>1, <2>1, <2>2
  <1>4. ASSUME NEW w \in Worker, ~At(w, "idle"), Fail(w) PROVE JobInv!(c)'
    <2>1. CASE c # run[w].chunk
      <3>1. job'[c] = job[c]
        BY <1>4, <2>1, FailFrame
      <3>2. QED
        BY <1>1, <3>1
    <2>2. CASE c = run[w].chunk
      <3>1. \/ job' = job
            \/ /\ job'[c].state = "waiting" /\ job'[c].owner = NoWorker
               /\ job'[c].made = job[c].made + 1 /\ job[c].made + 1 < Attempts
            \/ /\ job'[c].state = "failed" /\ job'[c].owner = NoWorker
               /\ job'[c].made = job[c].made + 1 /\ job[c].made + 1 >= Attempts
        <4>1. \/ job' = job
              \/ /\ job[c].made + 1 < Attempts
                 /\ job'[c] = [job[c] EXCEPT !.state = "waiting", !.owner = NoWorker,
                                             !.made = job[c].made + 1]
              \/ /\ job[c].made + 1 >= Attempts
                 /\ job'[c] = [job[c] EXCEPT !.state = "failed", !.owner = NoWorker,
                                             !.made = job[c].made + 1]
          BY <1>4, <2>2, FailMoves
        <4>2. QED
          BY <1>0, <4>1 DEF JobType
      <3>2. QED
        BY <1>0, <1>1, <3>1
    <2>3. QED
      BY <2>1, <2>2
  <1>5. ASSUME NEW w \in Worker, ~At(w, "idle"), Complete(w) PROVE JobInv!(c)'
    <2>1. \/ job'[c] = job[c]
          \/ job'[c] = [job[c] EXCEPT !.state = "completed", !.owner = NoWorker]
      BY <1>5, CompleteMoves
    <2>2. job'[c] = job[c] \/ (job'[c].state = "completed" /\ job'[c].owner = NoWorker)
      BY <1>0, <2>1 DEF JobType
    <2>3. QED
      BY <1>0, <1>1, <2>2
  <1>6. ASSUME NEW d \in Chunk, Stall(d) PROVE JobInv!(c)'
    <2>1. c # d => job'[c] = job[c]
      BY <1>0, <1>6 DEF Stall, JobType
    <2>2. c = d => /\ job'[c].state = IF job[c].stalls < MaxStalls THEN "waiting" ELSE "doomed"
                   /\ job'[c].owner = NoWorker /\ job'[c].made = job[c].made
                   /\ job'[c].stalls = job[c].stalls + 1 /\ job[c].state = "active"
      BY <1>0, <1>6 DEF Stall, JobType
    <2>3. QED
      BY <1>0, <1>1, <2>1, <2>2
  <1>7. \/ job' = job
        \/ \E w \in Worker : \/ \E d \in Chunk : Start(w, d) \/ Doom(w, d)
                             \/ ~At(w, "idle") /\ (Fail(w) \/ Complete(w))
        \/ \E d \in Chunk : Stall(d)
    BY Busy DEF Next, vars, Drained, Proceed, Advance, FindExisting, BulkInsert, FindPending,
                Push, NoAnswer, MarkSent, MarkRest, MarkSkipped, MarkFailed, Crash,
                Fault
  <1>8. QED
    BY <1>1, <1>2, <1>3, <1>4, <1>5, <1>6, <1>7

\* A job that has ended stays as it is.
LEMMA EndedStays ==
    ASSUME TypeOK, JobInv, [Next]_vars, NEW c \in Chunk, job[c].state \in {"completed", "failed"}
    PROVE  job'[c] = job[c]
  <1>0. job[c].owner = NoWorker /\ job \in JobType
    BY DEF JobInv, JobType, JobState, TypeOK
  <1>1. ASSUME NEW w \in Worker, ~At(w, "idle"), Fail(w) \/ Complete(w) PROVE job'[c] = job[c]
    <2>1. CASE c # run[w].chunk
      BY <1>0, <1>1, <2>1, FailFrame DEF Complete, JobType
    <2>2. CASE c = run[w].chunk
      BY <1>0, <1>1, <2>2 DEF Fail, Complete, Owns
    <2>3. QED
      BY <2>1, <2>2
  <1>2. ASSUME NEW w \in Worker, NEW d \in Chunk, Start(w, d) \/ Doom(w, d) PROVE job'[c] = job[c]
    BY <1>0, <1>2 DEF Start, Doom, JobType
  <1>3. ASSUME NEW d \in Chunk, Stall(d) PROVE job'[c] = job[c]
    BY <1>0, <1>3 DEF Stall, JobType
  <1>4. \/ job' = job
        \/ \E w \in Worker : \/ \E d \in Chunk : Start(w, d) \/ Doom(w, d)
                             \/ ~At(w, "idle") /\ (Fail(w) \/ Complete(w))
        \/ \E d \in Chunk : Stall(d)
    BY Busy DEF Next, vars, Drained, Proceed, Advance, FindExisting, BulkInsert, FindPending,
                Push, NoAnswer, MarkSent, MarkRest, MarkSkipped, MarkFailed, Crash,
                Fault
  <1>5. QED
    BY <1>1, <1>2, <1>3, <1>4

\* A call that was accepted is never forgotten.
LEMMA AcceptedGrows ==
    ASSUME [Next]_vars
    PROVE  accepted \subseteq accepted'
  <1>1. ASSUME NEW w \in Worker, Push(w) PROVE accepted \subseteq accepted'
    BY <1>1 DEF Push, NoAnswer
  <1>2. accepted' = accepted \/ \E w \in Worker : Push(w)
    BY DEF Next, vars, Drained, Start, Doom, Proceed, Advance, FindExisting, BulkInsert,
           FindPending, MarkSent, MarkRest, MarkSkipped, MarkFailed, Crash, Fault, Stall
  <1>3. QED
    BY <1>1, <1>2

\* What holds of a worker holds of it while it does not move.
LEMMA RunKeeps ==
    ASSUME TypeOK, JobInv, RunInv, [Next]_vars, NEW w \in Worker, run'[w] = run[w]
    PROVE  RunInv!(w)'
  <1> SUFFICES ASSUME ~At(w, "idle") PROVE RunInv!(w)'
    BY DEF At
  <1> DEFINE c == run[w].chunk
  <1>0. /\ cast' = cast /\ c \in Chunk /\ run[w].rows \subseteq cast.recipients[c]
        /\ cast.recipients[c] \subseteq User /\ run'[w].chunk = c /\ run'[w].rows = run[w].rows
        /\ \A p : At(w, p)' <=> At(w, p)
        /\ Targets(w)' = Targets(w) /\ Targets(w) \subseteq cast.recipients[c]
        /\ Pushing(w)' <=> Pushing(w)
    BY TypeStep, RunFacts, CastFacts DEF RunInv, At, Targets, Pushing
  <1>1. At(w, "terminal") => job'[c].state = "failed"
    BY <1>0, EndedStays DEF RunInv
  <1>2. At(w, "insert") => \A u \in cast.recipients[c] \ run[w].rows : row'[u] # "none"
    BY <1>0, RowMoves DEF RunInv
  <1>3. At(w, "find") \/ Pushing(w) => Inserted(c)'
    BY <1>0, InsertedStays DEF RunInv
  <1>4. Inserted(c) => \A u \in cast.recipients[c] : row'[u] = "pending" => row[u] = "pending"
    BY <1>0, RowMoves DEF Inserted
  <1>5. Pushing(w) => \A u \in cast.recipients[c] : row'[u] = "pending" => u \in run[w].rows
    BY <1>4 DEF RunInv, Pushing
  <1>6. At(w, "markRest") => \A u \in Targets(w) : row'[u] # "pending"
    BY <1>0, <1>4 DEF RunInv, Pushing, At
  <1>7. At(w, "markSent") => \A u \in Targets(w) : u \in accepted'
    BY <1>0, AcceptedGrows DEF RunInv
  <1>8. QED
    BY <1>0, <1>1, <1>2, <1>3, <1>5, <1>6, <1>7

-----------------------------------------------------------------------------
\* Where a failed attempt leaves its worker.
LEMMA FailEnds ==
    ASSUME TypeOK, JobInv, NEW w \in Worker, ~At(w, "idle"), Fail(w)
    PROVE  \/ At(w, "idle")'
           \/ /\ At(w, "terminal")' /\ run'[w].chunk = run[w].chunk /\ run'[w].rows = run[w].rows
              /\ job'[run[w].chunk].state = "failed"
  <1> DEFINE c == run[w].chunk
  <1>1. c \in Chunk /\ job \in JobType
    BY RunFacts DEF TypeOK, JobType, JobState
  <1>2. CASE End(w)
    BY <1>2, MovedFields DEF At
  <1>3. CASE /\ Goto(w, "terminal")
             /\ job' = [job EXCEPT ![c].state = "failed", ![c].owner = NoWorker,
                                   ![c].made = job[c].made + 1]
    <2>1. job'[c].state = "failed"
      BY <1>1, <1>3 DEF JobType
    <2>2. QED
      BY <1>3, <2>1, MovedFields DEF At
  <1>4. QED
    BY <1>2, <1>3 DEF Fail

LEMMA RunStep ==
    ASSUME TypeOK, JobInv, RunInv, [Next]_vars
    PROVE  RunInv'
  <1> SUFFICES ASSUME NEW x \in Worker PROVE RunInv!(x)'
    BY DEF RunInv
  <1>0. cast' = cast /\ (run'[x] = run[x] => RunInv!(x)')
    BY TypeStep, RunKeeps
  <1>i. ASSUME At(x, "idle")' PROVE RunInv!(x)'
    BY <1>i
  <1>f. ASSUME ~At(x, "idle"), Fail(x) PROVE RunInv!(x)'
    <2>1. CASE /\ At(x, "terminal")' /\ run'[x].chunk = run[x].chunk /\ run'[x].rows = run[x].rows
               /\ job'[run[x].chunk].state = "failed"
      BY <1>0, <1>f, <2>1 DEF RunInv, At, Pushing
    <2>2. QED
      BY <1>f, <1>i, <2>1, FailEnds
  <1>1. ASSUME NEW c \in Chunk, Start(x, c) PROVE RunInv!(x)'
    <2>1. run'[x] = [pc |-> "existing", chunk |-> c, rows |-> {}, tries |-> 0]
      BY <1>1 DEF Start, TypeOK
    <2>2. QED
      BY <2>1 DEF At, Pushing
  <1>2. ASSUME NEW c \in Chunk, Doom(x, c) PROVE RunInv!(x)'
    <2>1. CASE run' = run
      BY <1>0, <2>1
    <2>2. CASE run' # run
      <3>1. run'[x] = [pc |-> "terminal", chunk |-> c, rows |-> {}, tries |-> 0]
        BY <1>2, <2>2 DEF Doom, TypeOK
      <3>2. job'[c].state = "failed"
        BY <1>2 DEF Doom, TypeOK
      <3>3. QED
        BY <3>1, <3>2 DEF At, Pushing
    <2>3. QED
      BY <2>1, <2>2
  <1>3. ASSUME Proceed(x) PROVE RunInv!(x)'
    <2> DEFINE c == run[x].chunk
    <2>1. /\ ~At(x, "idle") /\ c \in Chunk /\ run[x].rows \subseteq cast.recipients[c]
          /\ cast.recipients[c] \subseteq User
      BY <1>3, Busy, RunFacts, CastFacts DEF RunInv
    <2>2. CASE FindExisting(x)
      <3>1. /\ run'[x].pc = "insert" /\ run'[x].chunk = c /\ row' = row
            /\ run'[x].rows = {u \in cast.recipients[c] : row[u] = "none"}
        BY <2>1, <2>2, MovedFields DEF FindExisting
      <3>2. QED
        BY <1>0, <3>1 DEF At, Pushing
    <2>3. CASE BulkInsert(x)
      <3>1. CASE Set(run[x].rows, "pending") /\ Goto(x, "find")
        <4>1. /\ run'[x].pc = "find" /\ run'[x].chunk = c /\ run'[x].rows = run[x].rows
              /\ At(x, "insert")
          BY <2>1, <2>3, <3>1, MovedFields DEF BulkInsert
        <4>2. \A u \in cast.recipients[c] : row'[u] # "none"
          BY <2>1, <3>1, <4>1 DEF Set, RunInv
        <4>3. QED
          BY <1>0, <2>1, <4>1, <4>2 DEF At, Pushing, Inserted
      <3>2. QED
        BY <1>f, <2>1, <2>3, <3>1 DEF BulkInsert
    <2>4. CASE FindPending(x)
      <3>1. /\ run'[x].pc \in {"markSkipped", "push"} /\ run'[x].chunk = c /\ row' = row
            /\ run'[x].rows = {u \in cast.recipients[c] : row[u] = "pending"}
            /\ At(x, "find")
        BY <2>1, <2>4, MovedFields DEF FindPending
      <3>2. Inserted(c)'
        BY <1>0, <2>1, <3>1 DEF RunInv, Inserted
      <3>3. QED
        BY <1>0, <3>1, <3>2 DEF At, Pushing
    <2>5. CASE Push(x)
      <3>1. At(x, "push") /\ row' = row
        BY <2>5 DEF Push
      <3>2. /\ \A u \in cast.recipients[c] : row'[u] # "none"
            /\ \A u \in cast.recipients[c] : row'[u] = "pending" => u \in run[x].rows
        <4>1. Inserted(c) /\ \A u \in cast.recipients[c] : row[u] = "pending" => u \in run[x].rows
          BY <2>1, <3>1 DEF RunInv, Pushing, At
        <4>2. \A u \in cast.recipients[c] : row'[u] # "none"
          BY <1>0, <3>1, <4>1 DEF Inserted
        <4>3. QED
          BY <3>1, <4>1, <4>2
      <3>3. CASE run' = [run EXCEPT ![x].tries = @ + 1]
        <4>1. run'[x].pc = "push" /\ run'[x].chunk = c /\ run'[x].rows = run[x].rows
          <5>1. run[x] \in Running
            BY <2>1, RunFacts
          <5>2. run'[x] = [run[x] EXCEPT !.tries = run[x].tries + 1]
            BY <3>3 DEF TypeOK
          <5>3. QED
            BY <3>1, <5>1, <5>2 DEF Running, At
        <4>2. QED
          BY <1>0, <2>1, <3>2, <4>1 DEF At, Pushing, Inserted
      <3>4. CASE Goto(x, "markSkipped")
        <4>1. run'[x].pc = "markSkipped" /\ run'[x].chunk = c /\ run'[x].rows = run[x].rows
          BY <2>1, <3>4, MovedFields
        <4>2. QED
          BY <1>0, <2>1, <3>2, <4>1 DEF At, Pushing, Inserted
      <3>5. CASE Goto(x, "markSent") /\ accepted' = accepted \cup Targets(x)
        <4>1. run'[x].pc = "markSent" /\ run'[x].chunk = c /\ run'[x].rows = run[x].rows
          BY <2>1, <3>5, MovedFields
        <4>2. Targets(x)' = Targets(x) /\ Targets(x) \subseteq User
          BY <2>1, <4>1 DEF Targets
        <4>3. \A u \in Targets(x) : u \in accepted'
          BY <3>5
        <4>4. QED
          BY <1>0, <2>1, <3>2, <4>1, <4>2, <4>3 DEF At, Pushing, Inserted
      <3>6. QED
        BY <1>f, <2>1, <2>5, <3>3, <3>4, <3>5 DEF Push, NoAnswer
    <2>6. CASE MarkSent(x)
      <3>1. /\ At(x, "markSent") /\ run'[x].pc = "markRest" /\ run'[x].chunk = c
            /\ run'[x].rows = run[x].rows
            /\ row' = [u \in User |-> IF u \in Targets(x) THEN "sent" ELSE row[u]]
        BY <2>1, <2>6, MovedFields DEF MarkSent, Set
      <3>2. Targets(x)' = Targets(x) /\ Targets(x) \subseteq User
        BY <2>1, <3>1 DEF Targets
      <3>3. /\ \A u \in cast.recipients[c] : row'[u] # "none"
            /\ \A u \in cast.recipients[c] : row'[u] = "pending" => u \in run[x].rows
        <4>1. Inserted(c) /\ \A u \in cast.recipients[c] : row[u] = "pending" => u \in run[x].rows
          BY <2>1, <3>1 DEF RunInv, Pushing, At
        <4>2. \A u \in cast.recipients[c] : row'[u] = row[u] \/ row'[u] = "sent"
          BY <2>1, <3>1
        <4>3. \A u \in cast.recipients[c] : row'[u] # "none"
          BY <1>0, <4>1, <4>2 DEF Inserted
        <4>4. ASSUME NEW u \in cast.recipients[c], row'[u] = "pending" PROVE u \in run[x].rows
          <5>1. row[u] = "pending"
            BY <4>2, <4>4
          <5>2. QED
            BY <4>1, <5>1
        <4>5. QED
          BY <4>3, <4>4
      <3>4. QED
        BY <1>0, <2>1, <3>1, <3>2, <3>3 DEF At, Pushing, Inserted
    <2>7. CASE MarkRest(x) \/ MarkSkipped(x) \/ MarkFailed(x)
      <3>1. End(x)
        BY <2>7 DEF MarkRest, MarkSkipped, MarkFailed, Complete
      <3>2. QED
        BY <1>i, <2>1, <3>1, MovedFields DEF At
    <2>8. QED
      BY <1>3, <2>2, <2>3, <2>4, <2>5, <2>6, <2>7 DEF Proceed, Advance
  <1>4. ASSUME Crash(x) \/ Fault(x) PROVE RunInv!(x)'
    <2>1. ~At(x, "idle")
      BY <1>4, Busy
    <2>2. CASE End(x)
      BY <1>i, <2>1, <2>2, MovedFields DEF At
    <2>3. QED
      BY <1>4, <1>f, <2>1, <2>2 DEF Crash, Fault
  <1>5. CASE run' = run
    BY <1>0, <1>5
  <1>6. ASSUME NEW w \in Worker, w # x,
               Proceed(w) \/ Crash(w) \/ Fault(w) \/ \E c \in Chunk : Start(w, c) \/ Doom(w, c)
        PROVE  RunInv!(x)'
    BY <1>0, <1>6, Others
  <1>7. QED
    BY <1>1, <1>2, <1>3, <1>4, <1>5, <1>6 DEF Next, vars, Drained, Stall

-----------------------------------------------------------------------------
LEMMA CompletedStep ==
    ASSUME TypeOK, JobInv, RunInv, CompletedInv, [Next]_vars
    PROVE  CompletedInv'
  <1> SUFFICES ASSUME NEW c \in Chunk, job'[c].state = "completed"
               PROVE  \A u \in cast.recipients[c] : row'[u] \notin {"none", "pending"}
    BY TypeStep DEF CompletedInv
  <1>0. cast.recipients[c] \subseteq User /\ job \in JobType
    BY CastFacts DEF TypeOK, JobType, JobState
  <1>1. CASE job[c].state = "completed"
    BY <1>0, <1>1, RowMoves DEF CompletedInv
  <1>2. ASSUME NEW w \in Worker, ~At(w, "idle"), Fail(w), job[c].state # "completed" PROVE FALSE
    <2>1. CASE c # run[w].chunk
      BY <1>2, <2>1, FailFrame
    <2>2. CASE c = run[w].chunk
      <3>1. CASE job' = job
        BY <1>2, <3>1
      <3>2. CASE job' = [job EXCEPT ![c].state = "waiting", ![c].owner = NoWorker,
                                    ![c].made = job[c].made + 1]
        BY <1>0, <1>2, <3>2 DEF JobType
      <3>3. CASE job' = [job EXCEPT ![c].state = "failed", ![c].owner = NoWorker,
                                    ![c].made = job[c].made + 1]
        BY <1>0, <1>2, <3>3 DEF JobType
      <3>4. QED
        BY <1>2, <2>2, <3>1, <3>2, <3>3 DEF Fail
    <2>3. QED
      BY <2>1, <2>2
  <1>3. ASSUME NEW w \in Worker, NEW d \in Chunk, Start(w, d) \/ Doom(w, d),
               job[c].state # "completed"
        PROVE  FALSE
    BY <1>0, <1>3 DEF Start, Doom, JobType
  <1>4. ASSUME NEW d \in Chunk, Stall(d), job[c].state # "completed" PROVE FALSE
    BY <1>0, <1>4 DEF Stall, JobType
  <1>5. ASSUME NEW w \in Worker, MarkRest(w) \/ MarkSkipped(w), job[c].state # "completed"
        PROVE  \A u \in cast.recipients[c] : row'[u] \notin {"none", "pending"}
    <2>1. ~At(w, "idle") /\ Pushing(w)
      BY <1>5 DEF MarkRest, MarkSkipped, At, Pushing
    <2>2. c = run[w].chunk
      BY <1>0, <1>5 DEF MarkRest, MarkSkipped, Complete, JobType
    <2>3. /\ Inserted(c)
          /\ \A u \in cast.recipients[c] : row[u] = "pending" => u \in run[w].rows
          /\ At(w, "markRest") => \A u \in Targets(w) : row[u] # "pending"
      BY <2>1, <2>2 DEF RunInv
    <2>4. CASE MarkRest(w)
      BY <1>0, <2>3, <2>4 DEF MarkRest, Set, Inserted
    <2>5. CASE MarkSkipped(w)
      BY <1>0, <2>3, <2>5 DEF MarkSkipped, Set, Inserted
    <2>6. QED
      BY <1>5, <2>4, <2>5
  <1>6. \/ job' = job
        \/ \E w \in Worker : \/ \E d \in Chunk : Start(w, d) \/ Doom(w, d)
                             \/ ~At(w, "idle") /\ Fail(w)
                             \/ MarkRest(w) \/ MarkSkipped(w)
        \/ \E d \in Chunk : Stall(d)
    BY Busy DEF Next, vars, Drained, Proceed, Advance, FindExisting, BulkInsert, FindPending,
                Push, NoAnswer, MarkSent, MarkFailed, Crash, Fault
  <1>7. QED
    BY <1>1, <1>2, <1>3, <1>4, <1>5, <1>6

\* A worker's own step leaves it outside process, or in it with its chunk and
\* its job as they were.
LEMMA ProcessingStep ==
    ASSUME TypeOK, NEW w \in Worker, Proceed(w) \/ Crash(w) \/ Fault(w), Processing(w)'
    PROVE  Processing(w) /\ run'[w].chunk = run[w].chunk /\ job' = job
  <1>1. ~At(w, "idle")
    BY Busy
  <1>2. ~End(w) /\ ~Goto(w, "terminal")
    BY <1>1, MovedFields DEF Processing
  <1>3. ~Fail(w) /\ ~Complete(w)
    BY <1>2 DEF Fail, Complete
  <1>4. job' = job /\ ~Crash(w) /\ ~Fault(w) /\ ~MarkFailed(w) /\ Processing(w)
    BY <1>2, <1>3 DEF Proceed, Advance, FindExisting, BulkInsert, FindPending, Push, NoAnswer,
                      MarkSent, MarkRest, MarkSkipped, MarkFailed, Crash, Fault,
                      Processing, At
  <1>5. CASE run' = [run EXCEPT ![w].tries = @ + 1]
    <2>1. run[w] \in Running
      BY <1>1, RunFacts
    <2>2. run'[w] = [run[w] EXCEPT !.tries = run[w].tries + 1]
      BY <1>5 DEF TypeOK
    <2>3. QED
      BY <1>4, <2>1, <2>2 DEF Running
  <1>6. CASE \E p, users : Goto(w, p) \/ Continue(w, p, users)
    BY <1>1, <1>4, <1>6, MovedFields
  <1>7. QED
    BY <1>3, <1>4, <1>5, <1>6
    DEF Proceed, Advance, FindExisting, BulkInsert, FindPending, Push, NoAnswer, MarkSent,
        MarkRest, MarkSkipped

LEMMA LockStep ==
    ASSUME TypeOK, JobInv, LockInv, [Next]_vars
    PROVE  LockInv'
  <1> SUFFICES ASSUME Unspent("overtake")', NEW x \in Worker, Processing(x)' PROVE Owns(x)'
    BY DEF LockInv
  <1>0. Unspent("overtake") /\ job \in JobType
    BY UnspentFalls DEF TypeOK, JobType, JobState
  <1> DEFINE c == run[x].chunk
  <1>a. ASSUME Processing(x) PROVE c \in Chunk /\ job[c].owner = x /\ job[c].state = "active"
    <2>1. ~At(x, "idle")
      BY <1>a DEF Processing, At
    <2>2. c \in Chunk /\ job[c].owner = x
      BY <1>0, <1>a, <2>1, RunFacts DEF LockInv, Owns
    <2>3. QED
      BY <2>2, OwnerFacts
  <1>b. ASSUME run'[x] = run[x], Processing(x) => job'[c] = job[c] PROVE Owns(x)'
    <2>1. Processing(x)
      BY <1>b DEF Processing
    <2>2. QED
      BY <1>a, <1>b, <2>1 DEF Owns
  <1>1. ASSUME NEW d \in Chunk, Start(x, d) PROVE Owns(x)'
    BY <1>0, <1>1 DEF Start, Owns, TypeOK, JobType
  <1>2. ASSUME NEW d \in Chunk, Doom(x, d) PROVE Owns(x)'
    BY <1>2 DEF Doom, TypeOK, Processing, At
  <1>3. ASSUME Proceed(x) \/ Crash(x) \/ Fault(x) PROVE Owns(x)'
    BY <1>3, <1>a, ProcessingStep DEF Owns
  <1>4. ASSUME NEW w \in Worker, w # x, NEW d \in Chunk, Start(w, d) \/ Doom(w, d) PROVE Owns(x)'
    <2>1. run'[x] = run[x]
      BY <1>4, Others
    <2>2. Processing(x) => job'[c] = job[c]
      BY <1>0, <1>4, <1>a DEF Start, Doom, JobType
    <2>3. QED
      BY <1>b, <2>1, <2>2
  <1>5. ASSUME NEW w \in Worker, w # x, Proceed(w) \/ Crash(w) \/ Fault(w) PROVE Owns(x)'
    <2>1. run'[x] = run[x] /\ ~At(w, "idle")
      BY <1>5, Others, Busy
    <2>2. job' = job \/ (Owns(w) /\ (Fail(w) \/ Complete(w)))
      BY <1>5 DEF Proceed, Advance, FindExisting, BulkInsert, FindPending, Push, NoAnswer,
                  MarkSent, MarkRest, MarkSkipped, MarkFailed, Crash, Fault, Fail,
                  Complete
    <2>3. ASSUME Processing(x), Owns(w), Fail(w) \/ Complete(w) PROVE job'[c] = job[c]
      <3>1. c # run[w].chunk
        BY <1>5, <1>a, <2>3 DEF Owns
      <3>2. QED
        BY <1>0, <1>a, <2>1, <2>3, <3>1, FailFrame DEF Complete, JobType
    <2>4. QED
      BY <1>b, <2>1, <2>2, <2>3
  <1>6. ASSUME NEW d \in Chunk, Stall(d) PROVE Owns(x)'
    <2>1. run' = run
      BY <1>6 DEF Stall
    <2>2. CASE Processing(x) /\ d = c
      <3>1. run[x].pc # "idle" /\ job[c].owner = x
        BY <1>a, <2>2 DEF Processing
      <3>2. budget.overtake > 0 /\ budget' = [budget EXCEPT !.overtake = @ - 1]
        BY <1>6, <2>2, <3>1 DEF Stall
      <3>3. ~Unspent("overtake")'
        BY <3>2, TypeStep, BudgetStep
      <3>4. QED
        BY <3>3
    <2>3. CASE ~(Processing(x) /\ d = c)
      <3>1. Processing(x) => job'[c] = job[c]
        BY <1>0, <1>6, <1>a, <2>3 DEF Stall, JobType
      <3>2. QED
        BY <1>b, <2>1, <3>1
    <2>4. QED
      BY <2>2, <2>3
  <1>7. CASE UNCHANGED <<job, run>>
    BY <1>7, <1>b
  <1>8. QED
    BY <1>1, <1>2, <1>3, <1>4, <1>5, <1>6, <1>7 DEF Next, vars, Drained

LEMMA AcceptedStep ==
    ASSUME TypeOK, RunInv, SentIsAccepted, [Next]_vars
    PROVE  SentIsAccepted'
  <1> SUFFICES ASSUME NEW u \in User, row'[u] = "sent" PROVE u \in accepted'
    BY DEF SentIsAccepted
  <1>1. CASE row[u] = "sent"
    BY <1>1, AcceptedGrows DEF SentIsAccepted
  <1>2. ASSUME NEW w \in Worker, MarkSent(w), u \in Targets(w) PROVE u \in accepted'
    BY <1>2, AcceptedGrows DEF MarkSent, RunInv, At
  <1>3. row'[u] = row[u] \/ \E w \in Worker : MarkSent(w) /\ u \in Targets(w)
    BY DEF Next, vars, Drained, Start, Doom, Proceed, Advance, FindExisting, BulkInsert,
           FindPending, Push, NoAnswer, MarkSent, MarkRest, MarkSkipped, MarkFailed, Crash,
           Fault, Stall, Set
  <1>4. QED
    BY <1>1, <1>2, <1>3

-----------------------------------------------------------------------------
LEMMA InitInv == Init => IInv
  <1> SUFFICES ASSUME Init PROVE IInv
    OBVIOUS
  <1>1. cast \in Cast
    BY CastAssumption DEF Init
  <1>2. \A b \in {"crash", "overtake", "fault"} : cast[b] \in Nat
    BY <1>1 DEF Cast
  <1>3. TypeOK
    <2>1. /\ row \in [User -> Status] /\ run \in [Worker -> Running \cup {Idle}]
          /\ pushed \in [User -> Nat] /\ accepted \in SUBSET User /\ cast \in Casts
      BY DEF Init, Status
    <2>2. job \in JobType
      BY DEF Init, JobType, JobState
    <2>3. /\ budget \in [{"crash", "overtake", "fault"} -> Nat]
          /\ \A b \in DOMAIN budget : budget[b] <= cast[b]
      BY <1>2 DEF Init
    <2>4. QED
      BY <2>1, <2>2, <2>3 DEF TypeOK, JobType, JobState
  <1>4. \A w \in Worker : At(w, "idle") /\ ~Processing(w)
    BY DEF Init, At, Idle, Processing
  <1>5. JobInv /\ CompletedInv
    BY DEF Init, JobInv, CompletedInv
  <1>6. RunInv /\ LockInv
    BY <1>4 DEF RunInv, LockInv
  <1>7. SentIsAccepted
    BY DEF Init, SentIsAccepted
  <1>8. QED
    BY <1>3, <1>5, <1>6, <1>7 DEF IInv

LEMMA Inductive == IInv /\ [Next]_vars => IInv'
  <1> SUFFICES ASSUME IInv, [Next]_vars PROVE IInv'
    OBVIOUS
  <1> USE DEF IInv
  <1>1. TypeOK' /\ JobInv' /\ RunInv'
    BY TypeStep, JobStep, RunStep
  <1>2. CompletedInv' /\ LockInv' /\ SentIsAccepted'
    BY CompletedStep, LockStep, AcceptedStep
  <1>3. QED
    BY <1>1, <1>2

LEMMA Invariance == Spec => []IInv
  BY InitInv, Inductive, PTL DEF Spec

\* Every variable keeps its type, and no broadcast's budget grows.
THEOREM TypeCorrect == Spec => []TypeOK
  <1>1. IInv => TypeOK
    BY DEF IInv
  <1>2. QED
    BY <1>1, Invariance, PTL

\* A row that says SENT (markPushStatusByIds of the targets, process) says it of
\* a user named in a call the provider accepted, and not with 0 recipients
\* (sendToExternalIds), whoever else works on the row, and through crashes,
\* overtakes and failed calls.
THEOREM SentIsAcceptedHolds == Spec => []SentIsAccepted
  <1>1. IInv => SentIsAccepted
    BY DEF IInv
  <1>2. QED
    BY <1>1, Invariance, PTL

-----------------------------------------------------------------------------
(* No second push. *)

\* Whoever writes a row holds it for a chunk that lists its user.
LEMMA Writers ==
    ASSUME IInv, [Next]_vars, NEW u \in User, row[u] # "none", row'[u] # row[u]
    PROVE  \E w \in Worker : /\ Processing(w) \/ At(w, "terminal")
                             /\ run[w].chunk \in Chunk /\ u \in cast.recipients[run[w].chunk]
                             /\ MarkSent(w) \/ MarkRest(w) \/ MarkSkipped(w) \/ MarkFailed(w)
  <1>1. ASSUME NEW w \in Worker, BulkInsert(w) PROVE row'[u] = row[u]
    BY <1>1 DEF BulkInsert, Conflicts, Set
  <1>2. \E w \in Worker : /\ MarkSent(w) \/ MarkRest(w) \/ MarkSkipped(w) \/ MarkFailed(w)
    BY <1>1 DEF Next, vars, Drained, Start, Doom, Proceed, Advance, FindExisting, FindPending,
                Push, NoAnswer, Crash, Fault, Stall
  <1>3. PICK w \in Worker : MarkSent(w) \/ MarkRest(w) \/ MarkSkipped(w) \/ MarkFailed(w)
    BY <1>2
  <1>4. Processing(w) \/ At(w, "terminal")
    BY <1>3 DEF MarkSent, MarkRest, MarkSkipped, MarkFailed, At, Processing
  <1>5. ~At(w, "idle")
    BY <1>4 DEF Processing, At
  <1>6. run[w].chunk \in Chunk /\ run[w].rows \subseteq cast.recipients[run[w].chunk]
    BY <1>5, RunFacts DEF IInv, RunInv
  <1>7. u \in cast.recipients[run[w].chunk]
    BY <1>3, <1>6 DEF MarkSent, MarkRest, MarkSkipped, MarkFailed, Set, Targets
  <1>8. QED
    BY <1>3, <1>4, <1>6, <1>7

\* Without overtaking, one worker processes a chunk, and none that has ended.
LEMMA OneProcesses ==
    ASSUME IInv, Unspent("overtake"), NEW w \in Worker, Processing(w)
    PROVE  /\ job[run[w].chunk].owner = w /\ job[run[w].chunk].state = "active"
           /\ \A x \in Worker \ {w} :
                Processing(x) \/ At(x, "terminal") => run[x].chunk # run[w].chunk
  <1>1. ASSUME NEW x \in Worker, Processing(x)
        PROVE  job[run[x].chunk].owner = x /\ job[run[x].chunk].state = "active"
    <2>1. ~At(x, "idle")
      BY <1>1 DEF Processing, At
    <2>2. run[x].chunk \in Chunk /\ job[run[x].chunk].owner = x
      BY <1>1, <2>1, RunFacts DEF IInv, LockInv, Owns
    <2>3. QED
      BY <2>2, OwnerFacts DEF IInv
  <1>2. \A x \in Worker : At(x, "terminal") => job[run[x].chunk].state = "failed"
    BY DEF IInv, RunInv, At
  <1>3. QED
    BY <1>1, <1>2

LEMMA FreshRowsStep ==
    ASSUME IInv, FreshRowsInv, [Next]_vars
    PROVE  FreshRowsInv'
  <1> SUFFICES ASSUME Disjoint', Unspent("overtake")', NEW w \in Worker, At(w, "push")',
                      NEW u \in run'[w].rows
               PROVE  row'[u] = "pending"
    BY DEF FreshRowsInv
  <1>1. Disjoint /\ Unspent("overtake")
    BY TypeStep, UnspentFalls DEF Disjoint, IInv
  <1>2. TypeOK /\ TypeOK'
    BY TypeStep DEF IInv
  <1>3. ASSUME run'[w] = run[w] PROVE row'[u] = "pending"
    <2>1. /\ At(w, "push") /\ Processing(w) /\ row[u] = "pending" /\ ~At(w, "idle")
          /\ u \in cast.recipients[run[w].chunk]
      BY <1>1, <1>3 DEF FreshRowsInv, At, Processing, IInv, RunInv
    <2>2. u \in User /\ run[w].chunk \in Chunk
      BY <1>2, <2>1, RunFacts, CastFacts
    <2>3. ASSUME row'[u] # row[u] PROVE FALSE
      <3>1. PICK x \in Worker :
              /\ Processing(x) \/ At(x, "terminal")
              /\ run[x].chunk \in Chunk /\ u \in cast.recipients[run[x].chunk]
              /\ MarkSent(x) \/ MarkRest(x) \/ MarkSkipped(x) \/ MarkFailed(x)
        BY <2>1, <2>2, <2>3, Writers
      <3>2. run[x].chunk = run[w].chunk
        BY <1>1, <2>1, <2>2, <3>1 DEF Disjoint
      <3>3. x = w
        BY <1>1, <2>1, <3>1, <3>2, OneProcesses
      <3>4. QED
        BY <2>1, <3>1, <3>3 DEF MarkSent, MarkRest, MarkSkipped, MarkFailed, At
    <2>4. QED
      BY <2>1, <2>3
  <1>4. CASE Proceed(w)
    <2>1. ~At(w, "idle")
      BY <1>4, Busy
    <2>2. ~End(w) /\ ~Goto(w, "terminal")
      BY <1>2, <2>1, MovedFields DEF At
    <2>3. ~Fail(w) /\ ~Complete(w)
      BY <2>2 DEF Fail, Complete
    <2>4. CASE FindPending(w)
      BY <1>2, <2>1, <2>4, MovedFields DEF FindPending
    <2>5. CASE Push(w)
      <3>1. run' = [run EXCEPT ![w].tries = @ + 1]
        BY <1>2, <2>1, <2>3, <2>5, MovedFields DEF Push, NoAnswer, At
      <3>2. run[w] \in Running /\ run'[w] = [run[w] EXCEPT !.tries = run[w].tries + 1]
        BY <1>2, <2>1, <3>1, RunFacts DEF TypeOK
      <3>3. run'[w].rows = run[w].rows /\ At(w, "push") /\ row' = row
        BY <2>5, <3>2 DEF Running, Push
      <3>4. QED
        BY <1>1, <3>3 DEF FreshRowsInv
    <2>6. QED
      BY <1>2, <1>4, <2>1, <2>2, <2>3, <2>4, <2>5, MovedFields
      DEF Proceed, Advance, FindExisting, BulkInsert, MarkSent, MarkRest, MarkSkipped, MarkFailed,
          At
  <1>5. CASE Crash(w) \/ Fault(w)
    BY <1>2, <1>5, Busy, MovedFields, FailEnds DEF Crash, Fault, At, IInv
  <1>6. ASSUME NEW c \in Chunk, Start(w, c) PROVE FALSE
    BY <1>2, <1>6 DEF Start, At, TypeOK
  <1>7. ASSUME NEW c \in Chunk, Doom(w, c) PROVE FALSE
    BY <1>2, <1>7 DEF Doom, At, TypeOK
  <1>8. ASSUME NEW x \in Worker, x # w,
               Proceed(x) \/ Crash(x) \/ Fault(x) \/ \E c \in Chunk : Start(x, c) \/ Doom(x, c)
        PROVE  run'[w] = run[w]
    BY <1>2, <1>8, Others
  <1>9. QED
    BY <1>3, <1>4, <1>5, <1>6, <1>7, <1>8 DEF Next, vars, Drained, Stall

\* "they are never pushed twice" (process): no call of the provider names a
\* user whose row says SENT, as long as no user is in two chunks and no worker
\* is overtaken.
THEOREM SentNotRepushedHolds == Spec => SentNotRepushed
  <1>1. Init => FreshRowsInv
    BY DEF Init, FreshRowsInv, At, Idle
  <1>2. IInv /\ FreshRowsInv /\ [Next]_vars => FreshRowsInv'
    BY FreshRowsStep
  <1>3. ASSUME IInv, FreshRowsInv, [Next]_vars, Disjoint, Unspent("overtake"), NEW u \in User,
               row[u] = "sent"
        PROVE  pushed'[u] = pushed[u]
    <2>1. ASSUME NEW w \in Worker, Push(w) PROVE pushed'[u] = pushed[u]
      <3>1. u \notin Targets(w)
        BY <1>3, <2>1 DEF FreshRowsInv, Push, Targets
      <3>2. QED
        BY <2>1, <3>1 DEF Push, Call
    <2>2. pushed' = pushed \/ \E w \in Worker : Push(w)
      BY <1>3 DEF Next, vars, Drained, Start, Doom, Proceed, Advance, FindExisting, BulkInsert,
                  FindPending, MarkSent, MarkRest, MarkSkipped, MarkFailed, Crash,
                  Fault, Stall
    <2>3. QED
      BY <2>1, <2>2
  <1>4. IInv /\ FreshRowsInv /\ [Next]_vars =>
          [Disjoint /\ Unspent("overtake") =>
              \A u \in User : row[u] = "sent" => pushed'[u] = pushed[u]]_vars
    BY <1>3
  <1>5. QED
    BY <1>1, <1>2, <1>4, Invariance, PTL DEF Spec, SentNotRepushed

-----------------------------------------------------------------------------
(* What a job leaves behind. *)

\* How a job can change: taken, completed or failed by its owner, stalled, or
\* failed for its stalls.
LEMMA JobMoves ==
    ASSUME IInv, [Next]_vars, NEW c \in Chunk
    PROVE  \/ job'[c] = job[c]
           \/ /\ job'[c].made = job[c].made /\ job'[c].stalls = job[c].stalls
              /\ job'[c].state = "active"
              /\ \E w \in Worker : Start(w, c) /\ job'[c].owner = w
           \/ /\ job[c].state = "doomed" /\ job'[c].stalls = job[c].stalls
              /\ job'[c].owner = job[c].owner
           \/ /\ job'[c].made = job[c].made /\ job'[c].stalls = job[c].stalls
              /\ job'[c].state = "completed" /\ job'[c].owner = NoWorker
           \/ \E w \in Worker :
              /\ ~At(w, "idle") /\ run[w].chunk = c /\ job[c].owner = w /\ Fail(w)
              /\ (BulkInsert(w) /\ Conflicts(w)) \/ Push(w) \/ Fault(w)
              /\ job'[c].made = job[c].made + 1 /\ job'[c].stalls = job[c].stalls
              /\ job'[c].owner = NoWorker
              /\ \/ job'[c].state = "waiting"
                 \/ job'[c].state = "failed" /\ Goto(w, "terminal")
           \/ /\ Stall(c) /\ job[c].state = "active" /\ job'[c].owner = NoWorker
              /\ job'[c].made = job[c].made /\ job'[c].stalls = job[c].stalls + 1
              /\ \/ job'[c].state = "waiting"
                 \/ job'[c].state = "doomed" /\ job'[c].stalls > MaxStalls
  <1>0. /\ job \in JobType /\ TypeOK
        /\ job[c].made \in Nat /\ job[c].stalls \in Nat
    BY JobFacts DEF IInv, TypeOK, JobType, JobState
  <1>1. ASSUME NEW w \in Worker, NEW d \in Chunk, Start(w, d)
        PROVE  \/ job'[c] = job[c]
               \/ /\ job'[c].made = job[c].made /\ job'[c].stalls = job[c].stalls
                  /\ job'[c].state = "active" /\ Start(w, c) /\ job'[c].owner = w
    BY <1>0, <1>1 DEF Start, JobType
  <1>2. ASSUME NEW w \in Worker, NEW d \in Chunk, Doom(w, d)
        PROVE  \/ job'[c] = job[c]
               \/ /\ job[c].state = "doomed" /\ job'[c].stalls = job[c].stalls
                  /\ job'[c].owner = job[c].owner
    BY <1>0, <1>2 DEF Doom, JobType
  <1>3. ASSUME NEW w \in Worker, ~At(w, "idle"), Complete(w)
        PROVE  \/ job'[c] = job[c]
               \/ /\ job'[c].made = job[c].made /\ job'[c].stalls = job[c].stalls
                  /\ job'[c].state = "completed" /\ job'[c].owner = NoWorker
    BY <1>0, <1>3 DEF Complete, JobType
  <1>4. ASSUME NEW w \in Worker, ~At(w, "idle"), Fail(w)
        PROVE  \/ job'[c] = job[c]
               \/ /\ run[w].chunk = c /\ job[c].owner = w
                  /\ job'[c].made = job[c].made + 1 /\ job'[c].stalls = job[c].stalls
                  /\ job'[c].owner = NoWorker
                  /\ \/ job'[c].state = "waiting"
                     \/ job'[c].state = "failed" /\ Goto(w, "terminal")
    <2>1. CASE c # run[w].chunk
      BY <1>0, <1>4, <2>1, FailFrame
    <2>2. CASE c = run[w].chunk
      <3>1. CASE ~Owns(w) /\ UNCHANGED job
        BY <3>1
      <3>2. CASE Owns(w) /\ job' = [job EXCEPT ![c].state = "waiting", ![c].owner = NoWorker,
                                              ![c].made = job[c].made + 1]
        BY <1>0, <2>2, <3>2 DEF Owns, JobType
      <3>3. CASE /\ Owns(w) /\ Goto(w, "terminal")
                 /\ job' = [job EXCEPT ![c].state = "failed", ![c].owner = NoWorker,
                                       ![c].made = job[c].made + 1]
        BY <1>0, <2>2, <3>3 DEF Owns, JobType
      <3>4. QED
        BY <1>4, <2>2, <3>1, <3>2, <3>3 DEF Fail
    <2>3. QED
      BY <2>1, <2>2
  <1>5. ASSUME NEW d \in Chunk, Stall(d)
        PROVE  \/ job'[c] = job[c]
               \/ /\ Stall(c) /\ job[c].state = "active" /\ job'[c].owner = NoWorker
                  /\ job'[c].made = job[c].made /\ job'[c].stalls = job[c].stalls + 1
                  /\ \/ job'[c].state = "waiting"
                     \/ job'[c].state = "doomed" /\ job'[c].stalls > MaxStalls
    <2>1. CASE c # d
      BY <1>0, <1>5, <2>1 DEF Stall, JobType
    <2>2. CASE c = d
      <3>1. /\ job'[c].state = IF job[c].stalls < MaxStalls THEN "waiting" ELSE "doomed"
            /\ job'[c].owner = NoWorker /\ job'[c].made = job[c].made
            /\ job'[c].stalls = job[c].stalls + 1 /\ job[c].state = "active"
        BY <1>0, <1>5, <2>2 DEF Stall, JobType
      <3>2. QED
        BY <1>0, <1>5, <2>2, <3>1
    <2>3. QED
      BY <2>1, <2>2
  <1>6. \/ job' = job
        \/ \E w \in Worker :
              \/ \E d \in Chunk : Start(w, d) \/ Doom(w, d)
              \/ ~At(w, "idle") /\ Complete(w)
              \/ /\ ~At(w, "idle") /\ Fail(w)
                 /\ (BulkInsert(w) /\ Conflicts(w)) \/ Push(w) \/ Fault(w)
        \/ \E d \in Chunk : Stall(d)
    BY Busy DEF Next, vars, Drained, Proceed, Advance, FindExisting, BulkInsert, FindPending,
                Push, NoAnswer, MarkSent, MarkRest, MarkSkipped, MarkFailed, Crash,
                Fault
  <1>7. QED
    BY <1>1, <1>2, <1>3, <1>4, <1>5, <1>6

LEMMA StallsGrow ==
    ASSUME IInv, [Next]_vars, NEW c \in Chunk, job'[c].stalls <= MaxStalls
    PROVE  job[c].stalls <= MaxStalls
  BY JobMoves, JobFacts DEF IInv

\* A missing row appears by an insert of all that its chunk is missing.
LEMMA NoneMoves ==
    ASSUME IInv, [Next]_vars, NEW u \in User, row[u] = "none", row'[u] # "none"
    PROVE  \E w \in Worker :
              /\ At(w, "insert") /\ At(w, "find")' /\ run'[w].chunk = run[w].chunk
              /\ ~Conflicts(w) /\ run[w].chunk \in Chunk
              /\ u \in run[w].rows /\ run[w].rows \subseteq cast.recipients[run[w].chunk]
              /\ row' = [v \in User |-> IF v \in run[w].rows THEN "pending" ELSE row[v]]
              /\ job' = job /\ budget' = budget /\ BulkInsert(w)
              /\ \A v \in cast.recipients[run[w].chunk] : row'[v] # "none"
  <1>0. TypeOK
    BY DEF IInv
  <1>1. ASSUME NEW w \in Worker, MarkSent(w) \/ MarkRest(w) \/ MarkSkipped(w), row'[u] # row[u]
        PROVE  FALSE
    <2>1. Pushing(w) /\ ~At(w, "idle")
      BY <1>1 DEF MarkSent, MarkRest, MarkSkipped, Pushing, At
    <2>2. Inserted(run[w].chunk) /\ run[w].rows \subseteq cast.recipients[run[w].chunk]
      BY <2>1 DEF IInv, RunInv
    <2>3. u \in run[w].rows
      BY <1>1 DEF MarkSent, MarkRest, MarkSkipped, Set, Targets
    <2>4. QED
      BY <2>2, <2>3 DEF Inserted
  <1>2. ASSUME NEW w \in Worker, MarkFailed(w) PROVE row'[u] = row[u]
    BY <1>2 DEF MarkFailed, Set
  <1>3. PICK w \in Worker : BulkInsert(w) /\ row' # row
    BY <1>1, <1>2 DEF Next, vars, Drained, Start, Doom, Proceed, Advance, FindExisting,
                      FindPending, Push, NoAnswer, Crash, Fault, Stall
  <1>4. /\ At(w, "insert") /\ ~Conflicts(w) /\ Goto(w, "find") /\ job' = job /\ budget' = budget
        /\ row' = [v \in User |-> IF v \in run[w].rows THEN "pending" ELSE row[v]]
    BY <1>3 DEF BulkInsert, Set
  <1>5. ~At(w, "idle")
    BY <1>4 DEF At
  <1>6. /\ run[w].chunk \in Chunk /\ run[w].rows \subseteq cast.recipients[run[w].chunk]
        /\ \A v \in cast.recipients[run[w].chunk] \ run[w].rows : row[v] # "none"
        /\ cast.recipients[run[w].chunk] \subseteq User
    BY <1>0, <1>4, <1>5, RunFacts, CastFacts DEF IInv, RunInv
  <1>7. u \in run[w].rows
    BY <1>4
  <1>8. \A v \in cast.recipients[run[w].chunk] : row'[v] # "none"
    BY <1>4, <1>6
  <1>9. At(w, "find")' /\ run'[w].chunk = run[w].chunk
    BY <1>0, <1>4, <1>5, MovedFields DEF At
  <1>10. QED
    BY <1>3, <1>4, <1>6, <1>7, <1>8, <1>9

LEMMA FaultSpends ==
    ASSUME IInv, [Next]_vars, NEW w \in Worker, Fault(w)
    PROVE  ~Unspent("fault")'
  <1>1. budget.fault > 0 /\ budget' = [budget EXCEPT !.fault = @ - 1]
    BY DEF Fault
  <1>2. QED
    BY <1>1, TypeStep, BudgetStep DEF IInv

\* The chunks that count against c are finitely many, and more and more.
LEMMA SharingGrows ==
    ASSUME IInv, [Next]_vars, NEW c \in Chunk
    PROVE  /\ IsFiniteSet(Sharing(c)) /\ Sharing(c)' = Sharing(c)
           /\ IsFiniteSet(SharingInserted(c)) /\ IsFiniteSet(SharingInserted(c)')
           /\ SharingInserted(c) \subseteq SharingInserted(c)'
           /\ SharingInserted(c) \subseteq Sharing(c)
  <1>1. cast' = cast /\ TypeOK
    BY TypeStep DEF IInv
  <1>2. Sharing(c)' = Sharing(c) /\ Sharing(c) \subseteq Chunk
    BY <1>1 DEF Sharing
  <1>3. IsFiniteSet(Sharing(c))
    BY <1>2, ChunkAssumption, FS_Subset
  <1>4. SharingInserted(c) \subseteq Sharing(c) /\ SharingInserted(c)' \subseteq Sharing(c)
    BY <1>2 DEF SharingInserted
  <1>5. SharingInserted(c) \subseteq SharingInserted(c)'
    BY <1>1, <1>2, InsertedStays DEF SharingInserted
  <1>6. QED
    BY <1>2, <1>3, <1>4, <1>5, FS_Subset

LEMMA SharingCard ==
    ASSUME IInv, [Next]_vars, NEW c \in Chunk
    PROVE  /\ Cardinality(SharingInserted(c)) \in Nat /\ Cardinality(SharingInserted(c)') \in Nat
           /\ Cardinality(SharingInserted(c)) <= Cardinality(SharingInserted(c)')
           /\ Cardinality(SharingInserted(c)) <= Cardinality(Sharing(c))
           /\ Cardinality(Sharing(c)) \in Nat
           /\ SharingInserted(c) # SharingInserted(c)' =>
                Cardinality(SharingInserted(c)) < Cardinality(SharingInserted(c)')
  BY SharingGrows, FS_CardinalityType, FS_Subset

LEMMA LossStep ==
    ASSUME IInv, LossInv, [Next]_vars
    PROVE  LossInv'
  <1> SUFFICES ASSUME NEW c \in Chunk, ~Inserted(c)', cast'.repeated[c] = {},
                      job'[c].stalls <= MaxStalls, Unspent("fault")'
               PROVE  /\ job'[c].made <= Cardinality(SharingInserted(c)')
                      /\ \A w \in Worker :
                           (At(w, "insert") /\ run[w].chunk = c /\ Owns(w) /\ Conflicts(w))' =>
                               job'[c].made < Cardinality(SharingInserted(c)')
    BY DEF LossInv
  <1> DEFINE n == Cardinality(SharingInserted(c))
             m == Cardinality(SharingInserted(c)')
  <1>0. /\ TypeOK /\ cast' = cast /\ cast.repeated[c] = {}
        /\ cast.recipients[c] \subseteq User /\ job[c].made \in Nat
    BY TypeStep, CastFacts, JobFacts DEF IInv
  <1>1. /\ n \in Nat /\ m \in Nat /\ n <= m
        /\ SharingInserted(c) # SharingInserted(c)' => n < m
    BY SharingCard
  <1>2. ~Inserted(c) /\ job[c].stalls <= MaxStalls /\ Unspent("fault")
    BY <1>0, InsertedStays, StallsGrow, UnspentFalls
  <1>3. /\ job[c].made <= n
        /\ \A w \in Worker : At(w, "insert") /\ run[w].chunk = c /\ Owns(w) /\ Conflicts(w) =>
              job[c].made < n
    BY <1>0, <1>2 DEF LossInv
  <1>4. ASSUME NEW w \in Worker, Fail(w), ~At(w, "idle"), run[w].chunk = c, job[c].owner = w,
               (BulkInsert(w) /\ Conflicts(w)) \/ Push(w) \/ Fault(w),
               job'[c].made = job[c].made + 1
        PROVE  job'[c].made <= n
    <2>1. ~Fault(w)
      BY FaultSpends
    <2>2. ~Push(w)
      BY <1>2, <1>4 DEF Push, IInv, RunInv, Pushing, At
    <2>3. At(w, "insert") /\ Owns(w) /\ Conflicts(w)
      BY <1>4, <2>1, <2>2 DEF BulkInsert, Owns
    <2>4. job[c].made < n
      BY <1>3, <1>4, <2>3
    <2>5. QED
      BY <1>0, <1>1, <1>4, <2>4
  <1>5. job'[c].made <= m
    <2>1. job[c].state # "doomed"
      BY <1>2, JobFacts DEF IInv, JobInv
    <2>2. job'[c].made = job[c].made \/ job'[c].made <= n
      BY <1>4, <2>1, JobMoves
    <2>3. job'[c].made \in Nat
      BY TypeStep DEF IInv, TypeOK
    <2>4. QED
      BY <1>0, <1>1, <1>3, <2>2, <2>3
  <1>6. ASSUME NEW w \in Worker, (At(w, "insert") /\ run[w].chunk = c /\ Owns(w) /\ Conflicts(w))'
        PROVE  job'[c].made < m
    <2>1. ~At(w, "insert")' \/ run'[w] = run[w] \/ FindExisting(w)
      <3>1. CASE Proceed(w) \/ Crash(w) \/ Fault(w)
        <4>1. ~At(w, "idle")
          BY <3>1, Busy
        <4>2. At(w, "insert")' => ~End(w) /\ ~Goto(w, "terminal")
          BY <1>0, <4>1, MovedFields DEF At
        <4>3. At(w, "insert")' => ~Fail(w) /\ ~Complete(w) /\ ~MarkFailed(w)
          BY <4>2 DEF Fail, Complete, MarkFailed
        <4>4. CASE run' = [run EXCEPT ![w].tries = @ + 1] /\ At(w, "push")
          <5>1. run[w] \in Running /\ run'[w] = [run[w] EXCEPT !.tries = run[w].tries + 1]
            BY <1>0, <4>1, <4>4, RunFacts DEF TypeOK
          <5>2. QED
            BY <4>4, <5>1 DEF Running, At
        <4>5. CASE FindPending(w)
          BY <1>0, <4>1, <4>5, MovedFields DEF FindPending, At
        <4>6. CASE \E p \in {"find", "markSent", "markRest", "markSkipped"} : Goto(w, p)
          BY <1>0, <4>1, <4>6, MovedFields DEF At
        <4>7. QED
          BY <3>1, <4>2, <4>3, <4>4, <4>5, <4>6
          DEF Proceed, Advance, BulkInsert, Push, NoAnswer, MarkSent, MarkRest, MarkSkipped,
              Crash, Fault
      <3>2. ASSUME NEW d \in Chunk, Start(w, d) PROVE ~At(w, "insert")'
        BY <1>0, <3>2 DEF Start, At, TypeOK
      <3>3. ASSUME NEW d \in Chunk, Doom(w, d) PROVE ~At(w, "insert")' \/ run'[w] = run[w]
        BY <1>0, <3>3 DEF Doom, At, TypeOK
      <3>4. ASSUME NEW x \in Worker, x # w,
                   Proceed(x) \/ Crash(x) \/ Fault(x) \/ \E d \in Chunk : Start(x, d) \/ Doom(x, d)
            PROVE  run'[w] = run[w]
        BY <1>0, <3>4, Others
      <3>5. QED
        BY <3>1, <3>2, <3>3, <3>4 DEF Next, vars, Drained, Stall
    <2>2. CASE FindExisting(w)
      <3>1. /\ ~At(w, "idle") /\ row' = row
            /\ run'[w].rows = {u \in cast.recipients[run[w].chunk] : row[u] = "none"}
        BY <1>0, <2>2, MovedFields DEF FindExisting, At
      <3>2. QED
        BY <1>0, <1>6, <3>1 DEF Conflicts
    <2>3. CASE run'[w] = run[w]
      <3>1. At(w, "insert") /\ run[w].chunk = c /\ job'[c].owner = w /\ ~At(w, "idle")
        BY <1>6, <2>3 DEF At, Owns
      <3>2. job[c].owner = w /\ job'[c].made = job[c].made
        <4>1. ~\E x \in Worker : Start(x, c) /\ job'[c].owner = x
          BY <3>1 DEF Start, At
        <4>2. job[c].state # "doomed"
          BY <1>2, JobFacts DEF IInv, JobInv
        <4>3. QED
          BY <3>1, <4>1, <4>2, JobMoves
      <3>3. CASE Conflicts(w)
        BY <1>0, <1>1, <1>3, <3>1, <3>2, <3>3 DEF Owns
      <3>4. CASE ~Conflicts(w)
        <4>1. PICK u \in run[w].rows : row'[u] # "none"
          BY <1>0, <1>6, <2>3 DEF Conflicts
        <4>2. row[u] = "none" /\ u \in cast.recipients[c] /\ u \in User
          BY <1>0, <3>1, <3>4 DEF Conflicts, IInv, RunInv
        <4>3. PICK x \in Worker :
                /\ run[x].chunk \in Chunk /\ u \in cast.recipients[run[x].chunk]
                /\ \A v \in cast.recipients[run[x].chunk] : row'[v] # "none"
          BY <4>1, <4>2, NoneMoves
        <4>4. run[x].chunk # c
          BY <1>0, <4>3 DEF Inserted
        <4>5. run[x].chunk \in SharingInserted(c)' /\ run[x].chunk \notin SharingInserted(c)
          BY <1>0, <4>2, <4>3, <4>4 DEF SharingInserted, Sharing, Inserted
        <4>6. n < m
          BY <1>1, <4>5
        <4>7. QED
          BY <1>0, <1>1, <1>3, <3>2, <4>6
      <3>5. QED
        BY <3>3, <3>4
    <2>4. QED
      BY <1>6, <2>1, <2>2, <2>3
  <1>7. QED
    BY <1>5, <1>6

\* "the inbox insert is the canonical record either way" (process): whatever
\* became of the push, a job that ended by its attempts has left a row for each
\* recipient, if it had an attempt more than chunks that share a user with it.
THEOREM InboxEitherWayHolds == Spec => []InboxEitherWay
  <1>1. Init => LossInv
    <2> SUFFICES ASSUME Init PROVE LossInv
      OBVIOUS
    <2>1. ASSUME NEW c \in Chunk PROVE Cardinality(SharingInserted(c)) \in Nat
      BY ChunkAssumption, FS_Subset, FS_CardinalityType DEF SharingInserted, Sharing
    <2>2. QED
      BY <2>1 DEF Init, LossInv, At, Idle
  <1>2. IInv /\ LossInv /\ [Next]_vars => LossInv'
    BY LossStep
  <1>3. ASSUME IInv, LossInv PROVE InboxEitherWay
    <2> SUFFICES ASSUME NEW c \in Chunk, Settled(c), cast.repeated[c] = {},
                        job[c].stalls <= MaxStalls, Unspent("fault"),
                        Cardinality(Sharing(c)) < Attempts, ~Inserted(c)
                 PROVE  FALSE
      BY DEF InboxEitherWay, Inserted
    <2>1. job[c].state = "failed"
      BY <1>3 DEF Settled, IInv, CompletedInv, Inserted
    <2>2. job[c].made >= Attempts /\ job[c].made \in Nat
      BY <1>3, <2>1, JobFacts DEF IInv, JobInv
    <2>3. job[c].made <= Cardinality(SharingInserted(c))
      BY <1>3 DEF LossInv
    <2>4. /\ Cardinality(SharingInserted(c)) <= Cardinality(Sharing(c))
          /\ Cardinality(SharingInserted(c)) \in Nat /\ Cardinality(Sharing(c)) \in Nat
      BY ChunkAssumption, FS_Subset, FS_CardinalityType DEF SharingInserted, Sharing
    <2>5. QED
      BY <2>2, <2>3, <2>4
  <1>4. IInv /\ LossInv => InboxEitherWay
    BY <1>3
  <1>5. QED
    BY <1>1, <1>2, <1>4, Invariance, PTL DEF Spec

LEMMA CrashSpends ==
    ASSUME IInv, [Next]_vars, NEW w \in Worker, Crash(w)
    PROVE  ~Unspent("crash")'
  <1>1. budget.crash > 0 /\ budget' = [budget EXCEPT !.crash = @ - 1]
    BY DEF Crash
  <1>2. QED
    BY <1>1, TypeStep, BudgetStep DEF IInv

\* A worker in the failed handler of a chunk stays there until it is done.
LEMMA TerminalStays ==
    ASSUME IInv, [Next]_vars, NEW w \in Worker, At(w, "terminal"),
           Unspent("crash")', Unspent("fault")'
    PROVE  run'[w] = run[w] \/ MarkFailed(w)
  <1>1. ~Crash(w) /\ ~Fault(w)
    BY CrashSpends, FaultSpends
  <1>2. Proceed(w) => MarkFailed(w)
    BY DEF Proceed, Advance, FindExisting, BulkInsert, FindPending, Push, NoAnswer, MarkSent,
           MarkRest, MarkSkipped, At
  <1>3. ASSUME NEW d \in Chunk PROVE ~Start(w, d) /\ ~Doom(w, d)
    BY DEF Start, Doom, At
  <1>4. ASSUME NEW x \in Worker, x # w,
               Proceed(x) \/ Crash(x) \/ Fault(x) \/ \E d \in Chunk : Start(x, d) \/ Doom(x, d)
        PROVE  run'[w] = run[w]
    BY <1>4, Others DEF IInv
  <1>5. QED
    BY <1>1, <1>2, <1>3, <1>4 DEF Next, vars, Drained, Stall

\* No pending row survives the failed handler of its chunk.
LEMMA HandlerCleans ==
    ASSUME IInv, NEW w \in Worker, MarkFailed(w), NEW u \in cast.recipients[run[w].chunk],
           row'[u] = "pending"
    PROVE  FALSE
  <1>1. ~At(w, "idle")
    BY DEF MarkFailed, At
  <1>2. u \in User
    BY <1>1, RunFacts, CastFacts DEF IInv
  <1>3. QED
    BY <1>2 DEF MarkFailed, Set

LEMMA AloneStep ==
    ASSUME IInv, AloneInv, [Next]_vars
    PROVE  AloneInv'
  <1> SUFFICES ASSUME NEW c \in Chunk, Sharing(c)' = {} PROVE AloneInv!(c)!2'
    BY DEF AloneInv
  <1> DEFINE R == cast.recipients[c]
             Twice == cast.repeated[c]
  <1>0. /\ TypeOK /\ TypeOK' /\ cast' = cast /\ R \subseteq User /\ Sharing(c) = {} /\ R' = R
        /\ Inserted(c)' <=> \A u \in R : row'[u] # "none"
    BY TypeStep, CastFacts DEF IInv, Sharing, Inserted
  <1>1. /\ Inserted(c) \/ \A u \in R : row[u] = "none"
        /\ R \cap Twice # {} => \A u \in R : row[u] = "none"
    BY <1>0 DEF AloneInv
  <1>2. ASSUME NEW u \in R, row[u] = "none", row'[u] # "none"
        PROVE  /\ Inserted(c)' /\ R \cap Twice = {} /\ job' = job
               /\ \A v \in R : row[v] = "none"
    <2>1. PICK w \in Worker :
            /\ At(w, "insert") /\ ~Conflicts(w) /\ run[w].chunk \in Chunk
            /\ u \in run[w].rows /\ run[w].rows \subseteq cast.recipients[run[w].chunk]
            /\ job' = job /\ \A v \in cast.recipients[run[w].chunk] : row'[v] # "none"
      BY <1>0, <1>2, NoneMoves
    <2>2. run[w].chunk = c
      BY <1>0, <2>1 DEF Sharing
    <2>3. ~At(w, "idle")
      BY <2>1 DEF At
    <2>4. \A v \in R \ run[w].rows : row[v] # "none"
      BY <2>1, <2>2, <2>3 DEF IInv, RunInv
    <2>5. \A v \in R : row[v] = "none"
      BY <1>1, <1>2 DEF Inserted
    <2>6. R \cap Twice = {}
      BY <2>1, <2>2, <2>4, <2>5 DEF Conflicts
    <2>7. QED
      BY <1>0, <2>1, <2>2, <2>5, <2>6
  <1>3. /\ Inserted(c)' \/ \A u \in R : row'[u] = "none"
        /\ R \cap Twice # {} => \A u \in R : row'[u] = "none"
    <2>1. CASE \E u \in R : row[u] = "none" /\ row'[u] # "none"
      BY <1>2, <2>1
    <2>2. CASE \A u \in R : row[u] = "none" => row'[u] = "none"
      BY <1>0, <1>1, <2>2, InsertedStays
    <2>3. QED
      BY <2>1, <2>2
  <1>4. ASSUME Unspent("crash")', Unspent("fault")', job'[c].stalls <= MaxStalls
        PROVE  /\ job'[c].state = "failed" => Inserted(c)' \/ R \cap Twice # {}
               /\ (\E u \in R : row'[u] = "pending") =>
                     \/ job'[c].state \in {"waiting", "active"}
                     \/ \E w \in Worker : At(w, "terminal")' /\ run'[w].chunk = c
    <2>1. /\ Unspent("crash") /\ Unspent("fault") /\ job[c].stalls <= MaxStalls
          /\ job[c].state # "doomed" /\ job[c].state \in JobState
      BY <1>0, <1>4, StallsGrow, UnspentFalls, JobFacts DEF IInv, JobInv
    <2>2. /\ job[c].state = "failed" => Inserted(c) \/ R \cap Twice # {}
          /\ (\E u \in R : row[u] = "pending") =>
                \/ job[c].state \in {"waiting", "active"}
                \/ \E w \in Worker : At(w, "terminal") /\ run[w].chunk = c
      BY <1>0, <2>1 DEF AloneInv
    <2>3. ASSUME NEW w \in Worker, ~At(w, "idle"), run[w].chunk = c,
                 (BulkInsert(w) /\ Conflicts(w)) \/ Push(w) \/ Fault(w)
          PROVE  Inserted(c) \/ R \cap Twice # {}
      <3>1. ~Fault(w)
        BY <1>4, FaultSpends
      <3>2. Push(w) => Inserted(c)
        BY <2>3 DEF Push, Pushing, At, IInv, RunInv
      <3>3. run[w].rows \subseteq R
        BY <2>3 DEF IInv, RunInv
      <3>4. Conflicts(w) => Inserted(c) \/ R \cap Twice # {}
        BY <1>1, <2>3, <3>3 DEF Conflicts
      <3>5. QED
        BY <2>3, <3>1, <3>2, <3>4
    <2>4. job'[c].state = "failed" => Inserted(c)' \/ R \cap Twice # {}
      <3>1. job'[c].state = "failed" => Inserted(c) \/ R \cap Twice # {}
        BY <2>1, <2>2, <2>3, JobMoves
      <3>2. QED
        BY <1>0, <3>1, InsertedStays
    <2>5. ASSUME NEW u \in R, row'[u] = "pending"
          PROVE  \/ job'[c].state \in {"waiting", "active"}
                 \/ \E w \in Worker : At(w, "terminal")' /\ run'[w].chunk = c
      <3>1. job'[c].state # "completed" /\ job'[c].state # "doomed"
        <4>1. IInv'
          BY Inductive
        <4>2. job'[c].state # "completed"
          BY <1>0, <2>5, <4>1 DEF IInv, CompletedInv
        <4>3. job'[c].stalls \in Nat
          BY <1>0 DEF TypeOK
        <4>4. QED
          BY <1>4, <4>1, <4>2, <4>3 DEF IInv, JobInv
      <3>2. CASE row[u] = "none"
        <4>1. job' = job /\ R \cap Twice = {} /\ \A v \in R : row[v] = "none"
          BY <1>2, <2>5, <3>2
        <4>2. job[c].state # "failed"
          BY <2>2, <3>2, <4>1 DEF Inserted
        <4>3. QED
          BY <2>1, <3>1, <4>1, <4>2 DEF JobState
      <3>3. CASE row[u] # "none"
        <4>1. row[u] = "pending"
          BY <1>0, <2>5, <3>3, RowMoves
        <4>2. ASSUME NEW w \in Worker, At(w, "terminal"), run[w].chunk = c
              PROVE  At(w, "terminal")' /\ run'[w].chunk = c
          <5>1. ~MarkFailed(w)
            BY <2>5, <4>2, HandlerCleans
          <5>2. run'[w] = run[w]
            BY <1>4, <4>2, <5>1, TerminalStays
          <5>3. QED
            BY <4>2, <5>2 DEF At
        <4>3. ASSUME NEW w \in Worker, ~At(w, "idle"), run[w].chunk = c, Goto(w, "terminal")
              PROVE  At(w, "terminal")' /\ run'[w].chunk = c
          BY <1>0, <4>3, MovedFields DEF At
        <4>4. CASE job[c].state \in {"waiting", "active"}
          BY <2>1, <3>1, <4>3, <4>4, JobMoves
        <4>5. QED
          BY <2>2, <4>1, <4>2, <4>4
      <3>4. QED
        BY <3>2, <3>3
    <2>6. QED
      BY <2>4, <2>5
  <1>5. QED
    BY <1>0, <1>3, <1>4

\* A lock that lapses under a worker on the job is an overtake.
LEMMA StallSpends ==
    ASSUME IInv, [Next]_vars, NEW c \in Chunk, NEW w \in Worker, Stall(c), job[c].owner = w,
           Processing(w), run[w].chunk = c
    PROVE  ~Unspent("overtake")'
  <1>1. run[w].pc # "idle"
    BY DEF Processing
  <1>2. budget.overtake > 0 /\ budget' = [budget EXCEPT !.overtake = @ - 1]
    BY <1>1 DEF Stall
  <1>3. QED
    BY <1>2, TypeStep, BudgetStep DEF IInv

LEMMA CalmStep ==
    ASSUME IInv, CalmInv, [Next]_vars
    PROVE  CalmInv'
  <1> SUFFICES ASSUME Unspent("crash")', Unspent("overtake")' PROVE CalmInv!2'
    BY DEF CalmInv
  <1>0. /\ TypeOK /\ TypeOK' /\ IInv' /\ cast' = cast /\ job \in JobType
        /\ Unspent("crash") /\ Unspent("overtake")
    BY TypeStep, UnspentFalls, Inductive DEF IInv, TypeOK, JobType, JobState
  <1>1. \A c \in Chunk :
          /\ job[c].stalls = 0
          /\ \A w \in Worker : job[c].owner = w => Processing(w) /\ run[w].chunk = c
    BY <1>0 DEF CalmInv
  <1>2. \A c \in Chunk : job[c].state # "doomed"
    BY <1>1 DEF IInv, JobInv
  <1>3. ASSUME NEW c \in Chunk, Stall(c) PROVE FALSE
    <2>1. job[c].owner \in Worker
      BY <1>0, <1>3, JobFacts DEF Stall, IInv, JobInv
    <2>2. QED
      BY <1>0, <1>1, <1>3, <2>1, StallSpends
  <1>4. ASSUME NEW c \in Chunk PROVE job'[c].stalls = 0
    BY <1>1, <1>2, <1>3, JobMoves
  <1>5. ASSUME NEW c \in Chunk, NEW w \in Worker, job'[c].owner = w
        PROVE  Processing(w)' /\ run'[w].chunk = c
    <2>1. CASE job'[c] # job[c]
      <3>1. PICK x \in Worker : Start(x, c) /\ job'[c].owner = x
        BY <1>2, <1>3, <1>5, <2>1, JobMoves
      <3>2. run'[w] = [pc |-> "existing", chunk |-> c, rows |-> {}, tries |-> 0]
        BY <1>0, <1>5, <3>1 DEF Start, TypeOK
      <3>3. QED
        BY <3>2 DEF Processing
    <2>2. CASE job'[c] = job[c]
      <3>1. Processing(w) /\ run[w].chunk = c /\ job[c].owner = w
        BY <1>1, <1>5, <2>2
      <3>2. ~At(w, "idle") /\ ~At(w, "terminal") /\ Owns(w)
        BY <3>1 DEF Processing, At, Owns
      <3>3. CASE run'[w] = run[w]
        BY <3>1, <3>3 DEF Processing
      <3>4. CASE Proceed(w) \/ Fault(w)
        <4>1. ~Fail(w)
          BY <1>0, <1>5, <3>1, <3>2 DEF Fail, JobType
        <4>2. ~Complete(w)
          BY <1>0, <1>5, <3>1, <3>2 DEF Complete, JobType
        <4>3. ~Fault(w) /\ ~MarkFailed(w)
          BY <3>2, <4>1 DEF Fault, MarkFailed
        <4>4. CASE run' = [run EXCEPT ![w].tries = @ + 1] /\ At(w, "push")
          <5>1. run[w] \in Running /\ run'[w] = [run[w] EXCEPT !.tries = run[w].tries + 1]
            BY <1>0, <3>2, <4>4, RunFacts DEF TypeOK
          <5>2. QED
            BY <3>1, <4>4, <5>1 DEF Running, Processing, At
        <4>5. CASE \E p \in {"insert", "find", "push", "markSent", "markRest", "markSkipped"} :
                      Goto(w, p) \/ \E users : Continue(w, p, users)
          BY <1>0, <3>1, <3>2, <4>5, MovedFields DEF Processing
        <4>6. QED
          BY <3>4, <4>1, <4>2, <4>3, <4>4, <4>5
          DEF Proceed, Advance, FindExisting, BulkInsert, FindPending, Push, NoAnswer, MarkSent,
              MarkRest, MarkSkipped
      <3>5. ~Crash(w) /\ \A d \in Chunk : ~Start(w, d) /\ ~Doom(w, d)
        BY <3>2, CrashSpends DEF Start, Doom
      <3>6. ASSUME NEW x \in Worker, x # w,
                   Proceed(x) \/ Crash(x) \/ Fault(x) \/ \E d \in Chunk : Start(x, d) \/ Doom(x, d)
            PROVE  run'[w] = run[w]
        BY <1>0, <3>6, Others
      <3>7. QED
        BY <3>3, <3>4, <3>5, <3>6 DEF Next, vars, Drained, Stall
    <2>3. QED
      BY <2>1, <2>2
  <1>6. ASSUME Unspent("fault")', NEW u \in User, row'[u] = "pending"
        PROVE  \E d \in Chunk : u \in cast.recipients[d] /\ ~Settled(d)'
    <2>1. CASE row[u] = "none"
      <3>1. PICK w \in Worker : /\ At(w, "find")' /\ run'[w].chunk = run[w].chunk
                                /\ run[w].chunk \in Chunk
                                /\ u \in cast.recipients[run[w].chunk]
        BY <1>6, <2>1, NoneMoves
      <3>2. ~At(w, "idle")'
        BY <3>1 DEF At
      <3>3. QED
        BY <3>1, <3>2 DEF Settled
    <2>2. CASE row[u] # "none"
      <3>1. row[u] = "pending" /\ Unspent("fault")
        BY <1>0, <1>6, <2>2, RowMoves, UnspentFalls
      <3>2. PICK d \in Chunk : u \in cast.recipients[d] /\ ~Settled(d)
        BY <1>0, <3>1 DEF CalmInv
      <3>3. job'[d].state # "completed"
        BY <1>0, <1>6, <3>2 DEF IInv, CompletedInv
      <3>4. CASE job'[d].state # "failed"
        BY <3>2, <3>3, <3>4 DEF Settled
      <3>5. CASE job'[d].state = "failed" /\ job[d].state # "failed"
        <4>1. PICK w \in Worker : ~At(w, "idle") /\ run[w].chunk = d /\ Goto(w, "terminal")
          BY <1>2, <1>3, <3>5, JobMoves
        <4>2. run'[w].pc = "terminal" /\ run'[w].chunk = d
          BY <1>0, <4>1, MovedFields
        <4>3. QED
          BY <3>2, <4>2 DEF Settled, At
      <3>6. CASE job[d].state = "failed"
        <4>1. PICK w \in Worker : ~At(w, "idle") /\ run[w].chunk = d
          BY <3>2, <3>6 DEF Settled
        <4>2. ~Processing(w)
          BY <1>0, <3>6, <4>1, OneProcesses
        <4>3. At(w, "terminal")
          BY <1>0, <4>1, <4>2, RunFacts DEF Processing, At
        <4>4. ~MarkFailed(w)
          BY <1>6, <3>2, <4>1, HandlerCleans
        <4>5. run'[w] = run[w]
          BY <1>6, <4>3, <4>4, TerminalStays
        <4>6. QED
          BY <3>2, <4>1, <4>5 DEF Settled, At
      <3>7. QED
        BY <3>4, <3>5, <3>6
    <2>3. QED
      BY <2>1, <2>2
  <1>7. QED
    BY <1>0, <1>4, <1>5, <1>6

\* "so they don't sit PENDING forever" (onFailed): a job that is over leaves no
\* recipient PENDING, except by a crash or a failed call, while another chunk
\* will see to the row, or after an overtake of a chunk that shares a user or
\* stalled too often.
THEOREM SettledNotPendingHolds == Spec => []SettledNotPending
  <1>1. Init => AloneInv /\ CalmInv
    <2> SUFFICES ASSUME Init PROVE AloneInv /\ CalmInv
      OBVIOUS
    <2>1. \A c \in Chunk : /\ job[c].state = "waiting" /\ job[c].stalls = 0
                           /\ job[c].owner = NoWorker
      BY DEF Init
    <2>2. \A u \in User : row[u] = "none"
      BY DEF Init
    <2>3. IInv
      BY InitInv
    <2>4. \A c \in Chunk : \A u \in cast.recipients[c] : row[u] = "none"
      BY <2>2, <2>3, CastFacts DEF IInv
    <2>5. QED
      BY <2>1, <2>2, <2>4 DEF AloneInv, CalmInv
  <1>2. IInv /\ AloneInv /\ CalmInv /\ [Next]_vars => AloneInv' /\ CalmInv'
    BY AloneStep, CalmStep
  <1>3. ASSUME IInv, AloneInv, CalmInv, NEW c \in Chunk, Settled(c), NEW u \in cast.recipients[c],
               row[u] = "pending", Unspent("crash"), Unspent("fault")
        PROVE  /\ job[c].state = "failed"
               /\ \/ \E d \in Chunk : u \in cast.recipients[d] /\ ~Settled(d)
                  \/ ~Unspent("overtake") /\ (Sharing(c) # {} \/ job[c].stalls > MaxStalls)
    <2>1. job[c].state = "failed"
      BY <1>3 DEF Settled, IInv, CompletedInv
    <2>2. u \in User
      BY <1>3, CastFacts DEF IInv
    <2>3. CASE Unspent("overtake")
      BY <1>3, <2>1, <2>2, <2>3 DEF CalmInv
    <2>4. CASE ~Unspent("overtake") /\ Sharing(c) = {} /\ job[c].stalls <= MaxStalls
      <3>1. \E w \in Worker : At(w, "terminal") /\ run[w].chunk = c
        BY <1>3, <2>1, <2>4 DEF AloneInv
      <3>2. QED
        BY <1>3, <3>1 DEF Settled, At
    <2>5. job[c].stalls \in Nat
      BY <1>3, JobFacts DEF IInv
    <2>6. QED
      BY <2>1, <2>3, <2>4, <2>5
  <1>4. ASSUME IInv, AloneInv, CalmInv, NEW c \in Chunk, Settled(c), NEW u \in cast.recipients[c],
               row[u] = "pending"
        PROVE  job[c].state = "failed"
    BY <1>4 DEF Settled, IInv, CompletedInv
  <1>5. IInv /\ AloneInv /\ CalmInv => SettledNotPending
    BY <1>3, <1>4 DEF SettledNotPending
  <1>6. QED
    BY <1>1, <1>2, <1>5, Invariance, PTL DEF Spec
=============================================================================
