------------------------------ MODULE Broadcast ------------------------------
(***************************************************************************)
(* The fan-out of one broadcast.  NotificationQueueService has split the   *)
(* recipients into chunks, one BullMQ job each; workers run a job in two   *)
(* phases, first the inbox rows, then the push, and record how the push    *)
(* ended in each row.  A failed attempt is retried, a job whose worker     *)
(* went silent is handed to another one.  Every await is a step.           *)
(*                                                                         *)
(* A row is abstracted to its push status.  The provider is external: it   *)
(* answers a call, with the number of recipients or without, or does not   *)
(* answer.  Whom it reached it does not say, and the rows do not tell.     *)
(***************************************************************************)
EXTENDS Naturals, FiniteSets

CONSTANTS
    Worker,        \* slots that run jobs, in any number of processes
    Chunk,         \* the jobs of the broadcast
    User,
    Casts,         \* the broadcasts to consider
    Aliased,       \* users with a push alias
    Attempts,      \* job attempts (QUEUE_DEFAULT_ATTEMPTS)
    Tries,         \* calls of the provider in one attempt
    MaxStalls      \* stalls BullMQ forgives a job

ASSUME LimitsAssumption ==
    Attempts \in Nat \ {0} /\ Tries \in Nat \ {0} /\ MaxStalls \in Nat

Cast ==
    [recipients: [Chunk -> SUBSET User],  \* the users of each chunk
     repeated: [Chunk -> SUBSET User],    \* those it lists more than once
     crash: Nat,       \* bound on workers that die
     overtake: Nat,    \* bound on live workers taken for dead
     fault: Nat]       \* bound on database calls that fail

ASSUME ChunkAssumption == IsFiniteSet(Chunk)
ASSUME CastAssumption == Casts \subseteq Cast /\ Aliased \subseteq User

VARIABLES
    cast,     \* the broadcast that was enqueued, fixed
    row,      \* push status of each user's inbox row, or "none"
    job,      \* state of each chunk's job in the queue
    run,      \* what each worker is doing
    pushed,   \* history: calls of the provider that named each user
    accepted, \* history: users named in a call that was not answered with 0 recipients
    budget    \* crashes, overtakes and faults that may still happen

vars == <<cast, row, job, run, pushed, accepted, budget>>

Status == {"none", "pending", "sent", "skipped", "failed"}
NoWorker == "no worker"
ASSUME WorkerAssumption == NoWorker \notin Worker
Idle == [pc |-> "idle"]
Running ==
    [pc: {"existing", "insert", "find", "push", "markSent", "markRest", "markSkipped", "terminal"},
     chunk: Chunk,
     rows: SUBSET User,   \* rows to insert; then those found pending
     tries: 0..Tries]

TypeOK ==
    /\ row \in [User -> Status]
    /\ job \in [Chunk -> [state: {"waiting", "active", "doomed", "completed", "failed"},
                          owner: Worker \cup {NoWorker}, made: 0..Attempts, stalls: Nat]]
    /\ run \in [Worker -> Running \cup {Idle}]
    /\ pushed \in [User -> Nat]
    /\ accepted \in SUBSET User
    /\ cast \in Casts
    /\ budget \in [{"crash", "overtake", "fault"} -> Nat]
    /\ \A b \in DOMAIN budget : budget[b] <= cast[b]

Init ==
    /\ cast \in Casts
    /\ row = [u \in User |-> "none"]
    /\ job = [c \in Chunk |-> [state |-> "waiting", owner |-> NoWorker, made |-> 0, stalls |-> 0]]
    /\ run = [w \in Worker |-> Idle]
    /\ pushed = [u \in User |-> 0]
    /\ accepted = {}
    /\ budget = [b \in {"crash", "overtake", "fault"} |-> cast[b]]

At(w, pc) == run[w].pc = pc
Goto(w, pc) == run' = [run EXCEPT ![w].pc = pc]
Continue(w, pc, users) == run' = [run EXCEPT ![w].pc = pc, ![w].rows = users]
End(w) == run' = [run EXCEPT ![w] = Idle]

Owns(w) == job[run[w].chunk].owner = w
Targets(w) == run[w].rows \cap Aliased
Set(users, status) == row' = [u \in User |-> IF u \in users THEN status ELSE row[u]]

-----------------------------------------------------------------------------
(* BullMQ. *)

\* A worker takes a job and its lock.
Start(w, c) ==
    /\ At(w, "idle")
    /\ job[c].state = "waiting"
    /\ job' = [job EXCEPT ![c].state = "active", ![c].owner = w]
    /\ run' = [run EXCEPT ![w] = [pc |-> "existing", chunk |-> c, rows |-> {}, tries |-> 0]]
    /\ UNCHANGED <<row, pushed, accepted, budget>>

\* process returned; the job is the worker's to finish only while it has the lock.
Complete(w) ==
    /\ job' = IF Owns(w)
              THEN [job EXCEPT ![run[w].chunk].state = "completed", ![run[w].chunk].owner = NoWorker]
              ELSE job
    /\ End(w)

\* Mutant: the attempts are not counted.
FailForever(w) ==
    /\ job' = IF Owns(w)
              THEN [job EXCEPT ![run[w].chunk].state = "waiting", ![run[w].chunk].owner = NoWorker]
              ELSE job
    /\ End(w)

\* process threw: the job waits for its next attempt, or has had its last and
\* the worker goes on to the failed handler.
Fail(w) ==
    LET c == run[w].chunk
        made == job[c].made + 1
    IN  \/ /\ ~Owns(w)
           /\ End(w)
           /\ UNCHANGED job
        \/ /\ Owns(w) /\ made < Attempts
           /\ job' = [job EXCEPT ![c].state = "waiting", ![c].owner = NoWorker, ![c].made = made]
           /\ End(w)
        \/ /\ Owns(w) /\ made >= Attempts
           /\ job' = [job EXCEPT ![c].state = "failed", ![c].owner = NoWorker, ![c].made = made]
           /\ Goto(w, "terminal")

\* The lock of an active job lapses, its worker being dead or, an overtake,
\* only slow.  The job waits again, beyond MaxStalls only to be failed.
Stall(c) ==
    LET w == job[c].owner
        live == run[w].pc # "idle" /\ run[w].chunk = c
    IN  /\ job[c].state = "active"
        /\ live => budget.overtake > 0
        /\ budget' = IF live THEN [budget EXCEPT !.overtake = @ - 1] ELSE budget
        /\ job' = [job EXCEPT ![c].state = IF job[c].stalls < MaxStalls THEN "waiting" ELSE "doomed",
                              ![c].owner = NoWorker,
                              ![c].stalls = @ + 1]
        /\ UNCHANGED <<row, run, pushed, accepted>>

\* A worker fails a job that stalled too often, without running it; with
\* attempts left, its failed handler leaves the rows alone.
Doom(w, c) ==
    LET made == job[c].made + 1
    IN  /\ At(w, "idle")
        /\ job[c].state = "doomed"
        /\ job' = [job EXCEPT ![c].state = "failed", ![c].made = made]
        /\ run' = IF made < Attempts THEN run
                  ELSE [run EXCEPT ![w] = [pc |-> "terminal", chunk |-> c, rows |-> {}, tries |-> 0]]
        /\ UNCHANGED <<row, pushed, accepted, budget>>

\* A worker dies between two awaits.
Crash(w) ==
    /\ ~At(w, "idle")
    /\ budget.crash > 0
    /\ budget' = [budget EXCEPT !.crash = @ - 1]
    /\ End(w)
    /\ UNCHANGED <<row, job, pushed, accepted>>

-----------------------------------------------------------------------------
(* Phase A: the inbox. *)

\* Mutant: no look at what is there.
InsertAll(w) ==
    /\ At(w, "existing")
    /\ Continue(w, "insert", cast.recipients[run[w].chunk])
    /\ UNCHANGED <<row, job, pushed, accepted, budget>>

\* findExistingByBroadcast, and the rows left to insert.
FindExisting(w) ==
    /\ At(w, "existing")
    /\ Continue(w, "insert", {u \in cast.recipients[run[w].chunk] : row[u] = "none"})
    /\ UNCHANGED <<row, job, pushed, accepted, budget>>

\* The INSERT names a (broadcast, recipient) pair that is there, or one twice.
Conflicts(w) ==
    \E u \in run[w].rows : row[u] # "none" \/ u \in cast.repeated[run[w].chunk]

\* bulkInsert: one statement, all rows or none.
BulkInsert(w) ==
    /\ At(w, "insert")
    /\ \/ /\ ~Conflicts(w)
          /\ Set(run[w].rows, "pending")
          /\ Goto(w, "find")
          /\ UNCHANGED job
       \/ /\ Conflicts(w)
          /\ Fail(w)
          /\ UNCHANGED row
    /\ UNCHANGED <<pushed, accepted, budget>>

-----------------------------------------------------------------------------
(* Phase B: the push. *)

\* Mutant: everybody of the chunk, pending or not.
FindRecipients(w) ==
    /\ At(w, "find")
    /\ Continue(w, IF cast.recipients[run[w].chunk] \cap Aliased = {} THEN "markSkipped" ELSE "push",
                cast.recipients[run[w].chunk])
    /\ UNCHANGED <<row, job, pushed, accepted, budget>>

\* findPendingByBroadcast; without an alias among them nothing is pushed.
FindPending(w) ==
    /\ At(w, "find")
    /\ LET pending == {u \in cast.recipients[run[w].chunk] : row[u] = "pending"}
       IN  Continue(w, IF pending \cap Aliased = {} THEN "markSkipped" ELSE "push", pending)
    /\ UNCHANGED <<row, job, pushed, accepted, budget>>

\* createNotification, with the aliases of the targets.
Call(w) == pushed' = [u \in User |-> IF u \in Targets(w) THEN pushed[u] + 1 ELSE pushed[u]]

\* It fails or is not answered, whether the provider acted on it or not: the
\* sender tries again after a transient error, gives up after another.
NoAnswer(w) ==
    /\ UNCHANGED accepted
    /\ \E transient \in BOOLEAN :
        \/ /\ transient /\ run[w].tries + 1 < Tries
           /\ run' = [run EXCEPT ![w].tries = @ + 1]
           /\ UNCHANGED job
        \/ /\ transient => run[w].tries + 1 >= Tries
           /\ Fail(w)

\* Mutant: an answer of 0 recipients is taken for a delivery.
PushAnswered(w) ==
    /\ At(w, "push")
    /\ Call(w)
    /\ \/ /\ accepted' \in {accepted, accepted \cup Targets(w)}
          /\ Goto(w, "markSent")
          /\ UNCHANGED job
       \/ NoAnswer(w)
    /\ UNCHANGED <<row, budget>>

\* sendToExternalIds.  Without configuration nothing is sent; an answer of 0
\* recipients is a skip; any other, with a count of some or with none, is a
\* delivery to all.
Push(w) ==
    /\ At(w, "push")
    /\ \/ /\ Goto(w, "markSkipped")
          /\ UNCHANGED <<job, pushed, accepted>>
       \/ /\ Call(w)
          /\ \/ /\ Goto(w, "markSkipped")
                /\ UNCHANGED <<job, accepted>>
             \/ /\ accepted' = accepted \cup Targets(w)
                /\ Goto(w, "markSent")
                /\ UNCHANGED job
             \/ NoAnswer(w)
    /\ UNCHANGED <<row, budget>>

\* markPushStatusByIds of the targets, by id and whatever their status is now.
MarkSent(w) ==
    /\ At(w, "markSent")
    /\ Set(Targets(w), "sent")
    /\ Goto(w, "markRest")
    /\ UNCHANGED <<job, pushed, accepted, budget>>

\* Mutant: the recipients without alias are forgotten.
MarkRestNot(w) ==
    /\ At(w, "markRest")
    /\ Complete(w)
    /\ UNCHANGED <<row, pushed, accepted, budget>>

\* markPushStatusByIds of the others.
MarkRest(w) ==
    /\ At(w, "markRest")
    /\ Set(run[w].rows \ Targets(w), "skipped")
    /\ Complete(w)
    /\ UNCHANGED <<pushed, accepted, budget>>

\* markPushStatusByIds when there is no target, or the provider reached none.
MarkSkipped(w) ==
    /\ At(w, "markSkipped")
    /\ Set(run[w].rows, "skipped")
    /\ Complete(w)
    /\ UNCHANGED <<pushed, accepted, budget>>

\* onFailed after the last attempt: markBroadcastPendingFailed.
MarkFailed(w) ==
    /\ At(w, "terminal")
    /\ Set({u \in cast.recipients[run[w].chunk] : row[u] = "pending"}, "failed")
    /\ End(w)
    /\ UNCHANGED <<job, pushed, accepted, budget>>

\* A database call fails: process throws; onFailed catches and logs.
Fault(w) ==
    /\ budget.fault > 0
    /\ budget' = [budget EXCEPT !.fault = @ - 1]
    /\ \/ /\ run[w].pc \in {"existing", "insert", "find", "markSent", "markRest", "markSkipped"}
          /\ Fail(w)
       \/ /\ At(w, "terminal")
          /\ End(w)
          /\ UNCHANGED job
    /\ UNCHANGED <<row, pushed, accepted>>

-----------------------------------------------------------------------------
\* What a worker does on its own: database calls, whose connections answer.
Advance(w) ==
    \/ FindExisting(w) \/ BulkInsert(w) \/ FindPending(w)
    \/ MarkSent(w) \/ MarkRest(w) \/ MarkSkipped(w) \/ MarkFailed(w)

Proceed(w) == Advance(w) \/ Push(w)

\* The queue is drained.
Settled(c) ==
    /\ job[c].state \in {"completed", "failed"}
    /\ \A w \in Worker : ~At(w, "idle") => run[w].chunk # c

Drained ==
    /\ \A c \in Chunk : Settled(c)
    /\ UNCHANGED vars

Next ==
    /\ \/ \E w \in Worker :
            (\E c \in Chunk : Start(w, c) \/ Doom(w, c)) \/ Proceed(w) \/ Crash(w) \/ Fault(w)
       \/ \E c \in Chunk : Stall(c)
       \/ Drained
    /\ UNCHANGED cast

Spec == Init /\ [][Next]_vars

\* Workers take what waits and go on with what they have, and BullMQ's stall
\* check runs.  A push need not end: the provider's client sets no timeout, and
\* the worker renews the job's lock while it waits.
FairSpec ==
    /\ Spec
    /\ \A w \in Worker : WF_vars(Advance(w) /\ UNCHANGED cast)
    /\ \A w \in Worker : WF_vars((\E c \in Chunk : Start(w, c) \/ Doom(w, c)) /\ UNCHANGED cast)
    /\ \A c \in Chunk : WF_vars(Stall(c) /\ UNCHANGED cast)

-----------------------------------------------------------------------------
(* Properties *)

Unspent(b) == budget[b] = cast[b]
Disjoint == \A c, d \in Chunk : c # d => cast.recipients[c] \cap cast.recipients[d] = {}

\* "On a retry this excludes anyone already SENT, so they are never pushed
\* twice" (process), through crashes and faults, as long as no user is in two
\* chunks and no worker outlives its lock: an overtaken worker goes on to push
\* to the rows it read as pending.
SentNotRepushed ==
    [][Disjoint /\ Unspent("overtake") =>
        \A u \in User : row[u] = "sent" => pushed'[u] = pushed[u]]_vars

\* What a row marked SENT is worth, through crashes, retries and overtakes: a
\* call that named the user was accepted, and not with 0 recipients ("Treat that
\* as 'nothing delivered' ... rather than report SENT", sendToExternalIds).  That
\* the user is one of those reached it does not say.
SentIsAccepted == \A u \in User : row[u] = "sent" => u \in accepted

\* The other chunks that share a user with c.
Sharing(c) == {d \in Chunk \ {c} : cast.recipients[c] \cap cast.recipients[d] # {}}

\* "so they don't sit PENDING forever" (onFailed): a job that completed leaves no
\* recipient PENDING.  One that failed does where a crash or a failed call took
\* the failed handler's own statement; where another chunk has inserted the row
\* and will see to it; or, once a worker was overtaken, where the chunk shares a
\* user or stalled too often: the overtaken worker may insert rows after the
\* failed handler has run.
SettledNotPending ==
    \A c \in Chunk : Settled(c) => \A u \in cast.recipients[c] : row[u] = "pending" =>
        /\ job[c].state = "failed"
        /\ \/ ~Unspent("crash") \/ ~Unspent("fault")
           \/ \E d \in Chunk : u \in cast.recipients[d] /\ ~Settled(d)
           \/ ~Unspent("overtake") /\ (Sharing(c) # {} \/ job[c].stalls > MaxStalls)

\* "the inbox insert is the canonical record either way": a job that ended other
\* than by stalling too often has left a row for each recipient, unless it lists
\* one twice or an attempt was lost to the database: each chunk that shares a
\* user with it may fail one attempt as a whole, so it needs one more than those.
InboxEitherWay ==
    \A c \in Chunk :
        /\ Settled(c) /\ cast.repeated[c] = {} /\ job[c].stalls <= MaxStalls
        /\ Unspent("fault") /\ Cardinality(Sharing(c)) < Attempts
        => \A u \in cast.recipients[c] : row[u] # "none"

\* Every job ends, whatever fails and whoever dies, unless its own push hangs for
\* ever or pushes that hang have taken all the workers.
Hangs(w) == At(w, "push")

AllSettle ==
    \A c \in Chunk :
        \/ <>Settled(c)
        \/ <>[](\E w \in Worker : Hangs(w) /\ run[w].chunk = c)
        \/ <>[](\A w \in Worker : Hangs(w))
=============================================================================
