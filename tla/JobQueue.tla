------------------------------ MODULE JobQueue ------------------------------
(***************************************************************************)
(* BullMQ as far as this application's workers rely on it: at-least-once   *)
(* delivery of jobs.  An attempt that throws is retried while attempts are *)
(* left; a job whose lock its worker stopped renewing is handed on, and is *)
(* failed once that has happened too often.  What a worker does with a job *)
(* is the business of the modules that extend this one.                    *)
(***************************************************************************)
EXTENDS Naturals

CONSTANTS
    Worker,        \* slots that run jobs, in any number of processes
    Job,           \* job ids
    Attempts,      \* attempts of a job (QUEUE_DEFAULT_ATTEMPTS)
    MaxStalls,     \* stalls that are forgiven
    MaxTroubles    \* bound on troubles: workers that die or are shut down with a
                   \* job, live workers taken for dead, lost calls

ASSUME QueueAssumption ==
    Attempts \in Nat \ {0} /\ MaxStalls \in Nat /\ MaxTroubles \in Nat

NoWorker == "no worker"
NoJob == "no job"

ASSUME NoneAssumption == NoWorker \notin Worker /\ NoJob \notin Job

VARIABLES
    job,      \* each job id in the queue
    slot,     \* the job each worker runs, or NoJob
    closed,   \* workers whose process has closed its connections
    troubles  \* history: troubles so far

queueVars == <<job, slot, closed, troubles>>

Entry ==
    [state: {"absent", "waiting", "active", "completed", "failed"},
     owner: Worker \cup {NoWorker}, made: 0..Attempts - 1, stalls: 0..MaxStalls]

QueueTypeOK ==
    /\ job \in [Job -> Entry]
    /\ slot \in [Worker -> Job \cup {NoJob}]
    /\ closed \in SUBSET Worker
    /\ troubles \in 0..MaxTroubles

Fresh(state) == [state |-> state, owner |-> NoWorker, made |-> 0, stalls |-> 0]

QueueInit ==
    /\ job = [j \in Job |-> Fresh("absent")]
    /\ slot = [w \in Worker |-> NoJob]
    /\ closed = {}
    /\ troubles = 0

Trouble == troubles < MaxTroubles /\ troubles' = troubles + 1

Busy(w) == slot[w] # NoJob
Running(j) == \E w \in Worker : slot[w] = j
Settled(j) == job[j].state \in {"completed", "failed"} /\ ~Running(j)

-----------------------------------------------------------------------------
\* queue.add: an id that is in the queue, in whatever state, is not added again.
Add(j) ==
    /\ job' = IF job[j].state = "absent" THEN [job EXCEPT ![j] = Fresh("waiting")] ELSE job
    /\ UNCHANGED <<slot, closed, troubles>>

\* A finished job is dropped once enough others have finished after it.
Evict(j) ==
    /\ job[j].state \in {"completed", "failed"}
    /\ job' = [job EXCEPT ![j] = Fresh("absent")]
    /\ UNCHANGED <<slot, closed, troubles>>

\* A worker takes a job and its lock.
Take(w, j) ==
    /\ ~Busy(w)
    /\ job[j].state = "waiting"
    /\ job' = [job EXCEPT ![j].state = "active", ![j].owner = w]
    /\ slot' = [slot EXCEPT ![w] = j]
    /\ UNCHANGED <<closed, troubles>>

\* Only a worker that still has the lock, and its connection, ends the job.
Reports(w) == job[slot[w]].owner = w /\ w \notin closed

Leave(w) ==
    /\ slot' = [slot EXCEPT ![w] = NoJob]
    /\ closed' = closed \ {w}

\* process returned.
Resolve(w) ==
    /\ job' = IF Reports(w) THEN [job EXCEPT ![slot[w]] = Fresh("completed")] ELSE job
    /\ Leave(w)

Retried(j) == [job[j] EXCEPT !.state = "waiting", !.owner = NoWorker, !.made = @ + 1]

\* Mutant: the attempts are not counted.
RejectForever(w) ==
    /\ job' = IF Reports(w) THEN [job EXCEPT ![slot[w]] = Fresh("waiting")] ELSE job
    /\ Leave(w)

\* process threw.
Reject(w) ==
    LET j == slot[w]
    IN  /\ job' = IF ~Reports(w) THEN job
                  ELSE [job EXCEPT ![j] = IF job[j].made + 1 < Attempts THEN Retried(j) ELSE Fresh("failed")]
        /\ Leave(w)

Handed(j) == [job[j] EXCEPT !.state = "waiting", !.owner = NoWorker, !.stalls = @ + 1]

\* The stalled check finds a job whose lock has lapsed: its worker is dead or
\* closed or, an overtake, only slow.  BullMQ fails one that stalls too often.
Stall(j) ==
    LET w == job[j].owner
        live == slot[w] = j /\ w \notin closed
    IN  /\ job[j].state = "active"
        /\ IF live THEN Trouble ELSE UNCHANGED troubles
        /\ job' = [job EXCEPT ![j] =
                    IF job[j].stalls < MaxStalls THEN Handed(j) ELSE Fresh("failed")]
        /\ UNCHANGED <<slot, closed>>

\* A worker dies between two awaits.
Crash(w) ==
    /\ Busy(w)
    /\ Trouble
    /\ Leave(w)
    /\ UNCHANGED job

\* Shutdown: onModuleDestroy has quit the connections before
\* onApplicationShutdown waits for the job that is running.
Close(w) ==
    /\ Busy(w) /\ w \notin closed
    /\ Trouble
    /\ closed' = closed \cup {w}
    /\ UNCHANGED <<job, slot>>
=============================================================================
