-------------------------- MODULE Delivery_proofs --------------------------
(***************************************************************************)
(* Theorems of Delivery for every finite set of workers and jobs, whatever *)
(* the jobs carry, and for every limit on attempts and stalls, any number  *)
(* of troubles and of claims that run out: types, how many copies of a     *)
(* message are sent, and how many messages are lost.                       *)
(***************************************************************************)
EXTENDS Delivery, FiniteSetTheorems, TLAPS

-----------------------------------------------------------------------------
(* The inductive invariant. *)

\* A lock belongs to an active job, and a closed connection to a busy worker.
LockInv ==
    /\ \A j \in Job : job[j].state = "active" <=> job[j].owner # NoWorker
    /\ \A w \in closed : Busy(w)

\* A send that resolved reached the recipient, and nobody threw more often than
\* he was reached.
AnswerInv ==
    /\ \A w \in Worker : configured /\ At(w, "sent") => copies[payload[slot[w]]] > 0
    /\ \A m \in Messages : unanswered[m] <= copies[m]

\* Whoever has claimed a key and not yet sent, or not yet given it back.
Holding(w) == At(w, "send") \/ At(w, "threw")
Holders(k) == {w \in Worker : Holding(w) /\ KeyOf(w) = k}

\* Each copy that was answered, and each worker that may still send, has a claim
\* of its own: the one that is there or one that ran out.
CountInv ==
    \A j \in Job :
        copies[payload[j]] + Cardinality(Holders(DedupKey(j)))
            <= unanswered[payload[j]] + (MaxExpiries - expiries)
               + (IF DedupKey(j) \in claimed THEN 1 ELSE 0)

IInv == TypeOK /\ LockInv /\ AnswerInv /\ CountInv

\* A message is sound while it was sent or may still be: a claim is somebody's
\* who sends, some job of it has not completed, and whoever works on it will be
\* heard.
Sound(m) ==
    configured /\ copies[m] = 0 =>
        /\ \A j \in Job : payload[j] = m /\ DedupKey(j) \in claimed =>
              \E w \in Worker : Holding(w) /\ payload[slot[w]] = m
        /\ \E j \in Job : payload[j] = m /\ job[j].state # "completed"
        /\ \A w \in Worker : Busy(w) /\ payload[slot[w]] = m => Reports(w)

\* Each trouble spoils one message.
Unsound == {m \in Messages : ~Sound(m)}
LossInv == Cardinality(Unsound) <= troubles

USE QueueAssumption, NoneAssumption, DeliveryAssumption

-----------------------------------------------------------------------------
(* BullMQ's steps. *)

State == {"absent", "waiting", "active", "completed", "failed"}

LEMMA FreshEntry == \A s \in State : Fresh(s) \in Entry
  BY DEF Fresh, Entry, State

LEMMA BusyFacts ==
    ASSUME QueueTypeOK, NEW w \in Worker, Busy(w)
    PROVE  slot[w] \in Job
  BY DEF QueueTypeOK, Busy

LEMMA JobFacts ==
    ASSUME QueueTypeOK, NEW j \in Job
    PROVE  /\ job[j] \in Entry /\ job[j].state \in State /\ job[j].owner \in Worker \cup {NoWorker}
           /\ job[j].made \in 0..Attempts - 1 /\ job[j].stalls \in 0..MaxStalls
  <1>1. job[j] \in Entry
    BY DEF QueueTypeOK
  <1>2. QED
    BY <1>1 DEF Entry, State

LEMMA RetriedEntry ==
    ASSUME QueueTypeOK, NEW j \in Job, job[j].made + 1 < Attempts
    PROVE  Retried(j) \in Entry
  <1>1. job[j] \in Entry /\ job[j].made + 1 \in 0..Attempts - 1
    BY JobFacts
  <1>2. QED
    BY <1>1 DEF Retried, Entry

\* The end of an attempt leaves its worker free and every other as it is; it
\* ends no job but the one the worker has the lock of.
LEMMA Ends ==
    ASSUME QueueTypeOK, NEW w \in Worker, Busy(w), Resolve(w) \/ Reject(w), NEW j, j = slot[w]
    PROVE  /\ job' \in [Job -> Entry] /\ slot' \in [Worker -> Job \cup {NoJob}]
           /\ closed' \in SUBSET Worker /\ ~Busy(w)'
           /\ closed' = closed \ {w} /\ \A x \in Worker \ {w} : slot'[x] = slot[x]
           /\ \A i \in Job \ {j} : job'[i] = job[i]
           /\ ~Reports(w) => job' = job
           /\ Reports(w) => /\ job'[j].owner = NoWorker
                            /\ \/ job'[j].state = "completed" /\ Resolve(w)
                               \/ job'[j].state \in {"waiting", "failed"} /\ Reject(w)
  <1>0. /\ j \in Job /\ job \in [Job -> Entry] /\ slot \in [Worker -> Job \cup {NoJob}]
        /\ closed \in SUBSET Worker
    BY BusyFacts DEF QueueTypeOK
  <1>1. /\ slot' \in [Worker -> Job \cup {NoJob}] /\ closed' \in SUBSET Worker /\ ~Busy(w)'
        /\ closed' = closed \ {w} /\ \A x \in Worker \ {w} : slot'[x] = slot[x]
    BY <1>0 DEF Resolve, Reject, Leave, Busy
  <1>2. CASE Resolve(w) /\ Reports(w)
    <2>1. job' = [job EXCEPT ![j] = Fresh("completed")]
      BY <1>2 DEF Resolve
    <2>2. job' \in [Job -> Entry]
      BY <1>0, <2>1, FreshEntry DEF State
    <2>3. job'[j].owner = NoWorker /\ job'[j].state = "completed"
      BY <1>0, <2>1 DEF Fresh
    <2>4. QED
      BY <1>0, <1>1, <1>2, <2>1, <2>2, <2>3
  <1>3. CASE Reject(w) /\ Reports(w) /\ job[j].made + 1 < Attempts
    <2>1. job' = [job EXCEPT ![j] = Retried(j)]
      BY <1>3 DEF Reject
    <2>2. job' \in [Job -> Entry]
      BY <1>0, <1>3, <2>1, RetriedEntry
    <2>3. job'[j].owner = NoWorker /\ job'[j].state = "waiting"
      BY <1>0, <2>1 DEF Retried, Entry
    <2>4. QED
      BY <1>0, <1>1, <1>3, <2>1, <2>2, <2>3
  <1>4. CASE Reject(w) /\ Reports(w) /\ ~(job[j].made + 1 < Attempts)
    <2>1. job' = [job EXCEPT ![j] = Fresh("failed")]
      BY <1>4 DEF Reject
    <2>2. job' \in [Job -> Entry]
      BY <1>0, <2>1, FreshEntry DEF State
    <2>3. job'[j].owner = NoWorker /\ job'[j].state = "failed"
      BY <1>0, <2>1 DEF Fresh
    <2>4. QED
      BY <1>0, <1>1, <1>4, <2>1, <2>2, <2>3
  <1>5. CASE ~Reports(w)
    BY <1>0, <1>1, <1>5 DEF Resolve, Reject
  <1>6. QED
    BY <1>2, <1>3, <1>4, <1>5

LEMMA Takes ==
    ASSUME QueueTypeOK, NEW w \in Worker, NEW j \in Job, Take(w, j)
    PROVE  /\ job' \in [Job -> Entry] /\ slot' \in [Worker -> Job \cup {NoJob}]
           /\ ~Busy(w) /\ slot'[w] = j /\ \A x \in Worker \ {w} : slot'[x] = slot[x]
           /\ job[j].state = "waiting" /\ job'[j].state = "active" /\ job'[j].owner = w
           /\ \A i \in Job \ {j} : job'[i] = job[i]
           /\ closed' = closed /\ troubles' = troubles
  <1>0. job \in [Job -> Entry] /\ slot \in [Worker -> Job \cup {NoJob}]
    BY DEF QueueTypeOK
  <1>1. [job[j] EXCEPT !.state = "active", !.owner = w] \in Entry
    BY <1>0 DEF Entry
  <1>2. job'[j] = [job[j] EXCEPT !.state = "active", !.owner = w]
    BY <1>0 DEF Take
  <1>3. job'[j].state = "active" /\ job'[j].owner = w
    BY <1>0, <1>2 DEF Entry
  <1>4. job' \in [Job -> Entry]
    BY <1>0, <1>1 DEF Take
  <1>5. QED
    BY <1>0, <1>3, <1>4 DEF Take

\* A stall under a worker that still runs the job is a trouble.
LEMMA Stalls ==
    ASSUME QueueTypeOK, NEW j \in Job, Stall(j)
    PROVE  /\ job' \in [Job -> Entry] /\ slot' = slot /\ closed' = closed
           /\ job[j].state = "active" /\ job'[j].state \in {"waiting", "failed"}
           /\ job'[j].owner = NoWorker
           /\ \A i \in Job \ {j} : job'[i] = job[i]
           /\ troubles' = troubles \/ (troubles < MaxTroubles /\ troubles' = troubles + 1)
           /\ \A w \in Worker : slot[w] = j /\ Reports(w) => troubles' = troubles + 1
  <1>0. job \in [Job -> Entry]
    BY DEF QueueTypeOK
  <1>1. CASE job[j].stalls < MaxStalls
    <2>1. job' = [job EXCEPT ![j] = Handed(j)]
      BY <1>1 DEF Stall
    <2>2. job[j].stalls + 1 \in 0..MaxStalls
      BY <1>1, JobFacts
    <2>3. /\ Handed(j) \in Entry /\ Handed(j).state = "waiting" /\ Handed(j).owner = NoWorker
      BY <1>0, <2>2 DEF Handed, Entry
    <2>4. /\ job' \in [Job -> Entry] /\ \A i \in Job \ {j} : job'[i] = job[i]
          /\ job'[j] = Handed(j)
      BY <1>0, <2>1, <2>3
    <2>5. QED
      BY <2>3, <2>4 DEF Stall, Trouble, Reports
  <1>2. CASE ~(job[j].stalls < MaxStalls)
    <2>1. job' = [job EXCEPT ![j] = Fresh("failed")]
      BY <1>0, <1>2 DEF Stall
    <2>2. job'[j] = Fresh("failed") /\ Fresh("failed") \in Entry
      BY <1>0, <2>1, FreshEntry DEF State
    <2>3. job'[j].state = "failed" /\ job'[j].owner = NoWorker
      BY <2>2 DEF Fresh
    <2>4. job' \in [Job -> Entry] /\ \A i \in Job \ {j} : job'[i] = job[i]
      BY <1>0, <2>1, <2>2
    <2>5. QED
      BY <2>3, <2>4 DEF Stall, Trouble, Reports
  <1>3. QED
    BY <1>1, <1>2

LEMMA Adds ==
    ASSUME QueueTypeOK, NEW j \in Job, job[j].state = "absent", Add(j)
    PROVE  /\ job' \in [Job -> Entry] /\ \A i \in Job \ {j} : job'[i] = job[i]
           /\ job'[j].state = "waiting" /\ job'[j].owner = NoWorker
           /\ slot' = slot /\ closed' = closed /\ troubles' = troubles
  <1>1. job \in [Job -> Entry] /\ Fresh("waiting") \in Entry
    BY FreshEntry DEF QueueTypeOK, State
  <1>2. job' = [job EXCEPT ![j] = Fresh("waiting")]
    BY DEF Add
  <1>3. Fresh("waiting").state = "waiting" /\ Fresh("waiting").owner = NoWorker
    BY DEF Fresh
  <1>4. QED
    BY <1>1, <1>2, <1>3 DEF Add

-----------------------------------------------------------------------------
(* Types. *)

Steps == {"idle", "claim", "send", "sent", "threw"}

LEMMA WorkFacts ==
    ASSUME TypeOK, NEW w \in Worker, ~At(w, "idle")
    PROVE  /\ Busy(w) /\ slot[w] \in Job /\ KeyOf(w) \in Keys
           /\ payload[slot[w]] \in Messages
  <1>1. Busy(w) /\ slot[w] \in Job
    BY BusyFacts DEF TypeOK
  <1>2. QED
    BY <1>1 DEF KeyOf, Keys, Messages

\* A worker's move, with its slot, keeps the types of both.
LEMMA StepType ==
    ASSUME TypeOK, NEW w \in Worker, NEW s \in Steps, Goto(w, s),
           \A x \in Worker \ {w} : slot'[x] = slot[x],
           s = "idle" <=> ~Busy(w)'
    PROVE  /\ step' \in [Worker -> Steps]
           /\ \A x \in Worker : At(x, "idle")' <=> ~Busy(x)'
  BY DEF TypeOK, Goto, At, Busy, Steps

LEMMA QueueSame ==
    ASSUME QueueTypeOK, UNCHANGED queueVars
    PROVE  QueueTypeOK'
  BY DEF QueueTypeOK, queueVars

\* How the counters of messages move.
LEMMA CopiesType ==
    ASSUME TypeOK, NEW m \in Messages, NEW a \in 0..1, NEW b \in 0..1,
           copies' = [copies EXCEPT ![m] = @ + a], unanswered' = [unanswered EXCEPT ![m] = @ + b],
           Messages' = Messages
    PROVE  copies' \in [Messages' -> Nat] /\ unanswered' \in [Messages' -> Nat]
  BY DEF TypeOK

LEMMA TypeStep ==
    ASSUME TypeOK, [Next]_vars
    PROVE  TypeOK' /\ payload' = payload /\ configured' = configured
  <1>0. /\ payload' = payload /\ configured' = configured /\ Messages' = Messages /\ Keys' = Keys
        /\ \A j : DedupKey(j)' = DedupKey(j)
    <2>1. UNCHANGED data
      BY DEF Next, vars, Drained, Begin, Proceed, Claim, Skip, Send, Complete, Release, FaultClosed,
             Fault, Die, Shutdown, EnqueueMail, EnqueueOtp, Enqueue, HandOn, Expire
    <2>2. QED
      BY <2>1 DEF data, Messages, Keys, DedupKey, MailKey, SmsKey
  <1>1. /\ QueueTypeOK /\ payload' \in Payloads /\ configured' \in BOOLEAN
        /\ step \in [Worker -> Steps] /\ \A w \in Worker : At(w, "idle") <=> ~Busy(w)
        /\ claimed \in SUBSET Keys /\ expiries \in 0..MaxExpiries
        /\ copies \in [Messages -> Nat] /\ unanswered \in [Messages -> Nat]
        /\ slot \in [Worker -> Job \cup {NoJob}] /\ closed \in SUBSET Worker
        /\ troubles \in 0..MaxTroubles /\ job \in [Job -> Entry]
    BY <1>0 DEF TypeOK, QueueTypeOK, Steps
  <1>2. ASSUME QueueTypeOK', step' \in [Worker -> Steps],
               \A w \in Worker : At(w, "idle")' <=> ~Busy(w)',
               claimed' \in SUBSET Keys, expiries' \in 0..MaxExpiries,
               copies' \in [Messages -> Nat], unanswered' \in [Messages -> Nat]
        PROVE  TypeOK'
    BY <1>0, <1>1, <1>2 DEF TypeOK, Steps
  <1>3. ASSUME troubles' = troubles \/ Trouble PROVE troubles' \in 0..MaxTroubles
    BY <1>1, <1>3 DEF Trouble
  <1>4. ASSUME NEW w \in Worker, NEW j \in Job, Begin(w, j) PROVE TypeOK'
    <2>1. QueueTypeOK' /\ Busy(w)' /\ \A x \in Worker \ {w} : slot'[x] = slot[x]
      BY <1>1, <1>4, Takes DEF Begin, QueueTypeOK, Busy
    <2>2. step' \in [Worker -> Steps] /\ \A x \in Worker : At(x, "idle")' <=> ~Busy(x)'
      BY <1>4, <2>1, StepType DEF Begin, Steps
    <2>3. QED
      BY <1>1, <1>2, <1>4, <2>1, <2>2 DEF Begin
  <1>5. ASSUME NEW w \in Worker, Claim(w) PROVE TypeOK'
    <2>1. ~At(w, "idle") /\ KeyOf(w) \in Keys /\ Busy(w) /\ Busy(w)'
          /\ \A x \in Worker \ {w} : slot'[x] = slot[x]
      BY <1>5, WorkFacts DEF Claim, At, queueVars, Busy
    <2>2. step' \in [Worker -> Steps] /\ \A x \in Worker : At(x, "idle")' <=> ~Busy(x)'
      BY <1>5, <2>1, StepType DEF Claim, Steps
    <2>3. QED
      BY <1>1, <1>2, <1>5, <2>1, <2>2, QueueSame DEF Claim
  <1>6. ASSUME NEW w \in Worker, Send(w) PROVE TypeOK'
    <2>1. /\ ~At(w, "idle") /\ payload[slot[w]] \in Messages /\ Busy(w) /\ Busy(w)'
          /\ \A x \in Worker \ {w} : slot'[x] = slot[x]
      BY <1>6, WorkFacts DEF Send, At, queueVars, Busy
    <2>2. \E s \in {"sent", "threw"} : Goto(w, s)
      BY <1>6 DEF Send
    <2>3. step' \in [Worker -> Steps] /\ \A x \in Worker : At(x, "idle")' <=> ~Busy(x)'
      BY <2>1, <2>2, StepType DEF Steps
    <2>4. \E a, b \in 0..1 : /\ copies' = [copies EXCEPT ![payload[slot[w]]] = @ + a]
                             /\ unanswered' = [unanswered EXCEPT ![payload[slot[w]]] = @ + b]
      <3>1. PICK out : /\ copies' = [copies EXCEPT ![payload[slot[w]]] = @ + (IF out.reached THEN 1 ELSE 0)]
                       /\ unanswered' = [unanswered EXCEPT
                            ![payload[slot[w]]] = @ + (IF out.reached /\ ~out.resolved THEN 1 ELSE 0)]
        BY <1>6 DEF Send
      <3>2. /\ (IF out.reached THEN 1 ELSE 0) \in 0..1
            /\ (IF out.reached /\ ~out.resolved THEN 1 ELSE 0) \in 0..1
        OBVIOUS
      <3>3. QED
        BY <3>1, <3>2
    <2>5. copies' \in [Messages -> Nat] /\ unanswered' \in [Messages -> Nat]
      BY <1>0, <2>1, <2>4, CopiesType
    <2>6. QED
      BY <1>1, <1>2, <1>6, <2>3, <2>5, QueueSame DEF Send
  <1>7. ASSUME NEW w \in Worker, Skip(w) \/ Complete(w) \/ Release(w) \/ FaultClosed(w) \/ Fault(w)
        PROVE  TypeOK'
    <2>1. ~At(w, "idle") /\ KeyOf(w) \in Keys /\ Busy(w)
      BY <1>7, WorkFacts DEF Skip, Complete, Release, FaultClosed, Fault, At
    <2>2. /\ job' \in [Job -> Entry] /\ slot' \in [Worker -> Job \cup {NoJob}]
          /\ closed' \in SUBSET Worker /\ ~Busy(w)'
          /\ \A x \in Worker \ {w} : slot'[x] = slot[x]
      BY <1>1, <1>7, <2>1, Ends DEF Skip, Complete, Release, FaultClosed, Fault
    <2>3. Goto(w, "idle") /\ (troubles' = troubles \/ Trouble)
      BY <1>7 DEF Skip, Complete, Release, FaultClosed, Fault
    <2>4. QueueTypeOK'
      BY <1>3, <2>2, <2>3 DEF QueueTypeOK
    <2>5. step' \in [Worker -> Steps] /\ \A x \in Worker : At(x, "idle")' <=> ~Busy(x)'
      BY <2>2, <2>3, StepType DEF Steps
    <2>6. claimed' \in SUBSET Keys
      BY <1>1, <1>7, <2>1 DEF Skip, Complete, Release, FaultClosed, Fault
    <2>7. QED
      BY <1>1, <1>2, <1>7, <2>4, <2>5, <2>6 DEF Skip, Complete, Release, FaultClosed, Fault
  <1>8. ASSUME NEW w \in Worker, Die(w) PROVE TypeOK'
    <2>1. /\ slot' \in [Worker -> Job \cup {NoJob}] /\ closed' \in SUBSET Worker /\ ~Busy(w)'
          /\ \A x \in Worker \ {w} : slot'[x] = slot[x] /\ Goto(w, "idle") /\ Trouble /\ job' = job
      BY <1>1, <1>8 DEF Die, Crash, Leave, Busy
    <2>2. QueueTypeOK' /\ Goto(w, "idle")
      BY <1>1, <1>3, <1>8, <2>1 DEF QueueTypeOK, Die, Crash
    <2>3. step' \in [Worker -> Steps] /\ \A x \in Worker : At(x, "idle")' <=> ~Busy(x)'
      BY <2>1, <2>2, StepType DEF Steps
    <2>4. QED
      BY <1>1, <1>2, <1>8, <2>2, <2>3 DEF Die
  <1>9. ASSUME NEW w \in Worker, Shutdown(w) PROVE TypeOK'
    <2>1. QueueTypeOK'
      BY <1>1, <1>3, <1>9 DEF Shutdown, Close, QueueTypeOK
    <2>2. QED
      BY <1>1, <1>2, <1>9, <2>1 DEF Shutdown, Close, At, Busy
  <1>10. ASSUME NEW j \in Job, EnqueueMail(j) \/ EnqueueOtp(j) PROVE TypeOK'
    <2>1. QueueTypeOK' /\ slot' = slot
      BY <1>1, <1>10, Adds DEF EnqueueMail, EnqueueOtp, Enqueue, QueueTypeOK
    <2>2. QED
      BY <1>1, <1>2, <1>10, <2>1 DEF EnqueueMail, EnqueueOtp, Enqueue, At, Busy
  <1>11. ASSUME NEW j \in Job, HandOn(j) PROVE TypeOK'
    <2>1. QueueTypeOK' /\ slot' = slot
      BY <1>1, <1>3, <1>11, Stalls DEF HandOn, QueueTypeOK, Trouble
    <2>2. QED
      BY <1>1, <1>2, <1>11, <2>1 DEF HandOn, At, Busy
  <1>12. ASSUME NEW k \in Keys, Expire(k) PROVE TypeOK'
    <2>1. expiries' \in 0..MaxExpiries /\ claimed' \in SUBSET Keys
      BY <1>1, <1>12 DEF Expire
    <2>2. QED
      BY <1>1, <1>2, <1>12, <2>1, QueueSame DEF Expire, queueVars, At, Busy
  <1>13. CASE UNCHANGED vars
    <2>1. QueueTypeOK'
      BY <1>1, <1>13, QueueSame DEF vars
    <2>2. /\ step' = step /\ slot' = slot /\ claimed' = claimed /\ expiries' = expiries
          /\ copies' = copies /\ unanswered' = unanswered
      BY <1>13 DEF vars, queueVars
    <2>3. \A w \in Worker : At(w, "idle")' <=> ~Busy(w)'
      BY <1>1, <2>2 DEF At, Busy
    <2>4. QED
      BY <1>0, <1>1, <1>2, <2>1, <2>2, <2>3
  <1>14. QED
    BY <1>0, <1>4, <1>5, <1>6, <1>7, <1>8, <1>9, <1>10, <1>11, <1>12, <1>13
    DEF Next, Proceed, Drained

-----------------------------------------------------------------------------
(* What every step has in common. *)

Finishes(w) == Skip(w) \/ Complete(w) \/ Release(w) \/ FaultClosed(w) \/ Fault(w)

LEMMA FinishMoves ==
    ASSUME TypeOK, NEW w \in Worker, Finishes(w)
    PROVE  /\ ~At(w, "idle") /\ Busy(w) /\ Goto(w, "idle") /\ (Resolve(w) \/ Reject(w))
           /\ copies' = copies /\ unanswered' = unanswered /\ expiries' = expiries
           /\ troubles' = troubles \/ (Fault(w) /\ troubles' = troubles + 1)
  <1>1. ~At(w, "idle")
    BY DEF Finishes, Skip, Complete, Release, FaultClosed, Fault, At
  <1>2. QED
    BY <1>1, WorkFacts DEF Finishes, Skip, Complete, Release, FaultClosed, Fault, Trouble

\* A worker changes by its own steps only.
LEMMA Others ==
    ASSUME TypeOK, NEW w \in Worker,
           Proceed(w) \/ Fault(w) \/ Die(w) \/ \E j \in Job : Begin(w, j)
    PROVE  \A x \in Worker \ {w} : slot'[x] = slot[x] /\ step'[x] = step[x]
  <1>0. QueueTypeOK /\ slot \in [Worker -> Job \cup {NoJob}] /\ step \in [Worker -> Steps]
    BY DEF TypeOK, QueueTypeOK, Steps
  <1>1. ASSUME NEW s, Goto(w, s) PROVE \A x \in Worker \ {w} : step'[x] = step[x]
    BY <1>0, <1>1 DEF Goto
  <1>2. CASE \E j \in Job : Begin(w, j)
    BY <1>0, <1>1, <1>2, Takes DEF Begin
  <1>3. CASE Claim(w) \/ Send(w)
    BY <1>1, <1>3 DEF Claim, Send, queueVars
  <1>4. CASE Finishes(w)
    BY <1>0, <1>1, <1>4, FinishMoves, Ends
  <1>5. CASE Die(w)
    BY <1>0, <1>1, <1>5 DEF Die, Crash, Leave
  <1>6. QED
    BY <1>2, <1>3, <1>4, <1>5 DEF Proceed, Finishes

\* Every step is a worker's, or moves no worker.
LEMMA WhoMoves ==
    ASSUME [Next]_vars
    PROVE  \/ \E w \in Worker : \/ \E j \in Job : Begin(w, j)
                                \/ Claim(w) \/ Send(w) \/ Finishes(w) \/ Die(w)
           \/ slot' = slot /\ step' = step
  BY DEF Next, vars, Drained, queueVars, Proceed, Finishes, Shutdown, Close, EnqueueMail, EnqueueOtp,
         Enqueue, Add, HandOn, Stall, Expire

\* A worker is where it was, unless it is the one that moves.
LEMMA WorkerMoves ==
    ASSUME TypeOK, [Next]_vars, NEW x \in Worker
    PROVE  \/ slot'[x] = slot[x] /\ step'[x] = step[x]
           \/ (\E j \in Job : Begin(x, j)) \/ Claim(x) \/ Send(x) \/ Finishes(x) \/ Die(x)
  <1>1. ASSUME NEW w \in Worker, w # x,
               (\E j \in Job : Begin(w, j)) \/ Claim(w) \/ Send(w) \/ Finishes(w) \/ Die(w)
        PROVE  slot'[x] = slot[x] /\ step'[x] = step[x]
    BY <1>1, Others DEF Proceed, Finishes
  <1>2. QED
    BY <1>1, WhoMoves

\* How the job of an id can change.
LEMMA JobMoves ==
    ASSUME TypeOK, LockInv, [Next]_vars, NEW j \in Job
    PROVE  \/ job'[j] = job[j]
           \/ /\ job'[j].state = "active"
              /\ \E w \in Worker : Begin(w, j) /\ job'[j].owner = w
           \/ \E w \in Worker : /\ Finishes(w) /\ slot[w] = j /\ Reports(w)
                                /\ job'[j].owner = NoWorker
                                /\ \/ job'[j].state \in {"waiting", "failed"}
                                   \/ job'[j].state = "completed" /\ (Skip(w) \/ Complete(w))
           \/ /\ HandOn(j) /\ job'[j].state \in {"waiting", "failed"} /\ job'[j].owner = NoWorker
              /\ \A w \in Worker : slot[w] = j /\ Reports(w) => troubles' = troubles + 1
           \/ /\ job'[j].state = "waiting" /\ job'[j].owner = NoWorker
              /\ job[j].state = "absent"
  <1>0. QueueTypeOK
    BY DEF TypeOK
  <1>1. ASSUME NEW w \in Worker, NEW i \in Job, Begin(w, i)
        PROVE  \/ job'[j] = job[j]
               \/ job'[j].state = "active" /\ Begin(w, j) /\ job'[j].owner = w
    BY <1>0, <1>1, Takes DEF Begin
  <1>2. ASSUME NEW w \in Worker, Finishes(w)
        PROVE  \/ job'[j] = job[j]
               \/ /\ slot[w] = j /\ Reports(w) /\ job'[j].owner = NoWorker
                  /\ \/ job'[j].state \in {"waiting", "failed"}
                     \/ job'[j].state = "completed" /\ (Skip(w) \/ Complete(w))
    <2>1. Busy(w) /\ (Resolve(w) \/ Reject(w))
      BY <1>2, FinishMoves
    <2>2. CASE j # slot[w]
      BY <1>0, <2>1, <2>2, Ends
    <2>3. CASE Skip(w) \/ Complete(w)
      BY <1>0, <2>1, <2>2, <2>3, Ends DEF Skip, Complete
    <2>4. CASE Reject(w)
      <3>1. CASE Reports(w)
        <4>1. job' = [job EXCEPT ![slot[w]] =
                        IF job[slot[w]].made + 1 < Attempts THEN Retried(slot[w]) ELSE Fresh("failed")]
          BY <2>4, <3>1 DEF Reject
        <4>2. j = slot[w] => job'[j] \in {Retried(j), Fresh("failed")}
          BY <1>0, <4>1 DEF QueueTypeOK
        <4>3. job[j] \in Entry
          BY <1>0, JobFacts
        <4>4. Retried(j).state = "waiting" /\ Fresh("failed").state = "failed"
          BY <4>3 DEF Retried, Fresh, Entry
        <4>5. QED
          BY <1>0, <2>1, <2>2, <3>1, <4>2, <4>4, Ends
      <3>2. CASE ~Reports(w)
        BY <2>4, <3>2 DEF Reject
      <3>3. QED
        BY <3>1, <3>2
    <2>5. QED
      BY <1>2, <2>3, <2>4 DEF Finishes, Release, FaultClosed, Fault
  <1>3. ASSUME NEW i \in Job, HandOn(i)
        PROVE  \/ job'[j] = job[j]
               \/ /\ HandOn(j) /\ job'[j].state \in {"waiting", "failed"} /\ job'[j].owner = NoWorker
                  /\ \A w \in Worker : slot[w] = j /\ Reports(w) => troubles' = troubles + 1
    <2>1. CASE i # j
      BY <1>0, <1>3, <2>1, Stalls DEF HandOn
    <2>2. CASE i = j
      BY <1>0, <1>3, <2>2, Stalls DEF HandOn
    <2>3. QED
      BY <2>1, <2>2
  <1>4. ASSUME NEW i \in Job, EnqueueMail(i) \/ EnqueueOtp(i)
        PROVE  \/ job'[j] = job[j]
               \/ /\ job'[j].state = "waiting" /\ job'[j].owner = NoWorker
                  /\ job[j].state = "absent"
    BY <1>0, <1>4, Adds DEF EnqueueMail, EnqueueOtp, Enqueue
  <1>5. \/ job' = job
        \/ \E w \in Worker : (\E i \in Job : Begin(w, i)) \/ Finishes(w)
        \/ \E i \in Job : EnqueueMail(i) \/ EnqueueOtp(i) \/ HandOn(i)
    BY DEF Next, vars, Drained, queueVars, Proceed, Finishes, Claim, Send, Die, Crash, Shutdown,
           Close, Expire
  <1>6. QED
    BY <1>1, <1>2, <1>3, <1>4, <1>5

LEMMA LockStep ==
    ASSUME TypeOK, LockInv, [Next]_vars
    PROVE  LockInv'
  <1>0. QueueTypeOK
    BY DEF TypeOK
  <1>1. ASSUME NEW j \in Job PROVE job'[j].state = "active" <=> job'[j].owner # NoWorker
    BY <1>1, JobMoves DEF LockInv
  <1>2. ASSUME NEW x \in closed' PROVE Busy(x)'
    <2>1. CASE x \in closed
      <3>1. x \in Worker /\ Busy(x)
        BY <1>0, <2>1 DEF LockInv, QueueTypeOK
      <3>2. CASE \E w \in Worker : Finishes(w)
        BY <1>0, <1>2, <3>1, <3>2, FinishMoves, Ends DEF Busy
      <3>3. CASE \E w \in Worker : Die(w)
        BY <1>0, <1>2, <3>1, <3>3 DEF Die, Crash, Leave, Busy, QueueTypeOK
      <3>4. CASE \E w \in Worker : \E j \in Job : Begin(w, j)
        BY <1>0, <3>1, <3>4, Takes DEF Begin, Busy
      <3>5. CASE slot' = slot
        BY <3>1, <3>5 DEF Busy
      <3>6. QED
        BY <3>2, <3>3, <3>4, <3>5, WhoMoves DEF Claim, Send, queueVars
    <2>2. CASE x \notin closed
      <3>1. \E w \in Worker : Shutdown(w)
        <4>1. ASSUME NEW w \in Worker, Finishes(w) PROVE closed' \subseteq closed
          BY <1>0, <4>1, FinishMoves, Ends
        <4>2. QED
          BY <1>2, <2>2, <4>1
          DEF Next, vars, Drained, queueVars, Proceed, Finishes, Claim, Send, Die, Crash, Leave,
              Begin, Take, EnqueueMail, EnqueueOtp, Enqueue, Add, HandOn, Stall, Expire
      <3>2. QED
        BY <1>2, <2>2, <3>1 DEF Shutdown, Close, Busy
    <2>3. QED
      BY <2>1, <2>2
  <1>3. QED
    BY <1>1, <1>2 DEF LockInv

-----------------------------------------------------------------------------
(* Copies. *)

LEMMA MessageFacts ==
    ASSUME TypeOK, NEW m \in Messages
    PROVE  copies[m] \in Nat /\ unanswered[m] \in Nat
  BY DEF TypeOK

\* What a send does to the counters, and where it leaves its worker.
LEMMA SendMoves ==
    ASSUME TypeOK, NEW w \in Worker, Send(w), Messages' = Messages, NEW m, m = payload[slot[w]]
    PROVE  /\ m \in Messages /\ slot' = slot /\ claimed' = claimed /\ expiries' = expiries
           /\ \A n \in Messages \ {m} : copies'[n] = copies[n] /\ unanswered'[n] = unanswered[n]
           /\ \/ /\ Goto(w, "sent") /\ unanswered'[m] = unanswered[m]
                 /\ \/ configured /\ copies'[m] = copies[m] + 1
                    \/ ~configured /\ copies'[m] = copies[m]
              \/ /\ Goto(w, "threw")
                 /\ \/ copies'[m] = copies[m] + 1 /\ unanswered'[m] = unanswered[m] + 1
                    \/ copies'[m] = copies[m] /\ unanswered'[m] = unanswered[m]
  <1>1. ~At(w, "idle")
    BY DEF Send, At
  <1>2. m \in Messages /\ copies \in [Messages -> Nat] /\ unanswered \in [Messages -> Nat]
    BY <1>1, WorkFacts DEF TypeOK
  <1>3. PICK out \in MailOutcome \cup SmsOutcome :
          /\ copies' = [copies EXCEPT ![m] = @ + (IF out.reached THEN 1 ELSE 0)]
          /\ unanswered' = [unanswered EXCEPT ![m] = @ + (IF out.reached /\ ~out.resolved THEN 1 ELSE 0)]
          /\ Goto(w, IF out.resolved THEN "sent" ELSE "threw")
    BY DEF Send
  <1>4. out.resolved => (out.reached <=> configured)
    <2>1. CASE out \in NoAnswer
      BY <2>1 DEF NoAnswer
    <2>2. CASE out \notin NoAnswer
      BY <2>2 DEF MailOutcome, SmsOutcome, NoOp, Accepted, Refused
    <2>3. QED
      BY <2>1, <2>2
  <1>5. QED
    BY <1>2, <1>3, <1>4 DEF Send, queueVars, TypeOK

LEMMA CopiesGrow ==
    ASSUME TypeOK, [Next]_vars, NEW m \in Messages
    PROVE  copies'[m] = copies[m] \/ copies'[m] = copies[m] + 1
  <1>1. ASSUME NEW w \in Worker, Send(w) PROVE copies'[m] = copies[m] \/ copies'[m] = copies[m] + 1
    <2>1. Messages' = Messages
      BY TypeStep DEF Messages
    <2>2. QED
      BY <1>1, <2>1, SendMoves
  <1>2. copies' = copies \/ \E w \in Worker : Send(w)
    BY DEF Next, vars, Drained, Begin, Proceed, Claim, Skip, Complete, Release, FaultClosed,
           Fault, Die, Shutdown, EnqueueMail, EnqueueOtp, Enqueue, HandOn, Expire
  <1>3. QED
    BY <1>1, <1>2

LEMMA AnswerStep ==
    ASSUME TypeOK, AnswerInv, [Next]_vars
    PROVE  AnswerInv'
  <1>0. Messages' = Messages /\ payload' = payload /\ configured' = configured
    BY TypeStep DEF Messages
  <1>1. ASSUME NEW x \in Worker, configured, At(x, "sent")'
        PROVE  copies'[payload[slot'[x]]] > 0
    <2>1. CASE slot'[x] = slot[x] /\ step'[x] = step[x]
      <3>1. At(x, "sent") /\ ~At(x, "idle")
        BY <1>1, <2>1 DEF At
      <3>2. payload[slot[x]] \in Messages /\ copies[payload[slot[x]]] > 0
        BY <1>1, <3>1, WorkFacts DEF AnswerInv
      <3>3. QED
        BY <2>1, <3>2, CopiesGrow, MessageFacts
    <2>2. CASE Send(x)
      <3>1. ~Goto(x, "threw")
        BY <1>1 DEF Goto, At, TypeOK
      <3>2. copies'[payload[slot[x]]] = copies[payload[slot[x]]] + 1 /\ slot' = slot
            /\ payload[slot[x]] \in Messages
        BY <1>0, <1>1, <2>2, <3>1, SendMoves
      <3>3. QED
        BY <3>2, MessageFacts
    <2>3. CASE (\E j \in Job : Begin(x, j)) \/ Claim(x) \/ Finishes(x) \/ Die(x)
      <3>1. \E s \in {"claim", "send", "idle"} : Goto(x, s)
        BY <2>3, FinishMoves DEF Begin, Claim, Die
      <3>2. QED
        BY <1>1, <3>1 DEF Goto, At, TypeOK
    <2>4. QED
      BY <2>1, <2>2, <2>3, WorkerMoves
  <1>2. ASSUME NEW m \in Messages PROVE unanswered'[m] <= copies'[m]
    <2>1. unanswered[m] <= copies[m]
      BY DEF AnswerInv
    <2>2. ASSUME NEW w \in Worker, Send(w) PROVE unanswered'[m] <= copies'[m]
      BY <1>0, <2>1, <2>2, SendMoves, MessageFacts
    <2>3. (copies' = copies /\ unanswered' = unanswered) \/ \E w \in Worker : Send(w)
      BY DEF Next, vars, Drained, Begin, Proceed, Claim, Skip, Complete, Release, FaultClosed,
             Fault, Die, Shutdown, EnqueueMail, EnqueueOtp, Enqueue, HandOn, Expire
    <2>4. QED
      BY <2>1, <2>2, <2>3
  <1>3. QED
    BY <1>0, <1>1, <1>2 DEF AnswerInv

\* Holders are finitely many, and change by the worker that moves.
LEMMA HoldersFinite ==
    ASSUME NEW k
    PROVE  IsFiniteSet(Holders(k)) /\ Cardinality(Holders(k)) \in Nat
  BY FS_Subset, FS_CardinalityType DEF Holders

LEMMA HoldersMove ==
    ASSUME TypeOK, NEW k, NEW w \in Worker, payload' = payload,
           \A x \in Worker \ {w} : slot'[x] = slot[x] /\ step'[x] = step[x]
    PROVE  LET H == Holders(k)
               N == Holders(k)'
           IN  /\ w \in H /\ w \notin N => Cardinality(N) = Cardinality(H) - 1
               /\ w \notin H /\ w \in N => Cardinality(N) = Cardinality(H) + 1
               /\ w \notin H /\ w \notin N => N = H
               /\ w \in H /\ w \in N => N = H
  <1> DEFINE H == Holders(k)
             N == Holders(k)'
  <1>1. H \subseteq Worker /\ N \subseteq Worker
    BY DEF Holders
  <1>2. \A x \in Worker \ {w} : x \in H <=> x \in N
    BY DEF Holders, Holding, KeyOf, At, DedupKey, MailKey, SmsKey
  <1>3. IsFiniteSet(H) /\ IsFiniteSet(N)
    BY <1>1, FS_Subset
  <1>4. w \in H /\ w \notin N => Cardinality(N) = Cardinality(H) - 1
    <2>1. SUFFICES ASSUME w \in H, w \notin N PROVE Cardinality(N) = Cardinality(H) - 1
      OBVIOUS
    <2>2. N = H \ {w}
      BY <1>1, <1>2, <2>1
    <2>3. QED
      BY <1>3, <2>1, <2>2, FS_RemoveElement
  <1>5. w \notin H /\ w \in N => Cardinality(N) = Cardinality(H) + 1
    <2>1. SUFFICES ASSUME w \notin H, w \in N PROVE Cardinality(N) = Cardinality(H) + 1
      OBVIOUS
    <2>2. N = H \cup {w}
      BY <1>1, <1>2, <2>1
    <2>3. QED
      BY <1>3, <2>1, <2>2, FS_AddElement
  <1>6. (w \in H <=> w \in N) => N = H
    BY <1>1, <1>2
  <1>7. QED
    BY <1>4, <1>5, <1>6

LEMMA CountStep ==
    ASSUME IInv, [Next]_vars
    PROVE  CountInv'
  <1> SUFFICES ASSUME NEW j \in Job
               PROVE  copies'[payload[j]] + Cardinality(Holders(DedupKey(j))')
                        <= unanswered'[payload[j]] + (MaxExpiries - expiries')
                           + (IF DedupKey(j) \in claimed' THEN 1 ELSE 0)
    <2>1. payload' = payload
      BY TypeStep DEF IInv
    <2>2. QED
      BY <2>1 DEF CountInv, DedupKey, MailKey, SmsKey, Holders, Holding, KeyOf, At
  <1> DEFINE m == payload[j]
             k == DedupKey(j)
             H == Holders(k)
             N == Holders(k)'
             c == IF k \in claimed THEN 1 ELSE 0
             d == IF k \in claimed' THEN 1 ELSE 0
  <1>0. /\ TypeOK /\ TypeOK' /\ payload' = payload /\ Messages' = Messages /\ k' = k
        /\ m \in Messages /\ copies[m] \in Nat /\ unanswered[m] \in Nat
        /\ copies'[m] \in Nat /\ unanswered'[m] \in Nat
        /\ expiries \in Nat /\ expiries' \in Nat /\ c \in 0..1 /\ d \in 0..1
    <2>1. TypeOK /\ TypeOK' /\ payload' = payload /\ m \in Messages
      BY TypeStep DEF IInv, Messages
    <2>2. QED
      BY <2>1 DEF TypeOK, Messages, DedupKey, MailKey, SmsKey
  <1>1. copies[m] + Cardinality(H) <= unanswered[m] + (MaxExpiries - expiries) + c
    BY DEF IInv, CountInv
  <1>2. Cardinality(H) \in Nat /\ Cardinality(N) \in Nat
    <2>1. IsFiniteSet(N)
      BY FS_Subset DEF Holders
    <2>2. QED
      BY <2>1, HoldersFinite, FS_CardinalityType
  <1> HIDE DEF m, k, H, N, c, d
  <1>g. SUFFICES copies'[m] + Cardinality(N) <= unanswered'[m] + (MaxExpiries - expiries') + d
    BY DEF m, k, N, d
  <1>a. \A w \in Worker : /\ w \in H <=> Holding(w) /\ KeyOf(w) = k
                          /\ w \in N <=> Holding(w)' /\ KeyOf(w)' = k
    BY <1>0 DEF H, N, Holders
  <1>b. ASSUME NEW w \in Worker,
               (\E i \in Job : Begin(w, i)) \/ Claim(w) \/ Send(w) \/ Finishes(w) \/ Die(w)
        PROVE  /\ w \in H /\ w \notin N => Cardinality(N) = Cardinality(H) - 1
               /\ w \notin H /\ w \in N => Cardinality(N) = Cardinality(H) + 1
               /\ w \notin H /\ w \notin N => Cardinality(N) = Cardinality(H)
               /\ w \in H /\ w \in N => Cardinality(N) = Cardinality(H)
    <2>1. \A x \in Worker \ {w} : slot'[x] = slot[x] /\ step'[x] = step[x]
      BY <1>0, <1>b, Others DEF Proceed, Finishes
    <2>2. QED
      BY <1>0, <2>1, HoldersMove DEF H, N, k
  <1>c. ASSUME NEW w \in Worker, NEW s, Goto(w, s)
        PROVE  Holding(w)' <=> s \in {"send", "threw"}
    BY <1>0, <1>c DEF Goto, Holding, At, TypeOK
  <1>3. ASSUME NEW w \in Worker, Finishes(w)
        PROVE  copies'[m] + Cardinality(N) <= unanswered'[m] + (MaxExpiries - expiries') + d
    <2>1. /\ w \notin N /\ copies' = copies /\ unanswered' = unanswered /\ expiries' = expiries
      BY <1>0, <1>3, <1>a, <1>c, FinishMoves
    <2>2. d < c => w \in H
      <3>1. SUFFICES ASSUME k \in claimed, k \notin claimed' PROVE w \in H
        BY DEF c, d
      <3>2. At(w, "threw") /\ KeyOf(w) = k
        BY <1>3, <3>1 DEF Finishes, Skip, Complete, Release, FaultClosed, Fault
      <3>3. QED
        BY <1>a, <3>2 DEF Holding
    <2>3. QED
      BY <1>0, <1>1, <1>2, <1>3, <1>b, <2>1, <2>2
  <1>4. ASSUME NEW w \in Worker, Die(w) \/ \E i \in Job : Begin(w, i)
        PROVE  copies'[m] + Cardinality(N) <= unanswered'[m] + (MaxExpiries - expiries') + d
    <2>1. w \notin N
      BY <1>4, <1>a, <1>c DEF Die, Begin
    <2>2. copies' = copies /\ unanswered' = unanswered /\ expiries' = expiries /\ d = c
      BY <1>4 DEF Die, Begin, c, d
    <2>3. QED
      BY <1>0, <1>1, <1>2, <1>4, <1>b, <2>1, <2>2
  <1>5. ASSUME NEW w \in Worker, Claim(w)
        PROVE  copies'[m] + Cardinality(N) <= unanswered'[m] + (MaxExpiries - expiries') + d
    <2>1. /\ copies' = copies /\ unanswered' = unanswered /\ expiries' = expiries
          /\ w \notin H /\ KeyOf(w) \notin claimed /\ claimed' = claimed \cup {KeyOf(w)}
      BY <1>5, <1>a DEF Claim, Holding, At
    <2>2. KeyOf(w)' = KeyOf(w)
      BY <1>0, <1>5 DEF Claim, queueVars, KeyOf, DedupKey, MailKey, SmsKey
    <2>3. CASE KeyOf(w) = k
      <3>1. d = 1 /\ c = 0
        BY <2>1, <2>3 DEF c, d
      <3>2. QED
        BY <1>0, <1>1, <1>2, <1>5, <1>b, <2>1, <3>1
    <2>4. CASE KeyOf(w) # k
      <3>1. d = c /\ w \notin N
        BY <1>a, <2>1, <2>2, <2>4 DEF c, d
      <3>2. QED
        BY <1>0, <1>1, <1>2, <1>5, <1>b, <2>1, <3>1
    <2>5. QED
      BY <2>3, <2>4
  <1>6. ASSUME NEW w \in Worker, Send(w)
        PROVE  copies'[m] + Cardinality(N) <= unanswered'[m] + (MaxExpiries - expiries') + d
    <2> DEFINE n == payload[slot[w]]
    <2>1. /\ slot' = slot /\ claimed' = claimed /\ expiries' = expiries /\ d = c
          /\ KeyOf(w)' = KeyOf(w) /\ Holding(w)
      BY <1>0, <1>6, SendMoves DEF c, d, KeyOf, DedupKey, MailKey, SmsKey, Send, Holding
    <2>2. n = m => w \in H
      BY <1>a, <2>1 DEF m, k, KeyOf, DedupKey, MailKey, SmsKey
    <2>3. CASE Goto(w, "sent")
      <3>1. w \notin N
        BY <1>a, <1>c, <2>3
      <3>2. ~Goto(w, "threw")
        BY <1>0, <2>3 DEF Goto, TypeOK
      <3>3. /\ n # m => copies'[m] = copies[m] /\ unanswered'[m] = unanswered[m]
            /\ n = m => /\ copies'[m] = copies[m] \/ copies'[m] = copies[m] + 1
                        /\ unanswered'[m] = unanswered[m]
        BY <1>0, <1>6, <3>2, SendMoves
      <3>4. QED
        BY <1>0, <1>1, <1>2, <1>6, <1>b, <2>1, <2>2, <3>1, <3>3
    <2>4. CASE Goto(w, "threw")
      <3>1. w \in N <=> w \in H
        BY <1>a, <1>c, <2>1, <2>4
      <3>2. ~Goto(w, "sent")
        BY <1>0, <2>4 DEF Goto, TypeOK
      <3>3. \/ copies'[m] = copies[m] /\ unanswered'[m] = unanswered[m]
            \/ copies'[m] = copies[m] + 1 /\ unanswered'[m] = unanswered[m] + 1
        BY <1>0, <1>6, <3>2, SendMoves
      <3>4. QED
        BY <1>0, <1>1, <1>2, <1>6, <1>b, <2>1, <3>1, <3>3
    <2>5. QED
      BY <1>0, <1>6, <2>3, <2>4, SendMoves
  <1>7. ASSUME slot' = slot, step' = step, copies' = copies, unanswered' = unanswered
        PROVE  N = H
    BY <1>0, <1>7, <1>a DEF N, H, Holders, Holding, KeyOf, DedupKey, MailKey, SmsKey, At
  <1>8. ASSUME NEW x \in Keys, Expire(x)
        PROVE  copies'[m] + Cardinality(N) <= unanswered'[m] + (MaxExpiries - expiries') + d
    <2>1. N = H /\ copies' = copies /\ unanswered' = unanswered /\ expiries' = expiries - 1
      BY <1>7, <1>8 DEF Expire, queueVars
    <2>2. QED
      BY <1>0, <1>1, <1>2, <2>1
  <1>9. CASE \/ \E w \in Worker : Shutdown(w)
             \/ \E i \in Job : EnqueueMail(i) \/ EnqueueOtp(i) \/ HandOn(i)
             \/ UNCHANGED vars
    <2>1. /\ slot' = slot /\ step' = step /\ copies' = copies /\ unanswered' = unanswered
          /\ expiries' = expiries /\ claimed' = claimed
      BY <1>9 DEF Shutdown, Close, EnqueueMail, EnqueueOtp, Enqueue, Add, HandOn, Stall, vars, queueVars
    <2>2. N = H /\ d = c
      BY <1>7, <2>1 DEF c, d
    <2>3. QED
      BY <1>1, <2>1, <2>2
  <1>10. QED
    BY <1>3, <1>4, <1>5, <1>6, <1>8, <1>9 DEF Next, Proceed, Finishes, Drained

-----------------------------------------------------------------------------
LEMMA InitInv == Init => IInv
  <1> SUFFICES ASSUME Init PROVE IInv
    OBVIOUS
  <1>1. \A w \in Worker : At(w, "idle") /\ ~Busy(w)
    BY DEF Init, QueueInit, At, Busy
  <1>2. QueueTypeOK
    BY FreshEntry DEF Init, QueueInit, QueueTypeOK, State
  <1>3. TypeOK
    BY <1>1, <1>2 DEF Init, TypeOK
  <1>4. LockInv
    BY DEF Init, QueueInit, LockInv, Fresh
  <1>5. AnswerInv
    BY <1>1 DEF Init, AnswerInv, At
  <1>6. \A k : Cardinality(Holders(k)) = 0
    <2>1. \A k : Holders(k) = {}
      BY <1>1 DEF Holders, Holding, At
    <2>2. QED
      BY <2>1, FS_EmptySet
  <1>7. CountInv
    <2>1. ASSUME NEW j \in Job PROVE copies[payload[j]] = 0 /\ unanswered[payload[j]] = 0
      BY DEF Init, Messages
    <2>2. QED
      BY <1>6, <2>1 DEF Init, CountInv
  <1>8. QED
    BY <1>3, <1>4, <1>5, <1>7 DEF IInv

LEMMA Inductive == IInv /\ [Next]_vars => IInv'
  BY TypeStep, LockStep, AnswerStep, CountStep DEF IInv

LEMMA Invariance == Spec => []IInv
  BY InitInv, Inductive, PTL DEF Spec

\* Every variable of the queue and of its workers keeps its type; a worker is in
\* process exactly while it holds a job.
THEOREM TypeCorrect == Spec => []TypeOK
  <1>1. IInv => TypeOK
    BY DEF IInv
  <1>2. QED
    BY <1>1, Invariance, PTL

\* However the jobs of a message are retried, handed on and sent, its recipient
\* gets one copy, one more for each send that threw although it went through,
\* and one more for each claim that ran out (MailProcessor.process,
\* SmsProcessor.process).
THEOREM CopiesBoundedHolds == Spec => []CopiesBounded
  <1>1. ASSUME IInv, NEW m \in Messages PROVE copies[m] <= 1 + unanswered[m] + (MaxExpiries - expiries)
    <2>1. PICK j \in Job : m = payload[j]
      BY DEF Messages
    <2>2. copies[m] + Cardinality(Holders(DedupKey(j)))
            <= unanswered[m] + (MaxExpiries - expiries) + (IF DedupKey(j) \in claimed THEN 1 ELSE 0)
      BY <1>1, <2>1 DEF IInv, CountInv
    <2>3. copies[m] \in Nat /\ unanswered[m] \in Nat /\ expiries \in Nat
      BY <1>1, MessageFacts DEF IInv, TypeOK
    <2>4. QED
      BY <2>2, <2>3, HoldersFinite
  <1>2. IInv => CopiesBounded
    BY <1>1 DEF CopiesBounded
  <1>3. QED
    BY <1>2, Invariance, PTL

\* "claimed atomically BEFORE the send so concurrent re-deliveries can't both
\* send" (MAIL_DEDUP_TTL_SECONDS): two workers send one message at a time only
\* after a claim has run out.
THEOREM OneSenderHolds == Spec => []OneSender
  <1>1. ASSUME IInv, NEW v \in Worker, NEW w \in Worker, At(v, "send"), At(w, "send"),
               KeyOf(v) = KeyOf(w), v # w
        PROVE  expiries < MaxExpiries
    <2> DEFINE j == slot[v]
               H == Holders(DedupKey(j))
    <2>1. j \in Job /\ payload[j] \in Messages
      BY <1>1, WorkFacts DEF IInv, At
    <2>2. v \in H /\ w \in H
      BY <1>1 DEF Holders, Holding, KeyOf
    <2>3. Cardinality({v, w}) = 2 /\ Cardinality({v, w}) <= Cardinality(H)
      <3>1. IsFiniteSet({v}) /\ Cardinality({v}) = 1
        BY FS_Singleton
      <3>2. {v, w} = {v} \cup {w} /\ w \notin {v} /\ {v, w} \subseteq H
        BY <1>1, <2>2
      <3>3. Cardinality({v, w}) = 2
        <4>1. w \notin {v} => Cardinality({v} \cup {w}) = Cardinality({v}) + 1
          BY <3>1, FS_AddElement
        <4>2. QED
          BY <3>1, <3>2, <4>1
      <3>4. IsFiniteSet(H)
        BY HoldersFinite
      <3>5. QED
        BY <3>2, <3>3, <3>4, FS_Subset
    <2>4. copies[payload[j]] + Cardinality(H) <= unanswered[payload[j]] + (MaxExpiries - expiries)
             + (IF DedupKey(j) \in claimed THEN 1 ELSE 0)
      BY <1>1, <2>1 DEF IInv, CountInv
    <2>5. /\ copies[payload[j]] \in Nat /\ unanswered[payload[j]] \in Nat /\ expiries \in Nat
          /\ unanswered[payload[j]] <= copies[payload[j]] /\ Cardinality(H) \in Nat
      BY <1>1, <2>1, MessageFacts, HoldersFinite DEF IInv, TypeOK, AnswerInv
    <2>6. QED
      BY <2>3, <2>4, <2>5
  <1>2. IInv => OneSender
    BY <1>1 DEF OneSender
  <1>3. QED
    BY <1>2, Invariance, PTL

-----------------------------------------------------------------------------
(* Losses. *)

\* The key names the message: every field of a job is in it.
LEMMA KeyNames ==
    ASSUME TypeOK, NEW i \in Job, NEW j \in Job, DedupKey(i) = DedupKey(j)
    PROVE  payload[i] = payload[j]
  <1>1. /\ payload[i] \in MailJob \cup SmsOtpJob
        /\ payload[j] \in MailJob \cup SmsOtpJob
    BY DEF TypeOK
  <1>2. CASE payload[i] \in MailJob /\ payload[j] \in MailJob
    BY <1>2 DEF MailJob, DedupKey, MailKey
  <1>3. CASE payload[i] \in SmsOtpJob /\ payload[j] \in SmsOtpJob
    BY <1>3 DEF SmsOtpJob, DedupKey, SmsKey
  <1>4. CASE payload[i] \in MailJob /\ payload[j] \in SmsOtpJob
    BY <1>4 DEF MailJob, SmsOtpJob, DedupKey, MailKey, SmsKey
  <1>5. CASE payload[i] \in SmsOtpJob /\ payload[j] \in MailJob
    BY <1>5 DEF MailJob, SmsOtpJob, DedupKey, MailKey, SmsKey
  <1>6. QED
    BY <1>1, <1>2, <1>3, <1>4, <1>5

LEMMA ClosedMoves ==
    ASSUME TypeOK, [Next]_vars, NEW x, x \in closed', x \notin closed
    PROVE  x \in Worker /\ Shutdown(x)
  <1>1. ASSUME NEW w \in Worker, Finishes(w) PROVE closed' \subseteq closed
    BY <1>1, FinishMoves, Ends DEF TypeOK
  <1>2. \E w \in Worker : Shutdown(w)
    BY <1>1 DEF Next, vars, Drained, queueVars, Proceed, Finishes, Claim, Send, Die, Crash, Leave,
                Begin, Take, EnqueueMail, EnqueueOtp, Enqueue, Add, HandOn, Stall, Expire
  <1>3. QED
    BY <1>2 DEF Shutdown, Close

\* Where a key comes from.
LEMMA KeyMoves ==
    ASSUME TypeOK, [Next]_vars, NEW k, k \in claimed', k \notin claimed
    PROVE  \E w \in Worker : /\ ~At(w, "idle") /\ KeyOf(w) = k
                             /\ Fault(w) \/ (Claim(w) /\ At(w, "send")' /\ slot' = slot)
  <1>1. PICK w \in Worker : (Claim(w) \/ Fault(w)) /\ KeyOf(w) = k
    BY DEF Next, vars, Drained, Proceed, Claim, Skip, Send, Complete, Release, FaultClosed, Fault,
           Die, Shutdown, Begin, EnqueueMail, EnqueueOtp, Enqueue, HandOn, Expire
  <1>2. ~At(w, "idle")
    BY <1>1 DEF Claim, Fault, At
  <1>3. Claim(w) => At(w, "send")' /\ slot' = slot
    BY DEF Claim, Goto, At, queueVars, TypeOK
  <1>4. QED
    BY <1>1, <1>2, <1>3

\* The trouble of a step is message m's.
Blamed(m) ==
    \/ \E w \in Worker : payload[slot[w]] = m /\ (Fault(w) \/ Die(w) \/ Shutdown(w))
    \/ \E j \in Job : payload[j] = m /\ HandOn(j) /\ troubles' = troubles + 1

LEMMA SoundStep ==
    ASSUME IInv, [Next]_vars, NEW m \in Messages, Sound(m), ~Blamed(m)
    PROVE  Sound(m)'
  <1> SUFFICES ASSUME configured', copies'[m] = 0
               PROVE  /\ \A j \in Job : payload'[j] = m /\ DedupKey(j)' \in claimed' =>
                            \E w \in Worker : Holding(w)' /\ payload'[slot'[w]] = m
                      /\ \E j \in Job : payload'[j] = m /\ job'[j].state # "completed"
                      /\ \A w \in Worker : Busy(w)' /\ payload'[slot'[w]] = m => Reports(w)'
    BY DEF Sound
  <1>0. /\ TypeOK /\ QueueTypeOK /\ LockInv /\ payload' = payload /\ Messages' = Messages
        /\ configured /\ copies[m] = 0
        /\ \A j : DedupKey(j)' = DedupKey(j)
    <2>1. TypeOK /\ payload' = payload /\ configured
      BY TypeStep DEF IInv
    <2>2. copies[m] = 0
      BY <2>1, CopiesGrow, MessageFacts
    <2>3. QED
      BY <2>1, <2>2 DEF IInv, TypeOK, Messages, DedupKey, MailKey, SmsKey
  <1>1. /\ \A j \in Job : payload[j] = m /\ DedupKey(j) \in claimed =>
              \E w \in Worker : Holding(w) /\ payload[slot[w]] = m
        /\ \E j \in Job : payload[j] = m /\ job[j].state # "completed"
        /\ \A w \in Worker : Busy(w) /\ payload[slot[w]] = m => Reports(w)
    BY <1>0 DEF Sound
  <1>h. \A w \in Worker : Holding(w) => ~At(w, "idle")
    BY DEF Holding, At
  <1>2. ASSUME NEW j \in Job, payload[j] = m, DedupKey(j) \in claimed'
        PROVE  \E w \in Worker : Holding(w)' /\ payload[slot'[w]] = m
    <2>1. CASE DedupKey(j) \in claimed
      <3>1. PICK x \in Worker : Holding(x) /\ payload[slot[x]] = m
        BY <1>1, <1>2, <2>1
      <3>2. Busy(x) /\ Reports(x) /\ slot[x] \in Job
        BY <1>0, <1>1, <1>h, <3>1, WorkFacts
      <3>3. KeyOf(x) = DedupKey(j)
        BY <1>2, <3>1 DEF KeyOf, DedupKey, MailKey, SmsKey
      <3>4. CASE slot'[x] = slot[x] /\ step'[x] = step[x]
        BY <3>1, <3>4 DEF Holding, At
      <3>5. CASE Send(x)
        <4>1. copies'[m] # copies[m] + 1
          BY <1>0
        <4>2. Goto(x, "threw") /\ slot' = slot
          BY <1>0, <3>1, <3>5, <4>1, SendMoves
        <4>3. Holding(x)'
          BY <1>0, <4>2 DEF Goto, Holding, At, TypeOK
        <4>4. QED
          BY <3>1, <4>2, <4>3
      <3>6. ~Fault(x) /\ ~Die(x)
        BY <3>1 DEF Blamed
      <3>7. ~Release(x)
        BY <1>2, <3>3 DEF Release
      <3>8. ~FaultClosed(x) /\ ~Skip(x) /\ ~Complete(x) /\ ~Claim(x)
        BY <3>1, <3>2 DEF FaultClosed, Reports, Skip, Complete, Claim, Holding, At
      <3>9. \A i \in Job : ~Begin(x, i)
        BY <3>2 DEF Begin, Take
      <3>10. QED
        BY <1>0, <3>4, <3>5, <3>6, <3>7, <3>8, <3>9, WorkerMoves DEF Finishes
    <2>2. CASE DedupKey(j) \notin claimed
      <3>1. PICK w \in Worker : /\ ~At(w, "idle") /\ KeyOf(w) = DedupKey(j)
                                /\ Fault(w) \/ (Claim(w) /\ At(w, "send")' /\ slot' = slot)
        BY <1>0, <1>2, <2>2, KeyMoves
      <3>2. payload[slot[w]] = m
        BY <1>0, <1>2, <3>1, WorkFacts, KeyNames DEF KeyOf
      <3>3. QED
        BY <3>1, <3>2 DEF Blamed, Holding
    <2>3. QED
      BY <2>1, <2>2
  <1>3. \E j \in Job : payload[j] = m /\ job'[j].state # "completed"
    <2>1. PICK j \in Job : payload[j] = m /\ job[j].state # "completed"
      BY <1>1
    <2>2. CASE job'[j].state = "completed"
      <3>1. PICK w \in Worker : slot[w] = j /\ Reports(w) /\ (Skip(w) \/ Complete(w))
        BY <1>0, <2>1, <2>2, JobMoves
      <3>2. ~Complete(w)
        BY <1>0, <2>1, <3>1 DEF Complete, IInv, AnswerInv
      <3>3. At(w, "claim") /\ DedupKey(j) \in claimed /\ Resolve(w) /\ ~At(w, "idle")
        BY <3>1, <3>2 DEF Skip, KeyOf, At
      <3>4. PICK x \in Worker : Holding(x) /\ payload[slot[x]] = m
        BY <1>1, <2>1, <3>3
      <3>5. x # w
        BY <3>3, <3>4 DEF Holding, At
      <3>6. slot[x] \in Job /\ Reports(x)
        BY <1>0, <1>1, <1>h, <3>4, WorkFacts
      <3>7. job[slot[x]].owner = x /\ slot[x] # j
        BY <3>1, <3>5, <3>6 DEF Reports
      <3>8. job[slot[x]].state = "active"
        BY <1>0, <3>6, <3>7 DEF LockInv
      <3>9. job'[slot[x]] = job[slot[x]]
        BY <1>0, <3>1, <3>3, <3>6, <3>7, WorkFacts, Ends
      <3>10. QED
        BY <3>4, <3>6, <3>8, <3>9
    <2>3. QED
      BY <2>1, <2>2
  <1>4. ASSUME NEW w \in Worker, Busy(w)', payload[slot'[w]] = m PROVE Reports(w)'
    <2>1. CASE slot'[w] = slot[w] /\ step'[w] = step[w]
      <3> DEFINE j == slot[w]
      <3>1. Busy(w) /\ j \in Job /\ payload[j] = m
        BY <1>0, <1>4, <2>1, BusyFacts DEF Busy
      <3>2. Reports(w)
        BY <1>1, <1>4, <2>1, <3>1
      <3>3. job[j].owner = w /\ w \notin closed /\ job[j].state = "active"
        BY <1>0, <3>1, <3>2 DEF Reports, LockInv
      <3>4. w \notin closed'
        BY <1>0, <3>1, <3>3, ClosedMoves DEF Blamed
      <3>5. \A x \in Worker : ~Begin(x, j)
        BY <1>0, <3>1, <3>3, Takes DEF Begin
      <3>6. ASSUME NEW x \in Worker, Finishes(x), slot[x] = j, Reports(x) PROVE FALSE
        <4>1. x = w
          BY <3>3, <3>6 DEF Reports
        <4>2. ~Busy(w)'
          BY <1>0, <3>6, <4>1, FinishMoves, Ends
        <4>3. QED
          BY <1>4, <4>2
      <3>7. ~(HandOn(j) /\ troubles' = troubles + 1)
        BY <3>1 DEF Blamed
      <3>8. job'[j] = job[j]
        BY <1>0, <3>1, <3>2, <3>3, <3>5, <3>6, <3>7, JobMoves
      <3>9. QED
        BY <2>1, <3>3, <3>4, <3>8 DEF Reports
    <2>2. ASSUME NEW i \in Job, Begin(w, i) PROVE Reports(w)'
      BY <1>0, <2>2, Takes DEF Begin, Reports, LockInv
    <2>3. CASE Claim(w) \/ Send(w)
      <3>1. slot' = slot /\ job' = job /\ closed' = closed
        BY <2>3 DEF Claim, Send, queueVars
      <3>2. Reports(w)
        BY <1>1, <1>4, <3>1 DEF Busy
      <3>3. QED
        BY <3>1, <3>2 DEF Reports
    <2>4. CASE Finishes(w)
      BY <1>0, <1>4, <2>4, FinishMoves, Ends
    <2>5. CASE Die(w)
      BY <1>0, <1>4, <2>5 DEF Die, Crash, Leave, Busy, QueueTypeOK
    <2>6. QED
      BY <1>0, <2>1, <2>2, <2>3, <2>4, <2>5, WorkerMoves
  <1>5. QED
    BY <1>0, <1>2, <1>3, <1>4

\* A trouble is one message's.
LEMMA OneBlamed ==
    ASSUME IInv, [Next]_vars, NEW m, NEW n, Blamed(m), Blamed(n)
    PROVE  m = n /\ troubles' = troubles + 1
  <1>0. TypeOK /\ QueueTypeOK
    BY DEF IInv, TypeOK
  <1>1. ASSUME NEW w \in Worker, Fault(w) \/ Die(w)
        PROVE  Busy(w) /\ ~Busy(w)' /\ troubles' = troubles + 1
               /\ \A x \in Worker \ {w} : slot'[x] = slot[x]
    <2>1. CASE Fault(w)
      BY <1>0, <2>1, FinishMoves, Ends DEF Finishes, Fault, Trouble
    <2>2. CASE Die(w)
      BY <1>0, <2>2 DEF Die, Crash, Leave, Busy, Trouble, QueueTypeOK
    <2>3. QED
      BY <1>1, <2>1, <2>2
  <1>2. ASSUME NEW w \in Worker, Shutdown(w)
        PROVE  /\ slot' = slot /\ job' = job /\ troubles' = troubles + 1
               /\ w \notin closed /\ closed' = closed \cup {w}
    BY <1>2 DEF Shutdown, Close, Trouble
  <1>3. ASSUME NEW j \in Job, HandOn(j)
        PROVE  /\ slot' = slot /\ closed' = closed /\ job'[j] # job[j]
               /\ \A i \in Job \ {j} : job'[i] = job[i]
    BY <1>0, <1>3, Stalls DEF HandOn
  <1>4. CASE \E w \in Worker : Fault(w) \/ Die(w)
    <2>1. PICK w \in Worker : Fault(w) \/ Die(w)
      BY <1>4
    <2>2. \A x \in Worker : Fault(x) \/ Die(x) \/ Shutdown(x) => x = w
      BY <1>1, <1>2, <2>1 DEF Busy
    <2>3. \A j \in Job : ~HandOn(j)
      BY <1>1, <1>3, <2>1 DEF Busy
    <2>4. QED
      BY <1>1, <2>1, <2>2, <2>3 DEF Blamed
  <1>5. CASE \E w \in Worker : Shutdown(w)
    <2>1. PICK w \in Worker : Shutdown(w)
      BY <1>5
    <2>2. \A x \in Worker : Fault(x) \/ Die(x) \/ Shutdown(x) => x = w
      BY <1>1, <1>2, <2>1 DEF Busy
    <2>3. \A j \in Job : ~HandOn(j)
      BY <1>2, <1>3, <2>1
    <2>4. QED
      BY <1>2, <2>1, <2>2, <2>3 DEF Blamed
  <1>6. CASE \A w \in Worker : ~(Fault(w) \/ Die(w) \/ Shutdown(w))
    BY <1>3, <1>6 DEF Blamed
  <1>7. QED
    BY <1>4, <1>5, <1>6

LEMMA MessagesFinite ==
    ASSUME TypeOK
    PROVE  IsFiniteSet(Messages)
  <1>1. payload \in [Job -> Messages] /\ \A m \in Messages : \E j \in Job : payload[j] = m
    <2>1. payload \in [Job -> MailJob \cup SmsOtpJob]
      BY DEF TypeOK
    <2>2. QED
      BY <2>1 DEF Messages
  <1>2. payload \in Surjection(Job, Messages)
    BY <1>1 DEF Surjection
  <1>3. QED
    BY <1>2, FS_Surjection

LEMMA LossStep ==
    ASSUME IInv, LossInv, [Next]_vars
    PROVE  LossInv'
  <1>0. TypeOK /\ Messages' = Messages /\ troubles \in Nat /\ troubles' \in Nat
    <2>1. TypeOK /\ TypeOK' /\ payload' = payload
      BY TypeStep DEF IInv
    <2>2. QED
      BY <2>1 DEF TypeOK, QueueTypeOK, Messages
  <1>1. /\ IsFiniteSet(Unsound) /\ IsFiniteSet(Unsound')
        /\ Cardinality(Unsound) \in Nat /\ Cardinality(Unsound') \in Nat
    <2>1. Unsound \subseteq Messages /\ Unsound' \subseteq Messages
      BY <1>0 DEF Unsound
    <2>2. IsFiniteSet(Unsound) /\ IsFiniteSet(Unsound')
      BY <1>0, <2>1, MessagesFinite, FS_Subset
    <2>3. QED
      BY <2>2, FS_CardinalityType
  <1>2. \A m \in Unsound' \ Unsound : Blamed(m)
    BY <1>0, SoundStep DEF Unsound
  <1>3. CASE Unsound' \subseteq Unsound
    <2>1. Cardinality(Unsound') <= Cardinality(Unsound)
      BY <1>1, <1>3, FS_Subset
    <2>2. troubles' = troubles \/ troubles' = troubles + 1
      <3>1. ASSUME NEW w \in Worker, Finishes(w) PROVE troubles' = troubles \/ troubles' = troubles + 1
        BY <1>0, <3>1, FinishMoves
      <3>2. ASSUME NEW w \in Worker, Die(w) \/ Shutdown(w) PROVE troubles' = troubles + 1
        BY <3>2 DEF Die, Crash, Shutdown, Close, Trouble
      <3>3. ASSUME NEW j \in Job, HandOn(j) PROVE troubles' = troubles \/ troubles' = troubles + 1
        BY <3>3 DEF HandOn, Stall, Trouble
      <3>4. QED
        BY <3>1, <3>2, <3>3
        DEF Next, vars, queueVars, Drained, Proceed, Finishes, Claim, Send, Begin, Take, EnqueueMail,
            EnqueueOtp, Enqueue, Add, Expire
    <2>3. QED
      BY <1>0, <1>1, <2>1, <2>2 DEF LossInv
  <1>4. CASE ~(Unsound' \subseteq Unsound)
    <2>1. PICK m \in Unsound' \ Unsound : Blamed(m)
      BY <1>2, <1>4
    <2>2. Unsound' \subseteq Unsound \cup {m} /\ troubles' = troubles + 1
      BY <1>2, <2>1, OneBlamed
    <2>3. /\ IsFiniteSet(Unsound \cup {m})
          /\ Cardinality(Unsound \cup {m}) = Cardinality(Unsound) + 1
      BY <1>1, <2>1, FS_AddElement
    <2>4. Cardinality(Unsound') <= Cardinality(Unsound) + 1
      BY <2>2, <2>3, FS_Subset
    <2>5. QED
      BY <1>0, <1>1, <2>2, <2>4 DEF LossInv
  <1>5. QED
    BY <1>3, <1>4

\* "already sent; skipping duplicate" (MailProcessor.process, SmsProcessor.process):
\* messages whose jobs all completed though nobody was sent them are no more
\* than the workers that died, were shut down or were overtaken and the calls
\* that were lost, each with one message.
THEOREM LossesAccountedHolds == Spec => []LossesAccounted
  <1>1. Init => LossInv
    <2> SUFFICES ASSUME Init PROVE LossInv
      OBVIOUS
    <2>1. \A w \in Worker : ~Busy(w)
      BY DEF Init, QueueInit, Busy
    <2>2. ASSUME NEW m \in Messages PROVE Sound(m)
      <3>1. PICK j \in Job : payload[j] = m
        BY DEF Messages
      <3>2. job[j].state # "completed" /\ claimed = {}
        BY <3>1 DEF Init, QueueInit, Fresh
      <3>3. QED
        BY <2>1, <3>1, <3>2 DEF Sound
    <2>3. Unsound = {}
      BY <2>2 DEF Unsound
    <2>4. QED
      BY <2>3, FS_EmptySet DEF LossInv, Init, QueueInit
  <1>2. IInv /\ LossInv /\ [Next]_vars => LossInv'
    BY LossStep
  <1>3. ASSUME IInv, LossInv PROVE LossesAccounted
    <2>1. Lost \subseteq Unsound /\ Unsound \subseteq Messages
      BY DEF Lost, Unsound, Sound
    <2>2. IsFiniteSet(Unsound)
      BY <1>3, <2>1, MessagesFinite, FS_Subset DEF IInv
    <2>3. /\ Cardinality(Lost) <= Cardinality(Unsound)
          /\ Cardinality(Unsound) \in Nat /\ Cardinality(Lost) \in Nat
      BY <2>1, <2>2, FS_Subset, FS_CardinalityType
    <2>4. troubles \in Nat
      BY <1>3 DEF IInv, TypeOK, QueueTypeOK
    <2>5. QED
      BY <1>3, <2>3, <2>4 DEF LossInv, LossesAccounted
  <1>4. IInv /\ LossInv => LossesAccounted
    BY <1>3
  <1>5. QED
    BY <1>1, <1>2, <1>4, Invariance, PTL DEF Spec
=============================================================================
