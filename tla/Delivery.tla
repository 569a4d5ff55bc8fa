------------------------------ MODULE Delivery ------------------------------
(***************************************************************************)
(* Codes on their way to a recipient: MailProcessor and SmsProcessor.  A   *)
(* worker claims a dedup key for the message (RedisService.acquireLock),   *)
(* sends, and deletes the key if the send failed, so that the retry may    *)
(* send.  A worker that finds the key claimed takes the message for sent.  *)
(*                                                                         *)
(* The providers are external: a message reaches the recipient or not, and *)
(* the call resolves or not.                                               *)
(***************************************************************************)
EXTENDS JobQueue, FiniteSets

CONSTANTS
    Recipient,    \* mail addresses and phone numbers
    OtpCode,
    Payloads,     \* what the jobs may carry
    MaxExpiries   \* bound on dedup keys that run out while they matter

Template == {"otp", "verify-email", "password-reset"}
MailJob == [queue: {"mail"}, template: Template, to: Recipient, code: OtpCode]
SmsOtpJob == [queue: {"sms"}, to: Recipient, otp: OtpCode]

ASSUME DeliveryAssumption ==
    /\ MaxExpiries \in Nat
    /\ Payloads \subseteq [Job -> MailJob \cup SmsOtpJob]
    /\ IsFiniteSet(Worker) /\ IsFiniteSet(Job)

VARIABLES
    payload,     \* what MailQueueService or SmsQueueService put into each job
    configured,  \* the provider is configured
    step,        \* where each worker stands
    claimed,     \* the dedup keys present in Redis
    expiries,    \* expiries that may still happen
    copies,      \* history: copies of a message that reached the recipient
    unanswered   \* history: those of them whose send threw

data == <<payload, configured>>
vars == <<queueVars, data, step, claimed, expiries, copies, unanswered>>

MailKey(mail) == <<"mail", mail.template, mail.to, mail.code>>
SmsKey(sms) == <<"sms", sms.to, sms.otp>>

\* Mutant: the template is no part of the key.
KeyWithoutTemplate(j) ==
    IF payload[j].queue = "mail" THEN <<"mail", payload[j].to, payload[j].code>> ELSE SmsKey(payload[j])

DedupKey(j) == IF payload[j].queue = "mail" THEN MailKey(payload[j]) ELSE SmsKey(payload[j])

Messages == {payload[j] : j \in Job}
Keys == {DedupKey(j) : j \in Job}
KeyOf(w) == DedupKey(slot[w])
At(w, s) == step[w] = s
Goto(w, s) == step' = [step EXCEPT ![w] = s]

TypeOK ==
    /\ QueueTypeOK
    /\ payload \in Payloads
    /\ configured \in BOOLEAN
    /\ step \in [Worker -> {"idle", "claim", "send", "sent", "threw"}]
    /\ \A w \in Worker : At(w, "idle") <=> ~Busy(w)
    /\ claimed \in SUBSET Keys
    /\ expiries \in 0..MaxExpiries
    /\ copies \in [Messages -> Nat]
    /\ unanswered \in [Messages -> Nat]

Init ==
    /\ QueueInit
    /\ payload \in Payloads
    /\ configured \in BOOLEAN
    /\ step = [w \in Worker |-> "idle"]
    /\ claimed = {}
    /\ expiries = MaxExpiries
    /\ copies = [m \in Messages |-> 0]
    /\ unanswered = [m \in Messages |-> 0]

-----------------------------------------------------------------------------
\* BullMQ gives the id: two equal messages are two jobs.
Enqueue(j) ==
    /\ job[j].state = "absent"
    /\ Add(j)
    /\ UNCHANGED <<data, step, claimed, expiries, copies, unanswered>>

EnqueueMail(j) == payload[j].queue = "mail" /\ Enqueue(j)
EnqueueOtp(j) == payload[j].queue = "sms" /\ Enqueue(j)

Begin(w, j) ==
    /\ Take(w, j)
    /\ Goto(w, "claim")
    /\ UNCHANGED <<data, claimed, expiries, copies, unanswered>>

\* Mutant: the key is set whether it was there or not.
ClaimAnyway(w) ==
    /\ At(w, "claim") /\ w \notin closed
    /\ claimed' = claimed \cup {KeyOf(w)}
    /\ Goto(w, "send")
    /\ UNCHANGED <<queueVars, data, expiries, copies, unanswered>>

\* acquireLock sets the key.
Claim(w) ==
    /\ At(w, "claim") /\ w \notin closed
    /\ KeyOf(w) \notin claimed
    /\ claimed' = claimed \cup {KeyOf(w)}
    /\ Goto(w, "send")
    /\ UNCHANGED <<queueVars, data, expiries, copies, unanswered>>

\* The key is there: "already sent; skipping duplicate".
Skip(w) ==
    /\ At(w, "claim") /\ w \notin closed
    /\ KeyOf(w) \in claimed
    /\ Goto(w, "idle")
    /\ Resolve(w)
    /\ UNCHANGED <<troubles, data, claimed, expiries, copies, unanswered>>

NoOp == [reached |-> FALSE, resolved |-> TRUE]
Accepted == [reached |-> TRUE, resolved |-> TRUE]
Refused == [reached |-> FALSE, resolved |-> FALSE]
NoAnswer == [reached: BOOLEAN, resolved: {FALSE}]

\* What one MailService.sendHtml may do.
MailOutcome ==
    IF ~configured THEN {NoOp}
    ELSE {Accepted} \cup NoAnswer

\* What one HttpSmsSender.send may do: the gateway accepts with the success
\* prefix, refuses, or fails or times out with the message perhaps on its way.
SmsOutcome ==
    IF ~configured THEN {NoOp}
    ELSE {Accepted, Refused} \cup NoAnswer

\* The send, whose answer the worker hears with its Redis connection open or not.
Send(w) ==
    /\ At(w, "send")
    /\ \E out \in IF payload[slot[w]].queue = "mail" THEN MailOutcome ELSE SmsOutcome :
        /\ copies' = [copies EXCEPT ![payload[slot[w]]] = @ + (IF out.reached THEN 1 ELSE 0)]
        /\ unanswered' = [unanswered EXCEPT
                ![payload[slot[w]]] = @ + (IF out.reached /\ ~out.resolved THEN 1 ELSE 0)]
        /\ Goto(w, IF out.resolved THEN "sent" ELSE "threw")
    /\ UNCHANGED <<queueVars, data, claimed, expiries>>

\* process returns.
Complete(w) ==
    /\ At(w, "sent")
    /\ Goto(w, "idle")
    /\ Resolve(w)
    /\ UNCHANGED <<troubles, data, claimed, expiries, copies, unanswered>>

\* redis.del of the key, whoever has set it, and the error goes on.
Release(w) ==
    /\ At(w, "threw") /\ w \notin closed
    /\ claimed' = claimed \ {KeyOf(w)}
    /\ Goto(w, "idle")
    /\ Reject(w)
    /\ UNCHANGED <<troubles, data, expiries, copies, unanswered>>

-----------------------------------------------------------------------------
\* A Redis call of process is lost before or after it took effect, and throws.
Fault(w) ==
    /\ w \notin closed
    /\ \/ At(w, "claim") /\ claimed' \in {claimed, claimed \cup {KeyOf(w)}}
       \/ At(w, "threw") /\ claimed' \in {claimed, claimed \ {KeyOf(w)}}
    /\ Trouble
    /\ Goto(w, "idle")
    /\ Reject(w)
    /\ UNCHANGED <<data, expiries, copies, unanswered>>

\* The same calls on a connection that was quit.
FaultClosed(w) ==
    /\ w \in closed
    /\ At(w, "claim") \/ At(w, "threw")
    /\ Goto(w, "idle")
    /\ Reject(w)
    /\ UNCHANGED <<troubles, data, claimed, expiries, copies, unanswered>>

Die(w) ==
    /\ Crash(w)
    /\ Goto(w, "idle")
    /\ UNCHANGED <<data, claimed, expiries, copies, unanswered>>

Shutdown(w) ==
    /\ Close(w)
    /\ UNCHANGED <<data, step, claimed, expiries, copies, unanswered>>

HandOn(j) ==
    /\ Stall(j)
    /\ UNCHANGED <<data, step, claimed, expiries, copies, unanswered>>

\* MAIL_DEDUP_TTL_SECONDS or SMS_DEDUP_TTL_SECONDS have passed.
Expire(k) ==
    /\ k \in claimed
    /\ expiries > 0
    /\ expiries' = expiries - 1
    /\ claimed' = claimed \ {k}
    /\ UNCHANGED <<queueVars, data, step, copies, unanswered>>

Drained ==
    /\ \A j \in Job : Settled(j)
    /\ UNCHANGED vars

-----------------------------------------------------------------------------
Proceed(w) ==
    Claim(w) \/ Skip(w) \/ Send(w) \/ Complete(w) \/ Release(w) \/ FaultClosed(w)

\* A mail on its way to the provider: the client waits for the answer without a
\* timeout, and the worker renews the job's lock while it waits.
MayHang(w) == At(w, "send") /\ payload[slot[w]].queue = "mail" /\ configured

Next ==
    \/ \E w \in Worker :
        (\E j \in Job : Begin(w, j)) \/ Proceed(w) \/ Fault(w) \/ Die(w) \/ Shutdown(w)
    \/ \E j \in Job : EnqueueMail(j) \/ EnqueueOtp(j) \/ HandOn(j)
    \/ \E k \in Keys : Expire(k)
    \/ Drained

Spec == Init /\ [][Next]_vars

\* Jobs are taken, Redis answers, the SMS gateway is given SMS_TIMEOUT_MS, and the
\* stalled check runs; a mail may hang for ever.
FairSpec ==
    /\ Spec
    /\ \A w \in Worker :
        WF_vars(Proceed(w) /\ ~MayHang(w)) /\ WF_vars(\E j \in Job : Begin(w, j))
    /\ \A j \in Job : WF_vars(HandOn(j))

-----------------------------------------------------------------------------
(* Properties *)

\* A recipient gets one copy, one more for each send that threw although it went
\* through, and one more for each claim that ran out: the plain DEL of a worker
\* whose claim ran out may free another's, but costs no copy beyond that.
CopiesBounded ==
    \A m \in Messages : copies[m] <= 1 + unanswered[m] + (MaxExpiries - expiries)

\* "claimed atomically BEFORE the send so concurrent re-deliveries can't both
\* send" (MAIL_DEDUP_TTL_SECONDS).
OneSender ==
    \A v, w \in Worker :
        At(v, "send") /\ At(w, "send") /\ KeyOf(v) = KeyOf(w) /\ v # w => expiries < MaxExpiries

\* A message whose jobs all ended as completed and that nobody was sent.
Lost == {m \in Messages :
            /\ configured
            /\ copies[m] = 0
            /\ \A j \in Job : payload[j] = m => Settled(j) /\ job[j].state = "completed"}

\* "Mail already sent; skipping duplicate" is true but for one message for each
\* crash, shutdown, overtake or lost call: a claim proves that somebody sends,
\* not that the message was sent.
LossesAccounted == Cardinality(Lost) <= troubles

\* Every job that was enqueued ends, whatever fails and whoever dies, unless its
\* own mail hangs for ever or mails that hang have taken all the workers.
AllSettle ==
    \A j \in Job :
        \/ job[j].state # "absent" ~> Settled(j)
        \/ <>[](\E w \in Worker : MayHang(w) /\ slot[w] = j)
        \/ <>[](\A w \in Worker : MayHang(w))
=============================================================================
