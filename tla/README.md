# Verification of nestjs-boilerplate

TLA+ models of the stateful parts of this NestJS backend, the TLC runs that
check them on small instances, and TLAPS proofs of theorems about them for
every value of their constants. `PROJECT.json` is the index: components, runs,
mutants, the source lines each definition stands for, findings, hazards and
theorems. Paths below are relative to `src/src/modules/`.

    tlc -workers 2 -config OtpSession_flows.cfg MCOtpSession
    tlapm OtpSession_proofs.tla

## 1. The system

An HTTP API in front of PostgreSQL (Drizzle), Redis (ioredis) and BullMQ
workers, deployed as several identical Node replicas. Inside one process
handlers interleave at every `await`; between processes nothing orders them but
single Redis commands and single SQL statements. There are almost no
transactions, so **an await is the unit of atomicity** everywhere, and it is the
step of every model here.

| Component | State | Operations | Talks to | What is hard, and what makes it correct |
|---|---|---|---|---|
| OTP sessions (`platform/auth/auth.service.ts`) | Redis: session JSON under a UUID with a TTL, a wrong-guess counter with a TTL of its own; `users` rows | register, resendEmailVerification, loginEmail, registerPhone, loginPhone; verifyEmail, verifyEmailLogin, verifyPhoneRegister, verifyPhoneLogin | mail and SMS queues, users, token issue | Concurrent verifies, expiry between two steps, two flows under one key prefix, lost requests. A session logs in once, in its own flow, and answers few wrong guesses. |
| Logins and refresh tokens (same file) | `users.password`, `users.refresh_token` (a bcrypt digest) | login, googleLogin, appleLogin, refresh, logout, changePassword, resetPassword's writes | users | Read-check-write races on one row. A revocation is final; a reset password stays; a rotated token is spent. |
| Password reset (same file) | Redis: the code and its failure counter | forgotPassword, resetPassword | limiter, mail, users | Two resets with one code, a code replaced meanwhile, failures counted after the comparison. |
| Rate limits (same file) | Redis: one counter per identifier | assertRateLimit (resend, e-mail login, phone), ensureForgotPasswordRateLimit | – | INCR and EXPIRE are two calls. No window admits too many, and every window ends. |
| Redis lock (`shared/redis/redis.service.ts`) | one key | acquireLock, releaseLock | media sweep; mail and SMS workers | Critical sections longer than the TTL, dead holders, lost answers. |
| Notification broadcast (`platform/notifications/`) | `notification` rows with a push status, BullMQ jobs | enqueueBroadcast, the chunk processor, onFailed | BullMQ, OneSignal | At-least-once delivery, partial progress, stalled workers, a user in two chunks. |
| Notification inbox (`platform/notifications/inbox/`) | `notification` rows | notifyUser (detached from the event listener), list, unread count, markRead | event listener, push | A push recorded after its row was read; a process that dies between insert and record; a markRead of the serial id to come. |
| Media cleanup (`platform/storage/services/media-cleanup.service.ts`) | objects in GCS, references in tables | sweepOrphans (cron, weekly) | lock, storage, reference providers | References collected long before objects are deleted; sweeps that outlive their lock. |
| Job queues (`platform/queue/`) | BullMQ jobs: attempts, stalls, retention | add, process, retry, failed; shutdown | Redis | At-least-once delivery: a job may run twice at a time, or end with no worker having finished it. |
| Mail and SMS (`platform/mail/`, `platform/sms/`) | jobs, a dedup key per message | enqueue, process | lock, ZeptoMail, SMS gateway | Claim, send, release: a crash after the claim; an unfenced release; a send that throws and still arrives. |
| Media assets (`platform/media/`) | `media_asset` rows, objects, jobs | presignUpload, registerAsset, process, ensureProcessed, views | storage, BullMQ | Duplicate jobs, jobs deduplicated against finished ones, PUTs that arrive late. |
| Object storage (`platform/storage/services/`) | Redis: URL per object key | presignRead, presignReadMany | GCS | One cached URL for callers with different expiries; a page signed by runs that share a cursor. |
| Response cache (`shared/common/interceptors/cache.interceptor.ts`) | Redis: JSON per key | handleCacheable, handleEvict | any handler | A fill that overtakes an eviction. |
| Consent and legal documents (`user/consent/`, `user/legal-documents/`) | `legal_documents`, an append-only `user_consent` history | list, accept, revoke; find, publish | – | The latest row is the state, and rows commit out of order; a version becomes current in two statements. |
| Bug reports (`admin/bug-reports/`), Todo template (`_template/todo/`) | rows | create, list, find, update, remove | audit, storage | Reads followed by writes that select less than what was read. |
| Audit trail (`shared/common/audit/`) | `audit_logs` | the interceptor, the sink | any handler | Written out of band, after the change: an entry may be lost, or a change have none. |
| Guards, filter, envelope (`shared/common/`) | none | throttler, JwtAuthGuard, ProdAdminGuard, pipes, the exception filter | every route | What a caller is told must be true of what happened. |
| API documentation (`src/swagger/`, `scripts/generate-api-docs.mjs`) | a collection per mount; the generated files and their manifest | serve, convert, fetch, generate | – | Conversions shared by requests; runs that die between clean and manifest; a release between fetch and run. |
| Users' profiles, configuration, health, countries, migrations, bootstrap | rows or data | – | – | One statement, static, or one library call. |

## 2. The modules

| Module | Models | Proofs |
|---|---|---|
| `OtpSession` | the four OTP flows | `OtpSession_proofs` |
| `OneTimeCode` | abstract: what a one-time-code session promises | refined by `OtpSession` |
| `Requests` | the requests to AuthService in flight, each at an await; extended by the next three | – |
| `RefreshToken` | one `users` row: passwords and the stored refresh digest | in `PasswordReset_proofs` |
| `PasswordReset` | the reset code of one address and its failure counter | `PasswordReset_proofs` |
| `RateLimit` | one limiter key | in `PasswordReset_proofs` |
| `FencedLock` | acquireLock / releaseLock on one key | in `MediaSweep_proofs` |
| `Lease` | abstract: what such a lock promises | refined by `FencedLock` |
| `MediaSweep` | the sweep; EXTENDS `FencedLock`, whose actions are conjuncts of its own | `MediaSweep_proofs` |
| `Broadcast` | the chunk jobs of one broadcast, and the part of BullMQ they rely on | `Broadcast_proofs` |
| `JobQueue` | BullMQ's contract: ids, attempts, stalls, retention, workers that die or are shut down | with `Delivery` and `MediaAssets` |
| `Delivery` | mail and SMS workers; EXTENDS `JobQueue` | `Delivery_proofs` |
| `MediaAssets` | assets and their variants; EXTENDS `JobQueue` | `MediaAssets_proofs` |
| `PresignCache` | signing with retries, and the cache of signed URLs | `PresignCache_proofs` |
| `ErrorEnvelope` | the catalogs of error codes and what the filter makes of an exception | in `Api_proofs` |
| `AuditTrail` | the audit interceptor and its sink | in `Api_proofs` |
| `HttpRequest` | a request's way through guards, handler, interceptors and filter; EXTENDS both | in `Api_proofs` |
| `BugReports`, `Todos`, `Inbox`, `Consents`, `ResponseCache`, `ApiDocs` | one feature each: its rows and the awaits of its handlers, as EXTENSIONs of `HttpRequest` | in `Api_proofs` |
| `Api` | composes the six features with the pipeline and the audit trail | `Api_proofs` |
| `MC*` | symmetry sets and constant values for TLC | |

Definitions marked `Mutant` in a comment are plausible bugs; no specification
uses them. `PROJECT.json` says which property each of them breaks: a property
that no mutant of the code can break would say nothing about the code.

Variables named `history` record the past for the properties (who created an
account, how many wrong codes were tried); no guard reads them, except that
`aborts`, `budget` and `window` also serve as exploration bounds.

### OtpSession

State and code: `session[t]`, `ttl[t]` are the Redis value and TTL of session
token `t`; `attempts[t]`, `attemptsTtl[t]` its counter; `registered`,
`verified` the `users` rows; `req[r]` where a verify request stands.

Issuing is store (`setWithExpirySeconds`), enqueue (the mail or SMS job) and
answer; a failed enqueue deletes the session (loginEmail) or leaves it,
as each handler does. A verify goes through `ReadSession` (GET, type check,
constant-time comparison), then either `ClaimSession` (DEL; the answer 0 refuses),
`LoadAccount` (and `MarkVerified`) or `CreateAccount`, and `Grant`, or the failure path of
assertOtpMatch: `CountFailure` (INCR), `BoundCounter` (EXPIRE on the first),
`BurnSession` and `ClearCounter` above the limit. `Tick` is Redis' clock,
`Abort` a request lost between two awaits.

A code is abstracted to whether it is the session's. Rate limits in front of the
handlers only refuse requests and are `RateLimit`'s subject. The TTLs are only
ordered: e-mail verification's is the longest and is what `CounterTtl` uses. With
the code as it is they are 900, 300 and 180 s, because `getConfigNumber` looks up
keys that `env.schema.ts` does not declare and so always falls back.

* `SingleUse`, `OwnFlowOnly`, `RegistrantOwnsAccount`: whatever verifies race,
  a session is claimed once, in its own flow, and of several registrations pending for
  a number one creates the account.
* `GuessesBounded`: a session compares at most `MaxAttempts - 1` wrong codes, plus
  one for each request that may hold it when the limit is reached, plus one for each
  request lost before its burn. The bound is attained.
* `CounterCoversSession`: the counter never falls while its session lives.
  `CounterReclaimed`: it goes in the end (it may outlive the session).
* `OneTimeCodeSpec`: the handlers implement unborn – live – used or void, with one
  grant after one use.

### RefreshToken

One account: `password` (the password the stored hash was made from, or null for a social
account), `stored` (the refresh digest or null). Each request is read-check-write:
`CheckLogin`, `UpsertOAuth`, `CheckRefresh`, then `IssueTokens` (sign, hash, UPDATE);
`Revoke` for logout and reset; `CheckChange`/`SetPassword`;
`SetResetPassword` then `Revoke`. `TokenAbort` ends a request anywhere.

`Digest` is bcrypt's: it keeps 72 bytes of its input. The JWT header and the
first payload bytes, the same in all tokens of an account, fill them, so every
token of an account has the same digest. This is why `RotatedTokenIsSingleUse` fails.

* `QuietRevocationHolds`: a logout or reset with no login or refresh between its
  check and its write leaves no refresh token until the next login. ("Quiet" is
  needed: a refresh that passed its check before a logout stores its token after it.)
* `ResetPasswordHolds`: a reset password stays until a change that
  presented it, or another reset, unless a change was in flight at the reset.

### PasswordReset

`code`, `ttl`, `failures`, `failuresTtl` are the two keys of one address; codes
are numbered as minted. forgotPassword stores a code over the old one and does not
touch the counter; resetPassword reads, compares, and either goes through the user's
lookup (`FindUser`), the update of the password (`AcceptCode`), the removal of the refresh
token (`RevokeSession`) and the two deletions, each an await, and answers; or it counts
the failure and burns.

* `GuessesBounded`, for a code stored when there was neither a counter nor another request
  (`fresh`): fewer than `MaxAttempts + |Request| + aborts` wrong codes. Other codes
  may see more (requests that read the old code still count) or fewer (they
  inherit the old failures), which is why the property names the condition.
* `FreshCodeKept`: such a code goes early only by a reset or by `MaxAttempts` wrong codes.
* `AnsweredCodeGone`: once a reset is answered its code is never stored again.
* `CounterExpires`, `FailuresForgotten`: the counter has an expiry, or a request
  that will set it or was lost; without a loss it goes in the end.

### RateLimit

`count` and `left` (its TTL) of one key. `Incr` draws a number, the request that found the key
absent goes on to `Expire`, each then decides on the number it drew. Counting stops
at `MaxCount`, above which all numbers are refused alike.

* `AdmittedBounded`: no window admits more than `Max`.
* `WindowFixed`: no request moves the end of a window.
* `KeyExpires`: a key without expiry has an EXPIRE to come, or one that was lost.
* `LimitLiftsUnlessLost`: an identifier at its limit is below it again, unless a
  request was lost. `LimitLifts`, without that condition, fails.

### FencedLock and Lease

`value`, `ttl` are the key; `token[p]` what process `p` got from acquireLock.
`Acquire(p, heard)`: `heard = FALSE` is an answer that never arrives. `Release` is
the compare-and-delete script; `Desert` a process that dies or never reaches Redis
again. A process may stay inside after its key has expired (`overran`).

`InTimeHoldsLock` and `InTimeAlone` are what the comment of acquireLock promises:
late releases do not hurt the next holder, and only an overrun puts two
processes inside together. `LeaseSpec`: the lock is a lease that ends by its
holder's release or by running out. `LockFreed`: a dead holder's lock becomes free.

### MediaSweep

`object[k]` is absent, young or old (the grace window), `refs[i]` the keys
provider `i` reports, `sweep[p]` the sweep a replica is in. `Begin` takes the
lock, `Collect` asks one provider, `FixCutoff` reads the clock, `List` selects the
orphans of one prefix, `Delete` removes one (or fails and goes on), `Throw` is the
finally path, `Finish` releases. Meanwhile `Upload`, `Age`, `Attach`,
`Detach` change objects and references (`Detach` may hand a key to another provider).

* `SteadyKept`: a key one provider has reported without interruption since a sweep
  began is never among that sweep's orphans, even when sweeps overlap. The condition
  is needed: a key attached after its provider was asked, or handed from a
  provider that has not been asked to one that has, can be deleted.
* `InTimeSweepAlone`: of two sweeps that run together one has overrun the lock.

### Broadcast

`row[u]` is the push status of a user's inbox row, `job[c]` a chunk's BullMQ job,
`run[w]` what a worker is doing. `cast` is the broadcast: who is in which chunk, who
is listed twice, and how many crashes, overtakes and failed calls it may meet.
`FindExisting`, `BulkInsert`, `FindPending`, `Push`, `MarkSent`, `MarkRest`,
`MarkSkipped` and `MarkFailed` are the awaits of process and onFailed; `Start`,
`Stall`, `Doom` and `Crash` are BullMQ (external): attempts are retried, a
silent worker's job is handed on, a job stalled too often fails. `Push` is
sendToExternalIds with its tries: a call may reach users and still not answer; an answer
that counts 0 recipients is a skip; any other answer, with a count of some of the targets
or with no count at all, is a delivery, and process marks all targets SENT.

* `SentIsAccepted`: a row that says SENT is of a user whom a call named that the provider
  accepted, and not with 0 recipients. More the code does not know: after a partial reach
  users who were not reached are SENT too.
* `SentNotRepushed`: SENT excludes a second push, through crashes and retries, as long as
  no user is in two chunks and no live worker loses its job to another.
* `SettledNotPending`: a job that completed leaves no recipient PENDING. One that failed
  may: where a crash or a failed call took the failed handler's own statement; where an
  unfinished chunk has the same recipient and will see to it; or, after an overtake, where
  the chunk shares a user or stalled too often, because the overtaken worker may insert
  its rows after the failed handler has run.
* `InboxEitherWay`: a finished job leaves each recipient a row, unless it lists one
  twice, stalled too often or lost an attempt to a database fault, or unless the chunks it shares
  users with are as many as its attempts: each may fail one attempt as a whole, at the
  unique index.
  (Both conditions name sharing and stalls because the proofs for all constants need them;
  with two attempts and two chunks a shorter wording holds too.)
* `AllSettle`: every job ends, unless a push of it never returns, or pushes that never
  return keep all workers from it.

### JobQueue, Delivery

`job[j]` is BullMQ's state of a job (attempts made, stalls, which worker has its lock),
`slot[w]` the job a worker runs, which it may go on with after the lock has gone
to another. `Close` is a shutdown: `queue.module.ts` and the Redis module quit their
connections in onModuleDestroy, before onApplicationShutdown waits for the running
job, whose later Redis calls throw.

`Claim` or `Skip` is acquireLock on the dedup key, `Send` the provider's
call (it may reach the recipient and still throw), `Complete` the return, `Release`
the plain DEL after a throw. The key is template, recipient and code (mail) or recipient
and code (SMS).

* `CopiesBounded`: one copy, plus one for each send that threw although it arrived,
  plus one for each claim that expired.
* `OneSender`: no two workers send one message unless a claim has expired.
* `LossesAccounted`: messages that nobody was sent and whose jobs all completed are
  no more than the crashes, shutdowns, overtakes and lost calls. The claim proves that
  somebody sends, not that the message was sent: a worker that dies after its
  claim takes the message with it, and the log says "already sent". That one trouble
  loses one message at most rests on the key naming the message: every field of `MailJob`
  and of `SmsOtpJob` is in it.
* `AllSettle`: every job that was enqueued ends, unless its mail hangs in the provider's
  client for ever (`MayHang`), or mails that do keep all workers from it.

### MediaAssets

`row[a]` is an asset's row, `object` what each key of the bucket holds: nothing, an
original, or a variant of some original. Originals and variants are in one namespace, as in
the bucket: `Suffixed` says which stem a variant's suffix makes, so that a variant's key may
be registered as an original's. `step[w]` is where the worker is (`Begin`, `Find` and the
steps of ensureProcessed) and
which PUTs it awaits, `stray` PUTs that outlive their attempt. The job id is the
asset's, so `Process` does nothing while BullMQ keeps a finished job of it (`Evict` is
its retention); `EnqueueProcessing` may also do nothing, for BullMQ may refuse an id with a
colon, which `media:<id>` has. A download that fails ends the job as a success; an upload
that fails throws.

* `VariantsOwn`: what a view names is a variant of its own original, whoever else
  ran the job and whatever arrives late, unless another image has the same key but for the
  extension (variant keys drop it), or the variant's own key is registered as an original
  and holds it. `registerAsset` takes any key, and can do both.
* `CompletedProcessed`: a completed job leaves its image processed, unless an attempt
  could not read the original or `sharp` is not installed.

### PresignCache

`entry[k]` is the cached URL with the ticks left to it and to the URL itself,
`req[r]` a request: the keys it asks for, the missing ones in some order, the runs
of mapWithConcurrency with withRetry inside (`flight`), their `results` by index. Each
signer call reads the clock; a failed `SET` of a pipeline is not noticed.

* `AnswersLive`: a URL handed out for an expiry above the margin has not expired,
  for whatever expiry it was signed. The assumption is that a request's calls take
  at most `Slack` ticks and that `2 * Slack <= Margin`: a hit may have been stored
  `Slack` after it was signed, and is answered `Slack` after its lookup.
* `OwnKey`: no key gets another's URL, in an answer or in the cache.
* `OnlyRefusedAbsent`: a key that an answer lacks was refused by the signer in this
  request; one failure does not blank the page.

### HttpRequest, ErrorEnvelope, AuditTrail

`req[r]` is a request: what it asks (`call`), the await it stands at (`pc`), the row
it holds, its answer. `Reject` is the throttler or a pipe, `Admit` the two guards in
their order, then the feature's own actions, each ending in `Goto` (the next await),
`Wrote` (the last statement has committed, its reply is under way), `Return` or `Throw`.
`Fault` is a call that fails, or whose reply is lost after it took effect; `Die` the
process. `Return` sends the audit entry on its way (`LogChange`, `LoseChange`).
`trace` is a history of whose rows a request changed. The id of a row a request creates
is the request's own, so no two are alike (`IdAssumption`): a UUID of a bug report, a serial
of the other rows. A call may name an id whose row is not there, and as serials can be
guessed, one whose row is still to come: the mixes have a removal of such a todo and a
markRead of such a notification.

### BugReports, Todos, Inbox, Consents, ResponseCache, ApiDocs and Api

`Api` runs the requests of one mix through the pipeline, with the features'
actions in between and the background: DELs and SETs of the cache on their
way, documents being published, the docs generator, releases. Its invariants are:

* `AcknowledgedStands`: what a request was told it did stays done. A removed report
  or todo does not come back through an update that had read it (`RemovedStaysHidden`,
  `TodoGone`); a patched field is not reset by another patch (`PatchKept`); a read
  notification stays read when its push is recorded later (`ReadStays`), unless the markRead
  came before the row (`early`); and a notification whose notifyUser returned says how its
  push ended (`NotifiedSettled`).
* `AnswersTrue`: a refused request has changed nothing; nobody is shown or changes a row
  of someone else; the status is the code's, but for a throttled request.
* `AuditAccounted`: an entry is of a request that succeeded, under its caller's name and
  about its row; a successful request on an audited route has one entry or a lost one; a
  change without an entry is of a request that has not returned, died or was
  answered an internal error.
* `ConsentLive`: a user's state is never a transition that was answered before the user asked
  for one that was recorded later; there are never two current versions of a document.
* `FreshUnlessRaced`: the cache holds an old value only when a write overtook the SET
  that stored it, or while the last write's DEL has not got through.
* `DocsAccounted`: handwritten files are kept; every generated file is in the manifest,
  or of the run under way or of one that died (`FilesListed`); after a run the files show
  what it parsed (`FilesTrue`), and its dictionary the enums of that release or of a later
  one (`EnumsDated`: the document was fetched earlier than the code was read); the mobile
  document has mobile operations only; whoever waits for a collection waits for a
  conversion that is under way (`WaitersServed`), and when it fails all are answered.

Two answers do not pass the filter and have no envelope: basic auth's plain-text 401 and
the 500 of a failed conversion (`Bare`). `ConsentLive` assumes that the times of two
transitions differ (a tie of `now()` is not modelled).

## 3. The runs

| Run | Instance | Distinct states | Checks |
|---|---|---|---|
| `otp_guesses` | 1 token, 2 requests, `MaxAttempts` 2, 1 abort, fair | 187 307 | GuessesBounded, CounterCoversSession, CounterReclaimed |
| `otp_flows` | 2 tokens, 2 requests, any two flows | 414 445 | SingleUse, OwnFlowOnly, RegistrantOwnsAccount, OneTimeCodeSpec |
| `refresh_quiet` | 3 requests, 2 passwords, 3 tokens | 69 675 | QuietRevocationHolds, ResetPasswordHolds |
| `refresh_rotation` | 1 request at a time | **violation** | RotatedTokenIsSingleUse: one token refreshes twice |
| `reset_guesses` | 2 requests, 2 codes, `MaxAttempts` 2, 1 abort, fair | 973 058 | GuessesBounded, AnsweredCodeGone, FreshCodeKept, FailuresForgotten |
| `rate_window` | 3 requests, limit 2, 3 windows, 1 abort, fair | 35 794 | AdmittedBounded, WindowFixed, LimitLiftsUnlessLost |
| `broadcast_casts` | 2 workers, 2 chunks, 3 users; four casts: a user listed twice, 2 crashes and 1 fault; a shared user and 1 overtake; a shared user, 1 crash and 1 fault; a chunk overtaken twice; fair | 548 426 | SentIsAccepted, SettledNotPending, InboxEitherWay, SentNotRepushed, AllSettle |
| `sweep_overlap` | 2 replicas, TTL 1, 3 lock tokens, 1 key, 2 providers, 2 overlapping prefixes, fair | 603 462 | SteadyKept, InTimeSweepAlone, LeaseSpec, LockFreed |
| `delivery_codes` | 2 workers, 2 jobs (two mails with one code, or one SMS twice), 2 attempts, 1 forgiven stall, 1 trouble, 1 expiry, fair | 96 972 | CopiesBounded, OneSender, LossesAccounted, AllSettle |
| `media_variants` | 2 workers, 2 assets, keys `s1.jpg`, `s1.png`, `s1-thumb.jpg`, `s2.mp4`, 2 attempts, 1 forgiven stall, 1 trouble | 240 525 | VariantsOwn, CompletedProcessed |
| `presign_margin` | a page of 3 keys over 2 runs beside a request for one of them, expiries 1 and 3, margin 2, 2 tries, slack 1 | 667 404 | AnswersLive, OwnKey, OnlyRefusedAbsent |
| `api_mixes` | 3 requests, seven mixes of calls (`MCMixes`) | 1 050 848 | AcknowledgedStands, AnswersTrue, AuditAccounted, ConsentLive, FreshUnlessRaced, DocsAccounted |

The type invariants and `KeyExpires`, `CounterExpires`, `InTimeHoldsLock`,
`InTimeAlone` are in no run: where they are proved (section 4) they hold for all
constants, and the properties checked here say more.

**Bounds.** Each race here is between two requests (or one and the clock), so two or
three requests meet every pair of steps; a third is there where a bound counts
requests. `MaxAttempts` and `Max` of 2 make the limit reachable and distinguish
"at" from "over" it. `otp_flows` has no wrong guesses to spare and no aborts: it is about
who claims. TTLs of 1 to 3 ticks let a key expire between any two steps.
One abort meets every step, and what two would do differently is counted in the
bounds. Three windows let the middle one begin and end among requests.

Two chunks and two workers give every pair of attempts of one job and of two jobs; two
crashes exceed the one stall BullMQ forgives; each cast spends its budget where its
property needs it: two overtakes of one chunk make it stall too often with its worker alive. The sweep has one key because the decision on a key depends
on that key alone, and three lock tokens let a second holder be overtaken in turn.
Two deliveries of one message are two jobs with one key or one job twice, both reached
with two workers and one trouble; a second attempt comes of a send that throws. For
media one trouble makes two runs of one job overlap or a second attempt, and a request after
`Evict` a second job; the third image's key is the thumbnail's of the first two. In `presign_margin` three missing keys over two runs are the
least in which a run takes a second key, and the expiries are one that is never cached and
one that is. In `api_mixes` each mix has the calls that share rows; calls of different
features share the pipeline only. The inbox's markReads name an old notification or the
one of notifyUser, before it is inserted, while it is pushed, or when its push has been
recorded. A mix's `mishap` is 1: one refusal, failure or
death, anywhere; `publish` is 2, enough to clear the current version and to set
another; `docs` 5 is fetch, run, release, fetch, run.

`CHECK_DEADLOCK FALSE` is said where the system stops: the limiter when its windows are
used up, and the requests of `api_mixes` when all are answered.

**Fairness.** Weak fairness of `Proceed`: Node resumes a handler whose await has been
answered. Weak fairness of `Tick`: Redis' clock does not stop. For the queues:
workers poll, and BullMQ's stall check runs. The providers are trusted with an answer only
where the code sets a timeout: the SMS request has one of 10 s, so `Delivery` assumes
that it ends. The mail client (ZeptoMail's, on node-fetch) and OneSignal's have none and the
code adds none (mail.service.ts:65, one-signal-push.sender.ts:85), while the worker that
waits goes on renewing its job's lock: `Push` of `Broadcast` and a mail's `Send` have no
fairness, and both `AllSettle` name the call that hangs as their exception. No
request is obliged to arrive, no push or send to succeed, and a lost request is a lost
request: liveness under aborts is stated with the loss as an alternative. `Api`,
`MediaAssets` and `PresignCache` have safety properties only.

**Finding.** `refresh_rotation`: the comment at auth.service.ts:298-300 says a rotated
token no longer matches; with bcrypt's 72 bytes it does.

**Exceptions the properties name.** The following are what the code does and the models
say; a property that holds states them as its condition.

* A process that dies between a limiter's INCR and EXPIRE leaves a key without expiry, and
  "try again later" never comes true (`LimitLiftsUnlessLost`).
* A markRead that names the serial id to come may find no row to update and then, when
  notifyUser has inserted it, find that it exists: the answer is true and the row is unread,
  against the comment at notification.service.ts:90-94 (`ReadStays` excepts it by `early`).
* A push that the provider accepted for some of its targets, or without saying for how
  many, marks them all SENT (`SentIsAccepted`).
* A mail or a push whose provider never answers keeps its worker and its job for ever
  (`AllSettle`).
* A broadcast worker slower than its job lock pushes to users who are SENT by then
  (`SentNotRepushed` holds without overtaking; the comment in process says "never").
* A worker that dies between claim and send loses the message (`LossesAccounted`), and
  a shutdown makes this likelier than it need be: connections are quit before the drain.
* A media job whose download failed, or that finished while `sharp` was missing,
  blocks the next request for its asset until BullMQ drops it; the comment at
  media-processing-queue.service.ts:12-17 speaks of queued and active jobs only.
* `loadBefore` of the audit interceptor receives the execution context's arguments, the
  request first, where bug-reports.controller.ts:43-48 expects the handler's: no entry has
  a before snapshot (`LoadBefore`). A forced deletion is logged as SOFT_DELETE.
* A throttled request gets the status 429 with the code of an internal error, though
  the catalog has COMMON_RATE_LIMITED (`CodeForStatus`).
* A reply that is lost after its statement committed is answered as an internal error,
  and the change has no audit entry (`AnswersTrue`, `AuditAccounted`).
* A read whose SET is overtaken by a write leaves the old value for its TTL
  (`FreshUnlessRaced`).

## 4. The proofs

All proofs are checked by TLAPS to the last leaf, for every value of the constants
that meets the named ASSUMEs: positive limits and TTLs; e-mail verification's TTL
the longest; finite sets of requests, chunks, workers and jobs where a bound counts them, and of
keys where a page lists them; a presign margin of at least twice a request's duration;
casts whose recipients are users; payloads that are mail or SMS jobs; distinct names for
"nobody", "no job" and "no token". For `Api`: fresh ids are not those of existing rows
(`IdAssumption`), a call names an id of the kind its route takes, there or not (`ReportIds`,
`TodoIds`, `NoteIds`, `VersionIds`, `DocIds`), and each tag of a document has a file name
(`SpecsAssumption`; two tags may have one name).

Each proof module has its invariant `IInv`, a conjunction of named parts, one lemma or step per
action, and last the temporal step. The parts that need saying:

| Theorem | Argument |
|---|---|
| `OtpSession_proofs`: `TypeCorrect`, `SingleUseHolds`, `OwnFlowOnlyHolds`, `RegistrantOwnsAccountHolds`, `ImplementsOneTimeCode` | `IInv` = types, and: a live session has no claim (`SessionInv`); a request past the type check is in its session's flow, one past the claim is alone there and nothing is granted yet (`RequestInv`); created accounts exist and belong to a minted session (`AccountInv`). `SingleUse` alone is not inductive: DEL's answer counts only because a claim implies the key is gone. Each step is then a `Mint`, `Use`, `Void`, `Grant` or a stutter. |
| … `CounterCoversSessionHolds`, `GuessesBoundedHolds` | `CounterInv`: a counter's TTL is never below its session's, and it is cleared only after the session went. `GuessInv`: a wrong guess at a live session is counted, about to be, or of a lost request; past the limit each one is of a request on its way to burn the session, or of a lost one: cardinalities of sets of requests, which each step moves one request between. |
| `PasswordReset_proofs`: `TypeCorrect`, `AnsweredCodeStaysGone`, `CounterExpiresHolds` | `CodeInv`: a code about to be stored is known to nobody else and never answered; a code about to be answered has been deleted. |
| … `GuessesBoundedHolds`, `FreshCodeKeptHolds` | `KeyInv`: absent keys have no TTL, and a code not yet stored has not been guessed at. `EraInv`: while a fresh code is stored no request is left over from an earlier one (`InEra`) and the counter counts the code's own wrong guesses, up to the requests about to count, those on their way to burn it and those lost (`Counted`). |
| … of `RefreshToken`: `QuietRevocation`, `ResetPasswordStays` | `QuietInv`: while a revocation is quiet no request is about to store a token; while a reset is pinned none is about to set a password. |
| … of `RateLimit`: `LimitTypeCorrect`, `KeyExpiresHolds`, `WindowFixedHolds` | `ExpireInv`: while an EXPIRE is to come, its key exists without expiry and no other EXPIRE is to come. |
| … `AdmittedBoundedHolds` | `AdmitInv`: whoever a window has admitted or has still to admit drew a number of its own, none above the count or the limit: admissions and holders together are at most both. |
| `MediaSweep_proofs`: `InTimeHoldsLockAlways`, `InTimeAloneAlways`, `ImplementsLease` | `LockInv`: tokens are held by one process each, and who holds the stored token stored it. |
| … `SweepUsesLock`, `SteadyKeptHolds`, `InTimeSweepAloneHolds` | the sweep's steps are lock steps or leave the lock alone, so the lock's theorems carry over; `Knows`: a sweep has every kept reference of the providers it has asked, and its orphans avoid what it has. |
| `Broadcast_proofs`: `TypeCorrect`, `SentIsAcceptedHolds` | `JobInv`: what a job's state says of its lock, attempts and stalls. `RunInv`: what a run holds is of its chunk, covers every row still pending, and what it is about to mark SENT was accepted. `CompletedInv`: a completed job has seen to all its rows. `LockInv`: without overtakes whoever processes a chunk has its lock. |
| … `SentNotRepushedHolds` | `FreshRowsInv`: with disjoint chunks and no overtake, what a worker is about to push is still pending: nobody else can have marked it since it was read. |
| … `InboxEitherWayHolds`, `SettledNotPendingHolds` | `LossInv`: each attempt a chunk has lost to the unique index is another chunk's insert, so with more attempts than sharing chunks the last one inserts. `CalmInv`: while nothing goes wrong an active job has a worker on it, and a pending row is some unfinished chunk's. `AloneInv`: a chunk that shares no user is inserted as a whole or not at all, and its rows are pending only until its job, or its failed handler, is over. |
| `Delivery_proofs`: `TypeCorrect`, `CopiesBoundedHolds`, `OneSenderHolds` | `CountInv`: for each key, the copies sent and the workers between claim and outcome are together at most the sends that threw, the claims that ran out, and one if the claim is there: a claim pays for one send. `AnswerInv`: nobody threw more often than he was reached. `OneSender` is `CountInv` with two holders. |
| … `LossesAccountedHolds` | A message that was not sent is `Sound` while its claim is a worker's that will still send, some job of it has not completed, and whoever works on it will be heard. `LossInv`: the unsound ones are at most the troubles, because the key names the message, so that a step makes one message unsound at most, and only with a trouble. |
| `MediaAssets_proofs`: `TypeCorrect`, `VariantsOwnHolds`, `CompletedProcessedHolds` | `Working`: a worker past its check has an image, what it has put is in place, and it is done with what is processed. `VariantInv`: a variant's content and every PUT under way, stray ones included, are of an image with that stem. `ProcessedInv`: a processed asset is an image with all its variants in place: variants are overwritten, never removed. `CompletedProcessed` follows because only a worker that is done or could not read the original resolves its job. |
| `PresignCache_proofs`: `TypeCorrect`, `AnswersLiveHolds` | `EntryInv`: a cached URL outlives its entry by at least the margin less what the request that stored it had used up. `FlightInv`, `SignInv`: what a request signs, holds or found in the cache has its expiry, or the margin, left but for the ticks since; with at most `Slack` of them, and `2 * Slack <= Margin`, something is left when it answers. |
| … `OwnKeyHolds`, `OnlyRefusedAbsentHolds` | `RunsInv`: each index below the cursor is of exactly one run under way or of one outcome. `OutcomeInv`: an outcome is the URL of its own index's key, or that key is refused. `MissingInv`: the missing keys are listed once each, and are those the request does not hold; so when no run is under way every key has its outcome. |
| `Api_proofs`: `Invariant` | `CoreInv` for the pipeline (`Shape`, `StepInv`, `HeldInv`, `AnswerInv`): a request stands at an await of its own route, holds rows of its caller's, and was not refused after it changed something; and one part per feature. The routes of the features are disjoint sets, so a step of one feature leaves the rows of the others alone and their requests where they were: each handler is proved against `CoreInv` and its own part only (`…Keeps`), and `…Elsewhere` says that the rest follows. |
| … `AcknowledgedStandsHolds` | `ReportInv`, `TodoInv`, `NoteInv`: an id whose creator has passed its insert never gets a row anew; who has been answered a removal, patch or reading, or is about to be, finds the row so, and the statements that come late (the update after its read, the record of a push) select or set columns that leave it so; a markRead that came too early is in `early`. |
| … `AnswersTrueHolds`, `AuditAccountedHolds` | `Told`: an exception's status is its code's, since no code has two (`OneStatus`); `TraceInv`, `AnswerInv`: who changed something is before its reply, done, lost, or was answered an internal error. `EntryInv`, `Logged`: an entry is of a request that is done, and is written, under way or lost; a finite set of one element. |
| … `ConsentLiveHolds` | `StampInv`, `OrderInv`: times are distinct and none is ahead of the clock, and who asked after an answer has the later time, whether its row is visible yet or not: so the latest row was not answered before another's request. `DocumentInv`: one version is current. |
| … `FreshUnlessRacedHolds` | `CacheInv`: a value on its way into the cache is the source's, or marked as overtaken by a write; a DEL is of a write that has been made. |
| … `DocsAccountedHolds` | `GenInv`, `FilesInv`, `MadeInv`: what the run has written so far is in its manifest to be, and each file that is there is handwritten, of a manifest, of this run or of a dead one. `ShowsInv`: a file written for a tag shows that tag's operations, if no other tag has its file name. `ServerInv`: what the script fetched has known tags only, and what the mobile mount served is mobile, and who waits for a collection has a conversion under way. `DatedInv`: what was fetched is some release's so far, and the dictionary is of that release or a later one. |

**Only model-checked.** Liveness (`CounterReclaimed`, `FailuresForgotten`,
`LimitLiftsUnlessLost`, `LockFreed`, `AllSettle`), out of TLAPS' reach. Every invariant
and every refinement that a passing run checks is a theorem as well.

## 5. Not modelled, and the plan

Not modelled because there is nothing to interleave, or one library call: configuration
(its values are constants), health, countries (static data), migrations (one
advisory lock around drizzle's migrator), and of the bootstrap all but the order of the
pipeline. External and modelled only as their callers use them: Redis, PostgreSQL,
BullMQ, OneSignal, GCS, ZeptoMail and the SMS gateway.

Left out of modules that are there:

* Users: the profile columns.
* Guards: RolesGuard and PermissionGuard guard no route of the repository.
* Response cache: no route carries `@Cacheable` or `@CacheEvict`; the handlers are
  external, and one key stands for all. Consents: one slug; publishing has no
  caller, and is called in any order.
* Lists: totals and offset paging are left out; a page is the set it is cut from.
* Audit: redaction and truncation of snapshots. Documentation: the browser scripts of the
  page and the layout of the markdown.
* Job queues: the example queue.
* Todos: an update names at least one column (drizzle refuses an empty set).

Done: the authentication flows, the lock, the broadcast, the sweep; the job queue with
mail, SMS and media; storage; the pipeline with the small features and the docs; all of
it proved but for liveness. Next: the composition of `PasswordReset` with `RefreshToken`
(the reset's two keys and the two writes to the row in one module).
