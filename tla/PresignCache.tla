---------------------------- MODULE PresignCache ----------------------------
(***************************************************************************)
(* CachedStorageService over GcsStorageService: read URLs are signed by    *)
(* mapWithConcurrency and withRetry, and kept in Redis until Margin before *)
(* they expire.  The requests of all replicas share the cache.             *)
(*                                                                         *)
(* No clock is kept: a URL, a cache entry and an attempt carry the ticks    *)
(* they have left, and a request those since its lookup.                   *)
(* Slack is the environment's promise: a request's calls of Redis and of   *)
(* the signer return within Slack ticks of its lookup.                     *)
(***************************************************************************)
EXTENDS Naturals, Sequences, SequencesExt

CONSTANTS
    Request,
    Key,       \* object keys
    Lists,     \* the sets of keys that each request may ask for
    Expiries,  \* the expiresIn that callers ask for, in ticks
    Margin,    \* CACHE_MARGIN_SECONDS
    Limit,     \* SIGNING_MAX_CONCURRENCY
    Tries,     \* SIGNING_RETRY_ATTEMPTS
    Slack      \* ticks a request may take

ASSUME KeyAssumption == IsFiniteSet(Key)
ASSUME PresignAssumption ==
    /\ Lists \in [Request -> SUBSET ((SUBSET Key) \ {{}})]
    /\ Expiries \subseteq Nat /\ {Margin, Slack} \subseteq Nat
    /\ {Limit, Tries} \subseteq Nat \ {0}
    /\ 2 * Slack <= Margin

VARIABLES
    entry,  \* the URL Redis holds for each key, or NoEntry
    req     \* what each request is doing

vars == <<entry, req>>

Url == [key: Key, left: Nat]
Attempt == [tries: 1..Tries, waits: BOOLEAN, left: Nat]
NoEntry == [left |-> 0]
Rejected == [left |-> 0]
NoUrls == [k \in {} |-> 0]
Idle == [pc |-> "idle", urls |-> NoUrls, refused |-> {}]

\* Mutant: no margin.
TtlWithoutMargin(e) == IF e > Margin THEN e ELSE 0

CacheTtl(e) == IF e > Margin THEN e - Margin ELSE 0
Cached(k) == entry[k].left > 0
At(r, pc) == req[r].pc = pc

\* f, and v at i; f, and g where f says nothing.
With(f, i, v) == [j \in DOMAIN f \cup {i} |-> IF j = i THEN v ELSE f[j]]
Over(f, g) == [k \in DOMAIN f \cup DOMAIN g |-> IF k \in DOMAIN f THEN f[k] ELSE g[k]]

-----------------------------------------------------------------------------
Begin(keys, one, e, urls) ==
    [pc |-> "sign", one |-> one, keys |-> keys, expiry |-> e, age |-> 0, urls |-> urls,
     refused |-> {}, missing |-> <<>>, results |-> NoUrls, flight |-> NoUrls, cursor |-> 1]

Answered(q, urls) ==
    [pc |-> "answered", keys |-> q.keys, expiry |-> q.expiry, age |-> q.age,
     urls |-> urls, refused |-> q.refused]

\* withRetry calls the signer at once; each call takes the expiry from the clock.
FirstTry(q) == [tries |-> 1, waits |-> FALSE, left |-> q.expiry]

\* The run that is free begins with the next missing key.
Begun(q, i) == [q EXCEPT !.flight = With(@, i, FirstTry(q)), !.cursor = i + 1]

\* As many runs as Limit and the missing keys allow begin together.
Signing(q, missing) ==
    LET runs == Min({Limit, Len(missing)})
    IN  [q EXCEPT !.missing = missing,
                  !.flight = [i \in 1..runs |-> FirstTry(q)],
                  !.cursor = runs + 1]

Init ==
    /\ entry = [k \in Key |-> NoEntry]
    /\ req = [r \in Request |-> Idle]

\* presignRead(key) and presignReadMany(keys) up to the signer: with no time to
\* cache the inner service is called straight; otherwise GET or MGET answers
\* for the cached keys, and the others are missing.
Ask(r, keys, one, e) ==
    LET hits == IF CacheTtl(e) = 0 THEN {} ELSE {k \in keys : Cached(k)}
        q == Begin(keys, one, e, [k \in hits |-> entry[k].url])
    IN  /\ At(r, "idle")
        /\ (one => \E k \in Key : keys = {k})
        /\ IF hits = keys
           THEN req' = [req EXCEPT ![r] = Answered(q, q.urls)]
           ELSE \E order \in SetToSeqs(keys \ hits) : req' = [req EXCEPT ![r] = Signing(q, order)]
        /\ UNCHANGED entry

\* Mutant: the outcome is recorded at the cursor the runs share.
SettledAtCursor(q, i, result) ==
    LET done == [q EXCEPT !.results = With(@, q.cursor - 1, result),
                          !.flight = Restrict(@, DOMAIN @ \ {i})]
    IN  IF q.cursor <= Len(q.missing) THEN Begun(done, q.cursor) ELSE done

\* A run records its outcome at its own index and goes on while keys are left.
Settled(q, i, result) ==
    LET done == [q EXCEPT !.results = With(@, i, result), !.flight = Restrict(@, DOMAIN @ \ {i})]
    IN  IF q.cursor <= Len(q.missing) THEN Begun(done, q.cursor) ELSE done

\* What a run waits for: the signer, or the end of a backoff.
Calling(r, i) == At(r, "sign") /\ i \in DOMAIN req[r].flight /\ ~req[r].flight[i].waits
BackingOff(r, i) == At(r, "sign") /\ i \in DOMAIN req[r].flight /\ req[r].flight[i].waits

\* The signer answers: the URL expires when the call said.
Sign(r, i) ==
    LET q == req[r]
    IN  /\ Calling(r, i)
        /\ req' = [req EXCEPT ![r] =
                        Settled(q, i, [key |-> q.missing[i], left |-> q.flight[i].left])]
        /\ UNCHANGED entry

Backoff(q, i) == [q EXCEPT !.flight[i] = [tries |-> @.tries, waits |-> TRUE, left |-> 0]]
Refused(q, i) == [Settled(q, i, Rejected) EXCEPT !.refused = @ \cup {q.missing[i]}]
Retried(q, i) ==
    [q EXCEPT !.flight[i] = [tries |-> @.tries + 1, waits |-> FALSE, left |-> q.expiry]]

\* A transient failure with tries left waits out its backoff.
Fail(r, i) ==
    /\ Calling(r, i)
    /\ req[r].flight[i].tries < Tries
    /\ req' = [req EXCEPT ![r] = Backoff(req[r], i)]
    /\ UNCHANGED entry

\* Any other failure, and the last transient one, is the key's outcome.
Refuse(r, i) ==
    /\ Calling(r, i)
    /\ req' = [req EXCEPT ![r] = Refused(req[r], i)]
    /\ UNCHANGED entry

Retry(r, i) ==
    /\ BackingOff(r, i)
    /\ req' = [req EXCEPT ![r] = Retried(req[r], i)]
    /\ UNCHANGED entry

\* Mutant: one key's failure rejects the whole page.
FreshIfAll(q) ==
    IF \E i \in DOMAIN q.results : q.results[i] = Rejected THEN NoUrls
    ELSE [k \in {q.missing[i] : i \in DOMAIN q.results} |->
            q.results[CHOOSE i \in DOMAIN q.results : q.missing[i] = k]]

\* presignReadMany's map: the keys whose outcome is a URL.
Fresh(q) ==
    LET signed == {i \in DOMAIN q.results : q.results[i] # Rejected}
    IN  [k \in {q.missing[i] : i \in signed} |->
            q.results[CHOOSE i \in signed : q.missing[i] = k]]

\* The signed URLs are written with the TTL of the request's own expiry.  A
\* pipelined SET that fails is not noticed; presignRead waits for its one SET.
Store(r) ==
    LET q == req[r]
        urls == Fresh(q)
        ttl == CacheTtl(q.expiry)
    IN  /\ At(r, "sign") /\ DOMAIN q.flight = {}
        /\ \E stored \in SUBSET DOMAIN urls :
            /\ ttl = 0 => stored = {}
            /\ entry' = [k \in Key |-> IF k \in stored THEN [url |-> urls[k], left |-> ttl]
                                       ELSE entry[k]]
            /\ req' = [req EXCEPT ![r] =
                    IF q.one /\ (urls = NoUrls \/ (ttl > 0 /\ stored = {}))
                    THEN Idle                  \* the signer's or Redis's error is thrown
                    ELSE Answered(q, Over(urls, q.urls))]

Return(r) ==
    /\ At(r, "answered")
    /\ req' = [req EXCEPT ![r] = Idle]
    /\ UNCHANGED entry

Aged(t) == [t EXCEPT !.left = Max({@ - 1, 0})]
AllAged(f) == [x \in DOMAIN f |-> Aged(f[x])]


\* A request, and an entry, a tick later.
Older(q) ==
    IF q.pc = "answered" THEN [q EXCEPT !.age = @ + 1, !.urls = AllAged(@)]
    ELSE [q EXCEPT !.age = @ + 1, !.urls = AllAged(@), !.results = AllAged(@), !.flight = AllAged(@)]

EntryAged(e) ==
    IF e.left <= 1 THEN NoEntry ELSE [url |-> Aged(e.url), left |-> e.left - 1]

Tick ==
    /\ \A r \in {q \in Request : ~At(q, "idle")} : req[r].age < Slack
    /\ entry' = [k \in Key |-> EntryAged(entry[k])]
    /\ req' = [r \in Request |-> IF At(r, "idle") THEN Idle ELSE Older(req[r])]

Next ==
    \/ \E r \in Request, one \in BOOLEAN, e \in Expiries :
        \E keys \in Lists[r] : Ask(r, keys, one, e)
    \/ \E r \in Request, i \in 1..Cardinality(Key) :
        Sign(r, i) \/ Fail(r, i) \/ Refuse(r, i) \/ Retry(r, i)
    \/ \E r \in Request : Store(r) \/ Return(r)
    \/ Tick

Spec == Init /\ [][Next]_vars

-----------------------------------------------------------------------------
TypeOK ==
    /\ \A k \in Key : entry[k] = NoEntry \/ (entry[k].url \in Url /\ entry[k].left \in Nat)
    /\ \A r \in Request :
        /\ DOMAIN req[r].urls \subseteq Key
        /\ At(r, "sign") => \A i \in DOMAIN req[r].flight : req[r].flight[i] \in Attempt

(* A URL handed out for an expiry the cache serves has not expired, whoever
   signed it, for how long, and whenever it was cached: the TTL starts at the
   SET, after the signer took its clock reading, and the margin covers that. *)
AnswersLive ==
    \A r \in Request : (At(r, "answered") /\ req[r].expiry > Margin) =>
        \A k \in DOMAIN req[r].urls : req[r].urls[k].left > 0

(* Runs that share a cursor and settle in any order never give one key's URL
   to another, in an answer or in the cache. *)
OwnKey ==
    /\ \A r \in Request, k \in Key : k \in DOMAIN req[r].urls => req[r].urls[k].key = k
    /\ \A k \in Key : Cached(k) => entry[k].url.key = k

(* One key that fails to sign does not blank the others: a key that an answer
   lacks was refused by the signer in this very request. *)
OnlyRefusedAbsent ==
    \A r \in Request : At(r, "answered") =>
        req[r].keys \ DOMAIN req[r].urls = req[r].refused

=============================================================================
