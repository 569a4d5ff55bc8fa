------------------------- MODULE PresignCache_proofs -------------------------
(***************************************************************************)
(* Theorems of PresignCache for any finite set of keys, any requests,      *)
(* expiries, margin, concurrency and tries.                                *)
(***************************************************************************)
EXTENDS PresignCache, FiniteSetTheorems, SequenceTheorems, TLAPS

LEMMA MinPair ==
    ASSUME NEW a \in Nat, NEW b \in Nat
    PROVE  Min({a, b}) = IF a <= b THEN a ELSE b
  <1> DEFINE m == IF a <= b THEN a ELSE b
  <1>1. m \in {a, b} /\ \A y \in {a, b} : m =< y
    OBVIOUS
  <1>2. \A x \in {a, b} : (\A y \in {a, b} : x =< y) => x = m
    OBVIOUS
  <1>3. QED
    BY <1>1, <1>2 DEF Min

LEMMA MaxZero ==
    ASSUME NEW n \in Nat
    PROVE  Max({n - 1, 0}) = IF n > 0 THEN n - 1 ELSE 0
  <1> DEFINE m == IF n > 0 THEN n - 1 ELSE 0
  <1>1. m \in {n - 1, 0} /\ \A y \in {n - 1, 0} : m >= y
    OBVIOUS
  <1>2. \A x \in {n - 1, 0} : (\A y \in {n - 1, 0} : x >= y) => x = m
    OBVIOUS
  <1>3. QED
    BY <1>1, <1>2 DEF Max

LEMMA Orders ==
    ASSUME NEW S, IsFiniteSet(S), NEW order \in SetToSeqs(S)
    PROVE  /\ order \in Seq(S) /\ Len(order) = Cardinality(S) /\ Len(order) \in Nat
           /\ DOMAIN order = 1..Len(order)
           /\ \A i, j \in 1..Len(order) : order[i] = order[j] => i = j
           /\ \A k \in S : \E i \in 1..Len(order) : order[i] = k
           /\ S # {} => Len(order) > 0
  <1> DEFINE n == Cardinality(S)
  <1>1. n \in Nat /\ (n = 0 <=> S = {})
    BY FS_CardinalityType, FS_EmptySet
  <1>2. order \in [1..n -> S] /\ \A i, j \in 1..n : i # j => order[i] # order[j]
    BY DEF SetToSeqs
  <1>3. order \in Seq(S) /\ Len(order) = n
    <2>1. order = [i \in 1..n |-> order[i]]
      BY <1>2
    <2> HIDE DEF n
    <2>2. order \in Seq(S)
      BY <1>1, <1>2
    <2>3. QED
      BY <1>1, <1>2, <2>2, LenProperties
  <1>4. order \in Injection(1..n, S)
    BY <1>2 DEF Injection, IsInjective
  <1>5. IsFiniteSet(1..n) /\ Cardinality(1..n) = n
    BY <1>1, FS_Interval
  <1>6. order \in Surjection(1..n, S)
    BY <1>4, <1>5, FS_Injection
  <1>7. QED
    BY <1>1, <1>2, <1>3, <1>6, LenProperties DEF Surjection
-----------------------------------------------------------------------------
(* The inductive invariant: one predicate of each request and one of each
   cache entry. *)

UrlOf(k, u) == u \in Url /\ u.key = k

\* The URLs a request has, each for its own key.  Those from the cache have
\* what the margin left of them, less the request's age; Slack is for the
\* request that put them there.
HeldInv(q) ==
    /\ q.keys \in SUBSET Key /\ DOMAIN q.urls \subseteq q.keys
    /\ q.expiry \in Nat /\ q.age \in Nat /\ q.age <= Slack
    /\ \A k \in DOMAIN q.urls : UrlOf(k, q.urls[k])
    /\ q.expiry > Margin => \A k \in DOMAIN q.urls : q.urls[k].left + q.age + Slack > Margin

AnsweredInv(q) ==
    /\ DOMAIN q = {"pc", "keys", "expiry", "age", "urls", "refused"}
    /\ q.pc = "answered"
    /\ HeldInv(q)
    /\ q.keys \ DOMAIN q.urls = q.refused

\* The missing keys, each once.
MissingInv(q) ==
    /\ q.missing \in Seq(Key)
    /\ \A i \in 1..Len(q.missing) : q.missing[i] \in q.keys \ DOMAIN q.urls
    /\ \A i, j \in 1..Len(q.missing) : q.missing[i] = q.missing[j] => i = j
    /\ \A k \in q.keys \ DOMAIN q.urls : \E i \in 1..Len(q.missing) : q.missing[i] = k

\* Every index the cursor has passed is in flight or settled, and a run is on
\* its way while the cursor has not reached the end.
RunsInv(q) ==
    /\ q.cursor \in 1..Len(q.missing) + 1
    /\ DOMAIN q.flight \cup DOMAIN q.results = 1..q.cursor - 1
    /\ DOMAIN q.flight \cap DOMAIN q.results = {}
    /\ q.cursor <= Len(q.missing) => DOMAIN q.flight # {}

\* An outcome is of the key at its index, and has what the request asked for,
\* less its age.
OutcomeInv(q) ==
    /\ \A i \in DOMAIN q.results :
        \/ q.results[i] = Rejected
        \/ UrlOf(q.missing[i], q.results[i]) /\ q.results[i].left + q.age >= q.expiry
    /\ q.refused = {q.missing[i] : i \in {j \in DOMAIN q.results : q.results[j] = Rejected}}

FlightInv(q) ==
    \A i \in DOMAIN q.flight :
        /\ q.flight[i] \in Attempt
        /\ q.flight[i].waits => q.flight[i].tries < Tries
        /\ q.flight[i].waits \/ q.flight[i].left + q.age >= q.expiry

SignInv(q) ==
    /\ DOMAIN q = {"pc", "one", "keys", "expiry", "age", "urls", "refused", "missing",
                   "results", "flight", "cursor"}
    /\ q.pc = "sign" /\ q.one \in BOOLEAN
    /\ HeldInv(q) /\ MissingInv(q) /\ RunsInv(q) /\ OutcomeInv(q) /\ FlightInv(q)

RequestInv(q) == q = Idle \/ AnsweredInv(q) \/ SignInv(q)

\* The URL outlives its entry by the margin, less what the request that wrote
\* it was late.
EntryInv(k, e) ==
    \/ e = NoEntry
    \/ /\ DOMAIN e = {"url", "left"} /\ e.left \in Nat /\ UrlOf(k, e.url)
       /\ e.url.left + Slack >= e.left + Margin

IInv ==
    /\ DOMAIN entry = Key /\ \A k \in Key : EntryInv(k, entry[k])
    /\ DOMAIN req = Request /\ \A r \in Request : RequestInv(req[r])

-----------------------------------------------------------------------------
(* The operators of a request. *)

LEMMA FirstTryType ==
    ASSUME NEW q, q.expiry \in Nat
    PROVE  /\ FirstTry(q) \in Attempt /\ ~FirstTry(q).waits /\ FirstTry(q).left = q.expiry
  BY PresignAssumption DEF FirstTry, Attempt

\* What one outcome changes of a request, and what it leaves alone.
LEMMA SettledFrame ==
    ASSUME NEW q, SignInv(q), NEW i, i \in DOMAIN q.flight, NEW result,
           NEW t, t = Settled(q, i, result)
    PROVE  /\ DOMAIN t = DOMAIN q
           /\ t.pc = q.pc /\ t.one = q.one /\ t.keys = q.keys /\ t.expiry = q.expiry
           /\ t.age = q.age /\ t.urls = q.urls /\ t.refused = q.refused
           /\ t.missing = q.missing
           /\ t.results = With(q.results, i, result)
           /\ t.cursor = IF q.cursor <= Len(q.missing) THEN q.cursor + 1 ELSE q.cursor
  BY DEF Settled, Begun, SignInv, FirstTry

LEMMA SettledFlight ==
    ASSUME NEW q, SignInv(q), NEW i, i \in DOMAIN q.flight, NEW result,
           NEW t, t = Settled(q, i, result)
    PROVE  t.flight = IF q.cursor <= Len(q.missing)
                      THEN With(Restrict(q.flight, DOMAIN q.flight \ {i}), q.cursor, FirstTry(q))
                      ELSE Restrict(q.flight, DOMAIN q.flight \ {i})
  BY DEF Settled, Begun, SignInv, FirstTry

LEMMA SettledRuns ==
    ASSUME NEW q, SignInv(q), NEW i, i \in DOMAIN q.flight, NEW result,
           NEW t, t = Settled(q, i, result)
    PROVE  RunsInv(t) /\ FlightInv(t)
  <1> DEFINE rest == Restrict(q.flight, DOMAIN q.flight \ {i})
             more == q.cursor <= Len(q.missing)
  <1>1. /\ t.results = With(q.results, i, result) /\ t.missing = q.missing
        /\ t.cursor = IF more THEN q.cursor + 1 ELSE q.cursor
        /\ t.age = q.age /\ t.expiry = q.expiry
    BY SettledFrame
  <1>0. t.flight = IF more THEN With(rest, q.cursor, FirstTry(q)) ELSE rest
    BY SettledFlight
  <1>2. /\ DOMAIN rest = DOMAIN q.flight \ {i}
        /\ \A j \in DOMAIN rest : rest[j] = q.flight[j]
    BY DEF Restrict
  <1>3. DOMAIN t.results = DOMAIN q.results \cup {i}
    BY <1>1 DEF With
  <1>4. DOMAIN t.flight = IF more THEN DOMAIN rest \cup {q.cursor} ELSE DOMAIN rest
    BY <1>0 DEF With
  <1>5. Len(q.missing) \in Nat /\ RunsInv(q) /\ FlightInv(q) /\ q.expiry \in Nat /\ q.age \in Nat
    BY LenProperties DEF SignInv, MissingInv, HeldInv
  <1>6. RunsInv(t)
    <2>1. i \in 1..q.cursor - 1 /\ q.cursor \in 1..Len(q.missing) + 1
      BY <1>5 DEF RunsInv
    <2>2. CASE more
      <3>1. t.cursor = q.cursor + 1 /\ t.cursor \in 1..Len(t.missing) + 1
        BY <1>1, <1>5, <2>1, <2>2
      <3>2. 1..t.cursor - 1 = (1..q.cursor - 1) \cup {q.cursor}
        BY <2>1, <3>1, <1>5
      <3>3. q.cursor \notin 1..q.cursor - 1
        BY <2>1, <1>5
      <3>4. QED
        <4>1. DOMAIN t.flight = (DOMAIN q.flight \ {i}) \cup {q.cursor} /\ t.missing = q.missing
          BY <1>1, <1>2, <1>4, <2>2
        <4>2. i \notin DOMAIN q.results /\ q.cursor \notin DOMAIN q.results
          BY <1>5, <3>3 DEF RunsInv
        <4>3. DOMAIN t.flight \cup DOMAIN t.results = 1..t.cursor - 1
          BY <1>3, <1>5, <3>2, <4>1 DEF RunsInv
        <4>4. DOMAIN t.flight \cap DOMAIN t.results = {}
          BY <1>3, <1>5, <2>1, <3>3, <4>1, <4>2 DEF RunsInv
        <4>5. QED
          BY <3>1, <4>1, <4>3, <4>4 DEF RunsInv
    <2>3. CASE ~more
      BY <1>1, <1>2, <1>3, <1>4, <1>5, <2>1, <2>3 DEF RunsInv
    <2>4. QED
      BY <2>2, <2>3
  <1>7. FlightInv(t)
    <2>1. ASSUME NEW j \in DOMAIN t.flight
          PROVE  \/ j \in DOMAIN q.flight /\ t.flight[j] = q.flight[j]
                 \/ t.flight[j] = FirstTry(q)
      <3>1. CASE more
        BY <1>0, <1>2, <1>4, <3>1 DEF With
      <3>2. CASE ~more
        BY <1>0, <1>2, <1>4, <3>2
      <3>3. QED
        BY <3>1, <3>2
    <2>2. FirstTry(q) \in Attempt /\ ~FirstTry(q).waits /\ FirstTry(q).left = q.expiry
      BY <1>5, FirstTryType
    <2>3. QED
      BY <1>1, <1>5, <2>1, <2>2 DEF FlightInv
  <1>8. QED
    BY <1>6, <1>7

LEMMA SettledUrl ==
    ASSUME NEW q, SignInv(q), NEW i, i \in DOMAIN q.flight, NEW url,
           UrlOf(q.missing[i], url), url.left + q.age >= q.expiry,
           NEW t, t = Settled(q, i, url)
    PROVE  SignInv(t)
  <1>1. /\ DOMAIN t = DOMAIN q
        /\ t.pc = q.pc /\ t.one = q.one /\ t.keys = q.keys /\ t.expiry = q.expiry
        /\ t.age = q.age /\ t.urls = q.urls /\ t.refused = q.refused
        /\ t.missing = q.missing
        /\ t.results = With(q.results, i, url)
    BY SettledFrame
  <1>2. RunsInv(t) /\ FlightInv(t)
    BY SettledRuns
  <1>3. url # Rejected
    BY DEF UrlOf, Url, Rejected
  <1>4. i \notin DOMAIN q.results
    BY DEF SignInv, RunsInv
  <1>5. /\ DOMAIN t.results = DOMAIN q.results \cup {i} /\ t.results[i] = url
        /\ \A j \in DOMAIN q.results : t.results[j] = q.results[j]
    BY <1>1, <1>4 DEF With
  <1>6. OutcomeInv(t)
    <2>1. OutcomeInv(q)
      BY DEF SignInv
    <2>2. {j \in DOMAIN t.results : t.results[j] = Rejected}
            = {j \in DOMAIN q.results : q.results[j] = Rejected}
      BY <1>3, <1>5
    <2>3. QED
      BY <1>1, <1>5, <2>1, <2>2 DEF OutcomeInv
  <1>7. HeldInv(t) /\ MissingInv(t)
    BY <1>1 DEF SignInv, HeldInv, MissingInv
  <1>8. QED
    BY <1>1, <1>2, <1>6, <1>7 DEF SignInv

LEMMA SettledRefusal ==
    ASSUME NEW q, SignInv(q), NEW i, i \in DOMAIN q.flight,
           NEW s, s = Settled(q, i, Rejected),
           NEW t, t = [s EXCEPT !.refused = @ \cup {q.missing[i]}]
    PROVE  SignInv(t)
  <1>1. /\ DOMAIN s = DOMAIN q
        /\ s.pc = q.pc /\ s.one = q.one /\ s.keys = q.keys /\ s.expiry = q.expiry
        /\ s.age = q.age /\ s.urls = q.urls /\ s.refused = q.refused
        /\ s.missing = q.missing
        /\ s.results = With(q.results, i, Rejected)
    BY SettledFrame
  <1>2. RunsInv(s) /\ FlightInv(s)
    BY SettledRuns
  <1>3. /\ DOMAIN t = DOMAIN q
        /\ t.pc = q.pc /\ t.one = q.one /\ t.keys = q.keys /\ t.expiry = q.expiry
        /\ t.age = q.age /\ t.urls = q.urls /\ t.refused = q.refused \cup {q.missing[i]}
        /\ t.missing = q.missing /\ t.results = With(q.results, i, Rejected)
        /\ t.cursor = s.cursor /\ t.flight = s.flight
    BY <1>1 DEF SignInv
  <1>4. i \notin DOMAIN q.results
    BY DEF SignInv, RunsInv
  <1>5. /\ DOMAIN t.results = DOMAIN q.results \cup {i} /\ t.results[i] = Rejected
        /\ \A j \in DOMAIN q.results : t.results[j] = q.results[j]
    BY <1>3, <1>4 DEF With
  <1>6. OutcomeInv(t)
    <2>1. OutcomeInv(q)
      BY DEF SignInv
    <2>2. {j \in DOMAIN t.results : t.results[j] = Rejected}
            = {j \in DOMAIN q.results : q.results[j] = Rejected} \cup {i}
      BY <1>5
    <2>3. QED
      BY <1>3, <1>5, <2>1, <2>2 DEF OutcomeInv
  <1>7. HeldInv(t) /\ MissingInv(t)
    BY <1>3 DEF SignInv, HeldInv, MissingInv
  <1>8. RunsInv(t) /\ FlightInv(t)
    BY <1>1, <1>2, <1>3 DEF RunsInv, FlightInv
  <1>9. QED
    BY <1>3, <1>6, <1>7, <1>8 DEF SignInv

\* An attempt that fails, or begins again, disturbs nothing else.
LEMMA FlightChanged ==
    ASSUME NEW q, SignInv(q),
           NEW t, DOMAIN t = DOMAIN q,
           t.pc = q.pc, t.one = q.one, t.keys = q.keys, t.expiry = q.expiry, t.age = q.age,
           t.urls = q.urls, t.refused = q.refused, t.missing = q.missing,
           t.results = q.results, t.cursor = q.cursor,
           DOMAIN t.flight = DOMAIN q.flight, FlightInv(t)
    PROVE  SignInv(t)
  <1>1. HeldInv(t) /\ MissingInv(t)
    BY DEF SignInv, HeldInv, MissingInv
  <1>2. RunsInv(t) /\ OutcomeInv(t)
    BY DEF SignInv, RunsInv, OutcomeInv
  <1>3. QED
    BY <1>1, <1>2 DEF SignInv

LEMMA BackoffInv ==
    ASSUME NEW q, SignInv(q), NEW i, i \in DOMAIN q.flight, q.flight[i].tries < Tries,
           NEW t, t = Backoff(q, i)
    PROVE  SignInv(t)
  <1>1. /\ DOMAIN t = DOMAIN q
        /\ t.pc = q.pc /\ t.one = q.one /\ t.keys = q.keys /\ t.expiry = q.expiry /\ t.age = q.age
        /\ t.urls = q.urls /\ t.refused = q.refused /\ t.missing = q.missing
        /\ t.results = q.results /\ t.cursor = q.cursor
    BY DEF Backoff, SignInv
  <1>2. t.flight = [q.flight EXCEPT ![i] = [tries |-> q.flight[i].tries, waits |-> TRUE, left |-> 0]]
    BY DEF Backoff, SignInv
  <1>3. FlightInv(q) /\ q.flight[i] \in Attempt
    BY DEF SignInv, FlightInv
  <1>4. DOMAIN t.flight = DOMAIN q.flight /\ \A j \in DOMAIN q.flight \ {i} : t.flight[j] = q.flight[j]
    BY <1>2
  <1>5. t.flight[i] \in Attempt /\ t.flight[i].waits /\ t.flight[i].tries = q.flight[i].tries
    BY <1>2, <1>3 DEF Attempt
  <1>6. FlightInv(t)
    BY <1>1, <1>3, <1>4, <1>5 DEF FlightInv
  <1>7. QED
    BY <1>1, <1>4, <1>6, FlightChanged

LEMMA RetriedInv ==
    ASSUME NEW q, SignInv(q), NEW i, i \in DOMAIN q.flight, q.flight[i].waits,
           NEW t, t = Retried(q, i)
    PROVE  SignInv(t)
  <1>1. /\ DOMAIN t = DOMAIN q
        /\ t.pc = q.pc /\ t.one = q.one /\ t.keys = q.keys /\ t.expiry = q.expiry /\ t.age = q.age
        /\ t.urls = q.urls /\ t.refused = q.refused /\ t.missing = q.missing
        /\ t.results = q.results /\ t.cursor = q.cursor
    BY DEF Retried, SignInv
  <1>2. t.flight = [q.flight EXCEPT ![i] = [tries |-> q.flight[i].tries + 1, waits |-> FALSE,
                                            left |-> q.expiry]]
    BY DEF Retried, SignInv
  <1>3. /\ FlightInv(q) /\ q.flight[i] \in Attempt /\ q.flight[i].tries < Tries
        /\ q.expiry \in Nat /\ q.age \in Nat
    BY DEF SignInv, FlightInv, HeldInv
  <1>4. DOMAIN t.flight = DOMAIN q.flight /\ \A j \in DOMAIN q.flight \ {i} : t.flight[j] = q.flight[j]
    BY <1>2
  <1>5. t.flight[i] \in Attempt /\ ~t.flight[i].waits /\ t.flight[i].left = q.expiry
    BY <1>2, <1>3, PresignAssumption DEF Attempt
  <1>6. FlightInv(t)
    BY <1>1, <1>3, <1>4, <1>5 DEF FlightInv
  <1>7. QED
    BY <1>1, <1>4, <1>6, FlightChanged

\* The runs that begin together.
LEMMA SigningInv ==
    ASSUME NEW keys, keys \in SUBSET Key, NEW one, one \in BOOLEAN, NEW e, e \in Nat, NEW urls,
           DOMAIN urls \subseteq keys, DOMAIN urls # keys,
           \A k \in DOMAIN urls : UrlOf(k, urls[k]),
           e > Margin => \A k \in DOMAIN urls : urls[k].left + Slack > Margin,
           NEW order, order \in SetToSeqs(keys \ DOMAIN urls),
           NEW t, t = Signing(Begin(keys, one, e, urls), order)
    PROVE  SignInv(t)
  <1> DEFINE n == Len(order)
             runs == IF Limit <= n THEN Limit ELSE n
  <1>1. IsFiniteSet(keys \ DOMAIN urls)
    BY KeyAssumption, FS_Subset
  <1>2. /\ order \in Seq(keys \ DOMAIN urls) /\ n \in Nat /\ n > 0
        /\ DOMAIN order = 1..n
        /\ \A i, j \in 1..n : order[i] = order[j] => i = j
        /\ \A k \in keys \ DOMAIN urls : \E i \in 1..n : order[i] = k
    BY <1>1, Orders
  <1>3. Min({Limit, n}) = runs /\ runs \in 1..n
    <2>1. Limit \in Nat /\ Limit > 0
      BY PresignAssumption
    <2>2. QED
      BY <1>2, <2>1, MinPair
  <1>4. /\ t = [pc |-> "sign", one |-> one, keys |-> keys, expiry |-> e, age |-> 0, urls |-> urls,
                refused |-> {}, missing |-> order, results |-> NoUrls,
                flight |-> [i \in 1..runs |-> FirstTry(Begin(keys, one, e, urls))],
                cursor |-> runs + 1]
    BY <1>3 DEF Signing, Begin
  <1> HIDE DEF runs
  <1>5. /\ FirstTry(Begin(keys, one, e, urls)) \in Attempt
        /\ ~FirstTry(Begin(keys, one, e, urls)).waits
        /\ FirstTry(Begin(keys, one, e, urls)).left = e
    BY PresignAssumption DEF FirstTry, Begin, Attempt
  <1>6. DOMAIN NoUrls = {}
    BY DEF NoUrls
  <1>7. HeldInv(t)
    <2>1. Slack \in Nat /\ \A k \in DOMAIN urls : urls[k].left \in Nat
      BY PresignAssumption DEF UrlOf, Url
    <2>2. /\ t.keys = keys /\ t.urls = urls /\ t.expiry = e /\ t.age = 0
      BY <1>4
    <2>3. \A k \in DOMAIN urls : urls[k].left + 0 + Slack = urls[k].left + Slack
      BY <2>1
    <2>4. QED
      BY <2>1, <2>2, <2>3 DEF HeldInv
  <1>8. MissingInv(t)
    <2>1. order \in Seq(Key)
      BY <1>2, SeqMonotonic
    <2>2. \A i \in 1..n : order[i] \in keys \ DOMAIN urls
      BY <1>2, ElementOfSeq
    <2>3. QED
      BY <1>2, <1>4, <2>1, <2>2 DEF MissingInv
  <1>9. RunsInv(t)
    <2>1. t.cursor = runs + 1 /\ t.missing = order /\ t.results = NoUrls /\ DOMAIN t.flight = 1..runs
      BY <1>4
    <2>2. 1..t.cursor - 1 = 1..runs /\ 1..runs # {} /\ t.cursor \in 1..n + 1
      BY <1>2, <1>3, <2>1
    <2>3. QED
      BY <1>6, <2>1, <2>2 DEF RunsInv
  <1>10. OutcomeInv(t) /\ FlightInv(t)
    BY <1>4, <1>5, <1>6 DEF OutcomeInv, FlightInv
  <1>11. QED
    BY <1>4, <1>7, <1>8, <1>9, <1>10 DEF SignInv

\* When every run has ended, every missing key was signed or refused.
LEMMA FreshUrls ==
    ASSUME NEW q, SignInv(q), DOMAIN q.flight = {}, NEW f, f = Fresh(q)
    PROVE  /\ DOMAIN f \subseteq q.keys \ DOMAIN q.urls
           /\ \A k \in DOMAIN f : UrlOf(k, f[k]) /\ f[k].left + q.age >= q.expiry
           /\ q.keys \ (DOMAIN f \cup DOMAIN q.urls) = q.refused
  <1> DEFINE n == Len(q.missing)
             signed == {i \in DOMAIN q.results : q.results[i] # Rejected}
             lost == {i \in DOMAIN q.results : q.results[i] = Rejected}
  <1>1. /\ n \in Nat
        /\ \A i \in 1..n : q.missing[i] \in q.keys \ DOMAIN q.urls
        /\ \A i, j \in 1..n : q.missing[i] = q.missing[j] => i = j
        /\ \A k \in q.keys \ DOMAIN q.urls : \E i \in 1..n : q.missing[i] = k
    BY LenProperties DEF SignInv, MissingInv
  <1>2. DOMAIN q.results = 1..n
    <2>1. q.cursor \in 1..n + 1 /\ ~(q.cursor <= n)
      BY DEF SignInv, RunsInv
    <2>2. q.cursor = n + 1
      BY <1>1, <2>1
    <2>3. QED
      BY <1>1, <2>2 DEF SignInv, RunsInv
  <1>3. /\ DOMAIN f = {q.missing[i] : i \in signed}
        /\ \A k \in DOMAIN f : f[k] = q.results[CHOOSE i \in signed : q.missing[i] = k]
    BY DEF Fresh
  <1>4. OutcomeInv(q)
    BY DEF SignInv
  <1>5. DOMAIN f \subseteq q.keys \ DOMAIN q.urls
    BY <1>1, <1>2, <1>3
  <1>6. ASSUME NEW k \in DOMAIN f PROVE UrlOf(k, f[k]) /\ f[k].left + q.age >= q.expiry
    <2> DEFINE i == CHOOSE i \in signed : q.missing[i] = k
    <2>1. i \in signed /\ q.missing[i] = k
      BY <1>3, <1>6
    <2>2. f[k] = q.results[i]
      BY <1>3, <1>6
    <2> HIDE DEF i
    <2>3. QED
      BY <1>4, <2>1, <2>2 DEF OutcomeInv
  <1>7. q.refused = {q.missing[i] : i \in lost}
    BY <1>4 DEF OutcomeInv
  <1>8. q.keys \ (DOMAIN f \cup DOMAIN q.urls) \subseteq q.refused
    BY <1>1, <1>2, <1>3, <1>7
  <1>9. q.refused \subseteq q.keys \ (DOMAIN f \cup DOMAIN q.urls)
    BY <1>1, <1>2, <1>3, <1>7
  <1>10. QED
    BY <1>5, <1>6, <1>8, <1>9

LEMMA StoredAnswer ==
    ASSUME NEW q, SignInv(q), DOMAIN q.flight = {},
           NEW t, t = Answered(q, Over(Fresh(q), q.urls))
    PROVE  AnsweredInv(t)
  <1> DEFINE f == Fresh(q)
             urls == Over(f, q.urls)
  <1>1. /\ DOMAIN f \subseteq q.keys \ DOMAIN q.urls
        /\ \A k \in DOMAIN f : UrlOf(k, f[k]) /\ f[k].left + q.age >= q.expiry
        /\ q.keys \ (DOMAIN f \cup DOMAIN q.urls) = q.refused
    BY FreshUrls
  <1> HIDE DEF f
  <1>2. /\ DOMAIN urls = DOMAIN f \cup DOMAIN q.urls
        /\ \A k \in DOMAIN f : urls[k] = f[k]
        /\ \A k \in DOMAIN q.urls : urls[k] = q.urls[k]
    BY <1>1 DEF Over
  <1> HIDE DEF urls
  <1>3. t = [pc |-> "answered", keys |-> q.keys, expiry |-> q.expiry, age |-> q.age,
             urls |-> urls, refused |-> q.refused]
    BY DEF Answered, f, urls
  <1>4. HeldInv(q) /\ Slack \in Nat /\ Margin \in Nat
    BY PresignAssumption DEF SignInv
  <1>5. \A k \in DOMAIN urls : UrlOf(k, urls[k])
    BY <1>1, <1>2, <1>4 DEF HeldInv
  <1>6. ASSUME NEW k \in DOMAIN urls, q.expiry > Margin
        PROVE  urls[k].left + q.age + Slack > Margin
    <2>1. CASE k \in DOMAIN f
      <3>1. urls[k].left \in Nat /\ urls[k].left + q.age >= q.expiry
        BY <1>1, <1>2, <2>1 DEF UrlOf, Url
      <3>2. QED
        BY <1>4, <1>6, <3>1 DEF HeldInv
    <2>2. CASE k \in DOMAIN q.urls
      BY <1>2, <1>4, <1>6, <2>2 DEF HeldInv
    <2>3. QED
      BY <1>2, <2>1, <2>2
  <1>7. HeldInv(t)
    BY <1>1, <1>2, <1>3, <1>4, <1>5, <1>6 DEF HeldInv
  <1>8. QED
    BY <1>1, <1>2, <1>3, <1>7 DEF AnsweredInv

\* Every key is in the cache.
LEMMA CachedAnswer ==
    ASSUME NEW keys, keys \in SUBSET Key, NEW one, NEW e, e \in Nat, NEW urls, DOMAIN urls = keys,
           \A k \in DOMAIN urls : UrlOf(k, urls[k]),
           e > Margin => \A k \in DOMAIN urls : urls[k].left + Slack > Margin,
           NEW t, t = Answered(Begin(keys, one, e, urls), urls)
    PROVE  AnsweredInv(t)
  <1>1. t = [pc |-> "answered", keys |-> keys, expiry |-> e, age |-> 0, urls |-> urls, refused |-> {}]
    BY DEF Answered, Begin
  <1>2. Slack \in Nat /\ \A k \in DOMAIN urls : urls[k].left \in Nat
    BY PresignAssumption DEF UrlOf, Url
  <1>3. \A k \in DOMAIN urls : urls[k].left + 0 + Slack = urls[k].left + Slack
    BY <1>2
  <1>4. HeldInv(t)
    BY <1>1, <1>2, <1>3 DEF HeldInv
  <1>5. QED
    BY <1>1, <1>4 DEF AnsweredInv

\* What a request stores.
LEMMA StoredEntry ==
    ASSUME NEW q, SignInv(q), DOMAIN q.flight = {}, CacheTtl(q.expiry) # 0,
           NEW k, k \in DOMAIN Fresh(q),
           NEW e, e = [url |-> Fresh(q)[k], left |-> CacheTtl(q.expiry)]
    PROVE  EntryInv(k, e)
  <1> DEFINE u == Fresh(q)[k]
  <1>1. UrlOf(k, u) /\ u.left + q.age >= q.expiry
    BY FreshUrls
  <1> HIDE DEF u
  <1>2. q.expiry \in Nat /\ q.age \in Nat /\ q.age <= Slack /\ Margin \in Nat /\ Slack \in Nat
    BY PresignAssumption DEF SignInv, HeldInv
  <1>3. q.expiry > Margin /\ e.left = q.expiry - Margin
    BY <1>2 DEF CacheTtl
  <1>4. e.url = u /\ DOMAIN e = {"url", "left"}
    BY DEF u
  <1>5. u.left \in Nat
    BY <1>1 DEF UrlOf, Url
  <1>6. QED
    BY <1>1, <1>2, <1>3, <1>4, <1>5 DEF EntryInv

-----------------------------------------------------------------------------
(* A tick. *)

LEMMA UrlAged ==
    ASSUME NEW k, NEW u, UrlOf(k, u), NEW v, v = Aged(u)
    PROVE  UrlOf(k, v) /\ v.left + 1 >= u.left /\ v.left = IF u.left > 0 THEN u.left - 1 ELSE 0
  <1>1. u.left \in Nat
    BY DEF UrlOf, Url
  <1>2. v = [u EXCEPT !.left = IF u.left > 0 THEN u.left - 1 ELSE 0]
    BY <1>1, MaxZero DEF Aged
  <1>3. QED
    BY <1>1, <1>2 DEF UrlOf, Url

LEMMA RejectedAged == Aged(Rejected) = Rejected
  BY MaxZero DEF Aged, Rejected

LEMMA AttemptAged ==
    ASSUME NEW a, a \in Attempt, NEW b, b = Aged(a)
    PROVE  b \in Attempt /\ b.waits = a.waits /\ b.tries = a.tries /\ b.left + 1 >= a.left
  <1>1. a.left \in Nat
    BY DEF Attempt
  <1>2. b = [a EXCEPT !.left = IF a.left > 0 THEN a.left - 1 ELSE 0]
    BY <1>1, MaxZero DEF Aged
  <1>3. QED
    BY <1>1, <1>2 DEF Attempt

LEMMA HeldAged ==
    ASSUME NEW q, HeldInv(q), q.age < Slack,
           NEW t, t.keys = q.keys, t.expiry = q.expiry, t.age = q.age + 1, t.urls = AllAged(q.urls)
    PROVE  HeldInv(t) /\ DOMAIN t.urls = DOMAIN q.urls
  <1>1. /\ DOMAIN t.urls = DOMAIN q.urls
        /\ \A k \in DOMAIN q.urls : t.urls[k] = Aged(q.urls[k])
    BY DEF AllAged
  <1>2. q.age \in Nat /\ Slack \in Nat /\ Margin \in Nat
    BY PresignAssumption DEF HeldInv
  <1>3. ASSUME NEW k \in DOMAIN q.urls
        PROVE  /\ UrlOf(k, t.urls[k])
               /\ q.expiry > Margin => t.urls[k].left + t.age + Slack > Margin
    <2>1. UrlOf(k, q.urls[k]) /\ q.expiry > Margin => q.urls[k].left + q.age + Slack > Margin
      BY DEF HeldInv
    <2>2. UrlOf(k, q.urls[k])
      BY DEF HeldInv
    <2>3. UrlOf(k, t.urls[k]) /\ t.urls[k].left + 1 >= q.urls[k].left
      BY <1>1, <2>2, UrlAged
    <2>4. t.urls[k].left \in Nat /\ q.urls[k].left \in Nat
      BY <2>2, <2>3 DEF UrlOf, Url
    <2>5. QED
      BY <1>2, <2>1, <2>2, <2>3, <2>4
  <1>4. QED
    BY <1>1, <1>2, <1>3 DEF HeldInv

LEMMA AnsweredOlder ==
    ASSUME NEW q, AnsweredInv(q), q.age < Slack, NEW t, t = Older(q)
    PROVE  AnsweredInv(t)
  <1>1. /\ DOMAIN t = DOMAIN q /\ t.pc = q.pc /\ t.keys = q.keys /\ t.expiry = q.expiry
        /\ t.age = q.age + 1 /\ t.urls = AllAged(q.urls) /\ t.refused = q.refused
    BY DEF Older, AnsweredInv
  <1>2. HeldInv(t) /\ DOMAIN t.urls = DOMAIN q.urls
    BY <1>1, HeldAged DEF AnsweredInv
  <1>3. QED
    BY <1>1, <1>2 DEF AnsweredInv

LEMMA SignOlder ==
    ASSUME NEW q, SignInv(q), q.age < Slack, NEW t, t = Older(q)
    PROVE  SignInv(t)
  <1>1. /\ DOMAIN t = DOMAIN q /\ t.pc = q.pc /\ t.one = q.one /\ t.keys = q.keys
        /\ t.expiry = q.expiry /\ t.age = q.age + 1 /\ t.urls = AllAged(q.urls)
        /\ t.refused = q.refused /\ t.missing = q.missing /\ t.cursor = q.cursor
        /\ t.results = AllAged(q.results) /\ t.flight = AllAged(q.flight)
    BY DEF Older, SignInv
  <1>2. HeldInv(t) /\ DOMAIN t.urls = DOMAIN q.urls
    BY <1>1, HeldAged DEF SignInv
  <1>3. MissingInv(t)
    BY <1>1, <1>2 DEF SignInv, MissingInv
  <1>4. /\ DOMAIN t.results = DOMAIN q.results /\ DOMAIN t.flight = DOMAIN q.flight
        /\ \A i \in DOMAIN q.results : t.results[i] = Aged(q.results[i])
        /\ \A i \in DOMAIN q.flight : t.flight[i] = Aged(q.flight[i])
    BY <1>1 DEF AllAged
  <1>5. RunsInv(t)
    BY <1>1, <1>4 DEF SignInv, RunsInv
  <1>6. q.age \in Nat /\ q.expiry \in Nat /\ t.age = q.age + 1
    BY <1>1 DEF SignInv, HeldInv
  <1>7. ASSUME NEW i \in DOMAIN q.results
        PROVE  \/ q.results[i] = Rejected /\ t.results[i] = Rejected
               \/ /\ q.results[i] # Rejected /\ t.results[i] # Rejected
                  /\ UrlOf(t.missing[i], t.results[i])
                  /\ t.results[i].left + t.age >= t.expiry
    <2>1. \/ q.results[i] = Rejected
          \/ UrlOf(q.missing[i], q.results[i]) /\ q.results[i].left + q.age >= q.expiry
      BY DEF SignInv, OutcomeInv
    <2>2. CASE q.results[i] = Rejected
      BY <1>4, <2>2, RejectedAged
    <2>3. CASE UrlOf(q.missing[i], q.results[i]) /\ q.results[i].left + q.age >= q.expiry
      <3>1. /\ UrlOf(q.missing[i], t.results[i])
            /\ t.results[i].left + 1 >= q.results[i].left
        BY <1>4, <2>3, UrlAged
      <3>2. /\ t.results[i].left \in Nat /\ q.results[i].left \in Nat
            /\ t.results[i] # Rejected /\ q.results[i] # Rejected
        BY <2>3, <3>1 DEF UrlOf, Url, Rejected
      <3>3. t.results[i].left + t.age >= t.expiry
        BY <1>1, <1>6, <2>3, <3>1, <3>2
      <3>4. QED
        BY <1>1, <3>1, <3>2, <3>3
    <2>4. QED
      BY <2>1, <2>2, <2>3
  <1>8. OutcomeInv(t)
    <2>1. {j \in DOMAIN t.results : t.results[j] = Rejected}
            = {j \in DOMAIN q.results : q.results[j] = Rejected}
      BY <1>4, <1>7
    <2>2. QED
      BY <1>1, <1>4, <1>7, <2>1 DEF SignInv, OutcomeInv
  <1>9. FlightInv(t)
    <2>1. ASSUME NEW i \in DOMAIN q.flight
          PROVE  /\ t.flight[i] \in Attempt
                 /\ t.flight[i].waits => t.flight[i].tries < Tries
                 /\ t.flight[i].waits \/ t.flight[i].left + t.age >= t.expiry
      <3>1. /\ q.flight[i] \in Attempt
            /\ q.flight[i].waits => q.flight[i].tries < Tries
            /\ q.flight[i].waits \/ q.flight[i].left + q.age >= q.expiry
        BY DEF SignInv, FlightInv
      <3>2. /\ t.flight[i] \in Attempt /\ t.flight[i].waits = q.flight[i].waits
            /\ t.flight[i].tries = q.flight[i].tries
            /\ t.flight[i].left + 1 >= q.flight[i].left
        BY <1>4, <3>1, AttemptAged
      <3>3. t.flight[i].left \in Nat /\ q.flight[i].left \in Nat
        BY <3>1, <3>2 DEF Attempt
      <3>4. t.expiry = q.expiry
        BY <1>1
      <3>5. QED
        BY <1>6, <3>1, <3>2, <3>3, <3>4
    <2>2. QED
      BY <1>4, <2>1 DEF FlightInv
  <1>10. QED
    BY <1>1, <1>2, <1>3, <1>5, <1>8, <1>9 DEF SignInv

LEMMA EntryOlder ==
    ASSUME NEW k, NEW e, EntryInv(k, e), NEW d, d = EntryAged(e)
    PROVE  EntryInv(k, d)
  <1>1. CASE e = NoEntry
    BY <1>1 DEF EntryAged, NoEntry, EntryInv
  <1>2. CASE e # NoEntry /\ e.left <= 1
    BY <1>2 DEF EntryAged, EntryInv
  <1>3. CASE e # NoEntry /\ ~(e.left <= 1)
    <2>1. /\ e.left \in Nat /\ UrlOf(k, e.url) /\ e.url.left + Slack >= e.left + Margin
          /\ Slack \in Nat /\ Margin \in Nat
      BY <1>3, PresignAssumption DEF EntryInv
    <2>2. d = [url |-> Aged(e.url), left |-> e.left - 1]
      BY <1>3 DEF EntryAged
    <2>3. UrlOf(k, d.url) /\ d.url.left + 1 >= e.url.left
      BY <2>1, <2>2, UrlAged
    <2>4. d.url.left \in Nat /\ e.url.left \in Nat /\ d.left = e.left - 1 /\ d.left \in Nat
      BY <1>3, <2>1, <2>2, <2>3 DEF UrlOf, Url
    <2>5. d.url.left + Slack >= d.left + Margin
      BY <2>1, <2>3, <2>4
    <2>6. QED
      BY <2>2, <2>3, <2>4, <2>5 DEF EntryInv
  <1>4. QED
    BY <1>1, <1>2, <1>3

-----------------------------------------------------------------------------
(* The steps. *)

LEMMA InitInv == Init => IInv
  BY DEF Init, IInv, EntryInv, RequestInv

LEMMA RequestMoves ==
    ASSUME IInv, NEW r \in Request, NEW s, RequestInv(s),
           req' = [req EXCEPT ![r] = s], UNCHANGED entry
    PROVE  IInv'
  BY DEF IInv

LEMMA AskStep ==
    ASSUME IInv, NEW r \in Request, NEW keys \in Lists[r], NEW one \in BOOLEAN,
           NEW e \in Expiries, Ask(r, keys, one, e)
    PROVE  IInv'
  <1> DEFINE hits == IF CacheTtl(e) = 0 THEN {} ELSE {k \in keys : Cached(k)}
             urls == [k \in hits |-> entry[k].url]
             q == Begin(keys, one, e, urls)
  <1>1. keys \in SUBSET Key /\ e \in Nat /\ Slack \in Nat /\ Margin \in Nat
    BY PresignAssumption
  <1>2. hits \subseteq keys /\ \A k \in hits : Cached(k)
    OBVIOUS
  <1> HIDE DEF hits
  <1>3. DOMAIN urls = hits /\ \A k \in hits : urls[k] = entry[k].url
    OBVIOUS
  <1>4. ASSUME NEW k \in hits PROVE UrlOf(k, urls[k]) /\ urls[k].left + Slack > Margin
    <2>1. k \in Key /\ EntryInv(k, entry[k]) /\ entry[k].left > 0
      BY <1>1, <1>2 DEF IInv, Cached
    <2>2. /\ entry[k].left \in Nat /\ UrlOf(k, entry[k].url)
          /\ entry[k].url.left + Slack >= entry[k].left + Margin
      BY <2>1 DEF EntryInv, NoEntry
    <2>3. entry[k].url.left \in Nat
      BY <2>2 DEF UrlOf, Url
    <2>4. QED
      BY <1>1, <1>3, <2>1, <2>2, <2>3
  <1> HIDE DEF urls
  <1>5. q.urls = urls
    BY DEF Begin
  <1>6. /\ UNCHANGED entry
        /\ \/ hits = keys /\ req' = [req EXCEPT ![r] = Answered(q, urls)]
           \/ /\ hits # keys
              /\ \E order \in SetToSeqs(keys \ hits) : req' = [req EXCEPT ![r] = Signing(q, order)]
    BY <1>5 DEF Ask, hits, urls
  <1>7. CASE hits = keys
    <2>1. AnsweredInv(Answered(q, urls))
      BY <1>1, <1>3, <1>4, <1>7, CachedAnswer
    <2>2. QED
      BY <1>6, <1>7, <2>1, RequestMoves DEF RequestInv
  <1>8. CASE hits # keys
    <2>1. PICK order \in SetToSeqs(keys \ hits) : req' = [req EXCEPT ![r] = Signing(q, order)]
      BY <1>6, <1>8
    <2>2. SignInv(Signing(q, order))
      BY <1>1, <1>2, <1>3, <1>4, <1>8, SigningInv
    <2>3. QED
      BY <1>6, <2>1, <2>2, RequestMoves DEF RequestInv
  <1>9. QED
    BY <1>7, <1>8

LEMMA SigningState ==
    ASSUME IInv, NEW r \in Request, At(r, "sign")
    PROVE  SignInv(req[r])
  BY DEF IInv, RequestInv, AnsweredInv, Idle, At

LEMMA RunStep ==
    ASSUME IInv, NEW r \in Request, NEW i,
           Sign(r, i) \/ Fail(r, i) \/ Refuse(r, i) \/ Retry(r, i)
    PROVE  IInv'
  <1> DEFINE q == req[r]
  <1>1. SignInv(q) /\ i \in DOMAIN q.flight /\ UNCHANGED entry
    BY SigningState DEF Sign, Fail, Refuse, Retry, Calling, BackingOff
  <1>2. CASE Sign(r, i)
    <2> DEFINE url == [key |-> q.missing[i], left |-> q.flight[i].left]
               t == Settled(q, i, url)
    <2>1. /\ q.flight[i] \in Attempt /\ q.flight[i].left + q.age >= q.expiry
      BY <1>1, <1>2 DEF SignInv, FlightInv, Sign, Calling
    <2>2. q.missing[i] \in Key
      <3>1. i \in 1..q.cursor - 1 /\ q.cursor \in 1..Len(q.missing) + 1 /\ q.missing \in Seq(Key)
        BY <1>1 DEF SignInv, RunsInv, MissingInv
      <3>2. i \in 1..Len(q.missing)
        BY <3>1, LenProperties
      <3>3. QED
        BY <3>1, <3>2, ElementOfSeq
    <2>3. UrlOf(q.missing[i], url) /\ url.left + q.age >= q.expiry
      BY <2>1, <2>2 DEF UrlOf, Url, Attempt
    <2>4. req' = [req EXCEPT ![r] = t]
      BY <1>2 DEF Sign
    <2> HIDE DEF url
    <2>5. SignInv(t)
      BY <1>1, <2>3, SettledUrl
    <2>6. QED
      BY <1>1, <2>4, <2>5, RequestMoves DEF RequestInv
  <1>3. CASE Fail(r, i)
    <2>1. SignInv(Backoff(q, i))
      BY <1>1, <1>3, BackoffInv DEF Fail
    <2>2. QED
      BY <1>1, <1>3, <2>1, RequestMoves DEF RequestInv, Fail
  <1>4. CASE Refuse(r, i)
    <2>1. SignInv(Refused(q, i))
      BY <1>1, SettledRefusal DEF Refused
    <2>2. QED
      BY <1>1, <1>4, <2>1, RequestMoves DEF RequestInv, Refuse
  <1>5. CASE Retry(r, i)
    <2>1. SignInv(Retried(q, i))
      BY <1>1, <1>5, RetriedInv DEF Retry, BackingOff
    <2>2. QED
      BY <1>1, <1>5, <2>1, RequestMoves DEF RequestInv, Retry
  <1>6. QED
    BY <1>2, <1>3, <1>4, <1>5

LEMMA StoreStep ==
    ASSUME IInv, NEW r \in Request, Store(r)
    PROVE  IInv'
  <1> DEFINE q == req[r]
             urls == Fresh(q)
             ttl == CacheTtl(q.expiry)
  <1>1. SignInv(q) /\ DOMAIN q.flight = {}
    BY SigningState DEF Store
  <1>2. PICK stored \in SUBSET DOMAIN urls :
            /\ ttl = 0 => stored = {}
            /\ entry' = [k \in Key |-> IF k \in stored THEN [url |-> urls[k], left |-> ttl]
                                       ELSE entry[k]]
            /\ req' = [req EXCEPT ![r] =
                    IF q.one /\ (urls = NoUrls \/ (ttl > 0 /\ stored = {})) THEN Idle
                    ELSE Answered(q, Over(urls, q.urls))]
    BY DEF Store
  <1>3. \A k \in Key : EntryInv(k, entry'[k])
    <2>1. ASSUME NEW k \in Key, k \in stored PROVE EntryInv(k, [url |-> urls[k], left |-> ttl])
      BY <1>1, <1>2, <2>1, StoredEntry
    <2>2. QED
      BY <1>2, <2>1 DEF IInv
  <1>4. AnsweredInv(Answered(q, Over(urls, q.urls)))
    BY <1>1, StoredAnswer
  <1>5. PICK s : RequestInv(s) /\ req' = [req EXCEPT ![r] = s]
    BY <1>2, <1>4 DEF RequestInv
  <1>6. DOMAIN entry' = Key
    BY <1>2
  <1>7. DOMAIN req' = Request /\ \A x \in Request : RequestInv(req'[x])
    BY <1>5 DEF IInv
  <1>8. QED
    BY <1>3, <1>6, <1>7 DEF IInv

LEMMA TickStep ==
    ASSUME IInv, Tick
    PROVE  IInv'
  <1>1. ASSUME NEW k \in Key PROVE EntryInv(k, entry'[k])
    <2>1. entry'[k] = EntryAged(entry[k]) /\ EntryInv(k, entry[k])
      BY DEF Tick, IInv
    <2>2. QED
      BY <2>1, EntryOlder
  <1>2. ASSUME NEW r \in Request PROVE RequestInv(req'[r])
    <2> DEFINE q == req[r]
    <2>1. req'[r] = (IF At(r, "idle") THEN Idle ELSE Older(q)) /\ RequestInv(q)
      BY DEF Tick, IInv
    <2>2. CASE At(r, "idle")
      BY <2>1, <2>2 DEF RequestInv
    <2>3. CASE ~At(r, "idle")
      <3>1. q.age < Slack /\ q # Idle
        BY <2>3 DEF Tick, At, Idle
      <3>2. QED
        BY <2>1, <2>3, <3>1, AnsweredOlder, SignOlder DEF RequestInv
    <2>4. QED
      BY <2>2, <2>3
  <1>3. DOMAIN entry' = Key /\ DOMAIN req' = Request
    BY DEF Tick
  <1>4. QED
    BY <1>1, <1>2, <1>3 DEF IInv

LEMMA InvStep == IInv /\ [Next]_vars => IInv'
  <1> SUFFICES ASSUME IInv, [Next]_vars PROVE IInv'
    OBVIOUS
  <1>1. CASE UNCHANGED vars
    BY <1>1 DEF vars, IInv
  <1>2. CASE \E r \in Request, one \in BOOLEAN, e \in Expiries :
                \E keys \in Lists[r] : Ask(r, keys, one, e)
    BY <1>2, AskStep
  <1>3. CASE \E r \in Request, i \in 1..Cardinality(Key) :
                Sign(r, i) \/ Fail(r, i) \/ Refuse(r, i) \/ Retry(r, i)
    BY <1>3, RunStep
  <1>4. CASE \E r \in Request : Store(r)
    BY <1>4, StoreStep
  <1>5. ASSUME NEW r \in Request, Return(r) PROVE IInv'
    BY <1>5, RequestMoves DEF Return, RequestInv
  <1>6. CASE Tick
    BY <1>6, TickStep
  <1>7. QED
    BY <1>1, <1>2, <1>3, <1>4, <1>5, <1>6 DEF Next

LEMMA Invariance == Spec => []IInv
  BY InitInv, InvStep, PTL DEF Spec

-----------------------------------------------------------------------------
(* The theorems. *)

\* URLs, cache entries and attempts are what the storage interface says.
THEOREM TypeCorrect == Spec => []TypeOK
  <1>1. IInv => TypeOK
    BY DEF IInv, EntryInv, UrlOf, RequestInv, AnsweredInv, SignInv, HeldInv, FlightInv,
           TypeOK, At, Idle, NoUrls
  <1>2. QED
    BY <1>1, Invariance, PTL

\* A URL of CachedStorageService that is handed out for an expiry above the
\* margin has not expired, however long it was in the cache.
THEOREM AnswersLiveHolds == Spec => []AnswersLive
  <1>1. IInv => AnswersLive
    <2> SUFFICES ASSUME IInv, NEW r \in Request, At(r, "answered"), req[r].expiry > Margin,
                        NEW k \in DOMAIN req[r].urls
                 PROVE  req[r].urls[k].left > 0
      BY DEF AnswersLive
    <2>1. HeldInv(req[r])
      BY DEF IInv, RequestInv, AnsweredInv, SignInv, Idle, At
    <2>2. /\ req[r].urls[k].left \in Nat /\ req[r].age \in Nat /\ req[r].age <= Slack
          /\ req[r].urls[k].left + req[r].age + Slack > Margin
      BY <2>1 DEF HeldInv, UrlOf, Url
    <2>3. Slack \in Nat /\ Margin \in Nat /\ 2 * Slack <= Margin
      BY PresignAssumption
    <2>4. QED
      BY <2>2, <2>3
  <1>2. QED
    BY <1>1, Invariance, PTL

\* mapWithConcurrency never gives one key's URL to another, in an answer or in
\* the cache, with any number of runs on the cursor.
THEOREM OwnKeyHolds == Spec => []OwnKey
  <1>1. IInv => OwnKey
    <2> SUFFICES ASSUME IInv PROVE OwnKey
      OBVIOUS
    <2>1. ASSUME NEW r \in Request, NEW k \in Key, k \in DOMAIN req[r].urls
          PROVE  req[r].urls[k].key = k
      BY <2>1 DEF IInv, RequestInv, AnsweredInv, SignInv, HeldInv, UrlOf, Idle, NoUrls
    <2>2. ASSUME NEW k \in Key, Cached(k) PROVE entry[k].url.key = k
      BY <2>2 DEF IInv, EntryInv, UrlOf, Cached, NoEntry
    <2>3. QED
      BY <2>1, <2>2 DEF OwnKey
  <1>2. QED
    BY <1>1, Invariance, PTL

\* The keys that presignReadMany leaves out are those the signer refused it.
THEOREM OnlyRefusedAbsentHolds == Spec => []OnlyRefusedAbsent
  <1>1. IInv => OnlyRefusedAbsent
    BY DEF IInv, RequestInv, AnsweredInv, SignInv, Idle, At, OnlyRefusedAbsent
  <1>2. QED
    BY <1>1, Invariance, PTL
=============================================================================
