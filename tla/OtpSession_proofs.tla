-------------------------- MODULE OtpSession_proofs --------------------------
(***************************************************************************)
(* Theorems of OtpSession for every set of tokens, requests and accounts,  *)
(* every limit and every choice of TTLs: types, single use, flow           *)
(* discrimination, and the refinement of OneTimeCode.                      *)
(***************************************************************************)
EXTENDS OtpSession, FiniteSetTheorems, TLAPS

\* A request that is somewhere carries all its fields.
LEMMA RunningRequest ==
    ASSUME TypeOK, NEW r \in Request, req[r].pc # "idle"
    PROVE  req[r] \in Running
  BY DEF TypeOK, Idle

\* What TypeOK says of one request once it moves to pc.
LEMMA GotoType ==
    ASSUME TypeOK, NEW r \in Request, req[r].pc # "idle",
           NEW p \in {"get", "claim", "account", "verify", "grant",
                      "incr", "expire", "burn", "clear"},
           Goto(r, p)
    PROVE  req' \in [Request -> Running \cup {Idle}]
  <1>1. [req[r] EXCEPT !.pc = p] \in Running
    BY RunningRequest DEF Running
  <1>2. QED
    BY <1>1 DEF TypeOK, Goto

LEMMA EndType ==
    ASSUME TypeOK, NEW r \in Request, End(r)
    PROVE  req' \in [Request -> Running \cup {Idle}]
  BY DEF TypeOK, End

LEMMA AfterCountType ==
    ASSUME TypeOK, NEW r \in Request, req[r].pc # "idle",
           NEW n \in Nat, AfterCount(r, n)
    PROVE  req' \in [Request -> Running \cup {Idle}]
  <1>1. [req[r] EXCEPT !.pc = "burn", !.n = n] \in Running
    BY RunningRequest DEF Running
  <1>2. QED
    BY <1>1, EndType DEF TypeOK, AfterCount

\* A session being issued has contents.
LEMMA KindOfIssued ==
    ASSUME TypeOK, SessionInv, NEW t \in Token, issue[t] # "none"
    PROVE  session[t] \in Session /\ session[t].kind \in Kind /\ Ttl[session[t].kind] \in Nat \ {0}
  BY TtlAssumption DEF SessionInv, Session

LEMMA InitIInv == Init => IInv
  <1> SUFFICES ASSUME Init PROVE IInv
    OBVIOUS
  <1>1. TypeOK
    BY MaxAbortsAssumption DEF Init, TypeOK
  <1>2. SessionInv
    BY DEF Init, SessionInv, Minted
  <1>3. RequestInv
    BY DEF Init, RequestInv, Idle
  <1>4. AccountInv /\ RegistrantOwnsAccount
    BY DEF Init, AccountInv, RegistrantOwnsAccount, Idle, Kind, PhoneKind
  <1>5. QED
    BY <1>1, <1>2, <1>3, <1>4 DEF IInv

\* What is known of a request that takes a step.
LEMMA RequestFacts ==
    ASSUME IInv, NEW r \in Request, req[r].pc # "idle"
    PROVE  /\ req[r] \in Running
           /\ req[r].tok \in Token /\ req[r].op \in Kind /\ req[r].n \in Nat
           /\ Minted(req[r].tok)
           /\ session[req[r].tok] \in Session
           /\ session[req[r].tok].account \in Account
  <1>1. req[r] \in Running /\ req[r].tok \in Token /\ req[r].op \in Kind /\ req[r].n \in Nat
    BY RunningRequest DEF IInv, Running
  <1>2. Minted(req[r].tok)
    BY DEF IInv, RequestInv
  <1>3. session[req[r].tok] \in Session
    BY <1>1, <1>2 DEF IInv, SessionInv, Minted
  <1>4. QED
    BY <1>1, <1>2, <1>3 DEF Session

LEMMA ProceedType ==
    ASSUME IInv, NEW r \in Request, Proceed(r) \/ Abort(r), req[r].pc # "idle"
    PROVE  req' \in [Request -> Running \cup {Idle}]
  <1> USE DEF IInv
  <1>1. CASE ReadSession(r)
    BY <1>1, GotoType, EndType DEF ReadSession
  <1>2. CASE ClaimSession(r)
    BY <1>2, GotoType, EndType DEF ClaimSession
  <1>3. CASE LoadAccount(r) \/ MarkVerified(r) \/ BurnSession(r)
    BY <1>3, GotoType DEF LoadAccount, MarkVerified, BurnSession
  <1>4. CASE CreateAccount(r)
    BY <1>4, GotoType, EndType DEF CreateAccount
  <1>5. CASE Grant(r) \/ ClearCounter(r) \/ Abort(r)
    BY <1>5, EndType DEF Grant, ClearCounter, Abort
  <1>6. CASE CountFailure(r)
    <2>1. attempts[req[r].tok] + 1 \in Nat
      BY RequestFacts DEF TypeOK
    <2>2. [req[r] EXCEPT !.pc = "expire", !.n = attempts[req[r].tok] + 1] \in Running
      BY <2>1, RequestFacts DEF Running
    <2>3. QED
      BY <1>6, <2>1, <2>2, AfterCountType DEF CountFailure, TypeOK
  <1>7. CASE BoundCounter(r)
    BY <1>7, RequestFacts, AfterCountType DEF BoundCounter
  <1>8. QED
    BY <1>1, <1>2, <1>3, <1>4, <1>5, <1>6, <1>7 DEF Proceed

LEMMA ProceedNotIdle ==
    ASSUME NEW r \in Request, Proceed(r) \/ Abort(r)
    PROVE  req[r].pc # "idle"
  BY DEF Proceed, Abort, At, ReadSession, ClaimSession, LoadAccount, MarkVerified, CreateAccount,
         Grant, CountFailure, BoundCounter, BurnSession, ClearCounter

\* A request's step moves no other request.
LEMMA Others ==
    ASSUME TypeOK, NEW r \in Request, Proceed(r) \/ Abort(r)
    PROVE  \A q \in Request \ {r} : req'[q] = req[q]
  <1>1. ASSUME NEW p, Goto(r, p) PROVE \A q \in Request \ {r} : req'[q] = req[q]
    BY <1>1 DEF Goto, TypeOK
  <1>2. ASSUME End(r) PROVE \A q \in Request \ {r} : req'[q] = req[q]
    BY <1>2 DEF End, TypeOK
  <1>3. ASSUME NEW n, AfterCount(r, n) PROVE \A q \in Request \ {r} : req'[q] = req[q]
    BY <1>2, <1>3 DEF AfterCount, TypeOK
  <1>4. CASE ReadSession(r) \/ ClaimSession(r) \/ LoadAccount(r) \/ MarkVerified(r) \/ CreateAccount(r)
    BY <1>1, <1>2, <1>4 DEF ReadSession, ClaimSession, LoadAccount, MarkVerified, CreateAccount
  <1>5. CASE Grant(r) \/ ClearCounter(r) \/ BurnSession(r) \/ Abort(r)
    BY <1>1, <1>2, <1>5 DEF Grant, ClearCounter, BurnSession, Abort
  <1>6. CASE CountFailure(r)
    <2>1. AfterCount(r, attempts[req[r].tok] + 1) =>
             \A q \in Request \ {r} : req'[q] = req[q]
      BY <1>3
    <2>2. QED
      BY <1>6, <2>1 DEF CountFailure, TypeOK
  <1>7. CASE BoundCounter(r)
    BY <1>3, <1>7 DEF BoundCounter
  <1>8. QED
    BY <1>4, <1>5, <1>6, <1>7 DEF Proceed

LEMMA TypeStep ==
    ASSUME IInv, [Next]_vars
    PROVE  TypeOK'
  <1> USE DEF IInv, issuing, redis, db, history
  <1>1. ASSUME NEW a \in Account, Register(a) PROVE TypeOK'
    BY <1>1 DEF TypeOK, Register, Account
  <1>2. ASSUME NEW t \in Token, NEW k \in Kind, NEW a \in Account, Begin(t, k, a)
        PROVE  TypeOK'
    BY <1>2 DEF TypeOK, Begin, Session
  <1>3. ASSUME NEW t \in Token, StoreSession(t) PROVE TypeOK'
    <2>1. Ttl[session[t].kind] \in Nat
      BY <1>3, KindOfIssued DEF StoreSession
    <2>2. QED
      BY <1>3, <2>1 DEF TypeOK, StoreSession
  <1>4. ASSUME NEW t \in Token, AnswerIssue(t) \/ WithdrawSession(t) PROVE TypeOK'
    BY <1>4 DEF TypeOK, AnswerIssue, WithdrawSession
  <1>5. ASSUME NEW r \in Request, NEW k \in Kind, NEW t \in Token,
               NEW right \in BOOLEAN, Receive(r, k, t, right)
        PROVE  TypeOK'
    <2>1. [pc |-> "get", op |-> k, tok |-> t, right |-> right, n |-> 0] \in Running
      BY DEF Running
    <2>2. QED
      BY <1>5, <2>1 DEF TypeOK, Receive
  <1>6. ASSUME NEW r \in Request, Proceed(r) \/ Abort(r), req[r].pc # "idle"
        PROVE  TypeOK'
    <2>1. /\ req' \in [Request -> Running \cup {Idle}]
          /\ req[r].tok \in Token /\ req[r].op \in Kind /\ req[r].n \in Nat
          /\ session[req[r].tok].account \in Account
      BY <1>6, ProceedType, RequestFacts
    <2> HIDE DEF IInv
    <2>2. CASE ReadSession(r)
      BY <2>1, <2>2 DEF IInv, TypeOK, ReadSession
    <2>3. CASE ClaimSession(r)
      <3>1. ttl' \in [Token -> Nat] /\ claims' \in [Token -> Nat]
        <4>1. CASE ttl[req[r].tok] > 0
          <5>1. /\ ttl' = [ttl EXCEPT ![req[r].tok] = 0]
                /\ claims' = [claims EXCEPT ![req[r].tok] = claims[req[r].tok] + 1]
            BY <2>3, <4>1 DEF ClaimSession
          <5>2. claims[req[r].tok] + 1 \in Nat /\ 0 \in Nat
            BY <2>1 DEF IInv, TypeOK
          <5>3. QED
            BY <5>1, <5>2 DEF IInv, TypeOK
        <4>2. CASE ttl[req[r].tok] = 0
          BY <2>1, <2>3, <4>2 DEF IInv, TypeOK, ClaimSession
        <4>3. QED
          BY <2>1, <4>1, <4>2 DEF IInv, TypeOK
      <3>2. QED
        BY <2>1, <2>3, <3>1 DEF IInv, TypeOK, ClaimSession
    <2>4. CASE LoadAccount(r) \/ MarkVerified(r)
      BY <2>1, <2>4 DEF IInv, TypeOK, LoadAccount, MarkVerified
    <2>5. CASE CreateAccount(r)
      BY <2>1, <2>5 DEF IInv, TypeOK, CreateAccount
    <2>6. CASE Grant(r)
      BY <2>1, <2>6 DEF IInv, TypeOK, Grant
    <2>7. CASE CountFailure(r)
      BY <2>1, <2>7 DEF IInv, TypeOK, CountFailure
    <2>8. CASE BoundCounter(r)
      BY <2>1, <2>8, TtlAssumption DEF IInv, TypeOK, BoundCounter, CounterTtl, Kind, EmailKind
    <2>9. CASE BurnSession(r)
      BY <2>1, <2>9 DEF IInv, TypeOK, BurnSession
    <2>10. CASE ClearCounter(r)
      BY <2>1, <2>10 DEF IInv, TypeOK, ClearCounter
    <2>11. CASE Abort(r)
      BY <2>1, <2>11, MaxAbortsAssumption DEF IInv, TypeOK, Abort
    <2>12. QED
      BY <1>6, <2>2, <2>3, <2>4, <2>5, <2>6, <2>7, <2>8, <2>9, <2>10, <2>11 DEF Proceed
  <1>7. CASE Tick
    BY <1>7 DEF TypeOK, Tick
  <1>8. CASE UNCHANGED vars
    BY <1>8 DEF TypeOK, vars
  <1>9. ASSUME NEW t \in Token, Issue(t) PROVE TypeOK'
    BY <1>2, <1>3, <1>4, <1>9
    DEF Issue, ResendEmailVerification, LoginEmail, RegisterPhone, LoginPhone,
        Kind, EmailKind, PhoneKind
  <1>10. QED
    BY <1>1, <1>5, <1>6, <1>7, <1>8, <1>9, ProceedNotIdle DEF Next

-----------------------------------------------------------------------------
(* SessionInv is preserved. *)

\* Steps that only let session keys disappear keep SessionInv.
LEMMA SessionFrame ==
    ASSUME IInv, TypeOK', UNCHANGED <<issue, session, claims, grants>>,
           \A t \in Token : ttl[t] = 0 => ttl'[t] = 0
    PROVE  SessionInv'
  BY DEF IInv, TypeOK, SessionInv, Minted

LEMMA SessionStep ==
    ASSUME IInv, TypeOK', [Next]_vars
    PROVE  SessionInv'
  <1> USE DEF issuing, redis, db, history
  <1>1. ASSUME NEW a \in Account, Register(a) PROVE SessionInv'
    BY <1>1, SessionFrame DEF Register
  <1>2. ASSUME NEW t \in Token, NEW k \in Kind, NEW a \in Account, Begin(t, k, a)
        PROVE  SessionInv'
    BY <1>2 DEF IInv, TypeOK, SessionInv, Minted, Begin, Session
  <1>3. ASSUME NEW t \in Token, StoreSession(t) PROVE SessionInv'
    BY <1>3 DEF IInv, TypeOK, SessionInv, Minted, StoreSession
  <1>4. ASSUME NEW t \in Token, AnswerIssue(t) \/ WithdrawSession(t) PROVE SessionInv'
    <2>1. CASE AnswerIssue(t)
      BY <2>1 DEF IInv, TypeOK, SessionInv, Minted, AnswerIssue
    <2>2. CASE WithdrawSession(t)
      BY <2>2 DEF IInv, TypeOK, SessionInv, Minted, WithdrawSession
    <2>3. QED
      BY <1>4, <2>1, <2>2
  <1>5. ASSUME NEW t \in Token, Issue(t) PROVE SessionInv'
    BY <1>2, <1>3, <1>4, <1>5
    DEF Issue, ResendEmailVerification, LoginEmail, RegisterPhone, LoginPhone,
        Kind, EmailKind, PhoneKind
  <1>6. ASSUME NEW r \in Request, NEW k \in Kind, NEW t \in Token,
               NEW right \in BOOLEAN, Receive(r, k, t, right)
        PROVE  SessionInv'
    BY <1>6, SessionFrame DEF Receive
  <1>7. ASSUME NEW r \in Request, Proceed(r) \/ Abort(r) PROVE SessionInv'
    <2>1. /\ req[r].tok \in Token /\ req[r].op \in Kind /\ Minted(req[r].tok)
      BY <1>7, ProceedNotIdle, RequestFacts
    <2>2. CASE ReadSession(r)
      BY <2>2, SessionFrame DEF ReadSession
    <2>3. CASE ClaimSession(r)
      <3>1. CASE ttl[req[r].tok] = 0
        BY <2>3, <3>1, SessionFrame DEF ClaimSession
      <3>2. CASE ttl[req[r].tok] > 0
        <4>1. /\ ttl' = [ttl EXCEPT ![req[r].tok] = 0]
              /\ claims' = [claims EXCEPT ![req[r].tok] = claims[req[r].tok] + 1]
              /\ UNCHANGED <<issue, session, grants>>
          BY <2>3, <3>2 DEF ClaimSession
        <4>2. claims[req[r].tok] = 0
          BY <2>1, <3>2 DEF IInv, SessionInv
        <4>3. QED
          BY <2>1, <4>1, <4>2 DEF IInv, TypeOK, SessionInv, Minted
      <3>3. QED
        BY <2>1, <3>1, <3>2 DEF IInv, TypeOK
    <2>4. CASE LoadAccount(r) \/ MarkVerified(r) \/ Abort(r)
      BY <2>4, SessionFrame DEF LoadAccount, MarkVerified, Abort
    <2>5. CASE CreateAccount(r)
      BY <2>5, SessionFrame DEF CreateAccount
    <2>6. CASE Grant(r)
      <3>1. /\ grants' = [grants EXCEPT ![req[r].tok][req[r].op] = grants[req[r].tok][req[r].op] + 1]
            /\ UNCHANGED <<issue, session, ttl, claims>>
        BY <2>6 DEF Grant
      <3>2. /\ claims[req[r].tok] = 1
            /\ grants[req[r].tok][req[r].op] = 0
            /\ session[req[r].tok].kind = req[r].op
        BY <2>1, <2>6 DEF Grant, At, IInv, RequestInv, Claimed
      <3>3. QED
        BY <2>1, <3>1, <3>2 DEF IInv, TypeOK, SessionInv, Minted
    <2>7. CASE CountFailure(r) \/ BoundCounter(r)
      BY <2>7, SessionFrame DEF CountFailure, BoundCounter
    <2>8. CASE BurnSession(r)
      <3>1. \A t \in Token : ttl[t] = 0 => ttl'[t] = 0
        BY <2>1, <2>8 DEF BurnSession, IInv, TypeOK
      <3>2. QED
        BY <2>8, <3>1, SessionFrame DEF BurnSession
    <2>9. CASE ClearCounter(r)
      BY <2>9, SessionFrame DEF ClearCounter
    <2>10. QED
      BY <1>7, <2>2, <2>3, <2>4, <2>5, <2>6, <2>7, <2>8, <2>9 DEF Proceed
  <1>8. CASE Tick
    <2>1. \A t \in Token : ttl[t] = 0 => ttl'[t] = 0
      BY <1>8 DEF Tick
    <2>2. QED
      BY <1>8, <2>1, SessionFrame DEF Tick
  <1>9. CASE UNCHANGED vars
    BY <1>9, SessionFrame DEF vars
  <1>10. QED
    BY <1>1, <1>5, <1>6, <1>7, <1>8, <1>9 DEF Next

-----------------------------------------------------------------------------
(* RequestInv is preserved. *)

\* Issuing and time touch no request, and nothing that a request relies on.
LEMMA RequestFrame ==
    ASSUME IInv, UNCHANGED <<req, claims, grants>>,
           \A t \in Token : Minted(t) => Minted(t)' /\ session'[t] = session[t]
    PROVE  RequestInv'
  <1> SUFFICES ASSUME NEW r \in Request, req[r].pc # "idle"
               PROVE  RequestInv!(r)'
    BY DEF RequestInv
  <1>1. req[r].tok \in Token /\ Minted(req[r].tok)
    BY RequestFacts
  <1>2. QED
    BY <1>1 DEF IInv, RequestInv, Claimed

\* A request that ends, or moves on within its flow without claiming, leaves
\* RequestInv as it was.
LEMMA RequestMove ==
    ASSUME IInv, NEW r \in Request, UNCHANGED <<issue, session, claims, grants>>,
           \/ End(r)
           \/ /\ req' = [req EXCEPT ![r] = req'[r]]
              /\ req[r].pc # "idle"
              /\ req'[r].tok = req[r].tok /\ req'[r].op = req[r].op
              /\ session[req[r].tok].kind = req[r].op
              /\ Claimed(r)' => Claimed(r)
    PROVE  RequestInv'
  <1>1. \A q \in Request : q # r => req'[q] = req[q]
    BY DEF IInv, TypeOK, End
  <1>2. ASSUME NEW q \in Request, req'[q].pc # "idle"
        PROVE  /\ req[q].pc # "idle" /\ req'[q].tok = req[q].tok /\ req'[q].op = req[q].op
               /\ Claimed(q)' => Claimed(q)
               /\ req'[q].pc # "get" => session[req[q].tok].kind = req[q].op
    <2>1. CASE q # r
      BY <1>1, <1>2, <2>1 DEF IInv, RequestInv, Claimed
    <2>2. CASE q = r /\ End(r)
      BY <1>2, <2>2 DEF End, IInv, TypeOK, Idle
    <2>3. CASE q = r /\ ~End(r)
      BY <1>2, <2>3
    <2>4. QED
      BY <2>1, <2>2, <2>3
  <1>3. \A q \in Request : Claimed(q)' => req'[q].pc # "idle"
    BY DEF Claimed
  <1>4. QED
    BY <1>2, <1>3 DEF IInv, RequestInv, Minted

LEMMA RequestGoto ==
    ASSUME IInv, NEW r \in Request, UNCHANGED <<issue, session, claims, grants>>,
           req[r].pc # "idle", session[req[r].tok].kind = req[r].op,
           NEW p \in {"get", "claim", "account", "verify", "grant",
                      "incr", "expire", "burn", "clear"},
           p \in {"account", "verify", "grant"} => Claimed(r),
           NEW n \in Nat,
           Goto(r, p) \/ req' = [req EXCEPT ![r].pc = p, ![r].n = n]
    PROVE  RequestInv'
  <1>1. req[r] \in Running
    BY RequestFacts
  <1>2. /\ req' = [req EXCEPT ![r] = req'[r]]
        /\ req'[r].pc = p /\ req'[r].tok = req[r].tok /\ req'[r].op = req[r].op
    <2>1. CASE Goto(r, p)
      BY <1>1, <2>1 DEF Goto, Running, IInv, TypeOK
    <2>2. CASE req' = [req EXCEPT ![r].pc = p, ![r].n = n]
      BY <1>1, <2>2 DEF Running, IInv, TypeOK
    <2>3. QED
      BY <2>1, <2>2
  <1>3. Claimed(r)' => Claimed(r)
    BY <1>2 DEF Claimed
  <1>4. QED
    BY <1>2, <1>3, RequestMove

\* assertOtpMatch after INCR: burn, or throw.
LEMMA RequestAfterCount ==
    ASSUME IInv, NEW r \in Request, UNCHANGED <<issue, session, claims, grants>>,
           req[r].pc # "idle", session[req[r].tok].kind = req[r].op,
           NEW n \in Nat, AfterCount(r, n)
    PROVE  RequestInv'
  BY RequestGoto, RequestMove DEF AfterCount

LEMMA RequestStep ==
    ASSUME IInv, [Next]_vars
    PROVE  RequestInv'
  <1> USE DEF issuing, redis, db, history
  <1>1. ASSUME NEW a \in Account, Register(a) PROVE RequestInv'
    BY <1>1, RequestFrame DEF Register, Minted
  <1>2. ASSUME NEW t \in Token, NEW k \in Kind, NEW a \in Account, Begin(t, k, a)
        PROVE  RequestInv'
    <2>1. \A u \in Token : Minted(u) => Minted(u)' /\ session'[u] = session[u]
      BY <1>2 DEF Begin, Minted, IInv, TypeOK
    <2>2. QED
      BY <1>2, <2>1, RequestFrame DEF Begin
  <1>3. ASSUME NEW t \in Token, StoreSession(t) \/ AnswerIssue(t) \/ WithdrawSession(t)
        PROVE  RequestInv'
    <2>1. \A u \in Token : Minted(u) => Minted(u)' /\ session'[u] = session[u]
      BY <1>3 DEF StoreSession, AnswerIssue, WithdrawSession, Minted, IInv, TypeOK
    <2>2. UNCHANGED <<req, claims, grants>>
      BY <1>3 DEF StoreSession, AnswerIssue, WithdrawSession
    <2>3. QED
      BY <2>1, <2>2, RequestFrame
  <1>4. ASSUME NEW t \in Token, Issue(t) PROVE RequestInv'
    BY <1>2, <1>3, <1>4
    DEF Issue, ResendEmailVerification, LoginEmail, RegisterPhone, LoginPhone,
        Kind, EmailKind, PhoneKind
  <1>5. ASSUME NEW r \in Request, NEW k \in Kind, NEW t \in Token,
               NEW right \in BOOLEAN, Receive(r, k, t, right)
        PROVE  RequestInv'
    BY <1>5 DEF Receive, IInv, TypeOK, RequestInv, Claimed, Minted
  <1>6. ASSUME NEW r \in Request, Proceed(r) \/ Abort(r) PROVE RequestInv'
    <2>1. /\ req[r].pc # "idle"
          /\ req[r] \in Running
          /\ req[r].tok \in Token /\ req[r].op \in Kind /\ Minted(req[r].tok)
          /\ req[r].pc # "get" => session[req[r].tok].kind = req[r].op
      BY <1>6, ProceedNotIdle, RequestFacts DEF IInv, RequestInv
    <2>2. CASE ReadSession(r)
      <3>1. UNCHANGED <<issue, session, claims, grants>>
        BY <2>2 DEF ReadSession
      <3>2. CASE End(r)
        BY <3>1, <3>2, RequestMove
      <3>3. CASE TypeMatches(r) /\ (Goto(r, "claim") \/ Goto(r, "incr"))
        BY <2>1, <3>1, <3>3, RequestGoto, 0 \in Nat DEF TypeMatches
      <3>4. QED
        BY <2>2, <3>2, <3>3 DEF ReadSession
    <2>3. CASE ClaimSession(r)
      <3>1. CASE ttl[req[r].tok] = 0
        BY <2>1, <2>3, <3>1, RequestMove DEF ClaimSession
      <3>2. CASE ttl[req[r].tok] > 0
        <4>1. /\ Goto(r, "account")
              /\ claims' = [claims EXCEPT ![req[r].tok] = claims[req[r].tok] + 1]
              /\ UNCHANGED <<issue, session, grants>>
              /\ req[r].pc = "claim"
          BY <2>3, <3>2 DEF ClaimSession, At
        <4>2. /\ claims[req[r].tok] = 0
              /\ \A k \in Kind : grants[req[r].tok][k] = 0
          BY <2>1, <3>2 DEF IInv, SessionInv, TypeOK
        <4>3. /\ \A q \in Request : q # r => req'[q] = req[q]
              /\ req'[r].pc = "account"
              /\ req'[r].tok = req[r].tok /\ req'[r].op = req[r].op
          BY <2>1, <4>1 DEF Goto, IInv, TypeOK, Running
        <4>4. \A q \in Request : Claimed(q) => claims[req[q].tok] = 1
          BY DEF IInv, RequestInv, Claimed
        <4>5. \A q \in Request \ {r} : Claimed(q)' => Claimed(q) /\ req'[q].tok # req[r].tok
          BY <4>2, <4>3, <4>4 DEF Claimed
        <4>6. SUFFICES ASSUME NEW q \in Request, req'[q].pc # "idle"
                       PROVE  RequestInv!(q)'
          BY DEF RequestInv
        <4>7. CASE q = r
          BY <2>1, <4>1, <4>2, <4>3, <4>5, <4>7 DEF Minted, IInv, TypeOK
        <4>8. CASE q # r
          <5>1. req'[q] = req[q] /\ req[q].tok \in Token
            BY <4>3, <4>6, <4>8, RequestFacts
          <5>2. Claimed(q)' => Claimed(q) /\ req[q].tok # req[r].tok
            BY <4>5, <4>8, <5>1
          <5>3. \A p \in Request : Claimed(p)' /\ p # q /\ Claimed(q)'
                                    => req'[p].tok # req'[q].tok
            BY <4>3, <4>5, <4>8, <5>1, <5>2 DEF IInv, RequestInv, Claimed
          <5>4. QED
            BY <4>1, <4>6, <5>1, <5>2, <5>3 DEF IInv, RequestInv, TypeOK, Minted
        <4>9. QED
          BY <4>7, <4>8
      <3>3. QED
        BY <2>1, <3>1, <3>2 DEF IInv, TypeOK
    <2>4. CASE LoadAccount(r) \/ MarkVerified(r)
      BY <2>1, <2>4, RequestMove DEF LoadAccount, MarkVerified, Goto, At, Claimed, IInv, TypeOK, Running
    <2>5. CASE CreateAccount(r)
      <3>1. UNCHANGED <<issue, session, claims, grants>> /\ req[r].pc = "account"
        BY <2>5 DEF CreateAccount, At
      <3>2. CASE End(r)
        BY <3>1, <3>2, RequestMove
      <3>3. CASE Goto(r, "grant")
        BY <2>1, <3>1, <3>3, RequestGoto, 0 \in Nat DEF Claimed
      <3>4. QED
        BY <2>5, <3>2, <3>3 DEF CreateAccount
    <2>6. CASE Grant(r)
      <3>1. /\ req' = [req EXCEPT ![r] = Idle]
            /\ grants' = [grants EXCEPT ![req[r].tok][req[r].op] = grants[req[r].tok][req[r].op] + 1]
            /\ UNCHANGED <<issue, session, claims>>
            /\ Claimed(r)
        BY <2>6 DEF Grant, At, End, Claimed
      <3>2. SUFFICES ASSUME NEW q \in Request, req'[q].pc # "idle"
                     PROVE  RequestInv!(q)'
        BY DEF RequestInv
      <3>3. q # r /\ req'[q] = req[q] /\ req[q].tok \in Token
        BY <3>1, <3>2, RequestFacts DEF IInv, TypeOK, Idle
      <3>4. \A p \in Request : Claimed(p)' => Claimed(p) /\ req'[p] = req[p]
        BY <3>1 DEF IInv, TypeOK, Idle, Claimed
      <3>5. Claimed(q)' => \A k \in Kind : grants'[req[q].tok][k] = grants[req[q].tok][k]
        <4>1. Claimed(q)' => req[q].tok # req[r].tok
          BY <2>1, <3>1, <3>3, <3>4 DEF IInv, RequestInv
        <4>2. QED
          BY <2>1, <3>1, <3>3, <4>1 DEF IInv, TypeOK
      <3>6. QED
        BY <3>1, <3>2, <3>3, <3>4, <3>5 DEF IInv, RequestInv, Minted
    <2>7. CASE CountFailure(r)
      <3>1. /\ attempts[req[r].tok] + 1 \in Nat
            /\ UNCHANGED <<issue, session, claims, grants>> /\ req[r].pc = "incr"
        BY <2>1, <2>7 DEF CountFailure, At, IInv, TypeOK
      <3>2. QED
        BY <2>1, <2>7, <3>1, RequestGoto, RequestAfterCount DEF CountFailure
    <2>8. CASE BoundCounter(r)
      <3>1. /\ req[r].n \in Nat /\ AfterCount(r, req[r].n)
            /\ UNCHANGED <<issue, session, claims, grants>> /\ req[r].pc = "expire"
        BY <2>1, <2>8 DEF BoundCounter, At, Running
      <3>2. QED
        BY <2>1, <3>1, RequestAfterCount
    <2>9. CASE BurnSession(r)
      BY <2>1, <2>9, RequestMove DEF BurnSession, Goto, At, Claimed, IInv, TypeOK, Running
    <2>10. CASE ClearCounter(r) \/ Abort(r)
      BY <2>10, RequestMove DEF ClearCounter, Abort
    <2>11. QED
      BY <1>6, <2>2, <2>3, <2>4, <2>5, <2>6, <2>7, <2>8, <2>9, <2>10 DEF Proceed
  <1>7. CASE Tick
    BY <1>7, RequestFrame DEF Tick, Minted
  <1>8. CASE UNCHANGED vars
    BY <1>8, RequestFrame DEF vars, Minted
  <1>9. QED
    BY <1>1, <1>4, <1>5, <1>6, <1>7, <1>8 DEF Next

-----------------------------------------------------------------------------
(* The account conjuncts are preserved. *)

AccountsOK == AccountInv /\ RegistrantOwnsAccount

\* Steps that create no account, grant nothing and bring no registration to
\* its grant keep AccountsOK.
LEMMA AccountFrame ==
    ASSUME IInv, UNCHANGED <<grants, createdBy>>, registered \subseteq registered',
           \A t \in Token : Minted(t) => Minted(t)' /\ session'[t] = session[t],
           \A r \in Request : req'[r].pc = "grant" /\ req'[r].op = "phone_register"
                              => req'[r] = req[r]
    PROVE  AccountsOK'
  <1>1. \A x \in createdBy : x[1] \in registered' /\ Minted(x[2])'
    BY DEF IInv, TypeOK, AccountInv
  <1>2. ASSUME NEW r \in Request, req'[r].pc = "grant", req'[r].op = "phone_register"
        PROVE  <<session'[req'[r].tok].account, req'[r].tok>> \in createdBy
    BY <1>2, RequestFacts DEF IInv, AccountInv
  <1>3. ASSUME NEW t \in Token, grants[t]["phone_register"] > 0
        PROVE  <<session'[t].account, t>> \in createdBy
    <2>1. Minted(t)
      BY <1>3 DEF IInv, TypeOK, SessionInv, Kind, PhoneKind
    <2>2. QED
      BY <1>3, <2>1 DEF IInv, RegistrantOwnsAccount
  <1>4. QED
    BY <1>1, <1>2, <1>3 DEF AccountsOK, AccountInv, RegistrantOwnsAccount, IInv

LEMMA AccountStep ==
    ASSUME IInv, [Next]_vars
    PROVE  AccountsOK'
  <1> USE DEF issuing, redis, db, history
  <1>1. ASSUME NEW a \in Account, Register(a) PROVE AccountsOK'
    BY <1>1, AccountFrame DEF Register, Minted
  <1>2. ASSUME NEW t \in Token, NEW k \in Kind, NEW a \in Account, Begin(t, k, a)
        PROVE  AccountsOK'
    <2>1. \A u \in Token : Minted(u) => Minted(u)' /\ session'[u] = session[u]
      BY <1>2 DEF Begin, Minted, IInv, TypeOK
    <2>2. QED
      BY <1>2, <2>1, AccountFrame DEF Begin
  <1>3. ASSUME NEW t \in Token, StoreSession(t) \/ AnswerIssue(t) \/ WithdrawSession(t)
        PROVE  AccountsOK'
    <2>1. \A u \in Token : Minted(u) => Minted(u)' /\ session'[u] = session[u]
      BY <1>3 DEF StoreSession, AnswerIssue, WithdrawSession, Minted, IInv, TypeOK
    <2>2. UNCHANGED <<req, registered, grants, createdBy>>
      BY <1>3 DEF StoreSession, AnswerIssue, WithdrawSession
    <2>3. QED
      BY <2>1, <2>2, AccountFrame
  <1>4. ASSUME NEW t \in Token, Issue(t) PROVE AccountsOK'
    BY <1>2, <1>3, <1>4
    DEF Issue, ResendEmailVerification, LoginEmail, RegisterPhone, LoginPhone,
        Kind, EmailKind, PhoneKind
  <1>5. ASSUME NEW r \in Request, NEW k \in Kind, NEW t \in Token,
               NEW right \in BOOLEAN, Receive(r, k, t, right)
        PROVE  AccountsOK'
    <2>1. \A q \in Request : req'[q].pc = "grant" => req'[q] = req[q]
      BY <1>5 DEF Receive, IInv, TypeOK
    <2>2. QED
      BY <1>5, <2>1, AccountFrame DEF Receive, Minted
  <1>6. ASSUME NEW r \in Request, Proceed(r) \/ Abort(r) PROVE AccountsOK'
    <2>1. /\ req[r].pc # "idle"
          /\ req[r] \in Running
          /\ req[r].tok \in Token /\ req[r].op \in Kind /\ Minted(req[r].tok)
          /\ session[req[r].tok].account \in Account
      BY <1>6, ProceedNotIdle, RequestFacts
    <2>2. ASSUME UNCHANGED <<issue, session, registered, grants, createdBy>>,
                 \/ End(r)
                 \/ \E p \in {"claim", "account", "incr", "expire", "burn", "clear"},
                        n \in Nat :
                      Goto(r, p) \/ req' = [req EXCEPT ![r].pc = p, ![r].n = n]
          PROVE  AccountsOK'
      <3>1. \A q \in Request : req'[q].pc = "grant" => req'[q] = req[q]
        <4>1. CASE End(r)
          BY <4>1 DEF End, Idle, IInv, TypeOK
        <4>2. CASE ~End(r)
          <5>1. PICK p \in {"claim", "account", "incr", "expire", "burn", "clear"}, n \in Nat :
                  Goto(r, p) \/ req' = [req EXCEPT ![r].pc = p, ![r].n = n]
            BY <2>2, <4>2
          <5>2. req'[r].pc = p
            BY <2>1, <5>1 DEF Goto, Running, IInv, TypeOK
          <5>3. \A q \in Request : q # r => req'[q] = req[q]
            BY <5>1 DEF Goto, IInv, TypeOK
          <5>4. QED
            BY <5>2, <5>3
        <4>3. QED
          BY <4>1, <4>2
      <3>2. QED
        BY <2>2, <3>1, AccountFrame DEF Minted
    <2>3. ASSUME UNCHANGED <<issue, session, registered, grants, createdBy>>,
                 NEW n \in Nat, AfterCount(r, n)
          PROVE  AccountsOK'
      BY <2>2, <2>3 DEF AfterCount
    <2>4. CASE ReadSession(r) \/ ClaimSession(r) \/ BurnSession(r)
      BY <2>2, <2>4, 0 \in Nat DEF ReadSession, ClaimSession, BurnSession
    <2>5. CASE ClearCounter(r) \/ Abort(r)
      BY <2>2, <2>5 DEF ClearCounter, Abort
    <2>6. CASE CountFailure(r)
      <3>1. attempts[req[r].tok] + 1 \in Nat
        BY <2>1 DEF IInv, TypeOK
      <3>2. QED
        BY <2>2, <2>3, <2>6, <3>1 DEF CountFailure
    <2>7. CASE BoundCounter(r)
      BY <2>1, <2>3, <2>7 DEF BoundCounter, Running
    <2>8. CASE LoadAccount(r) \/ MarkVerified(r)
      <3>1. \A q \in Request : req'[q].pc = "grant" /\ req'[q].op = "phone_register"
                               => req'[q] = req[q]
        BY <2>1, <2>8 DEF LoadAccount, MarkVerified, Goto, Running, IInv, TypeOK
      <3>2. QED
        BY <2>8, <3>1, AccountFrame DEF LoadAccount, MarkVerified, Minted
    <2>9. CASE CreateAccount(r)
      <3> DEFINE t == req[r].tok
                 a == session[t].account
      <3>1. CASE a \in registered
        BY <2>2, <2>9, <3>1 DEF CreateAccount
      <3>2. CASE a \notin registered
        <4>1. /\ registered' = registered \cup {a}
              /\ createdBy' = createdBy \cup {<<a, t>>}
              /\ Goto(r, "grant")
              /\ UNCHANGED <<issue, session, grants>>
          BY <2>9, <3>2 DEF CreateAccount
        <4>2. /\ \A q \in Request : q # r => req'[q] = req[q]
              /\ req'[r].tok = t
          BY <2>1, <4>1 DEF Goto, Running, IInv, TypeOK
        <4>3. \A x \in createdBy' : x[1] \in registered' /\ Minted(x[2])'
          BY <2>1, <4>1 DEF IInv, AccountInv, Minted
        <4>4. \A x, y \in createdBy' : x[1] = y[1] => x = y
          BY <3>2, <4>1 DEF IInv, AccountInv, RegistrantOwnsAccount
        <4>5. AccountInv'
          BY <4>1, <4>2, <4>3 DEF IInv, AccountInv
        <4>6. QED
          BY <4>1, <4>4, <4>5 DEF AccountsOK, IInv, RegistrantOwnsAccount
      <3>3. QED
        BY <3>1, <3>2
    <2>10. CASE Grant(r)
      <3> DEFINE t == req[r].tok
      <3>1. /\ req' = [req EXCEPT ![r] = Idle]
            /\ grants' = [grants EXCEPT ![t][req[r].op] = grants[t][req[r].op] + 1]
            /\ UNCHANGED <<issue, session, registered, createdBy>>
            /\ req[r].pc = "grant"
        BY <2>10 DEF Grant, At, End
      <3>2. AccountInv'
        BY <3>1 DEF IInv, TypeOK, AccountInv, Idle, Minted
      <3>3. ASSUME NEW u \in Token, grants'[u]["phone_register"] > 0
            PROVE  <<session[u].account, u>> \in createdBy
        <4>1. CASE u = t /\ req[r].op = "phone_register"
          BY <3>1, <4>1 DEF IInv, AccountInv
        <4>2. CASE ~(u = t /\ req[r].op = "phone_register")
          <5>1. grants'[u]["phone_register"] = grants[u]["phone_register"]
            BY <2>1, <3>1, <4>2 DEF IInv, TypeOK, Kind, PhoneKind
          <5>2. QED
            BY <3>3, <5>1 DEF IInv, RegistrantOwnsAccount
        <4>3. QED
          BY <4>1, <4>2
      <3>4. QED
        BY <3>1, <3>2, <3>3 DEF AccountsOK, IInv, RegistrantOwnsAccount
    <2>11. QED
      BY <1>6, <2>4, <2>5, <2>6, <2>7, <2>8, <2>9, <2>10 DEF Proceed
  <1>7. CASE Tick
    BY <1>7, AccountFrame DEF Tick, Minted
  <1>8. CASE UNCHANGED vars
    BY <1>8, AccountFrame DEF vars, Minted
  <1>9. QED
    BY <1>1, <1>4, <1>5, <1>6, <1>7, <1>8 DEF Next

-----------------------------------------------------------------------------
(* Every step maps to a step of OneTimeCode. *)

\* Keys that disappear unclaimed are sessions voided, perhaps none.
LEMMA VoidStep ==
    ASSUME IInv, TypeOK', UNCHANGED <<claims, grants>>,
           \A t \in Token : Minted(t)' = Minted(t),
           \A t \in Token : Minted(t) => session'[t] = session[t],
           \A t \in Token : ttl[t] = 0 => ttl'[t] = 0
    PROVE  OneTimeCode!Next
  <1> DEFINE S == {t \in Token : ttl[t] > 0 /\ ttl'[t] = 0}
  <1>1. ASSUME NEW t \in S PROVE Phase(t) = "live" /\ Phase(t)' = "void"
    BY <1>1 DEF Phase, IInv, TypeOK, SessionInv
  <1>2. ASSUME NEW t \in Token \ S PROVE Phase(t)' = Phase(t)
    <2>1. ttl[t] > 0 <=> ttl'[t] > 0
      BY <1>2 DEF IInv, TypeOK
    <2>2. QED
      BY <1>2, <2>1 DEF Phase
  <1>3. \A t \in Token : PurposeOf(t)' = PurposeOf(t)
    BY DEF PurposeOf
  <1>4. OneTimeCode!Void(S)
    BY <1>1, <1>2, <1>3 DEF OneTimeCode!Void
  <1>5. QED
    BY <1>4 DEF OneTimeCode!Next

LEMMA RefinementStep ==
    ASSUME IInv, TypeOK', [Next]_vars
    PROVE  [OneTimeCode!Next]_(OneTimeCode!vars)
  <1> USE DEF issuing, redis, db, history
  <1>1. ASSUME NEW a \in Account, Register(a) PROVE OneTimeCode!Next
    BY <1>1, VoidStep DEF Register, Minted
  <1>2. ASSUME NEW t \in Token, NEW k \in Kind, NEW a \in Account, Begin(t, k, a)
        PROVE  OneTimeCode!Next
    <2>1. \A u \in Token : Minted(u)' = Minted(u) /\ (Minted(u) => session'[u] = session[u])
      BY <1>2 DEF Begin, Minted, IInv, TypeOK
    <2>2. QED
      BY <1>2, <2>1, VoidStep DEF Begin
  <1>3. ASSUME NEW t \in Token, StoreSession(t) PROVE OneTimeCode!Next
    <2>1. /\ ~Minted(t) /\ Minted(t)'
          /\ ttl'[t] > 0 /\ session[t].kind \in Kind
          /\ UNCHANGED <<session, claims, grants>>
          /\ \A u \in Token \ {t} : ttl'[u] = ttl[u] /\ Minted(u)' = Minted(u)
      <3>1. issue[t] # "none" /\ Ttl[session[t].kind] \in Nat \ {0} /\ session[t].kind \in Kind
        BY <1>3, KindOfIssued DEF StoreSession, IInv
      <3>2. QED
        BY <1>3, <3>1 DEF StoreSession, Minted, IInv, TypeOK
    <2>2. /\ Phase(t) = "unborn" /\ Phase(t)' = "live"
          /\ PurposeOf(t)' = session[t].kind
          /\ \A u \in Token \ {t} : Phase(u)' = Phase(u) /\ PurposeOf(u)' = PurposeOf(u)
      BY <2>1 DEF Phase, PurposeOf
    <2>3. OneTimeCode!Mint(t, session[t].kind)
      BY <2>1, <2>2 DEF OneTimeCode!Mint
    <2>4. QED
      BY <2>1, <2>3 DEF OneTimeCode!Next
  <1>4. ASSUME NEW t \in Token, AnswerIssue(t) \/ WithdrawSession(t)
        PROVE  OneTimeCode!Next
    <2>1. \A u \in Token : Minted(u)' = Minted(u)
      BY <1>4 DEF AnswerIssue, WithdrawSession, Minted, IInv, TypeOK
    <2>2. UNCHANGED <<session, claims, grants>>
      BY <1>4 DEF AnswerIssue, WithdrawSession
    <2>3. \A u \in Token : ttl[u] = 0 => ttl'[u] = 0
      BY <1>4 DEF AnswerIssue, WithdrawSession, IInv, TypeOK
    <2>4. QED
      BY <2>1, <2>2, <2>3, VoidStep
  <1>5. ASSUME NEW t \in Token, Issue(t) PROVE OneTimeCode!Next
    BY <1>2, <1>3, <1>4, <1>5
    DEF Issue, ResendEmailVerification, LoginEmail, RegisterPhone, LoginPhone,
        Kind, EmailKind, PhoneKind
  <1>6. ASSUME NEW r \in Request, NEW k \in Kind, NEW t \in Token,
               NEW right \in BOOLEAN, Receive(r, k, t, right)
        PROVE  OneTimeCode!Next
    BY <1>6, VoidStep DEF Receive, Minted
  <1>7. ASSUME NEW r \in Request, Proceed(r) \/ Abort(r) PROVE OneTimeCode!Next
    <2>0. PICK t \in Token : t = req[r].tok
      BY <1>7, ProceedNotIdle, RequestFacts
    <2>1. t \in Token /\ t = req[r].tok /\ req[r].op \in Kind /\ Minted(t) /\ session[t] \in Session
      BY <1>7, <2>0, ProceedNotIdle, RequestFacts
    <2>2. CASE ReadSession(r) \/ LoadAccount(r) \/ MarkVerified(r) \/ CreateAccount(r) \/ CountFailure(r)
                 \/ BoundCounter(r) \/ ClearCounter(r) \/ Abort(r)
      <3>1. UNCHANGED <<issue, session, ttl, claims, grants>>
        BY <2>2 DEF ReadSession, LoadAccount, MarkVerified, CreateAccount, CountFailure,
                    BoundCounter, ClearCounter, Abort
      <3>2. QED
        BY <3>1, VoidStep DEF Minted
    <2>3. CASE BurnSession(r)
      <3>1. \A u \in Token : ttl[u] = 0 => ttl'[u] = 0
        BY <2>1, <2>3 DEF BurnSession, IInv, TypeOK
      <3>2. QED
        BY <2>3, <3>1, VoidStep DEF BurnSession, Minted
    <2>4. CASE ClaimSession(r)
      <3>1. CASE ttl[t] = 0
        BY <2>1, <2>4, <3>1, VoidStep DEF ClaimSession, Minted
      <3>2. CASE ttl[t] > 0
        <4>1. /\ ttl' = [ttl EXCEPT ![t] = 0]
              /\ claims' = [claims EXCEPT ![t] = claims[t] + 1]
              /\ UNCHANGED <<issue, session, grants>>
          BY <2>1, <2>4, <3>2 DEF ClaimSession
        <4>2. /\ Phase(t) = "live" /\ Phase(t)' = "used"
              /\ \A u \in Token \ {t} : Phase(u)' = Phase(u)
              /\ \A u \in Token : PurposeOf(u)' = PurposeOf(u)
          <5>1. claims[t] = 0 /\ claims'[t] = 1 /\ ttl'[t] = 0
            BY <2>1, <3>2, <4>1 DEF IInv, TypeOK, SessionInv
          <5>2. \A u \in Token \ {t} : claims'[u] = claims[u] /\ ttl'[u] = ttl[u]
            BY <4>1 DEF IInv, TypeOK
          <5>3. QED
            BY <2>1, <3>2, <4>1, <5>1, <5>2 DEF Phase, PurposeOf, Minted
        <4>3. OneTimeCode!Use(t)
          BY <2>1, <4>1, <4>2 DEF OneTimeCode!Use
        <4>4. QED
          BY <2>1, <4>3 DEF OneTimeCode!Next
      <3>3. QED
        BY <2>1, <3>1, <3>2 DEF IInv, TypeOK
    <2>5. CASE Grant(r)
      <3>1. /\ grants' = [grants EXCEPT ![t][req[r].op] = grants[t][req[r].op] + 1]
            /\ UNCHANGED <<issue, session, ttl, claims>>
            /\ req[r].pc = "grant"
        BY <2>1, <2>5 DEF Grant, At
      <3>2. /\ session[t].kind = req[r].op /\ claims[t] = 1
            /\ \A k \in Kind : grants[t][k] = 0
        BY <2>1, <3>1 DEF IInv, RequestInv, Claimed
      <3>3. ttl[t] = 0
        <4>1. ttl[t] \in Nat /\ (ttl[t] > 0 => claims[t] = 0)
          BY <2>1 DEF IInv, TypeOK, SessionInv
        <4>2. QED
          BY <3>2, <4>1
      <3>4. Phase(t) = "used" /\ PurposeOf(t) = req[r].op
        BY <2>1, <3>2, <3>3 DEF Phase, PurposeOf
      <3>5. \A u \in Token : Phase(u)' = Phase(u) /\ PurposeOf(u)' = PurposeOf(u)
        BY <3>1 DEF Phase, PurposeOf, Minted
      <3>6. grants' = [grants EXCEPT ![t][req[r].op] = 1]
        <4>1. grants[t][req[r].op] + 1 = 1
          BY <2>1, <3>2
        <4>2. QED
          BY <3>1, <4>1
      <3>7. OneTimeCode!Grant(t)
        BY <2>1, <3>2, <3>4, <3>5, <3>6 DEF OneTimeCode!Grant
      <3>8. QED
        BY <2>1, <3>7 DEF OneTimeCode!Next
    <2>6. QED
      BY <1>7, <2>2, <2>3, <2>4, <2>5 DEF Proceed
  <1>8. CASE Tick
    <2>1. \A t \in Token : ttl[t] = 0 => ttl'[t] = 0
      BY <1>8 DEF Tick
    <2>2. QED
      BY <1>8, <2>1, VoidStep DEF Tick, Minted
  <1>9. CASE UNCHANGED vars
    BY <1>9, VoidStep DEF vars, Minted
  <1>10. QED
    BY <1>1, <1>5, <1>6, <1>7, <1>8, <1>9 DEF Next

-----------------------------------------------------------------------------
(* The theorems. *)

LEMMA Inductive == IInv /\ [Next]_vars => IInv'
  <1> SUFFICES ASSUME IInv, [Next]_vars PROVE IInv'
    OBVIOUS
  <1>1. TypeOK'
    BY TypeStep
  <1>2. SessionInv'
    BY <1>1, SessionStep
  <1>3. QED
    BY <1>1, <1>2, RequestStep, AccountStep DEF IInv, AccountsOK

LEMMA Invariance == Spec => []IInv
  BY InitIInv, Inductive, PTL DEF Spec

\* In every behaviour the variables keep their types: no Redis key is counted
\* below zero, no request leaves the handlers' control points.
THEOREM TypeCorrect == Spec => []TypeOK
  <1>1. IInv => TypeOK
    BY DEF IInv
  <1>2. QED
    BY <1>1, Invariance, PTL

\* However many verify requests race for a session, the DEL lets one through
\* and at most one token pair comes of it.
THEOREM SingleUseHolds == Spec => []SingleUse
  <1>1. ASSUME IInv PROVE SingleUse
    <2> SUFFICES ASSUME NEW t \in Token, NEW k \in Kind
                 PROVE  claims[t] <= 1 /\ grants[t][k] <= claims[t]
      BY DEF SingleUse, Kind, PhoneKind
    <2>1. claims[t] \in Nat /\ grants[t][k] \in Nat
      BY <1>1 DEF IInv, TypeOK
    <2>2. claims[t] <= 1 /\ (grants[t][k] > 0 => grants[t][k] = 1 /\ claims[t] = 1)
      BY <1>1 DEF IInv, SessionInv
    <2>3. QED
      BY <2>1, <2>2
  <1>2. QED
    BY <1>1, Invariance, PTL

\* No session is ever answered through the verify endpoint of another flow.
THEOREM OwnFlowOnlyHolds == Spec => []OwnFlowOnly
  <1>1. IInv => OwnFlowOnly
    BY DEF IInv, SessionInv, OwnFlowOnly
  <1>2. QED
    BY <1>1, Invariance, PTL

\* Whoever is logged in by a phone registration owns the account it made.
THEOREM RegistrantOwnsAccountHolds == Spec => []RegistrantOwnsAccount
  <1>1. IInv => RegistrantOwnsAccount
    BY DEF IInv
  <1>2. QED
    BY <1>1, Invariance, PTL

\* The handlers implement the one-time-code life cycle.
THEOREM ImplementsOneTimeCode == Spec => OneTimeCodeSpec
  <1>1. Init => OneTimeCode!Init
    BY DEF Init, OneTimeCode!Init, Phase, PurposeOf, Minted
  <1>2. IInv /\ [Next]_vars => [OneTimeCode!Next]_(OneTimeCode!vars)
    BY TypeStep, RefinementStep
  <1>3. QED
    BY <1>1, <1>2, Invariance, PTL DEF Spec, OneTimeCodeSpec, OneTimeCode!Spec

-----------------------------------------------------------------------------
(* The counter covers the session it guards. *)

\* A counter starts with its session and outlives it, and is deleted only
\* after the session was.
CounterInv ==
    /\ \A t \in Token :
        /\ ~Minted(t) => attempts[t] = 0 /\ attemptsTtl[t] = 0 /\ wrong[t] = 0
        /\ ttl[t] <= CounterTtl
        /\ attemptsTtl[t] > 0 => ttl[t] <= attemptsTtl[t]
    /\ \A r \in Request : At(r, "clear") => ttl[req[r].tok] = 0

LEMMA CounterTtlType ==
    /\ CounterTtl \in Nat \ {0}
    /\ \A k \in Kind : Ttl[k] \in Nat /\ Ttl[k] <= CounterTtl
  BY TtlAssumption DEF CounterTtl, Kind, EmailKind

\* Once it is minted a session's time only runs out.
LEMMA TtlFalls ==
    ASSUME IInv, [Next]_vars, NEW t \in Token, Minted(t)
    PROVE  Minted(t)' /\ ttl'[t] <= ttl[t]
  <1> USE DEF issuing, redis, db, history
  <1>0. ttl[t] \in Nat
    BY DEF IInv, TypeOK
  <1>1. ASSUME NEW a \in Account, Register(a) PROVE Minted(t)' /\ ttl'[t] <= ttl[t]
    BY <1>0, <1>1 DEF Register, Minted
  <1>2. ASSUME NEW u \in Token, NEW k \in Kind, NEW a \in Account, Begin(u, k, a)
        PROVE  Minted(t)' /\ ttl'[t] <= ttl[t]
    BY <1>0, <1>2 DEF Begin, Minted, IInv, TypeOK
  <1>3. ASSUME NEW u \in Token, StoreSession(u) \/ AnswerIssue(u) \/ WithdrawSession(u)
        PROVE  Minted(t)' /\ ttl'[t] <= ttl[t]
    BY <1>0, <1>3 DEF StoreSession, AnswerIssue, WithdrawSession, Minted, IInv, TypeOK
  <1>4. ASSUME NEW u \in Token, Issue(u) PROVE Minted(t)' /\ ttl'[t] <= ttl[t]
    BY <1>2, <1>3, <1>4
    DEF Issue, ResendEmailVerification, LoginEmail, RegisterPhone, LoginPhone,
        Kind, EmailKind, PhoneKind
  <1>5. ASSUME NEW r \in Request, NEW k \in Kind, NEW u \in Token,
               NEW right \in BOOLEAN, Receive(r, k, u, right)
        PROVE  Minted(t)' /\ ttl'[t] <= ttl[t]
    BY <1>0, <1>5 DEF Receive, Minted
  <1>6. ASSUME NEW r \in Request, Proceed(r) \/ Abort(r)
        PROVE  Minted(t)' /\ ttl'[t] <= ttl[t]
    <2>1. issue' = issue
      BY <1>6 DEF Proceed, Abort, ReadSession, ClaimSession, LoadAccount, MarkVerified, CreateAccount, Grant,
                  CountFailure, BoundCounter, BurnSession, ClearCounter
    <2>2. ttl' = ttl \/ ttl' = [ttl EXCEPT ![req[r].tok] = 0]
      BY <1>6 DEF Proceed, Abort, ReadSession, ClaimSession, LoadAccount, MarkVerified, CreateAccount, Grant,
                  CountFailure, BoundCounter, BurnSession, ClearCounter
    <2>3. QED
      BY <1>0, <2>1, <2>2 DEF Minted, IInv, TypeOK
  <1>7. CASE Tick
    BY <1>0, <1>7 DEF Tick, Minted
  <1>8. CASE UNCHANGED vars
    BY <1>0, <1>8 DEF vars, Minted
  <1>9. QED
    BY <1>1, <1>4, <1>5, <1>6, <1>7, <1>8 DEF Next

\* Who can be about to clear a counter, and what a step does to the keys.
LEMMA CounterStep ==
    ASSUME IInv, CounterInv, [Next]_vars
    PROVE  /\ CounterInv'
           /\ \A t \in Token : attempts'[t] < attempts[t] => ttl'[t] = 0
  <1> USE DEF issuing, redis, db, history
  <1> DEFINE Cleared == \A r \in Request : At(r, "clear")' => ttl'[req'[r].tok] = 0
             Kept(t) == /\ ~Minted(t)' => attempts'[t] = 0 /\ attemptsTtl'[t] = 0 /\ wrong'[t] = 0
                        /\ ttl'[t] <= CounterTtl
                        /\ attemptsTtl'[t] > 0 => ttl'[t] <= attemptsTtl'[t]
                        /\ attempts'[t] < attempts[t] => ttl'[t] = 0
  <1> SUFFICES Cleared /\ \A t \in Token : Kept(t)
    BY DEF CounterInv
  <1>1. ASSUME NEW r \in Request, At(r, "clear")', req'[r] = req[r] PROVE ttl'[req'[r].tok] = 0
    <2>1. req[r].tok \in Token /\ Minted(req[r].tok) /\ ttl[req[r].tok] = 0
      BY <1>1, RequestFacts DEF At, CounterInv
    <2>2. ttl'[req[r].tok] <= 0 /\ ttl'[req[r].tok] \in Nat
      BY <2>1, TtlFalls, TypeStep DEF TypeOK
    <2>3. QED
      BY <1>1, <2>2
  <1>2. ASSUME \A r \in Request : At(r, "clear")' => req'[r] = req[r] PROVE Cleared
    BY <1>1, <1>2
  <1>3. ASSUME NEW t \in Token
        PROVE  /\ ttl[t] \in Nat /\ attempts[t] \in Nat /\ attemptsTtl[t] \in Nat
               /\ ttl'[t] \in Nat
    BY TypeStep DEF IInv, TypeOK
  <1>4. ASSUME NEW t \in Token, UNCHANGED <<attempts, attemptsTtl, wrong>>, Minted(t)' = Minted(t),
               ttl'[t] <= ttl[t]
        PROVE  Kept(t)
    BY <1>3, <1>4, CounterTtlType DEF CounterInv
  <1>5. ASSUME UNCHANGED <<issue, ttl, attempts, attemptsTtl, wrong>> PROVE \A t \in Token : Kept(t)
    BY <1>3, <1>4, <1>5 DEF Minted
  <1>6. ASSUME NEW a \in Account, Register(a) PROVE Cleared /\ \A t \in Token : Kept(t)
    BY <1>2, <1>5, <1>6 DEF Register
  <1>7. ASSUME NEW u \in Token, NEW k \in Kind, NEW a \in Account, Begin(u, k, a)
        PROVE  Cleared /\ \A t \in Token : Kept(t)
    <2>1. \A t \in Token : Minted(t)' = Minted(t)
      BY <1>7 DEF Begin, Minted, IInv, TypeOK
    <2>2. QED
      BY <1>2, <1>3, <1>4, <1>7, <2>1 DEF Begin
  <1>8. ASSUME NEW u \in Token, StoreSession(u) \/ AnswerIssue(u) \/ WithdrawSession(u)
        PROVE  Cleared /\ \A t \in Token : Kept(t)
    <2>1. Cleared
      BY <1>2, <1>8 DEF StoreSession, AnswerIssue, WithdrawSession
    <2>2. UNCHANGED <<attempts, attemptsTtl, wrong>>
      BY <1>8 DEF StoreSession, AnswerIssue, WithdrawSession
    <2>3. ASSUME StoreSession(u) PROVE Kept(u)
      <3>1. ~Minted(u) /\ ttl'[u] = Ttl[session[u].kind] /\ session[u].kind \in Kind
        BY <2>3, KindOfIssued DEF StoreSession, Minted, IInv, TypeOK
      <3>2. attempts[u] = 0 /\ attemptsTtl[u] = 0 /\ wrong[u] = 0
        BY <3>1 DEF CounterInv
      <3>3. QED
        BY <2>2, <3>1, <3>2, CounterTtlType
    <2>4. ASSUME NEW t \in Token, t # u \/ ~StoreSession(u) PROVE Kept(t)
      <3>1. Minted(t)' = Minted(t) /\ ttl'[t] <= ttl[t]
        BY <1>3, <1>8, <2>4 DEF StoreSession, AnswerIssue, WithdrawSession, Minted, IInv, TypeOK
      <3>2. QED
        BY <1>4, <2>2, <3>1
    <2>5. QED
      BY <2>1, <2>3, <2>4
  <1>9. ASSUME NEW u \in Token, Issue(u) PROVE Cleared /\ \A t \in Token : Kept(t)
    BY <1>7, <1>8, <1>9
    DEF Issue, ResendEmailVerification, LoginEmail, RegisterPhone, LoginPhone,
        Kind, EmailKind, PhoneKind
  <1>10. ASSUME NEW r \in Request, NEW k \in Kind, NEW u \in Token,
                NEW right \in BOOLEAN, Receive(r, k, u, right)
         PROVE  Cleared /\ \A t \in Token : Kept(t)
    <2>1. \A q \in Request : At(q, "clear")' => req'[q] = req[q]
      BY <1>10 DEF Receive, At, IInv, TypeOK
    <2>2. QED
      BY <1>2, <1>5, <1>10, <2>1 DEF Receive
  <1>11. ASSUME NEW r \in Request, Proceed(r) \/ Abort(r)
         PROVE  Cleared /\ \A t \in Token : Kept(t)
    <2>1. /\ req[r] \in Running /\ req[r].tok \in Token /\ Minted(req[r].tok)
          /\ req[r].pc # "idle"
      BY <1>11, ProceedNotIdle, RequestFacts
    <2>2. issue' = issue
      BY <1>11 DEF Proceed, Abort, ReadSession, ClaimSession, LoadAccount, MarkVerified, CreateAccount, Grant,
                   CountFailure, BoundCounter, BurnSession, ClearCounter
    <2>3. \A t \in Token : Minted(t)' = Minted(t)
      BY <2>2 DEF Minted
    <2>4. ASSUME ~BurnSession(r) PROVE Cleared
      <3>1. \A q \in Request : At(q, "clear")' => req'[q] = req[q]
        <4>1. \A q \in Request \ {r} : req'[q] = req[q]
          BY <1>11, Others DEF IInv
        <4>2. ~At(r, "clear")'
          BY <1>11, <2>1, <2>4
          DEF Proceed, Abort, ReadSession, ClaimSession, LoadAccount, MarkVerified, CreateAccount, Grant, CountFailure,
              BoundCounter, ClearCounter, AfterCount, Goto, End, At, Idle, Running, IInv, TypeOK
        <4>3. QED
          BY <4>1, <4>2
      <3>2. QED
        BY <1>2, <3>1
    <2>5. CASE ReadSession(r)
      <3>1. \A t \in Token : Minted(t)' \/ wrong'[t] = wrong[t]
        BY <2>1, <2>3, <2>5 DEF ReadSession, IInv, TypeOK
      <3>2. \A t \in Token : Kept(t)
        BY <1>3, <2>3, <2>5, <3>1 DEF ReadSession, CounterInv
      <3>3. QED
        BY <2>4, <2>5, <3>2 DEF ReadSession, BurnSession, At
    <2>6. CASE ClaimSession(r)
      <3>1. ttl' = ttl \/ ttl' = [ttl EXCEPT ![req[r].tok] = 0]
        BY <2>6 DEF ClaimSession
      <3>2. \A t \in Token : ttl'[t] <= ttl[t]
        BY <1>3, <3>1 DEF IInv, TypeOK
      <3>3. QED
        BY <1>4, <2>3, <2>4, <2>6, <3>2 DEF ClaimSession, BurnSession, At
    <2>7. CASE LoadAccount(r) \/ MarkVerified(r) \/ CreateAccount(r) \/ Grant(r) \/ Abort(r)
      <3>1. UNCHANGED <<issue, ttl, attempts, attemptsTtl, wrong>>
        BY <2>7 DEF LoadAccount, MarkVerified, CreateAccount, Grant, Abort
      <3>2. CASE ~BurnSession(r)
        BY <1>5, <2>4, <3>1, <3>2
      <3>3. CASE BurnSession(r)
        <4>1. Abort(r)
          BY <2>7, <3>3 DEF LoadAccount, MarkVerified, CreateAccount, Grant, BurnSession, At
        <4>2. \A q \in Request : At(q, "clear")' => req'[q] = req[q]
          BY <4>1 DEF Abort, End, At, Idle, IInv, TypeOK
        <4>3. QED
          BY <1>2, <1>5, <3>1, <4>2
      <3>4. QED
        BY <3>2, <3>3
    <2>8. CASE CountFailure(r)
      <3>1. \A t \in Token : attempts'[t] = IF t = req[r].tok THEN attempts[t] + 1 ELSE attempts[t]
        BY <2>8 DEF CountFailure, IInv, TypeOK
      <3>2. UNCHANGED <<ttl, attemptsTtl, wrong>>
        BY <2>8 DEF CountFailure
      <3>3. \A t \in Token : Kept(t)
        BY <1>3, <2>1, <2>3, <3>1, <3>2 DEF CounterInv
      <3>4. QED
        BY <2>4, <2>8, <3>3 DEF CountFailure, BurnSession, At
    <2>9. CASE BoundCounter(r)
      <3>1. \A t \in Token : \/ attemptsTtl'[t] = attemptsTtl[t]
                             \/ attemptsTtl'[t] = CounterTtl /\ Minted(t)
        BY <2>1, <2>9 DEF BoundCounter, IInv, TypeOK
      <3>2. UNCHANGED <<ttl, attempts, wrong>>
        BY <2>9 DEF BoundCounter
      <3>3. \A t \in Token : Kept(t)
        BY <1>3, <2>3, <3>1, <3>2 DEF CounterInv
      <3>4. QED
        BY <2>4, <2>9, <3>3 DEF BoundCounter, BurnSession, At
    <2>10. CASE BurnSession(r)
      <3>1. /\ \A t \in Token : ttl'[t] <= ttl[t]
            /\ ttl'[req[r].tok] = 0
        BY <1>3, <2>1, <2>10 DEF BurnSession, IInv, TypeOK
      <3>2. req'[r].tok = req[r].tok /\ \A q \in Request \ {r} : req'[q] = req[q]
        BY <2>1, <2>10 DEF BurnSession, Goto, Running, IInv, TypeOK
      <3>3. Cleared
        BY <1>1, <3>1, <3>2
      <3>4. QED
        BY <1>4, <2>3, <2>10, <3>1, <3>3 DEF BurnSession
    <2>11. CASE ClearCounter(r)
      <3>1. ttl[req[r].tok] = 0
        BY <2>11 DEF ClearCounter, CounterInv
      <3>2. /\ attempts' = [attempts EXCEPT ![req[r].tok] = 0]
            /\ attemptsTtl' = [attemptsTtl EXCEPT ![req[r].tok] = 0]
            /\ UNCHANGED <<ttl, wrong>>
        BY <2>11 DEF ClearCounter
      <3>3. ASSUME NEW t \in Token PROVE Kept(t)
        <4>1. /\ attempts'[t] = IF t = req[r].tok THEN 0 ELSE attempts[t]
              /\ attemptsTtl'[t] = IF t = req[r].tok THEN 0 ELSE attemptsTtl[t]
          BY <3>2 DEF IInv, TypeOK
        <4>2. QED
          BY <1>3, <2>3, <3>1, <3>2, <4>1 DEF CounterInv
      <3>4. QED
        BY <2>4, <2>11, <3>3 DEF ClearCounter, BurnSession, At
    <2>12. QED
      BY <1>11, <2>5, <2>6, <2>7, <2>8, <2>9, <2>10, <2>11 DEF Proceed
  <1>12. CASE Tick
    <2>1. Cleared
      BY <1>2, <1>12 DEF Tick
    <2>2. ASSUME NEW t \in Token PROVE Kept(t)
      <3>1. /\ ttl'[t] = IF ttl[t] > 0 THEN ttl[t] - 1 ELSE 0
            /\ attemptsTtl'[t] = IF attemptsTtl[t] > 0 THEN attemptsTtl[t] - 1 ELSE 0
            /\ attempts'[t] = IF attemptsTtl[t] = 1 THEN 0 ELSE attempts[t]
            /\ wrong' = wrong /\ Minted(t)' = Minted(t)
        BY <1>12 DEF Tick, Minted
      <3>2. QED
        BY <1>3, <3>1, CounterTtlType DEF CounterInv
    <2>3. QED
      BY <2>1, <2>2
  <1>13. CASE UNCHANGED vars
    BY <1>2, <1>5, <1>13 DEF vars
  <1>14. QED
    BY <1>6, <1>9, <1>10, <1>11, <1>12, <1>13 DEF Next

LEMMA InitCounter == Init => CounterInv
  BY CounterTtlType DEF Init, CounterInv, At, Idle

\* The counter of wrong guesses never falls while its session can be guessed at:
\* its TTL is the longest, and a burn deletes the session first.
THEOREM CounterCoversSessionHolds == Spec => CounterCoversSession
  <1>1. IInv /\ CounterInv /\ [Next]_vars =>
            [\A t \in Token : attempts'[t] < attempts[t] => ttl'[t] = 0]_vars
    BY CounterStep
  <1>2. IInv /\ CounterInv /\ [Next]_vars => CounterInv'
    BY CounterStep
  <1>3. QED
    BY <1>1, <1>2, InitCounter, Invariance, PTL DEF Spec, CounterCoversSession

-----------------------------------------------------------------------------
(* The guesses a session answers. *)

\* The requests that have guessed wrong at t and not counted it yet.
CountingFor(t) == {r \in Request : At(r, "incr") /\ req[r].tok = t}

\* The requests that may still burn t: they count, or have reached the limit.
HoldersOf(t) ==
    {r \in Request : /\ \/ At(r, "incr") \/ At(r, "burn")
                        \/ At(r, "expire") /\ req[r].n >= MaxAttempts
                     /\ req[r].tok = t}

\* A wrong guess at a live session is in its counter or about to be counted;
\* and once the limit is reached somebody is on the way to burn the session,
\* unless it was lost.
GuessInv ==
    \A t \in Token :
        /\ ttl[t] > 0 =>
             /\ wrong[t] <= attempts[t] + Cardinality(CountingFor(t)) + aborts
             /\ wrong[t] <= MaxAttempts - 1 + Cardinality(HoldersOf(t)) + aborts
        /\ wrong[t] <= MaxAttempts - 1 + Cardinality(Request) + aborts

\* The size of a set that gains or loses at most one element.
LEMMA CardMove ==
    ASSUME NEW S, NEW T, NEW r, IsFiniteSet(S), IsFiniteSet(T),
           \A q : q # r => (q \in S <=> q \in T)
    PROVE  /\ Cardinality(S) \in Nat /\ Cardinality(T) \in Nat
           /\ r \in S /\ r \in T => Cardinality(T) = Cardinality(S)
           /\ r \notin S /\ r \notin T => Cardinality(T) = Cardinality(S)
           /\ r \notin S /\ r \in T => Cardinality(T) = Cardinality(S) + 1
           /\ r \in S /\ r \notin T => Cardinality(S) = Cardinality(T) + 1
  <1>1. Cardinality(S) \in Nat /\ Cardinality(T) \in Nat
    BY FS_CardinalityType
  <1>2. (r \in S <=> r \in T) => S = T
    OBVIOUS
  <1>3. r \notin S /\ r \in T => T = S \cup {r}
    OBVIOUS
  <1>4. r \in S /\ r \notin T => S = T \cup {r}
    OBVIOUS
  <1>5. QED
    BY <1>1, <1>2, <1>3, <1>4, FS_AddElement

LEMMA CardAtMostOneLess ==
    ASSUME NEW S, NEW T, NEW r, IsFiniteSet(S), IsFiniteSet(T),
           \A q : q # r => (q \in S <=> q \in T)
    PROVE  Cardinality(S) <= Cardinality(T) + 1
  <1>1. /\ Cardinality(S) \in Nat /\ Cardinality(T) \in Nat
        /\ \/ Cardinality(T) = Cardinality(S)
           \/ Cardinality(T) = Cardinality(S) + 1
           \/ Cardinality(S) = Cardinality(T) + 1
    BY CardMove
  <1>2. QED
    BY <1>1

LEMMA GuessSets ==
    ASSUME NEW t
    PROVE  /\ IsFiniteSet(CountingFor(t)) /\ IsFiniteSet(HoldersOf(t))
           /\ Cardinality(CountingFor(t)) \in Nat /\ Cardinality(HoldersOf(t)) \in Nat
           /\ Cardinality(CountingFor(t)) <= Cardinality(HoldersOf(t))
           /\ Cardinality(HoldersOf(t)) <= Cardinality(Request)
           /\ Cardinality(Request) \in Nat
  <1>1. CountingFor(t) \subseteq HoldersOf(t) /\ HoldersOf(t) \subseteq Request
    BY DEF CountingFor, HoldersOf
  <1>2. QED
    BY <1>1, RequestAssumption, FS_Subset, FS_CardinalityType

\* The same of the state after a step.
LEMMA GuessSetsNext ==
    ASSUME NEW t
    PROVE  /\ IsFiniteSet(CountingFor(t)') /\ IsFiniteSet(HoldersOf(t)')
           /\ Cardinality(CountingFor(t)') \in Nat /\ Cardinality(HoldersOf(t)') \in Nat
           /\ Cardinality(CountingFor(t)') <= Cardinality(HoldersOf(t)')
           /\ Cardinality(HoldersOf(t)') <= Cardinality(Request)
           /\ Cardinality(Request) \in Nat
  <1>1. CountingFor(t)' \subseteq HoldersOf(t)' /\ HoldersOf(t)' \subseteq Request
    BY DEF CountingFor, HoldersOf
  <1>2. QED
    BY <1>1, RequestAssumption, FS_Subset, FS_CardinalityType

\* What a step of request r does to the two sets.
LEMMA GuessMove ==
    ASSUME NEW t, NEW r \in Request, \A q \in Request \ {r} : req'[q] = req[q]
    PROVE  /\ \A q : q # r => (q \in CountingFor(t) <=> q \in CountingFor(t)')
           /\ \A q : q # r => (q \in HoldersOf(t) <=> q \in HoldersOf(t)')
  BY DEF CountingFor, HoldersOf, At

LEMMA GuessNumbers ==
    ASSUME TypeOK, NEW t \in Token
    PROVE  /\ wrong[t] \in Nat /\ attempts[t] \in Nat /\ ttl[t] \in Nat
           /\ aborts \in Nat /\ MaxAttempts \in Nat \ {0}
  BY MaxAttemptsAssumption, MaxAbortsAssumption DEF TypeOK

\* A step of request r that guesses nothing, and after which whoever might
\* burn the session still does.
LEMMA KeepGuess ==
    ASSUME TypeOK, TypeOK', GuessInv, NEW t \in Token, NEW r \in Request,
           \A q \in Request \ {r} : req'[q] = req[q],
           wrong'[t] = wrong[t], aborts' = aborts,
           ttl'[t] > 0 => /\ ttl[t] > 0 /\ attempts'[t] >= attempts[t]
                          /\ r \in CountingFor(t) <=> r \in CountingFor(t)'
                          /\ r \in HoldersOf(t) => r \in HoldersOf(t)'
    PROVE  GuessInv!(t)'
  <1>1. /\ wrong[t] \in Nat /\ attempts[t] \in Nat /\ attempts'[t] \in Nat
        /\ aborts \in Nat /\ MaxAttempts \in Nat \ {0}
    BY GuessNumbers DEF TypeOK
  <1>2. CASE ttl'[t] > 0
    <2>1. Cardinality(CountingFor(t)') = Cardinality(CountingFor(t))
      BY <1>2, GuessMove, GuessSets, GuessSetsNext, CardMove
    <2>2. Cardinality(HoldersOf(t)') >= Cardinality(HoldersOf(t))
      <3>1. CASE r \in HoldersOf(t)
        BY <1>2, <3>1, GuessMove, GuessSets, GuessSetsNext, CardMove
      <3>2. CASE r \notin HoldersOf(t)
        BY <3>2, GuessMove, GuessSets, GuessSetsNext, CardMove
      <3>3. QED
        BY <3>1, <3>2
    <2>3. QED
      BY <1>1, <1>2, <2>1, <2>2, GuessSets, GuessSetsNext DEF GuessInv
  <1>3. CASE ~(ttl'[t] > 0)
    BY <1>3 DEF GuessInv
  <1>4. QED
    BY <1>2, <1>3

\* A wrong guess is counted next.
LEMMA WrongGuess ==
    ASSUME TypeOK, TypeOK', GuessInv, NEW t \in Token, NEW r \in Request,
           \A q \in Request \ {r} : req'[q] = req[q],
           UNCHANGED <<ttl, attempts, aborts>>,
           wrong'[t] = wrong[t] + 1, ttl[t] > 0,
           r \notin HoldersOf(t), r \notin CountingFor(t), r \in CountingFor(t)'
    PROVE  GuessInv!(t)'
  <1>1. /\ wrong[t] \in Nat /\ attempts[t] \in Nat
        /\ aborts \in Nat /\ MaxAttempts \in Nat \ {0}
    BY GuessNumbers
  <1>2. r \in HoldersOf(t)'
    BY DEF CountingFor, HoldersOf
  <1>3. /\ Cardinality(CountingFor(t)') = Cardinality(CountingFor(t)) + 1
        /\ Cardinality(HoldersOf(t)') = Cardinality(HoldersOf(t)) + 1
    BY <1>2, GuessMove, GuessSets, GuessSetsNext, CardMove
  <1>4. QED
    BY <1>1, <1>3, GuessSets, GuessSetsNext DEF GuessInv

\* A guess is counted: below the limit the counter covers it, at the limit its
\* request goes on to burn the session.
LEMMA CountedGuess ==
    ASSUME TypeOK, TypeOK', GuessInv, NEW t \in Token, NEW r \in Request,
           \A q \in Request \ {r} : req'[q] = req[q],
           UNCHANGED <<ttl, wrong, aborts>>,
           attempts'[t] = attempts[t] + 1,
           r \in CountingFor(t), r \notin CountingFor(t)',
           attempts'[t] >= MaxAttempts => r \in HoldersOf(t)'
    PROVE  GuessInv!(t)'
  <1>1. /\ wrong[t] \in Nat /\ attempts[t] \in Nat /\ ttl[t] \in Nat
        /\ aborts \in Nat /\ MaxAttempts \in Nat \ {0}
    BY GuessNumbers
  <1>2. r \in HoldersOf(t)
    BY DEF CountingFor, HoldersOf
  <1>3. Cardinality(CountingFor(t)) = Cardinality(CountingFor(t)') + 1
    BY GuessMove, GuessSets, GuessSetsNext, CardMove
  <1>4. CASE attempts'[t] >= MaxAttempts
    <2>1. Cardinality(HoldersOf(t)') = Cardinality(HoldersOf(t))
      BY <1>2, <1>4, GuessMove, GuessSets, GuessSetsNext, CardMove
    <2>2. QED
      BY <1>1, <1>3, <2>1, GuessSets, GuessSetsNext DEF GuessInv
  <1>5. CASE ~(attempts'[t] >= MaxAttempts)
    <2>1. attempts[t] + 1 <= MaxAttempts - 1
      BY <1>1, <1>5
    <2>2. ttl[t] > 0 => wrong[t] <= attempts[t] + 1 + Cardinality(CountingFor(t)') + aborts
      BY <1>1, <1>3, GuessSets, GuessSetsNext DEF GuessInv
    <2>3. QED
      BY <1>1, <2>1, <2>2, GuessSets, GuessSetsNext DEF GuessInv
  <1>6. QED
    BY <1>4, <1>5

\* A request that is lost takes at most its own guess out of the count.
LEMMA LostGuess ==
    ASSUME TypeOK, TypeOK', GuessInv, NEW t \in Token, NEW r \in Request,
           \A q \in Request \ {r} : req'[q] = req[q],
           UNCHANGED <<ttl, attempts, wrong>>, aborts' = aborts + 1
    PROVE  GuessInv!(t)'
  <1>1. /\ wrong[t] \in Nat /\ attempts[t] \in Nat
        /\ aborts \in Nat /\ MaxAttempts \in Nat \ {0}
    BY GuessNumbers
  <1>2. Cardinality(CountingFor(t)) <= Cardinality(CountingFor(t)') + 1
    BY GuessMove, GuessSets, GuessSetsNext, CardAtMostOneLess
  <1>3. Cardinality(HoldersOf(t)) <= Cardinality(HoldersOf(t)') + 1
    BY GuessMove, GuessSets, GuessSetsNext, CardAtMostOneLess
  <1>4. QED
    BY <1>1, <1>2, <1>3, GuessSets, GuessSetsNext DEF GuessInv

LEMMA InitGuess == Init => GuessInv
  <1> SUFFICES ASSUME Init, NEW t \in Token PROVE GuessInv!(t)
    BY DEF GuessInv
  <1>1. wrong[t] = 0 /\ ttl[t] = 0 /\ aborts = 0
    BY DEF Init
  <1>2. QED
    BY <1>1, GuessSets, MaxAttemptsAssumption

LEMMA GuessStep ==
    ASSUME IInv, CounterInv, GuessInv, [Next]_vars, NEW t \in Token
    PROVE  GuessInv!(t)'
  <1> USE DEF issuing, redis, db, history
  <1>0. TypeOK /\ TypeOK' /\ ttl[t] \in Nat /\ ttl'[t] \in Nat
    BY TypeStep DEF IInv, TypeOK
  <1>1. ASSUME UNCHANGED <<req, attempts, wrong, aborts>>, ttl'[t] > 0 => ttl[t] > 0
        PROVE  GuessInv!(t)'
    BY <1>1 DEF GuessInv, CountingFor, HoldersOf, At
  <1>2. ASSUME NEW a \in Account, Register(a) PROVE GuessInv!(t)'
    BY <1>1, <1>2 DEF Register
  <1>3. ASSUME NEW u \in Token, NEW k \in Kind, NEW a \in Account, Begin(u, k, a)
        PROVE  GuessInv!(t)'
    BY <1>1, <1>3 DEF Begin
  <1>4. ASSUME NEW u \in Token, AnswerIssue(u) \/ WithdrawSession(u)
        PROVE  GuessInv!(t)'
    <2>1. UNCHANGED <<req, attempts, wrong, aborts>> /\ (ttl'[t] > 0 => ttl[t] > 0)
      <3>1. ttl' = ttl \/ ttl' = [ttl EXCEPT ![u] = 0]
        BY <1>4 DEF AnswerIssue, WithdrawSession
      <3>2. ttl'[t] = ttl[t] \/ ttl'[t] = 0
        BY <1>0, <3>1 DEF TypeOK
      <3>3. QED
        BY <1>0, <1>4, <3>2 DEF AnswerIssue, WithdrawSession
    <2>2. QED
      BY <1>1, <2>1
  <1>5. ASSUME NEW u \in Token, StoreSession(u) PROVE GuessInv!(t)'
    <2>1. UNCHANGED <<req, attempts, wrong, aborts>>
      BY <1>5 DEF StoreSession
    <2>2. CASE t # u
      <3>1. ttl'[t] = ttl[t]
        BY <1>0, <1>5, <2>2 DEF StoreSession, TypeOK
      <3>2. QED
        BY <1>1, <2>1, <3>1
    <2>3. CASE t = u
      <3>1. wrong'[t] = 0
        BY <1>5, <2>1, <2>3 DEF StoreSession, Minted, CounterInv
      <3>2. /\ attempts'[t] \in Nat /\ aborts' \in Nat /\ MaxAttempts \in Nat \ {0}
        BY <1>0, MaxAttemptsAssumption, MaxAbortsAssumption DEF TypeOK
      <3>3. QED
        BY <3>1, <3>2, GuessSetsNext
    <2>4. QED
      BY <2>2, <2>3
  <1>6. ASSUME NEW u \in Token, Issue(u) PROVE GuessInv!(t)'
    BY <1>3, <1>4, <1>5, <1>6
    DEF Issue, ResendEmailVerification, LoginEmail, RegisterPhone, LoginPhone,
        Kind, EmailKind, PhoneKind
  <1>7. ASSUME NEW r \in Request, NEW k \in Kind, NEW u \in Token,
               NEW right \in BOOLEAN, Receive(r, k, u, right)
        PROVE  GuessInv!(t)'
    <2>1. \A q \in Request \ {r} : req'[q] = req[q]
      BY <1>0, <1>7 DEF Receive, TypeOK
    <2>2. /\ r \notin CountingFor(t) /\ r \notin CountingFor(t)'
          /\ r \notin HoldersOf(t)
      BY <1>0, <1>7 DEF Receive, TypeOK, CountingFor, HoldersOf, At
    <2>3. UNCHANGED <<ttl, attempts, wrong, aborts>>
      BY <1>7 DEF Receive
    <2>4. QED
      BY <1>0, <2>1, <2>2, <2>3, KeepGuess DEF TypeOK
  <1>8. ASSUME NEW r \in Request, Proceed(r) \/ Abort(r)
        PROVE  GuessInv!(t)'
    <2>1. /\ req[r] \in Running /\ req[r].tok \in Token /\ req[r].n \in Nat
          /\ \A q \in Request \ {r} : req'[q] = req[q]
      BY <1>0, <1>8, ProceedNotIdle, RequestFacts, Others
    <2>2. /\ attempts[t] \in Nat /\ attempts'[t] \in Nat /\ MaxAttempts \in Nat \ {0}
          /\ wrong[t] \in Nat /\ aborts \in Nat
      BY <1>0, MaxAttemptsAssumption, MaxAbortsAssumption DEF TypeOK
    <2>3. CASE ReadSession(r)
      <3>1. UNCHANGED <<ttl, attempts, aborts>> /\ At(r, "get")
        BY <2>3 DEF ReadSession
      <3>2. r \notin CountingFor(t) /\ r \notin HoldersOf(t)
        BY <3>1 DEF CountingFor, HoldersOf, At
      <3>3. CASE /\ Found(r) /\ ~req[r].right
                 /\ Goto(r, "incr")
                 /\ wrong' = [wrong EXCEPT ![req[r].tok] = wrong[req[r].tok] + 1]
        <4>1. req'[r].pc = "incr" /\ req'[r].tok = req[r].tok
          BY <1>0, <2>1, <3>3 DEF Goto, Running, TypeOK
        <4>2. CASE t = req[r].tok
          <5>1. r \in CountingFor(t)' /\ ttl[t] > 0 /\ wrong'[t] = wrong[t] + 1
            BY <1>0, <3>3, <4>1, <4>2 DEF CountingFor, At, Found, TypeOK
          <5>2. QED
            BY <1>0, <2>1, <3>1, <3>2, <5>1, WrongGuess
        <4>3. CASE t # req[r].tok
          <5>1. r \notin CountingFor(t)' /\ wrong'[t] = wrong[t]
            BY <1>0, <3>3, <4>1, <4>3 DEF CountingFor, TypeOK
          <5>2. QED
            BY <1>0, <2>1, <2>2, <3>1, <3>2, <5>1, KeepGuess
        <4>4. QED
          BY <4>2, <4>3
      <3>4. CASE wrong' = wrong /\ (End(r) \/ Goto(r, "claim"))
        <4>1. r \notin CountingFor(t)'
          BY <1>0, <2>1, <3>4 DEF CountingFor, At, End, Goto, Idle, Running, TypeOK
        <4>2. QED
          BY <1>0, <2>1, <2>2, <3>1, <3>2, <3>4, <4>1, KeepGuess
      <3>5. QED
        BY <2>3, <3>3, <3>4 DEF ReadSession
    <2>4. CASE ClaimSession(r) \/ LoadAccount(r) \/ MarkVerified(r) \/ CreateAccount(r) \/ Grant(r)
      <3>1. /\ UNCHANGED <<attempts, wrong, aborts>>
            /\ ttl' = ttl \/ ttl' = [ttl EXCEPT ![req[r].tok] = 0]
        BY <2>4 DEF ClaimSession, LoadAccount, MarkVerified, CreateAccount, Grant
      <3>2. ttl'[t] > 0 => ttl[t] > 0
        <4>1. ttl'[t] = ttl[t] \/ ttl'[t] = 0
          BY <1>0, <3>1 DEF TypeOK
        <4>2. QED
          BY <1>0, <4>1
      <3>3. r \notin CountingFor(t) /\ r \notin HoldersOf(t)
        BY <2>4 DEF ClaimSession, LoadAccount, MarkVerified, CreateAccount, Grant, CountingFor, HoldersOf, At
      <3>4. Goto(r, "account") \/ Goto(r, "verify") \/ Goto(r, "grant") \/ End(r)
        BY <2>4 DEF ClaimSession, LoadAccount, MarkVerified, CreateAccount, Grant
      <3>5. r \notin CountingFor(t)'
        BY <1>0, <2>1, <3>4 DEF CountingFor, At, End, Goto, Idle, Running, TypeOK
      <3>6. QED
        BY <1>0, <2>1, <2>2, <3>1, <3>2, <3>3, <3>5, KeepGuess
    <2>5. CASE CountFailure(r)
      <3> DEFINE n == attempts[req[r].tok] + 1
      <3>1. /\ At(r, "incr") /\ UNCHANGED <<ttl, wrong, aborts>>
            /\ attempts' = [attempts EXCEPT ![req[r].tok] = n]
            /\ n \in Nat
        BY <1>0, <2>1, <2>5 DEF CountFailure, TypeOK
      <3>2. /\ ~At(r, "incr")'
            /\ n >= MaxAttempts => /\ At(r, "burn")' \/ At(r, "expire")'
                                   /\ req'[r].n = n /\ req'[r].tok = req[r].tok
        BY <1>0, <2>1, <2>5 DEF CountFailure, AfterCount, End, Idle, At, Running, TypeOK
      <3>3. CASE t = req[r].tok
        <4>1. /\ attempts'[t] = attempts[t] + 1
              /\ r \in CountingFor(t) /\ r \notin CountingFor(t)'
              /\ attempts'[t] >= MaxAttempts => r \in HoldersOf(t)'
          BY <1>0, <3>1, <3>2, <3>3 DEF CountingFor, HoldersOf, At, TypeOK
        <4>2. QED
          BY <1>0, <2>1, <3>1, <4>1, CountedGuess
      <3>4. CASE t # req[r].tok
        <4>1. /\ attempts'[t] = attempts[t]
              /\ r \notin CountingFor(t) /\ r \notin CountingFor(t)' /\ r \notin HoldersOf(t)
          BY <1>0, <3>1, <3>2, <3>4 DEF CountingFor, HoldersOf, At, TypeOK
        <4>2. QED
          BY <1>0, <2>1, <2>2, <3>1, <4>1, KeepGuess
      <3>5. QED
        BY <3>3, <3>4
    <2>6. CASE BoundCounter(r)
      <3>1. At(r, "expire") /\ UNCHANGED <<ttl, attempts, wrong, aborts>> /\ AfterCount(r, req[r].n)
        BY <2>6 DEF BoundCounter
      <3>2. /\ ~At(r, "incr")'
            /\ req[r].n >= MaxAttempts => At(r, "burn")' /\ req'[r].tok = req[r].tok
        BY <1>0, <2>1, <3>1 DEF AfterCount, End, Idle, At, Running, TypeOK
      <3>3. /\ r \notin CountingFor(t) /\ r \notin CountingFor(t)'
            /\ r \in HoldersOf(t) => r \in HoldersOf(t)'
        BY <3>1, <3>2 DEF CountingFor, HoldersOf, At
      <3>4. QED
        BY <1>0, <2>1, <2>2, <3>1, <3>3, KeepGuess
    <2>7. CASE BurnSession(r)
      <3>1. /\ At(r, "burn") /\ UNCHANGED <<attempts, wrong, aborts>>
            /\ ttl' = [ttl EXCEPT ![req[r].tok] = 0] /\ Goto(r, "clear")
        BY <2>7 DEF BurnSession
      <3>2. ttl'[t] > 0 => ttl[t] > 0 /\ t # req[r].tok
        BY <1>0, <3>1 DEF TypeOK
      <3>3. ~At(r, "incr")'
        BY <1>0, <2>1, <3>1 DEF Goto, At, Running, TypeOK
      <3>4. /\ r \notin CountingFor(t) /\ r \notin CountingFor(t)'
            /\ t # req[r].tok => r \notin HoldersOf(t)
        BY <3>1, <3>3 DEF CountingFor, HoldersOf, At
      <3>5. QED
        BY <1>0, <2>1, <2>2, <3>1, <3>2, <3>4, KeepGuess
    <2>8. CASE ClearCounter(r)
      <3>1. /\ At(r, "clear") /\ UNCHANGED <<ttl, wrong, aborts>>
            /\ attempts' = [attempts EXCEPT ![req[r].tok] = 0] /\ End(r)
        BY <2>8 DEF ClearCounter
      <3>2. ttl'[t] > 0 => attempts'[t] >= attempts[t]
        BY <1>0, <2>2, <3>1 DEF TypeOK, CounterInv
      <3>3. /\ r \notin CountingFor(t) /\ r \notin CountingFor(t)'
            /\ r \notin HoldersOf(t)
        BY <1>0, <3>1 DEF CountingFor, HoldersOf, End, Idle, At, TypeOK
      <3>4. QED
        BY <1>0, <2>1, <3>1, <3>2, <3>3, KeepGuess
    <2>9. CASE Abort(r)
      <3>1. UNCHANGED <<ttl, attempts, wrong>> /\ aborts' = aborts + 1
        BY <2>9 DEF Abort
      <3>2. QED
        BY <1>0, <2>1, <3>1, LostGuess
    <2>10. QED
      BY <1>8, <2>3, <2>4, <2>5, <2>6, <2>7, <2>8, <2>9 DEF Proceed
  <1>9. CASE Tick
    <2>1. /\ UNCHANGED <<req, wrong, aborts>>
          /\ ttl'[t] > 0 => ttl[t] > 1
          /\ attempts'[t] = IF attemptsTtl[t] = 1 THEN 0 ELSE attempts[t]
      BY <1>0, <1>9 DEF Tick
    <2>2. ttl'[t] > 0 => attempts'[t] = attempts[t]
      BY <1>0, <2>1 DEF CounterInv
    <2>3. CountingFor(t)' = CountingFor(t) /\ HoldersOf(t)' = HoldersOf(t)
      BY <2>1 DEF CountingFor, HoldersOf, At
    <2>4. QED
      BY <1>0, <2>1, <2>2, <2>3 DEF GuessInv
  <1>10. CASE UNCHANGED vars
    BY <1>1, <1>10 DEF vars
  <1>11. QED
    BY <1>2, <1>6, <1>7, <1>8, <1>9, <1>10 DEF Next

\* However many verify requests guess at a session at once, and however many of
\* them are lost, it answers no more wrong guesses than the limit allows, and
\* one for each of them.
THEOREM GuessesBoundedHolds == Spec => []GuessesBounded
  <1>1. GuessInv => GuessesBounded
    BY DEF GuessInv, GuessesBounded
  <1>2. IInv /\ CounterInv /\ GuessInv /\ [Next]_vars => GuessInv'
    BY GuessStep DEF GuessInv
  <1>3. IInv /\ CounterInv /\ [Next]_vars => CounterInv'
    BY CounterStep
  <1>4. QED
    BY <1>1, <1>2, <1>3, InitGuess, InitCounter, InitIInv, Inductive, PTL DEF Spec
=============================================================================
