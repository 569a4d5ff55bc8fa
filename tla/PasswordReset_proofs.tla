------------------------ MODULE PasswordReset_proofs ------------------------
(***************************************************************************)
(* Theorems of PasswordReset for any number of concurrent requests, any    *)
(* attempt limit, any TTL and any number of codes; of RefreshToken, which  *)
(* has the reset's writes to the users row; and of RateLimit, which is in  *)
(* front of it.  The three share nothing but the notion of a request.      *)
(***************************************************************************)
EXTENDS PasswordReset, RefreshToken, RateLimit, FiniteSetTheorems, TLAPS

\* Requests that carry a code that was drawn, and not merely submitted.
Carries(r) == req[r].pc \in {"store", "accept", "update", "revoke", "delete", "forget"}

\* What keeps an answered code away.  A code about to be stored is known to
\* nobody: it is not stored, not answered, and carried by no other request.
\* A code about to be answered has been deleted.
CodeInv ==
    /\ code <= minted
    /\ \A c \in answered : c <= minted
    /\ \A r \in Request : Carries(r) => req[r].of <= minted
    /\ \A r \in Request : At(r, "store") =>
        /\ req[r].of # code /\ req[r].of \notin answered
        /\ \A q \in Request \ {r} : Carries(q) => req[q].of # req[r].of
    /\ \A r \in Request : At(r, "forget") => req[r].of # code
    /\ AnsweredCodeGone

\* The steps of an accepted reset that keep what it carries.
Resets(r) == FindUser(r) \/ AcceptCode(r) \/ RevokeSession(r) \/ DeleteCode(r)

IInv == TypeOK /\ CodeInv /\ CounterExpires

USE MaxAttemptsAssumption, CodeTtlAssumption, BoundsAssumption

-----------------------------------------------------------------------------
LEMMA InitInv == Init => IInv
  <1> SUFFICES ASSUME Init PROVE IInv
    OBVIOUS
  <1>1. \A r \in Request : req[r].pc = "idle"
    BY DEF Init, Idle
  <1>2. TypeOK
    <2>1. Idle \in RequestState
      BY DEF RequestState
    <2>2. req \in [Request -> RequestState] /\ wrong \in [Code -> Nat] /\ resets \in [Code -> Nat]
      BY <2>1 DEF Init
    <2>3. code \in Code \cup {NoCode} /\ ttl \in 0..CodeTtl /\ failuresTtl \in 0..CodeTtl
          /\ minted \in 0..MaxCodes /\ aborts \in 0..MaxAborts
      BY DEF Init
    <2>4. QED
      BY <2>2, <2>3 DEF Init, TypeOK
  <1>3. CodeInv /\ CounterExpires
    BY <1>1 DEF Init, CodeInv, CounterExpires, AnsweredCodeGone, Carries, At, NoCode
  <1>4. QED
    BY <1>2, <1>3 DEF IInv

\* What a request carries in each state.
LEMMA CarriedCode ==
    ASSUME TypeOK, NEW r \in Request
    PROVE  /\ Carries(r) => req[r].of \in Code
           /\ At(r, "get") => req[r].of \in Code \cup {NoCode}
  <1>1. req[r] \in RequestState
    BY DEF TypeOK
  <1>2. QED
    BY <1>1 DEF Carries, At, RequestState, Idle

-----------------------------------------------------------------------------
LEMMA TypeStep == TypeOK /\ [Next]_vars => TypeOK'
  <1> SUFFICES ASSUME TypeOK, [Next]_vars PROVE TypeOK'
    OBVIOUS
  <1> USE DEF redis, history
  <1> DEFINE ReqOK == req' \in [Request -> RequestState]
  <1>0. ASSUME NEW r \in Request, NEW s \in RequestState, Goto(r, s) PROVE ReqOK
    BY <1>0 DEF Goto, TypeOK
  <1>i. Idle \in RequestState
    BY DEF RequestState
  <1>e. ASSUME NEW r \in Request, End(r) PROVE ReqOK
    BY <1>0, <1>i, <1>e DEF End
  <1>c. ASSUME NEW r \in Request, NEW n, AfterCount(r, n) PROVE ReqOK
    <2>1. [pc |-> "burn"] \in RequestState
      BY DEF RequestState
    <2>2. QED
      BY <1>0, <1>e, <1>c, <2>1 DEF AfterCount
  <1>1. ASSUME NEW r \in Request, ForgotPassword(r) PROVE TypeOK'
    <2>1. minted + 1 \in Code /\ minted' \in 0..MaxCodes
      BY <1>1 DEF ForgotPassword, TypeOK, Code
    <2>2. [pc |-> "store", of |-> minted + 1] \in RequestState
      BY <2>1 DEF RequestState
    <2>3. ReqOK
      BY <1>0, <1>1, <2>2 DEF ForgotPassword
    <2>4. QED
      BY <1>1, <2>1, <2>3 DEF ForgotPassword, TypeOK
  <1>2. ASSUME NEW r \in Request, StoreCode(r) PROVE TypeOK'
    <2>1. req[r].of \in Code
      BY <1>2, CarriedCode DEF StoreCode, Carries, At
    <2>2. QED
      BY <1>2, <1>e, <2>1 DEF StoreCode, TypeOK
  <1>3. ASSUME NEW r \in Request, NEW g \in Code \cup {NoCode}, ResetPassword(r, g) PROVE TypeOK'
    <2>1. [pc |-> "get", of |-> g] \in RequestState
      BY DEF RequestState
    <2>2. QED
      BY <1>0, <1>3, <2>1 DEF ResetPassword, TypeOK
  <1>4. ASSUME NEW r \in Request, CompareCode(r) PROVE TypeOK'
    <2>1. ReqOK
      <3>1. [pc |-> "incr"] \in RequestState
            /\ (code # NoCode => [pc |-> "accept", of |-> code] \in RequestState)
        BY DEF RequestState, TypeOK
      <3>2. QED
        BY <1>0, <1>4, <3>1 DEF CompareCode
    <2>2. wrong' \in [Code -> Nat]
      BY <1>4 DEF CompareCode, TypeOK
    <2>3. QED
      BY <1>4, <2>1, <2>2 DEF CompareCode, TypeOK
  <1>5. ASSUME NEW r \in Request, Resets(r) PROVE TypeOK'
    <2>1. req[r].of \in Code /\ req[r] = [pc |-> req[r].pc, of |-> req[r].of]
      BY <1>5 DEF Resets, FindUser, AcceptCode, RevokeSession, DeleteCode, At, TypeOK, RequestState, Idle
    <2>2. \A s \in {"update", "revoke", "delete", "forget"} : [req[r] EXCEPT !.pc = s] \in RequestState
      BY <2>1 DEF RequestState
    <2>3. ReqOK
      BY <1>0, <1>5, <2>2 DEF Resets, FindUser, AcceptCode, RevokeSession, DeleteCode
    <2>4. resets' \in [Code -> Nat]
      BY <1>5, <2>1 DEF Resets, FindUser, AcceptCode, RevokeSession, DeleteCode, TypeOK
    <2>5. QED
      BY <1>5, <2>3, <2>4 DEF Resets, FindUser, AcceptCode, RevokeSession, DeleteCode, TypeOK
  <1>6. ASSUME NEW r \in Request, ForgetFailures(r) PROVE TypeOK'
    <2>1. req[r].of \in Code
      BY <1>6, CarriedCode DEF ForgetFailures, Carries, At
    <2>2. QED
      BY <1>6, <1>e, <2>1 DEF ForgetFailures, TypeOK
  <1>7. ASSUME NEW r \in Request, CountFailure(r) PROVE TypeOK'
    <2>1. [pc |-> "expire"] \in RequestState
      BY DEF RequestState
    <2>2. ReqOK
      BY <1>0, <1>7, <1>c, <2>1 DEF CountFailure
    <2>3. QED
      BY <1>7, <2>2 DEF CountFailure, TypeOK
  <1>8. ASSUME NEW r \in Request, BoundFailures(r) PROVE TypeOK'
    BY <1>8, <1>c DEF BoundFailures, TypeOK
  <1>9. ASSUME NEW r \in Request, BurnCode(r) PROVE TypeOK'
    <2>1. [pc |-> "clear"] \in RequestState
      BY DEF RequestState
    <2>2. QED
      BY <1>0, <1>9, <2>1 DEF BurnCode, TypeOK
  <1>10. ASSUME NEW r \in Request, ClearFailures(r) PROVE TypeOK'
    BY <1>10, <1>e DEF ClearFailures, TypeOK
  <1>11. CASE Tick
    BY <1>11 DEF Tick, TypeOK
  <1>12. ASSUME NEW r \in Request, Abort(r) PROVE TypeOK'
    BY <1>12, <1>e DEF Abort, TypeOK
  <1>13. CASE UNCHANGED vars
    BY <1>13 DEF vars, TypeOK
  <1>14. QED
    BY <1>1, <1>2, <1>3, <1>4, <1>5, <1>6, <1>7, <1>8, <1>9, <1>10, <1>11, <1>12, <1>13
    DEF Next, Proceed, Resets
-----------------------------------------------------------------------------
\* A step of a request that ends up carrying no code, and may delete the one
\* that is stored, disturbs nothing.
LEMMA DroppingStep ==
    ASSUME TypeOK, CodeInv, NEW r \in Request,
           \A q \in Request \ {r} : req'[q] = req[q],
           req'[r].pc \notin {"store", "accept", "update", "revoke", "delete", "forget"},
           code' \in {code, NoCode}, minted' = minted, answered' = answered
    PROVE  CodeInv'
  <1>1. \A q \in Request : Carries(q)' => q # r /\ Carries(q) /\ req'[q] = req[q]
    BY DEF Carries
  <1>2. \A q \in Request : Carries(q) => req[q].of # NoCode
    BY CarriedCode DEF Code, NoCode
  <1>3. code \in Nat /\ minted \in Nat /\ NoCode <= minted /\ NoCode \notin answered
    BY DEF TypeOK, Code, NoCode
  <1>4. (\A q \in Request : At(q, "store") =>
          /\ req[q].of # code /\ req[q].of \notin answered
          /\ \A p \in Request \ {q} : Carries(p) => req[p].of # req[q].of)'
    <2> SUFFICES ASSUME NEW q \in Request, At(q, "store")'
                 PROVE  /\ req'[q].of # code' /\ req'[q].of \notin answered'
                        /\ \A p \in Request \ {q} : Carries(p)' => req'[p].of # req'[q].of
      BY Zenon
    <2>1. Carries(q)' /\ Carries(q) /\ At(q, "store") /\ req'[q] = req[q]
      BY <1>1 DEF Carries, At
    <2>2. req[q].of # code /\ req[q].of \notin answered
      BY <2>1 DEF CodeInv
    <2>3. \A p \in Request \ {q} : Carries(p)' => req'[p].of # req'[q].of
      BY <1>1, <2>1 DEF CodeInv
    <2>4. QED
      BY <1>2, <2>1, <2>2, <2>3
  <1>5. \A q \in Request : Carries(q)' => req'[q].of <= minted'
    BY <1>1 DEF CodeInv
  <1>6. \A q \in Request : At(q, "forget")' => req'[q].of # code'
    BY <1>1, <1>2 DEF CodeInv, At, Carries
  <1>7. code' <= minted' /\ (\A c \in answered' : c <= minted') /\ code' \notin answered'
    BY <1>3 DEF CodeInv, AnsweredCodeGone
  <1>8. QED
    BY <1>4, <1>5, <1>6, <1>7 DEF CodeInv, AnsweredCodeGone

LEMMA CodeStep == TypeOK /\ CodeInv /\ [Next]_vars => CodeInv'
  <1> SUFFICES ASSUME TypeOK, CodeInv, [Next]_vars PROVE CodeInv'
    OBVIOUS
  <1> USE DEF redis, history
  <1>0. ASSUME NEW r \in Request, NEW s, Goto(r, s)
        PROVE  req'[r] = s /\ \A q \in Request \ {r} : req'[q] = req[q]
    BY <1>0 DEF Goto, TypeOK
  <1>e. ASSUME NEW r \in Request, NEW n, End(r) \/ AfterCount(r, n)
        PROVE  /\ req'[r].pc \notin {"store", "accept", "update", "revoke", "delete", "forget"}
               /\ \A q \in Request \ {r} : req'[q] = req[q]
    <2>1. CASE Goto(r, Idle)
      BY <1>0, <2>1 DEF Idle
    <2>2. CASE Goto(r, [pc |-> "burn"])
      BY <1>0, <2>2
    <2>3. QED
      BY <1>e, <2>1, <2>2 DEF End, AfterCount
  <1>t. /\ code \in Nat /\ minted \in Nat
        /\ \A q \in Request : Carries(q) => req[q].of \in Nat /\ req[q].of # NoCode
    BY CarriedCode DEF TypeOK, Code, NoCode
  <1>1. ASSUME NEW r \in Request, ForgotPassword(r) PROVE CodeInv'
    <2>1. /\ req'[r] = [pc |-> "store", of |-> minted + 1]
          /\ \A q \in Request \ {r} : req'[q] = req[q]
          /\ minted' = minted + 1 /\ code' = code /\ answered' = answered
      BY <1>0, <1>1 DEF ForgotPassword
    <2>2. \A q \in Request \ {r} : Carries(q)' => Carries(q) /\ req[q].of <= minted
      BY <2>1 DEF Carries, CodeInv
    <2>3. \A q \in Request : Carries(q)' => req'[q].of <= minted'
      BY <1>t, <2>1, <2>2
    <2>4. \A q \in Request : At(q, "store")' =>
            /\ req'[q].of # code' /\ req'[q].of \notin answered'
            /\ \A p \in Request \ {q} : Carries(p)' => req'[p].of # req'[q].of
      <3> SUFFICES ASSUME NEW q \in Request, At(q, "store")'
                   PROVE  /\ req'[q].of # code' /\ req'[q].of \notin answered'
                          /\ \A p \in Request \ {q} : Carries(p)' => req'[p].of # req'[q].of
        OBVIOUS
      <3>1. CASE q = r
        BY <1>t, <2>1, <2>2, <3>1 DEF CodeInv
      <3>2. CASE q # r
        <4>1. At(q, "store") /\ Carries(q) /\ req[q].of <= minted
          BY <2>1, <2>2, <3>2 DEF At, Carries
        <4>2. \A p \in Request \ {q, r} : Carries(p)' => req'[p].of # req'[q].of
          BY <2>1, <2>2, <3>2, <4>1 DEF CodeInv
        <4>3. req'[r].of # req'[q].of
          BY <1>t, <2>1, <3>2, <4>1
        <4>4. QED
          BY <2>1, <3>2, <4>1, <4>2, <4>3 DEF CodeInv
      <3>3. QED
        BY <3>1, <3>2
    <2>5. \A q \in Request : At(q, "forget")' => req'[q].of # code'
      BY <2>1 DEF CodeInv, At
    <2>6. code' <= minted' /\ (\A c \in answered' : c <= minted') /\ code' \notin answered'
      BY <1>t, <2>1 DEF CodeInv, TypeOK, AnsweredCodeGone, Code
    <2>7. QED
      BY <2>3, <2>4, <2>5, <2>6 DEF CodeInv, AnsweredCodeGone
  <1>2. ASSUME NEW r \in Request, StoreCode(r) PROVE CodeInv'
    <2>1. /\ req'[r] = Idle /\ \A q \in Request \ {r} : req'[q] = req[q]
          /\ minted' = minted /\ code' = req[r].of /\ answered' = answered
      BY <1>0, <1>2 DEF StoreCode, End
    <2>2. /\ req[r].of <= minted /\ req[r].of \notin answered
          /\ \A q \in Request \ {r} : Carries(q) => req[q].of # code'
      BY <1>2, <2>1 DEF StoreCode, CodeInv, At, Carries
    <2>3. \A q \in Request : Carries(q)' => q # r /\ Carries(q) /\ req'[q] = req[q]
      BY <2>1 DEF Carries, Idle
    <2>4. \A q \in Request : At(q, "store")' =>
            /\ req'[q].of # code' /\ req'[q].of \notin answered'
            /\ \A p \in Request \ {q} : Carries(p)' => req'[p].of # req'[q].of
      BY <2>1, <2>2, <2>3 DEF CodeInv, At, Carries
    <2>5. \A q \in Request : At(q, "forget")' => req'[q].of # code'
      BY <2>2, <2>3 DEF At, Carries
    <2>6. QED
      BY <2>1, <2>2, <2>3, <2>4, <2>5 DEF CodeInv, AnsweredCodeGone
  <1>3. ASSUME NEW r \in Request, NEW g, ResetPassword(r, g) PROVE CodeInv'
    BY <1>0, <1>3, DroppingStep DEF ResetPassword
  <1>4. ASSUME NEW r \in Request, CompareCode(r) PROVE CodeInv'
    <2>1. CASE Goto(r, [pc |-> "incr"])
      BY <1>0, <1>4, <2>1, DroppingStep DEF CompareCode
    <2>2. CASE code # NoCode /\ Goto(r, [pc |-> "accept", of |-> code])
      <3>1. /\ req'[r] = [pc |-> "accept", of |-> code]
            /\ \A q \in Request \ {r} : req'[q] = req[q]
            /\ minted' = minted /\ code' = code /\ answered' = answered
        BY <1>0, <1>4, <2>2 DEF CompareCode
      <3>2. \A q \in Request : Carries(q)' => q = r \/ (Carries(q) /\ req'[q] = req[q])
        BY <3>1 DEF Carries
      <3>3. \A q \in Request : At(q, "store")' => q # r /\ At(q, "store") /\ req'[q] = req[q]
        BY <3>1 DEF At
      <3>4. \A q \in Request : At(q, "forget")' => q # r /\ At(q, "forget") /\ req'[q] = req[q]
        BY <3>1 DEF At
      <3>5. \A q \in Request : Carries(q)' => req'[q].of <= minted'
        BY <3>1, <3>2 DEF CodeInv
      <3>6. \A q \in Request : At(q, "store")' =>
              /\ req'[q].of # code' /\ req'[q].of \notin answered'
              /\ \A p \in Request \ {q} : Carries(p)' => req'[p].of # req'[q].of
        BY <3>1, <3>2, <3>3 DEF CodeInv
      <3>7. QED
        BY <3>1, <3>4, <3>5, <3>6 DEF CodeInv, AnsweredCodeGone
    <2>3. QED
      BY <1>4, <2>1, <2>2 DEF CompareCode
  <1>5. ASSUME NEW r \in Request, Resets(r) PROVE CodeInv'
    <2>1. /\ Carries(r) /\ ~At(r, "store")
          /\ req[r] = [pc |-> req[r].pc, of |-> req[r].of]
      BY <1>5 DEF Resets, FindUser, AcceptCode, RevokeSession, DeleteCode, At, Carries, TypeOK, RequestState, Idle
    <2>2. /\ req'[r].of = req[r].of /\ ~At(r, "store")'
          /\ \A q \in Request \ {r} : req'[q] = req[q]
          /\ minted' = minted /\ answered' = answered
      <3>1. CASE AcceptCode(r)
        BY <1>0, <2>1, <3>1 DEF AcceptCode, At
      <3>2. CASE DeleteCode(r)
        BY <1>0, <2>1, <3>2 DEF DeleteCode, At
      <3>3. CASE FindUser(r) \/ RevokeSession(r)
        BY <1>0, <2>1, <3>3 DEF FindUser, RevokeSession, At, history
      <3>4. QED
        BY <1>5, <3>1, <3>2, <3>3 DEF Resets
    <2>3. code' = NoCode \/ (code' = code /\ ~At(r, "forget")')
      BY <1>0, <1>5, <2>1 DEF Resets, FindUser, AcceptCode, RevokeSession, DeleteCode, At
    <2>4. \A q \in Request : Carries(q)' => Carries(q) /\ req'[q].of = req[q].of
      BY <2>1, <2>2 DEF Carries
    <2>5. \A q \in Request : At(q, "store")' => q # r /\ At(q, "store") /\ Carries(q) /\ req'[q] = req[q]
      BY <2>2 DEF At, Carries
    <2>6. \A q \in Request : At(q, "store")' =>
            /\ req'[q].of # code' /\ req'[q].of \notin answered'
            /\ \A p \in Request \ {q} : Carries(p)' => req'[p].of # req'[q].of
      BY <1>t, <2>2, <2>3, <2>4, <2>5 DEF CodeInv
    <2>7. \A q \in Request : At(q, "forget")' => req'[q].of # code'
      <3>1. CASE code' = NoCode
        BY <1>t, <2>4, <3>1 DEF At, Carries
      <3>2. CASE code' = code /\ ~At(r, "forget")'
        BY <2>2, <3>2 DEF CodeInv, At
      <3>3. QED
        BY <2>3, <3>1, <3>2
    <2>8. code' <= minted' /\ code' \notin answered'
      BY <1>t, <2>2, <2>3 DEF CodeInv, AnsweredCodeGone, TypeOK, NoCode, Code
    <2>9. QED
      BY <2>2, <2>4, <2>6, <2>7, <2>8 DEF CodeInv, AnsweredCodeGone
  <1>6. ASSUME NEW r \in Request, ForgetFailures(r) PROVE CodeInv'
    <2>1. /\ req'[r] = Idle /\ \A q \in Request \ {r} : req'[q] = req[q]
          /\ minted' = minted /\ code' = code /\ answered' = answered \cup {req[r].of}
      BY <1>0, <1>6 DEF ForgetFailures, End
    <2>2. Carries(r) /\ req[r].of # code /\ req[r].of <= minted
      BY <1>6 DEF ForgetFailures, Carries, At, CodeInv
    <2>3. \A q \in Request : Carries(q)' => q # r /\ Carries(q) /\ req'[q] = req[q]
      BY <2>1 DEF Carries, Idle
    <2>4. \A q \in Request : At(q, "store")' =>
            /\ req'[q].of # code' /\ req'[q].of \notin answered'
            /\ \A p \in Request \ {q} : Carries(p)' => req'[p].of # req'[q].of
      <3> SUFFICES ASSUME NEW q \in Request, At(q, "store")'
                   PROVE  /\ req'[q].of # code' /\ req'[q].of \notin answered'
                          /\ \A p \in Request \ {q} : Carries(p)' => req'[p].of # req'[q].of
        OBVIOUS
      <3>1. q # r /\ At(q, "store") /\ req'[q] = req[q]
        BY <2>3 DEF At, Carries
      <3>2. \A p \in Request \ {q} : Carries(p) => req[p].of # req[q].of
        BY <3>1 DEF CodeInv
      <3>3. req[q].of # code /\ req[q].of \notin answered
        BY <3>1 DEF CodeInv
      <3>4. req[q].of # req[r].of
        BY <2>2, <3>1, <3>2
      <3>5. QED
        BY <2>1, <2>3, <3>1, <3>2, <3>3, <3>4
    <2>5. \A q \in Request : At(q, "forget")' => req'[q].of # code'
      BY <2>1, <2>3 DEF CodeInv, At, Carries
    <2>6. QED
      BY <2>1, <2>2, <2>3, <2>4, <2>5 DEF CodeInv, AnsweredCodeGone
  <1>7. ASSUME NEW r \in Request, CountFailure(r) PROVE CodeInv'
    BY <1>0, <1>e, <1>7, DroppingStep DEF CountFailure
  <1>8. ASSUME NEW r \in Request, BoundFailures(r) PROVE CodeInv'
    BY <1>e, <1>8, DroppingStep DEF BoundFailures
  <1>9. ASSUME NEW r \in Request, BurnCode(r) PROVE CodeInv'
    BY <1>0, <1>9, DroppingStep DEF BurnCode
  <1>10. ASSUME NEW r \in Request, ClearFailures(r) \/ Abort(r) PROVE CodeInv'
    BY <1>e, <1>10, DroppingStep DEF ClearFailures, Abort
  <1>11. CASE Tick
    <2>1. code' \in {code, NoCode} /\ minted' = minted /\ req' = req /\ answered' = answered
      BY <1>11 DEF Tick
    <2>2. code' <= minted' /\ code' \notin answered'
      BY <1>t, <2>1 DEF CodeInv, AnsweredCodeGone, TypeOK, NoCode, Code
    <2>3. QED
      BY <1>t, <2>1, <2>2 DEF CodeInv, AnsweredCodeGone, At, Carries
  <1>12. CASE UNCHANGED vars
    BY <1>12 DEF vars, CodeInv, AnsweredCodeGone, At, Carries
  <1>13. QED
    BY <1>1, <1>2, <1>3, <1>4, <1>5, <1>6, <1>7, <1>8, <1>9, <1>10, <1>11, <1>12
    DEF Next, Proceed, Resets
-----------------------------------------------------------------------------
\* Only BoundFailures and Abort take a request away from its EXPIRE, and only
\* CountFailure makes a counter.
LEMMA CounterStep == TypeOK /\ CounterExpires /\ [Next]_vars => CounterExpires'
  <1> SUFFICES ASSUME TypeOK, CounterExpires, [Next]_vars PROVE CounterExpires'
    OBVIOUS
  <1> USE DEF redis, history
  <1>1. ASSUME NEW r \in Request, NEW s, Goto(r, s), ~At(r, "expire"), aborts' = aborts,
               failures' = failures, failuresTtl' = failuresTtl
        PROVE  CounterExpires'
    <2>1. \A q \in Request : At(q, "expire") => At(q, "expire")'
      BY <1>1 DEF Goto, At, TypeOK
    <2>2. QED
      BY <1>1, <2>1 DEF CounterExpires
  <1>2. ASSUME NEW r \in Request, NEW g,
               ForgotPassword(r) \/ ResetPassword(r, g) \/ CompareCode(r) \/ FindUser(r)
               \/ AcceptCode(r) \/ RevokeSession(r)
        PROVE  CounterExpires'
    BY <1>1, <1>2 DEF ForgotPassword, ResetPassword, CompareCode, FindUser, AcceptCode,
                  RevokeSession, At
  <1>3. ASSUME NEW r \in Request, StoreCode(r) \/ DeleteCode(r) \/ BurnCode(r)
        PROVE  CounterExpires'
    BY <1>1, <1>3 DEF StoreCode, End, DeleteCode, BurnCode, At
  <1>4. ASSUME NEW r \in Request, ForgetFailures(r) \/ ClearFailures(r) PROVE CounterExpires'
    BY <1>4 DEF ForgetFailures, ClearFailures, CounterExpires
  <1>5. ASSUME NEW r \in Request, CountFailure(r) PROVE CounterExpires'
    <2>1. CASE failures = 0
      <3>1. At(r, "expire")'
        BY <1>5, <2>1 DEF CountFailure, Goto, At, TypeOK
      <3>2. QED
        BY <3>1 DEF CounterExpires
    <2>2. CASE failures # 0
      <3>1. /\ \A q \in Request : At(q, "expire") => At(q, "expire")'
            /\ failuresTtl' = failuresTtl /\ aborts' = aborts
        BY <1>5, <2>2 DEF CountFailure, AfterCount, End, Goto, At, TypeOK
      <3>2. QED
        BY <2>2, <3>1 DEF CounterExpires, TypeOK
    <2>3. QED
      BY <2>1, <2>2
  <1>6. ASSUME NEW r \in Request, BoundFailures(r) PROVE CounterExpires'
    BY <1>6 DEF BoundFailures, CounterExpires
  <1>7. ASSUME NEW r \in Request, Abort(r) PROVE CounterExpires'
    BY <1>7 DEF Abort, CounterExpires, TypeOK
  <1>8. CASE Tick
    <2>1. \A q \in Request : At(q, "expire") => At(q, "expire")'
      BY <1>8 DEF Tick, At
    <2>2. QED
      BY <1>8, <2>1 DEF Tick, CounterExpires, TypeOK
  <1>9. CASE UNCHANGED vars
    BY <1>9 DEF vars, CounterExpires, At
  <1>10. QED
    BY <1>2, <1>3, <1>4, <1>5, <1>6, <1>7, <1>8, <1>9 DEF Next, Proceed

LEMMA Invariance == Spec => []IInv
  <1>1. IInv /\ [Next]_vars => IInv'
    BY TypeStep, CodeStep, CounterStep DEF IInv
  <1>2. QED
    BY <1>1, InitInv, PTL DEF Spec

\* The variables keep their types.
THEOREM TypeCorrect == Spec => []TypeOK
  BY Invariance, PTL DEF IInv

\* A code whose reset was answered is never stored again, for any number of
\* requests racing each other.
THEOREM AnsweredCodeStaysGone == Spec => []AnsweredCodeGone
  BY Invariance, PTL DEF IInv, CodeInv

\* A failure counter that will never expire exists only where a request was
\* lost.
THEOREM CounterExpiresHolds == Spec => []CounterExpires
  BY Invariance, PTL DEF IInv

-----------------------------------------------------------------------------
(* The era of a fresh code: from its being stored with no counter and nothing *)
(* in flight, to its deletion.                                                *)

Live == fresh /\ code # NoCode

\* Requests that have failed and not counted it, and those that may still burn.
Counting == {r \in Request : At(r, "incr")}
Burners ==
    {r \in Request : \/ At(r, "incr") \/ At(r, "burn")
                     \/ At(r, "expire") /\ MaxAttempts = 1}

\* Where requests can be while a fresh code lives: nobody is about to delete
\* the counter, whoever was accepted was accepted with it, whoever burns it
\* counted wrong guesses at it.
InEra(r) ==
    /\ ~At(r, "clear") /\ ~At(r, "forget")
    /\ req[r].pc \in {"accept", "update", "revoke", "delete"} => req[r].of = code
    /\ At(r, "revoke") \/ At(r, "delete") => resets[code] > 0
    /\ At(r, "burn") => wrong[code] >= MaxAttempts
    /\ At(r, "expire") => wrong[code] >= 1

\* Every failure of the era is a wrong guess at its code, and at the limit
\* somebody is on the way to burn it, unless it was lost.
Counted ==
    /\ failures + Cardinality(Counting) <= wrong[code]
    /\ wrong[code] <= failures + Cardinality(Counting) + aborts
    /\ wrong[code] <= MaxAttempts - 1 + Cardinality(Burners) + aborts

\* A key with no value has no TTL; a code not stored yet was never guessed at.
KeyInv ==
    /\ code # NoCode => ttl > 0
    /\ failures = 0 => failuresTtl = 0
    /\ \A c \in Code : c > minted => wrong[c] = 0
    /\ \A r \in Request : At(r, "store") => wrong[req[r].of] = 0

EraInv ==
    Live => /\ \A r \in Request : InEra(r)
            /\ failuresTtl > 0 => ttl <= failuresTtl
            /\ Counted

\* The size of a set that gains or loses at most one element.
LEMMA CardMove ==
    ASSUME NEW S, NEW T, NEW r, IsFiniteSet(S), IsFiniteSet(T),
           \A q : q # r => (q \in S <=> q \in T)
    PROVE  /\ Cardinality(S) \in Nat /\ Cardinality(T) \in Nat
           /\ r \in S /\ r \in T => Cardinality(T) = Cardinality(S)
           /\ r \notin S /\ r \notin T => Cardinality(T) = Cardinality(S)
           /\ r \notin S /\ r \in T => Cardinality(T) = Cardinality(S) + 1
           /\ r \in S /\ r \notin T => Cardinality(S) = Cardinality(T) + 1
  <1>1. Cardinality(S) \in Nat /\ Cardinality(T) \in Nat
    BY FS_CardinalityType
  <1>2. (r \in S <=> r \in T) => S = T
    OBVIOUS
  <1>3. r \notin S /\ r \in T => T = S \cup {r}
    OBVIOUS
  <1>4. r \in S /\ r \notin T => S = T \cup {r}
    OBVIOUS
  <1>5. QED
    BY <1>1, <1>2, <1>3, <1>4, FS_AddElement

LEMMA EraSets ==
    /\ IsFiniteSet(Counting) /\ IsFiniteSet(Burners)
    /\ Cardinality(Counting) \in Nat /\ Cardinality(Burners) \in Nat
    /\ Cardinality(Counting) <= Cardinality(Burners)
    /\ Cardinality(Burners) <= Cardinality(Request)
    /\ Cardinality(Request) \in Nat
  <1>1. Counting \subseteq Burners /\ Burners \subseteq Request
    BY DEF Counting, Burners
  <1>2. QED
    BY <1>1, RequestAssumption, FS_Subset, FS_CardinalityType

\* The same of the state after a step.
LEMMA EraSetsNext ==
    /\ IsFiniteSet(Counting') /\ IsFiniteSet(Burners')
    /\ Cardinality(Counting') \in Nat /\ Cardinality(Burners') \in Nat
    /\ Cardinality(Counting') <= Cardinality(Burners')
  <1>1. Counting' \subseteq Burners' /\ Burners' \subseteq Request
    BY DEF Counting, Burners
  <1>2. QED
    BY <1>1, RequestAssumption, FS_Subset, FS_CardinalityType

\* What a step of request r does to the two sets.
LEMMA EraMove ==
    ASSUME NEW r \in Request, \A q \in Request \ {r} : req'[q] = req[q]
    PROVE  /\ \A q : q # r => (q \in Counting <=> q \in Counting')
           /\ \A q : q # r => (q \in Burners <=> q \in Burners')
  BY DEF Counting, Burners, At

LEMMA EraNumbers ==
    ASSUME TypeOK
    PROVE  /\ failures \in Nat /\ failuresTtl \in Nat /\ ttl \in Nat /\ aborts \in Nat
           /\ minted \in Nat /\ code \in Nat
           /\ code # NoCode => code \in Code /\ wrong[code] \in Nat /\ resets[code] \in Nat
  BY DEF TypeOK, NoCode, Code

\* A step of request r that neither fails nor counts, and after which whoever
\* might burn the code still does.
LEMMA KeepCounted ==
    ASSUME TypeOK, Live, Counted, NEW r \in Request,
           \A q \in Request \ {r} : req'[q] = req[q],
           UNCHANGED <<code, failures, wrong, aborts>>,
           r \notin Counting, r \notin Counting',
           r \in Burners => r \in Burners'
    PROVE  Counted'
  <1>1. Cardinality(Counting') = Cardinality(Counting)
    BY EraMove, EraSets, EraSetsNext, CardMove
  <1>2. Cardinality(Burners') >= Cardinality(Burners)
    <2>1. CASE r \in Burners
      BY <2>1, EraMove, EraSets, EraSetsNext, CardMove
    <2>2. CASE r \notin Burners
      BY <2>2, EraMove, EraSets, EraSetsNext, CardMove
    <2>3. QED
      BY <2>1, <2>2
  <1>3. QED
    BY <1>1, <1>2, EraNumbers, EraSets, EraSetsNext DEF Counted, Live

\* A wrong guess is counted next.
LEMMA WrongCounted ==
    ASSUME TypeOK, Live, Counted, NEW r \in Request,
           \A q \in Request \ {r} : req'[q] = req[q],
           UNCHANGED <<code, failures, aborts>>, wrong'[code] = wrong[code] + 1,
           r \notin Burners, r \in Counting'
    PROVE  Counted'
  <1>1. r \notin Counting /\ r \in Burners'
    BY DEF Counting, Burners
  <1>2. /\ Cardinality(Counting') = Cardinality(Counting) + 1
        /\ Cardinality(Burners') = Cardinality(Burners) + 1
    BY <1>1, EraMove, EraSets, EraSetsNext, CardMove
  <1>3. QED
    BY <1>2, EraNumbers, EraSets, EraSetsNext DEF Counted, Live

\* A failure is counted: below the limit the counter covers it, at the limit
\* its request goes on to burn the code.
LEMMA FailureCounted ==
    ASSUME TypeOK, Live, Counted, NEW r \in Request,
           \A q \in Request \ {r} : req'[q] = req[q],
           UNCHANGED <<code, wrong, aborts>>, failures' = failures + 1,
           r \in Counting, r \notin Counting',
           failures' >= MaxAttempts => r \in Burners'
    PROVE  Counted' /\ failures' <= wrong[code]
  <1>1. r \in Burners
    BY DEF Counting, Burners
  <1>2. Cardinality(Counting) = Cardinality(Counting') + 1
    BY EraMove, EraSets, EraSetsNext, CardMove
  <1>3. CASE failures' >= MaxAttempts
    <2>1. Cardinality(Burners') = Cardinality(Burners)
      BY <1>1, <1>3, EraMove, EraSets, EraSetsNext, CardMove
    <2>2. QED
      BY <1>2, <2>1, EraNumbers, EraSets, EraSetsNext DEF Counted, Live
  <1>4. CASE ~(failures' >= MaxAttempts)
    <2>1. failures + 1 <= MaxAttempts - 1
      BY <1>4, EraNumbers
    <2>2. QED
      BY <1>2, <2>1, EraNumbers, EraSets, EraSetsNext DEF Counted, Live
  <1>5. QED
    BY <1>3, <1>4

\* A request that is lost takes at most its own failure out of the count.
LEMMA LostCounted ==
    ASSUME TypeOK, Live, Counted, NEW r \in Request,
           \A q \in Request \ {r} : req'[q] = req[q],
           UNCHANGED <<code, failures, wrong>>, aborts' = aborts + 1,
           r \notin Counting', r \notin Burners'
    PROVE  Counted'
  <1>1. /\ Cardinality(Counting') <= Cardinality(Counting)
        /\ Cardinality(Counting) <= Cardinality(Counting') + 1
    <2>1. CASE r \in Counting
      BY <2>1, EraMove, EraSets, EraSetsNext, CardMove
    <2>2. CASE r \notin Counting
      BY <2>2, EraMove, EraSets, EraSetsNext, CardMove
    <2>3. QED
      BY <2>1, <2>2
  <1>2. Cardinality(Burners) <= Cardinality(Burners') + 1
    <2>1. CASE r \in Burners
      BY <2>1, EraMove, EraSets, EraSetsNext, CardMove
    <2>2. CASE r \notin Burners
      BY <2>2, EraMove, EraSets, EraSetsNext, CardMove
    <2>3. QED
      BY <2>1, <2>2
  <1>3. QED
    BY <1>1, <1>2, EraNumbers, EraSets, EraSetsNext DEF Counted, Live

\* The state a request's step puts it in.
LEMMA Moved ==
    ASSUME TypeOK, NEW r \in Request
    PROVE  /\ \A s : Goto(r, s) => /\ req'[r] = s
                                   /\ \A q \in Request \ {r} : req'[q] = req[q]
           /\ End(r) => /\ req'[r].pc = "idle"
                        /\ \A q \in Request \ {r} : req'[q] = req[q]
           /\ \A n : AfterCount(r, n) =>
                 /\ req'[r].pc = IF n >= MaxAttempts THEN "burn" ELSE "idle"
                 /\ \A q \in Request \ {r} : req'[q] = req[q]
  <1>1. \A s : Goto(r, s) => req'[r] = s /\ \A q \in Request \ {r} : req'[q] = req[q]
    BY DEF Goto, TypeOK
  <1>2. QED
    BY <1>1 DEF End, AfterCount, Idle

LEMMA InitEra == Init => KeyInv /\ EraInv
  BY DEF Init, KeyInv, EraInv, Live, At, Idle

LEMMA KeyStep == TypeOK /\ CodeInv /\ KeyInv /\ [Next]_vars => KeyInv'
  <1> SUFFICES ASSUME TypeOK, CodeInv, KeyInv, [Next]_vars PROVE KeyInv'
    OBVIOUS
  <1> USE DEF redis, history
  <1>0. /\ ttl \in Nat /\ failures \in Nat /\ failuresTtl \in Nat /\ minted \in Nat
        /\ wrong \in [Code -> Nat]
        /\ \A q \in Request : At(q, "store") => req[q].of \in Code /\ req[q].of <= minted
    BY EraNumbers, CarriedCode DEF TypeOK, CodeInv, At, Carries
  <1>1. ASSUME NEW r \in Request, ForgotPassword(r) PROVE KeyInv'
    <2>1. /\ req'[r] = [pc |-> "store", of |-> minted + 1] /\ minted + 1 \in Code
          /\ \A q \in Request \ {r} : req'[q] = req[q]
          /\ minted' = minted + 1 /\ UNCHANGED <<redis, wrong>>
      BY <1>1, Moved DEF ForgotPassword, TypeOK, Code
    <2>2. wrong[minted + 1] = 0
      BY <1>0, <2>1 DEF KeyInv
    <2>3. \A q \in Request : At(q, "store")' => wrong'[req'[q].of] = 0
      BY <2>1, <2>2 DEF KeyInv, At
    <2>4. \A c \in Code : c > minted' => wrong'[c] = 0
      BY <1>0, <2>1 DEF KeyInv, Code
    <2>5. QED
      BY <2>1, <2>3, <2>4 DEF KeyInv
  \* The other steps of a request store no code that was not drawn before.
  <1>2. ASSUME NEW r \in Request, \A q \in Request \ {r} : req'[q] = req[q],
               ~At(r, "store")', UNCHANGED <<minted, wrong>>,
               code' # NoCode => ttl' > 0, failures' = 0 => failuresTtl' = 0
        PROVE  KeyInv'
    BY <1>2 DEF KeyInv, At
  <1>3. ASSUME NEW r \in Request, StoreCode(r) PROVE KeyInv'
    BY <1>2, <1>3, Moved DEF StoreCode, KeyInv, At
  <1>4. ASSUME NEW r \in Request, NEW g, ResetPassword(r, g) PROVE KeyInv'
    BY <1>2, <1>4, Moved DEF ResetPassword, KeyInv, At
  <1>5. ASSUME NEW r \in Request, CompareCode(r) PROVE KeyInv'
    <2>1. /\ \A q \in Request \ {r} : req'[q] = req[q]
          /\ ~At(r, "store")' /\ UNCHANGED <<redis, minted>>
      BY <1>5, Moved DEF CompareCode, At
    <2>2. CASE wrong' = wrong
      BY <1>2, <2>1, <2>2 DEF KeyInv
    <2>3. CASE wrong' # wrong
      <3>1. code # NoCode /\ wrong' = [wrong EXCEPT ![code] = wrong[code] + 1]
        BY <1>5, <2>3 DEF CompareCode
      <3>2. \A c \in Code : c # code => wrong'[c] = wrong[c]
        BY <1>0, <3>1
      <3>3. \A c \in Code : c > minted' => wrong'[c] = 0
        BY <1>0, <2>1, <3>2 DEF CodeInv, KeyInv, Code
      <3>4. \A q \in Request : At(q, "store")' => wrong'[req'[q].of] = 0
        <4>1. \A q \in Request : At(q, "store")' =>
                 At(q, "store") /\ req'[q] = req[q] /\ req[q].of # code
          BY <2>1 DEF At, CodeInv
        <4>2. QED
          BY <1>0, <3>2, <4>1 DEF KeyInv
      <3>5. QED
        BY <2>1, <3>3, <3>4 DEF KeyInv
    <2>4. QED
      BY <2>2, <2>3
  <1>6. ASSUME NEW r \in Request, Resets(r) PROVE KeyInv'
    <2>1. req[r] = [pc |-> req[r].pc, of |-> req[r].of]
      BY <1>6 DEF Resets, FindUser, AcceptCode, RevokeSession, DeleteCode, At, TypeOK, RequestState, Idle
    <2>2. /\ \A q \in Request \ {r} : req'[q] = req[q]
          /\ ~At(r, "store")'
      BY <1>6, <2>1, Moved DEF Resets, FindUser, AcceptCode, RevokeSession, DeleteCode, At
    <2>3. QED
      BY <1>2, <1>6, <2>2 DEF Resets, FindUser, AcceptCode, RevokeSession, DeleteCode, KeyInv
  <1>7. ASSUME NEW r \in Request, ForgetFailures(r) \/ ClearFailures(r) \/ Abort(r) PROVE KeyInv'
    BY <1>2, <1>7, Moved DEF ForgetFailures, ClearFailures, Abort, KeyInv, At
  <1>8. ASSUME NEW r \in Request, CountFailure(r) PROVE KeyInv'
    <2>1. /\ \A q \in Request \ {r} : req'[q] = req[q]
          /\ ~At(r, "store")' /\ failures' = failures + 1
      BY <1>8, Moved DEF CountFailure, At
    <2>2. QED
      BY <1>0, <1>2, <1>8, <2>1 DEF CountFailure, KeyInv
  <1>9. ASSUME NEW r \in Request, BoundFailures(r) PROVE KeyInv'
    <2>1. /\ \A q \in Request \ {r} : req'[q] = req[q]
          /\ ~At(r, "store")'
      BY <1>9, Moved DEF BoundFailures, At
    <2>2. QED
      BY <1>0, <1>2, <1>9, <2>1 DEF BoundFailures, KeyInv
  <1>10. ASSUME NEW r \in Request, BurnCode(r) PROVE KeyInv'
    BY <1>2, <1>10, Moved DEF BurnCode, KeyInv, At
  <1>11. CASE Tick
    BY <1>0, <1>11 DEF Tick, KeyInv, At
  <1>12. CASE UNCHANGED vars
    BY <1>12 DEF vars, KeyInv, At
  <1>13. QED
    BY <1>1, <1>3, <1>4, <1>5, <1>6, <1>7, <1>8, <1>9, <1>10, <1>11, <1>12
    DEF Next, Proceed, Resets

\* A step of r in an era that goes on: what is left to show is where r is, and
\* what it counts.
LEMMA EraGoesOn ==
    ASSUME TypeOK, Live, EraInv, NEW r \in Request, \A q \in Request \ {r} : req'[q] = req[q],
           code' = code, resets'[code] = resets[code] \/ resets'[code] > 0,
           wrong'[code] \in {wrong[code], wrong[code] + 1},
           InEra(r)', failuresTtl' > 0 => ttl' <= failuresTtl', Counted'
    PROVE  EraInv'
  <1>1. ASSUME NEW q \in Request \ {r} PROVE InEra(q)'
    <2>1. InEra(q)
      BY DEF EraInv
    <2>2. wrong[code] >= MaxAttempts => wrong'[code] >= MaxAttempts
      BY EraNumbers DEF Live
    <2>3. wrong[code] >= 1 => wrong'[code] >= 1
      BY EraNumbers DEF Live
    <2>4. QED
      BY <2>1, <2>2, <2>3 DEF InEra, At
  <1>2. QED
    BY <1>1 DEF EraInv

LEMMA EraStep ==
    ASSUME TypeOK, CodeInv, KeyInv, EraInv, [Next]_vars
    PROVE  EraInv'
  <1> USE DEF redis, history
  <1>0. /\ failures \in Nat /\ failuresTtl \in Nat /\ ttl \in Nat /\ aborts \in Nat
        /\ code # NoCode => code \in Code /\ wrong[code] \in Nat /\ resets[code] \in Nat
    BY EraNumbers
  <1>1. ASSUME NEW r \in Request, StoreCode(r) PROVE EraInv'
    <2>1. /\ \A q \in Request \ {r} : req'[q] = req[q]
          /\ At(r, "idle")' /\ At(r, "store") /\ code' = req[r].of /\ req[r].of \in Code
          /\ UNCHANGED <<failures, failuresTtl, wrong, aborts>>
          /\ fresh' = (failures = 0 /\ \A q \in Request \ {r} : At(q, "idle"))
      BY <1>1, Moved, CarriedCode DEF StoreCode, At, Carries
    <2> SUFFICES ASSUME Live' PROVE EraInv'
      BY DEF EraInv
    <2>2. failures = 0 /\ \A q \in Request : At(q, "idle")'
      BY <2>1 DEF Live, At
    <2>3. failuresTtl = 0 /\ wrong'[code'] = 0
      BY <2>1, <2>2 DEF KeyInv
    <2>4. Counting' = {} /\ Burners' = {}
      BY <2>2 DEF Counting, Burners, At
    <2>5. Cardinality(Counting') = 0 /\ Cardinality(Burners') = 0
      BY <2>4, FS_EmptySet
    <2>6. Counted'
      BY <1>0, <2>1, <2>2, <2>3, <2>5 DEF Counted
    <2>7. \A q \in Request : InEra(q)'
      BY <2>2 DEF InEra, At
    <2>8. QED
      BY <2>1, <2>3, <2>6, <2>7 DEF EraInv
  <1>2. ASSUME NEW r \in Request, StoreCode(r) \/ DeleteCode(r) \/ BurnCode(r) PROVE EraInv'
    BY <1>1, <1>2 DEF DeleteCode, BurnCode, EraInv, Live
  <1>3. ASSUME fresh' = fresh, code' = code, ~Live PROVE EraInv'
    BY <1>3 DEF EraInv, Live
  <1>4. ASSUME NEW r \in Request, NEW g, ForgotPassword(r) \/ ResetPassword(r, g) PROVE EraInv'
    <2>1. /\ \A q \in Request \ {r} : req'[q] = req[q]
          /\ At(r, "idle") /\ (At(r, "store")' \/ At(r, "get")')
          /\ UNCHANGED <<redis, history>>
      BY <1>4, Moved DEF ForgotPassword, ResetPassword, At
    <2>2. /\ r \notin Counting /\ r \notin Counting' /\ r \notin Burners
          /\ InEra(r)'
      BY <2>1 DEF Counting, Burners, InEra, At
    <2>3. CASE Live
      BY <1>0, <2>1, <2>2, <2>3, KeepCounted, EraGoesOn DEF EraInv
    <2>4. QED
      BY <1>3, <2>1, <2>3
  <1>5. ASSUME NEW r \in Request, CompareCode(r) PROVE EraInv'
    <2>1. /\ \A q \in Request \ {r} : req'[q] = req[q]
          /\ At(r, "get") /\ UNCHANGED <<redis, resets, fresh, aborts>>
      BY <1>5, Moved DEF CompareCode
    <2>2. r \notin Counting /\ r \notin Burners
      BY <2>1 DEF Counting, Burners, At
    <2>3. CASE Live /\ Goto(r, [pc |-> "accept", of |-> code]) /\ wrong' = wrong
      <3>1. req'[r] = [pc |-> "accept", of |-> code]
        BY <2>3, Moved
      <3>2. r \notin Counting' /\ InEra(r)'
        BY <2>1, <3>1 DEF Counting, InEra, At
      <3>3. QED
        BY <1>0, <2>1, <2>2, <2>3, <3>2, KeepCounted, EraGoesOn DEF EraInv
    <2>4. CASE /\ Live /\ Goto(r, [pc |-> "incr"])
               /\ wrong' = [wrong EXCEPT ![code] = wrong[code] + 1]
      <3>1. req'[r] = [pc |-> "incr"]
        BY <2>4, Moved
      <3>2. r \in Counting' /\ InEra(r)'
        BY <3>1 DEF Counting, InEra, At
      <3>3. wrong'[code] = wrong[code] + 1
        BY <1>0, <2>4 DEF TypeOK, Live
      <3>4. Counted'
        BY <2>1, <2>2, <2>4, <3>2, <3>3, WrongCounted DEF EraInv
      <3>5. QED
        BY <1>0, <2>1, <2>4, <3>2, <3>3, <3>4, EraGoesOn DEF EraInv
    <2>5. QED
      BY <1>3, <1>5, <2>1, <2>3, <2>4 DEF CompareCode, Live
  <1>6. ASSUME NEW r \in Request, AcceptCode(r) PROVE EraInv'
    <2>1. /\ req[r] = [pc |-> "update", of |-> req[r].of] /\ req[r].of \in Code
      BY <1>6, CarriedCode DEF AcceptCode, At, Carries, TypeOK, RequestState, Idle
    <2>2. /\ \A q \in Request \ {r} : req'[q] = req[q]
          /\ req'[r] = [pc |-> "revoke", of |-> req[r].of]
          /\ UNCHANGED <<redis, wrong, fresh, aborts>>
          /\ resets' = [resets EXCEPT ![req[r].of] = resets[req[r].of] + 1]
      BY <1>6, <2>1, Moved DEF AcceptCode
    <2>3. CASE Live
      <3>1. req[r].of = code /\ resets'[code] > 0
        BY <1>0, <2>1, <2>2, <2>3 DEF EraInv, InEra, At, Live, TypeOK
      <3>2. InEra(r)' /\ r \notin Counting /\ r \notin Counting' /\ r \notin Burners
        BY <2>1, <2>2, <3>1 DEF InEra, Counting, Burners, At
      <3>3. QED
        BY <1>0, <2>2, <2>3, <3>1, <3>2, KeepCounted, EraGoesOn DEF EraInv
    <2>4. QED
      BY <1>3, <2>2, <2>3
  <1>r. ASSUME NEW r \in Request, FindUser(r) \/ RevokeSession(r) PROVE EraInv'
    <2>1. /\ req[r] = [pc |-> req[r].pc, of |-> req[r].of]
          /\ req[r].pc \in {"accept", "revoke"}
      BY <1>r DEF FindUser, RevokeSession, At, TypeOK, RequestState, Idle
    <2>2. /\ \A q \in Request \ {r} : req'[q] = req[q]
          /\ req'[r].of = req[r].of
          /\ req'[r].pc = IF req[r].pc = "accept" THEN "update" ELSE "delete"
          /\ UNCHANGED <<redis, wrong, resets, fresh, aborts>>
      BY <1>r, <2>1, Moved DEF FindUser, RevokeSession, At
    <2>3. CASE Live
      <3>1. InEra(r)' /\ r \notin Counting /\ r \notin Counting' /\ r \notin Burners
        BY <1>0, <2>1, <2>2, <2>3 DEF EraInv, InEra, Counting, Burners, At, Live
      <3>2. QED
        BY <1>0, <2>2, <2>3, <3>1, KeepCounted, EraGoesOn DEF EraInv
    <2>4. QED
      BY <1>3, <2>2, <2>3
  <1>7. ASSUME NEW r \in Request, ForgetFailures(r) \/ ClearFailures(r) PROVE EraInv'
    BY <1>3, <1>7 DEF ForgetFailures, ClearFailures, EraInv, InEra
  <1>8. ASSUME NEW r \in Request, CountFailure(r) PROVE EraInv'
    <2>1. /\ \A q \in Request \ {r} : req'[q] = req[q]
          /\ At(r, "incr") /\ failures' = failures + 1
          /\ UNCHANGED <<code, ttl, failuresTtl, wrong, resets, fresh, aborts>>
          /\ IF failures = 0 THEN req'[r].pc = "expire"
             ELSE req'[r].pc = IF failures + 1 >= MaxAttempts THEN "burn" ELSE "idle"
      BY <1>8, Moved DEF CountFailure
    <2>2. CASE Live
      <3>1. /\ r \in Counting /\ r \notin Counting'
            /\ failures' >= MaxAttempts => r \in Burners'
        BY <1>0, <2>1 DEF Counting, Burners, At
      <3>2. Counted' /\ failures' <= wrong[code]
        BY <2>1, <2>2, <3>1, FailureCounted DEF EraInv
      <3>3. InEra(r)'
        BY <1>0, <2>1, <2>2, <3>2 DEF InEra, At, Live
      <3>4. failuresTtl' > 0 => ttl' <= failuresTtl'
        BY <2>1, <2>2 DEF EraInv
      <3>5. QED
        BY <1>0, <2>1, <2>2, <3>2, <3>3, <3>4, EraGoesOn
    <2>3. QED
      BY <1>3, <2>1, <2>2
  <1>9. ASSUME NEW r \in Request, BoundFailures(r) PROVE EraInv'
    <2>1. /\ \A q \in Request \ {r} : req'[q] = req[q]
          /\ At(r, "expire")
          /\ failuresTtl' = IF failures > 0 THEN CodeTtl ELSE 0
          /\ UNCHANGED <<code, ttl, failures, wrong, resets, fresh, aborts>>
          /\ req'[r].pc = IF 1 >= MaxAttempts THEN "burn" ELSE "idle"
      BY <1>9, Moved DEF BoundFailures
    <2>2. CASE Live
      <3>1. /\ r \notin Counting /\ r \notin Counting'
            /\ r \in Burners => r \in Burners'
        BY <2>1 DEF Counting, Burners, At
      <3>2. wrong[code] >= 1
        BY <2>1, <2>2 DEF EraInv, InEra
      <3>3. InEra(r)'
        BY <1>0, <2>1, <2>2, <3>2 DEF InEra, At, Live
      <3>4. failuresTtl' > 0 => ttl' <= failuresTtl'
        BY <2>1 DEF TypeOK
      <3>5. QED
        BY <1>0, <2>1, <2>2, <3>1, <3>3, <3>4, KeepCounted, EraGoesOn DEF EraInv
    <2>3. QED
      BY <1>3, <2>1, <2>2
  <1>10. ASSUME NEW r \in Request, Abort(r) PROVE EraInv'
    <2>1. /\ \A q \in Request \ {r} : req'[q] = req[q]
          /\ At(r, "idle")' /\ aborts' = aborts + 1
          /\ UNCHANGED <<redis, wrong, resets, fresh>>
      BY <1>10, Moved DEF Abort, At
    <2>2. InEra(r)' /\ r \notin Counting' /\ r \notin Burners'
      BY <2>1 DEF InEra, Counting, Burners, At
    <2>3. CASE Live
      BY <1>0, <2>1, <2>2, <2>3, LostCounted, EraGoesOn DEF EraInv
    <2>4. QED
      BY <1>3, <2>1, <2>3
  <1>11. CASE Tick
    <2> SUFFICES ASSUME Live' PROVE EraInv'
      BY DEF EraInv
    <2>1. /\ UNCHANGED <<req, wrong, resets, fresh, aborts>>
          /\ ttl > 1 /\ code' = code /\ Live /\ ttl' = ttl - 1
      <3>1. UNCHANGED <<req, wrong, resets, fresh, aborts>>
        BY <1>11 DEF Tick
      <3>2. code # NoCode /\ ttl # 1 /\ code' = code
        BY <1>11 DEF Tick, Live
      <3>3. ttl > 0
        BY <3>2 DEF KeyInv
      <3>4. ttl > 1 /\ ttl' = ttl - 1
        BY <1>0, <1>11, <3>2, <3>3 DEF Tick
      <3>5. QED
        BY <3>1, <3>2, <3>4 DEF Live
    <2>2. failures' = failures
      BY <1>0, <1>11, <2>1 DEF Tick, EraInv
    <2>3. failuresTtl' > 0 => ttl' <= failuresTtl'
      BY <1>0, <1>11, <2>1 DEF Tick, EraInv
    <2>4. Counting' = Counting /\ Burners' = Burners
      BY <2>1 DEF Counting, Burners, At
    <2>5. Counted'
      BY <2>1, <2>2, <2>4 DEF Counted, EraInv
    <2>6. \A q \in Request : InEra(q)'
      BY <2>1 DEF InEra, At, EraInv
    <2>7. QED
      BY <2>3, <2>5, <2>6 DEF EraInv
  <1>12. CASE UNCHANGED vars
    BY <1>12 DEF vars, EraInv, Live, InEra, Counted, Counting, Burners, At
  <1>13. QED
    BY <1>2, <1>4, <1>5, <1>6, <1>7, <1>r, <1>8, <1>9, <1>10, <1>11, <1>12
    DEF Next, Proceed

LEMMA EraInvariance == Spec => [](IInv /\ KeyInv /\ EraInv)
  <1>1. IInv /\ KeyInv /\ EraInv /\ [Next]_vars => (IInv /\ KeyInv /\ EraInv)'
    BY TypeStep, CodeStep, CounterStep, KeyStep, EraStep DEF IInv
  <1>2. QED
    BY <1>1, InitInv, InitEra, PTL DEF Spec

\* A code stored with no counter and nothing in flight answers no more wrong
\* guesses than the limit allows, and one for each request that read it before
\* the burn or was lost, for every number of requests and every limit.
THEOREM GuessesBoundedHolds == Spec => []GuessesBounded
  <1>1. TypeOK /\ EraInv => GuessesBounded
    BY EraNumbers, EraSets DEF EraInv, Live, Counted, GuessesBounded
  <1>2. QED
    BY <1>1, EraInvariance, PTL DEF IInv

\* Before its time such a code is taken away only by a reset with it or by as
\* many wrong guesses as the limit.
THEOREM FreshCodeKeptHolds == Spec => FreshCodeKept
  <1>1. ASSUME TypeOK, KeyInv, EraInv, [Next]_vars,
               fresh, code # NoCode, ttl > 1, code' = NoCode
        PROVE  wrong[code] >= MaxAttempts \/ resets[code] > 0
    <2> USE DEF redis, history
    <2>1. \/ \E r \in Request : StoreCode(r) \/ DeleteCode(r) \/ BurnCode(r)
          \/ Tick
      BY <1>1 DEF Next, Proceed, ForgotPassword, ResetPassword, CompareCode, FindUser, AcceptCode,
                  RevokeSession, ForgetFailures, CountFailure, BoundFailures, ClearFailures, Abort, vars
    <2>2. ASSUME NEW r \in Request, StoreCode(r) PROVE FALSE
      BY <1>1, <2>2, CarriedCode DEF StoreCode, Carries, At, Code, NoCode
    <2>3. ASSUME NEW r \in Request, DeleteCode(r) \/ BurnCode(r)
          PROVE  wrong[code] >= MaxAttempts \/ resets[code] > 0
      BY <1>1, <2>3 DEF DeleteCode, BurnCode, EraInv, Live, InEra
    <2>4. CASE Tick
      BY <1>1, <2>4 DEF Tick
    <2>5. QED
      BY <2>1, <2>2, <2>3, <2>4
  <1>2. IInv /\ KeyInv /\ EraInv /\ [Next]_vars =>
            (fresh /\ code # NoCode /\ ttl > 1 /\ code' = NoCode
                => wrong[code] >= MaxAttempts \/ resets[code] > 0)
    BY <1>1 DEF IInv
  <1>3. QED
    BY <1>2, EraInvariance, PTL DEF Spec, FreshCodeKept

-----------------------------------------------------------------------------
(***************************************************************************)
(* RefreshToken, for any number of concurrent requests, any set of         *)
(* passwords and any bound on tokens.                                      *)
(***************************************************************************)

LEMMA TokenInitInv == TokenInit => TokenTypeOK /\ QuietInv
  <1> SUFFICES ASSUME TokenInit PROVE TokenTypeOK /\ QuietInv
    OBVIOUS
  <1>1. Idle \in TokenRequest
    BY DEF TokenRequest
  <1>2. \A r \in Request : req[r].pc = "idle"
    BY DEF TokenInit, Idle
  <1>3. TokenTypeOK
    <2>1. req \in [Request -> TokenRequest] /\ spent \in [Tokens -> Nat]
      BY <1>1 DEF TokenInit
    <2>2. issued \in 0..MaxTokens
      BY MaxTokensAssumption DEF TokenInit
    <2>3. QED
      BY <2>1, <2>2 DEF TokenInit, TokenTypeOK
  <1>4. QuietInv
    BY <1>2 DEF TokenInit, QuietInv, NoChange, At
  <1>5. QED
    BY <1>3, <1>4

LEMMA TokenTypeStep ==
    ASSUME TokenTypeOK, [TokenNext]_tokenVars
    PROVE  TokenTypeOK'
  <1> USE DEF row, tokenHistory
  <1> DEFINE ReqOK == req' \in [Request -> TokenRequest]
  <1>0. ASSUME NEW r \in Request, NEW s \in TokenRequest, Goto(r, s) PROVE ReqOK
    BY <1>0 DEF Goto, TokenTypeOK
  <1>1. ASSUME NEW r \in Request, Arrive(r) PROVE TokenTypeOK'
    <2>1. ASSUME NEW s \in TokenRequest, Receive(r, s) PROVE TokenTypeOK'
      BY <1>0, <2>1 DEF Receive, TokenTypeOK
    <2>2. QED
      BY <1>1, <2>1 DEF Arrive, Login, OAuthLogin, Logout, Refresh, ChangePassword,
                        ResetAccepted, TokenRequest
  <1>2. ASSUME NEW r \in Request, CheckLogin(r) PROVE TokenTypeOK'
    BY <1>0, <1>2 DEF CheckLogin, Accept, End, TokenRequest, TokenTypeOK
  <1>3. ASSUME NEW r \in Request, UpsertOAuth(r) PROVE TokenTypeOK'
    BY <1>0, <1>3 DEF UpsertOAuth, Accept, TokenRequest, TokenTypeOK
  <1>4. ASSUME NEW r \in Request, CheckRefresh(r) PROVE TokenTypeOK'
    <2>1. req[r].token \in Tokens
      BY <1>4 DEF CheckRefresh, At, TokenRequest, Idle, TokenTypeOK
    <2>2. QED
      BY <1>0, <1>4, <2>1 DEF CheckRefresh, End, TokenRequest, TokenTypeOK
  <1>5. ASSUME NEW r \in Request, IssueTokens(r) PROVE TokenTypeOK'
    <2>1. issued' \in Tokens /\ issued' \in 0..MaxTokens
      BY <1>5, MaxTokensAssumption DEF IssueTokens, TokenTypeOK, Tokens
    <2>2. ReqOK
      BY <1>0, <1>5 DEF IssueTokens, End, TokenRequest
    <2>3. spent' \in [Tokens -> Nat]
      BY <1>5 DEF IssueTokens, At, TokenRequest, Idle, TokenTypeOK
    <2>4. QED
      BY <1>5, <2>1, <2>2, <2>3 DEF IssueTokens, TokenTypeOK
  <1>6. ASSUME NEW r \in Request, Revoke(r) PROVE TokenTypeOK'
    BY <1>0, <1>6 DEF Revoke, End, TokenRequest, TokenTypeOK
  <1>7. ASSUME NEW r \in Request, CheckChange(r) PROVE TokenTypeOK'
    <2>1. req[r].new \in Password
      BY <1>7 DEF CheckChange, At, TokenRequest, Idle, TokenTypeOK
    <2>2. QED
      BY <1>0, <1>7, <2>1 DEF CheckChange, End, TokenRequest, TokenTypeOK
  <1>8. ASSUME NEW r \in Request, SetPassword(r) \/ SetResetPassword(r) PROVE TokenTypeOK'
    <2>1. req[r].new \in Password
      BY <1>8 DEF SetPassword, SetResetPassword, At, TokenRequest, Idle, TokenTypeOK
    <2>2. QED
      BY <1>0, <1>8, <2>1 DEF SetPassword, SetResetPassword, End, TokenRequest, TokenTypeOK
  <1>9. ASSUME NEW r \in Request, TokenAbort(r) PROVE TokenTypeOK'
    BY <1>0, <1>9 DEF TokenAbort, End, TokenRequest, TokenTypeOK
  <1>10. CASE UNCHANGED tokenVars
    BY <1>10 DEF tokenVars, TokenTypeOK
  <1>11. QED
    BY <1>1, <1>2, <1>3, <1>4, <1>5, <1>6, <1>7, <1>8, <1>9, <1>10 DEF TokenNext, TokenProceed

LEMMA QuietStep ==
    ASSUME TokenTypeOK, QuietInv, [TokenNext]_tokenVars
    PROVE  QuietInv'
  <1> USE DEF row, tokenHistory
  <1>0. ASSUME NEW r \in Request, NEW s, Goto(r, s)
        PROVE  req'[r] = s /\ \A q \in Request : q # r => req'[q] = req[q]
    BY <1>0 DEF Goto, TokenTypeOK
  <1>1. ASSUME NEW r \in Request, Arrive(r) PROVE QuietInv'
    <2>1. ASSUME NEW s, Receive(r, s), s.pc \notin {"issue", "rotate", "setPassword"}
          PROVE  QuietInv'
      BY <1>0, <2>1 DEF Receive, QuietInv, NoChange, At
    <2>2. QED
      BY <1>1, <2>1 DEF Arrive, Login, OAuthLogin, Logout, Refresh, ChangePassword, ResetAccepted
  <1>2. ASSUME NEW r \in Request, CheckLogin(r) \/ UpsertOAuth(r) PROVE QuietInv'
    BY <1>0, <1>2 DEF CheckLogin, UpsertOAuth, Accept, End, QuietInv, NoChange, At, Idle
  <1>3. ASSUME NEW r \in Request, CheckRefresh(r) PROVE QuietInv'
    BY <1>0, <1>3 DEF CheckRefresh, End, QuietInv, NoChange, At, Idle
  <1>4. ASSUME NEW r \in Request, IssueTokens(r) PROVE QuietInv'
    BY <1>0, <1>4 DEF IssueTokens, End, QuietInv, NoChange, At, Idle
  <1>5. ASSUME NEW r \in Request, Revoke(r) PROVE QuietInv'
    <2>1. \A q \in Request : req'[q].pc = "idle" \/ req'[q] = req[q]
      BY <1>0, <1>5 DEF Revoke, End, Idle
    <2>2. req'[r].pc = "idle" /\ \A q \in Request \ {r} : req'[q] = req[q]
      BY <1>0, <1>5 DEF Revoke, End, Idle
    <2>3. stored' = Null /\ quiet' = (quiet \/ Alone(r))
          /\ pinned' = pinned /\ password' = password
      BY <1>5 DEF Revoke
    <2>4. quiet' => \A q \in Request : req'[q].pc \notin {"issue", "rotate"}
      <3>1. CASE quiet
        BY <2>1, <3>1 DEF QuietInv
      <3>2. CASE Alone(r)
        BY <2>2, <3>2 DEF Alone
      <3>3. CASE ~quiet /\ ~Alone(r)
        BY <2>3, <3>3 
      <3>4. QED
        BY <3>1, <3>2, <3>3
    <2>5. pinned' # {} => password' \in pinned' /\ NoChange'
      BY <2>1, <2>3 DEF QuietInv, NoChange, At
    <2>6. QED
      BY <2>3, <2>4, <2>5 DEF QuietInv
  <1>6. ASSUME NEW r \in Request, CheckChange(r) PROVE QuietInv'
    BY <1>0, <1>6 DEF CheckChange, End, QuietInv, NoChange, At, Idle
  <1>7. ASSUME NEW r \in Request, SetPassword(r) PROVE QuietInv'
    BY <1>0, <1>7 DEF SetPassword, End, QuietInv, NoChange, At, Idle
  <1>8. ASSUME NEW r \in Request, SetResetPassword(r) PROVE QuietInv'
    BY <1>0, <1>8 DEF SetResetPassword, QuietInv, NoChange, At
  <1>9. ASSUME NEW r \in Request, TokenAbort(r) PROVE QuietInv'
    BY <1>0, <1>9 DEF TokenAbort, End, QuietInv, NoChange, At, Idle
  <1>10. CASE UNCHANGED tokenVars
    BY <1>10 DEF tokenVars, QuietInv, NoChange, At
  <1>11. QED
    BY <1>1, <1>2, <1>3, <1>4, <1>5, <1>6, <1>7, <1>8, <1>9, <1>10 DEF TokenNext, TokenProceed

LEMMA TokenInvariance == TokenSpec => [](TokenTypeOK /\ QuietInv)
  <1>1. TokenTypeOK /\ QuietInv /\ [TokenNext]_tokenVars => (TokenTypeOK /\ QuietInv)'
    BY TokenTypeStep, QuietStep
  <1>2. QED
    BY <1>1, TokenInitInv, PTL DEF TokenSpec

\* A revocation that no login or refresh straddles keeps the session closed
\* until a login is accepted, for any number of concurrent requests.
THEOREM QuietRevocation == TokenSpec => []QuietRevocationHolds
  <1>1. QuietInv => QuietRevocationHolds
    BY DEF QuietInv, QuietRevocationHolds
  <1>2. QED
    BY <1>1, TokenInvariance, PTL

\* The password of a reset that no changePassword straddles stays until it is
\* presented for a change.
THEOREM ResetPasswordStays == TokenSpec => []ResetPasswordHolds
  <1>1. QuietInv => ResetPasswordHolds
    BY DEF QuietInv, ResetPasswordHolds
  <1>2. QED
    BY <1>1, TokenInvariance, PTL

-----------------------------------------------------------------------------
(***************************************************************************)
(* RateLimit, for any number of concurrent requests, any limit and any     *)
(* window.                                                                 *)
(***************************************************************************)

\* What keeps a window fixed: while an EXPIRE is to come its key has no expiry
\* yet, and no other EXPIRE is to come.
ExpireInv ==
    /\ count = 0 => left = 0
    /\ \A r \in Request : At(r, "expire") =>
        /\ count > 0 /\ left = 0
        /\ \A q \in Request : At(q, "expire") => q = r

LimitInv == LimitTypeOK /\ ExpireInv /\ KeyExpires

\* The requests that window w has still to admit.
Holders(w) == {r \in Request : ~At(r, "idle") /\ req[r].window = w /\ req[r].n <= Max}

\* What keeps a window within its limit: whoever it has admitted and whoever it
\* has still to admit drew a number of its own, none above the count.
AdmitInv ==
    \A w \in Windows :
        /\ IsFiniteSet(Holders(w))
        /\ admitted[w] + Cardinality(Holders(w)) <= Max
        /\ w = window /\ count > 0 => admitted[w] + Cardinality(Holders(w)) <= count
        /\ w > window => admitted[w] = 0 /\ Holders(w) = {}

USE LimitAssumption, LimitBoundsAssumption

LEMMA LimitInitInv == LimitInit => LimitInv
  <1> SUFFICES ASSUME LimitInit PROVE LimitInv
    OBVIOUS
  <1>1. \A r \in Request : ~At(r, "expire")
    BY DEF LimitInit, At, Idle
  <1>2. LimitTypeOK
    BY DEF LimitInit, LimitTypeOK
  <1>3. ExpireInv /\ KeyExpires
    BY <1>1 DEF LimitInit, ExpireInv, KeyExpires
  <1>4. QED
    BY <1>2, <1>3 DEF LimitInv

LEMMA IncrStep ==
    ASSUME LimitInv, NEW r \in Request, Incr(r)
    PROVE  LimitInv' /\ left' = left
  <1> USE DEF LimitInv
  <1>1. /\ Current \in Windows /\ Drawing \in Nat \ {0}
        /\ count' = Drawing /\ count' > 0 /\ left' = left /\ lost' = lost
    BY DEF Goto, End, Incr, Drawing, LimitTypeOK
  <1>2. req' \in [Request -> Drawn \cup {Idle}]
    BY <1>1 DEF Goto, End, Incr, Drawn, LimitTypeOK
  <1>3. LimitTypeOK'
    BY <1>1, <1>2 DEF Goto, End, Incr, LimitTypeOK, Windows
  <1>4. \A q \in Request \ {r} : At(q, "expire")' <=> At(q, "expire")
    BY DEF Goto, End, Incr, At, LimitTypeOK
  <1>5. At(r, "expire")' <=> count = 0
    BY DEF Goto, End, Incr, At, LimitTypeOK
  <1>6. ~At(r, "expire")
    BY DEF Goto, End, Incr, At
  <1>7. ExpireInv'
    <2>1. CASE count = 0
      <3>1. \A q \in Request : ~At(q, "expire")
        BY <2>1 DEF ExpireInv
      <3>2. QED
        BY <1>1, <1>4, <1>5, <2>1, <3>1 DEF ExpireInv
    <2>2. CASE count # 0
      BY <1>1, <1>4, <1>5, <1>6, <2>2 DEF ExpireInv
    <2>3. QED
      BY <2>1, <2>2
  <1>8. KeyExpires'
    BY <1>1, <1>4, <1>5, <1>6 DEF KeyExpires, LimitTypeOK
  <1>9. QED
    BY <1>1, <1>3, <1>7, <1>8

LEMMA ExpireStep ==
    ASSUME LimitInv, NEW r \in Request, Expire(r)
    PROVE  LimitInv' /\ left = 0
  <1> USE DEF LimitInv
  <1>1. /\ count > 0 /\ left = 0 /\ left' = Window
        /\ count' = count /\ lost' = lost /\ window' = window /\ admitted' = admitted
    BY DEF Expire, ExpireInv
  <1>2. req[r] \in Drawn
    BY DEF Expire, At, LimitTypeOK, Idle
  <1>3. req' \in [Request -> Drawn \cup {Idle}]
    BY <1>2 DEF Expire, Drawn, LimitTypeOK
  <1>4. \A q \in Request : ~At(q, "expire")'
    <2>1. \A q \in Request \ {r} : req'[q] = req[q]
      BY DEF Expire
    <2>2. req'[r].pc = "decide"
      BY <1>2 DEF Expire, Drawn, LimitTypeOK
    <2>3. QED
      BY <2>1, <2>2 DEF Expire, At, ExpireInv
  <1>5. LimitTypeOK'
    BY <1>1, <1>3 DEF LimitTypeOK
  <1>6. QED
    BY <1>1, <1>4, <1>5 DEF ExpireInv, KeyExpires

LEMMA LimitOtherStep ==
    ASSUME LimitInv, LimitTick \/ (\E r \in Request : Decide(r) \/ LoseDraw(r)) \/ UNCHANGED limitVars
    PROVE  LimitInv' /\ left' <= left
  <1> USE DEF LimitInv
  <1>1. CASE LimitTick
    <2>1. \A q \in Request : ~At(q, "expire")
      BY <1>1 DEF LimitTick, ExpireInv, LimitTypeOK
    <2>2. LimitTypeOK' /\ left' <= left
      BY <1>1 DEF LimitTick, LimitTypeOK
    <2>3. \A q \in Request : ~At(q, "expire")'
      BY <1>1, <2>1 DEF LimitTick, At
    <2>4. (count = 0 => left = 0)' /\ (count' > 0 => left' # 0)
      BY <1>1 DEF LimitTick, ExpireInv, LimitTypeOK
    <2>5. QED
      BY <2>2, <2>3, <2>4 DEF ExpireInv, KeyExpires
  <1>2. ASSUME NEW r \in Request, Decide(r) PROVE LimitInv' /\ left' <= left
    <2>1. req[r] \in Drawn
      BY <1>2 DEF Goto, End, Decide, At, LimitTypeOK, Idle
    <2>2. LimitTypeOK'
      BY <1>2, <2>1 DEF Goto, End, Decide, LimitTypeOK, Drawn
    <2>3. \A q \in Request : At(q, "expire")' <=> At(q, "expire")
      BY <1>2 DEF Goto, End, Decide, At, LimitTypeOK, Idle
    <2>4. left' = left /\ count' = count /\ lost' = lost
      BY <1>2 DEF Goto, End, Decide
    <2>5. QED
      BY <2>2, <2>3, <2>4 DEF ExpireInv, KeyExpires, LimitTypeOK
  <1>3. ASSUME NEW r \in Request, LoseDraw(r) PROVE LimitInv' /\ left' <= left
    <2>1. LimitTypeOK'
      BY <1>3 DEF Goto, End, LoseDraw, LimitTypeOK
    <2>2. \A q \in Request : At(q, "expire")' => At(q, "expire")
      BY <1>3 DEF Goto, End, LoseDraw, At, LimitTypeOK, Idle
    <2>3. left' = left /\ count' = count /\ lost' > 0
      BY <1>3 DEF Goto, End, LoseDraw, LimitTypeOK
    <2>4. QED
      BY <2>1, <2>2, <2>3 DEF ExpireInv, KeyExpires, LimitTypeOK
  <1>4. CASE UNCHANGED limitVars
    BY <1>4 DEF limitVars, LimitTypeOK, ExpireInv, KeyExpires, At
  <1>5. QED
    BY <1>1, <1>2, <1>3, <1>4

LEMMA LimitStep == LimitInv /\ [LimitNext]_limitVars => LimitInv' /\ (left > 0 => left' <= left)
  <1> SUFFICES ASSUME LimitInv, [LimitNext]_limitVars PROVE LimitInv' /\ (left > 0 => left' <= left)
    OBVIOUS
  <1>1. left \in Nat
    BY DEF LimitInv, LimitTypeOK
  <1>2. ASSUME NEW r \in Request, Incr(r) PROVE LimitInv' /\ (left > 0 => left' <= left)
    BY <1>1, <1>2, IncrStep
  <1>3. ASSUME NEW r \in Request, Expire(r) PROVE LimitInv' /\ (left > 0 => left' <= left)
    BY <1>3, ExpireStep
  <1>4. QED
    BY <1>2, <1>3, LimitOtherStep DEF LimitNext, LimitProceed

LEMMA LimitInvariance == LimitSpec => []LimitInv
  BY LimitInitInv, LimitStep, PTL DEF LimitSpec

\* The variables keep their types.
THEOREM LimitTypeCorrect == LimitSpec => []LimitTypeOK
  BY LimitInvariance, PTL DEF LimitInv

\* A limiter key that will never expire exists only where a request was lost,
\* for any number of concurrent requests.
THEOREM KeyExpiresHolds == LimitSpec => []KeyExpires
  BY LimitInvariance, PTL DEF LimitInv

\* No request moves the end of a running window.
THEOREM WindowFixedHolds == LimitSpec => WindowFixed
  <1>1. LimitInv /\ [LimitNext]_limitVars => [left > 0 => left' <= left]_limitVars
    BY LimitStep
  <1>2. QED
    BY <1>1, LimitInvariance, PTL DEF LimitSpec, WindowFixed

-----------------------------------------------------------------------------
(* No window admits too many. *)

\* Who holds a number of window w after a step of one request.
LEMMA HoldersStep ==
    ASSUME LimitTypeOK, NEW r \in Request, NEW w \in Windows,
           \A q \in Request \ {r} : req'[q] = req[q]
    PROVE  /\ r \in Holders(w)' => Holders(w)' = Holders(w) \cup {r}
           /\ r \notin Holders(w)' => Holders(w)' = Holders(w) \ {r}
  BY DEF Holders, At

LEMMA HoldersCount ==
    ASSUME LimitTypeOK, AdmitInv, NEW w \in Windows
    PROVE  /\ IsFiniteSet(Holders(w)) /\ Cardinality(Holders(w)) \in Nat
           /\ admitted[w] \in Nat /\ count \in Nat /\ window \in Nat /\ w \in Nat
  BY FS_CardinalityType DEF LimitTypeOK, AdmitInv, Windows

LEMMA InitAdmit == LimitInit => AdmitInv
  <1> SUFFICES ASSUME LimitInit, NEW w \in Windows PROVE AdmitInv!(w)
    BY DEF AdmitInv
  <1>1. Holders(w) = {}
    BY DEF LimitInit, Holders, At, Idle
  <1>2. QED
    BY <1>1, FS_EmptySet DEF LimitInit

LEMMA IncrAdmit ==
    ASSUME LimitTypeOK, AdmitInv, NEW r \in Request, Incr(r)
    PROVE  AdmitInv'
  <1> SUFFICES ASSUME NEW w \in Windows PROVE AdmitInv!(w)'
    BY DEF AdmitInv
  <1> DEFINE h == Cardinality(Holders(w))
  <1>1. /\ Current \in Windows /\ Drawing \in Nat \ {0}
        /\ count' = Drawing /\ window' = Current /\ admitted' = admitted
        /\ req'[r] = [pc |-> req'[r].pc, n |-> Drawing, window |-> Current]
        /\ ~At(r, "idle")' /\ At(r, "idle")
    BY DEF Goto, End, Incr, Drawing, LimitTypeOK, At
  <1>2. r \in Holders(w)' <=> w = Current /\ Drawing <= Max
    BY <1>1 DEF Holders
  <1>3. r \notin Holders(w)
    BY <1>1 DEF Holders
  <1>4. \A q \in Request \ {r} : req'[q] = req[q]
    BY DEF Goto, End, Incr, LimitTypeOK
  <1>5. /\ IsFiniteSet(Holders(w)) /\ h \in Nat /\ admitted[w] \in Nat
        /\ count \in Nat /\ window \in Nat /\ w \in Nat
    BY HoldersCount
  <1>6. CASE w = Current /\ Drawing <= Max
    <2>1. Holders(w)' = Holders(w) \cup {r}
      BY <1>2, <1>4, <1>6, HoldersStep
    <2>2. IsFiniteSet(Holders(w)') /\ Cardinality(Holders(w)') = h + 1
      BY <1>3, <1>5, <2>1, FS_AddElement
    <2>3. Drawing = count + 1
      BY <1>5, <1>6 DEF Drawing
    <2>4. admitted[w] + h <= count
      <3>1. CASE count = 0
        BY <1>5, <1>6, <3>1, FS_EmptySet DEF Current, AdmitInv
      <3>2. CASE count # 0
        BY <1>5, <1>6, <3>2 DEF Current, AdmitInv
      <3>3. QED
        BY <3>1, <3>2
    <2>5. QED
      BY <1>1, <1>5, <1>6, <2>2, <2>3, <2>4
  <1>7. CASE ~(w = Current /\ Drawing <= Max)
    <2>1. Holders(w)' = Holders(w)
      BY <1>2, <1>3, <1>4, <1>7, HoldersStep
    <2>2. Current >= window /\ (w = Current => Drawing > Max)
      BY <1>1, <1>5, <1>7 DEF Current
    <2>3. QED
      BY <1>1, <1>5, <2>1, <2>2 DEF AdmitInv
  <1>8. QED
    BY <1>6, <1>7

\* A step that gives request r no new number keeps AdmitInv, if whoever it
\* admits held one.
LEMMA KeepAdmit ==
    ASSUME LimitTypeOK, AdmitInv, NEW r \in Request, ~At(r, "idle"),
           \A q \in Request \ {r} : req'[q] = req[q],
           UNCHANGED <<count, window>>,
           \A w \in Windows :
              \/ /\ r \in Holders(w)' => r \in Holders(w)
                 /\ admitted'[w] = admitted[w]
              \/ /\ r \in Holders(w) /\ r \notin Holders(w)'
                 /\ admitted'[w] = admitted[w] + 1
    PROVE  AdmitInv'
  <1> SUFFICES ASSUME NEW w \in Windows PROVE AdmitInv!(w)'
    BY DEF AdmitInv
  <1> DEFINE h == Cardinality(Holders(w))
  <1>1. /\ IsFiniteSet(Holders(w)) /\ h \in Nat /\ admitted[w] \in Nat
        /\ count \in Nat /\ window \in Nat /\ w \in Nat
    BY HoldersCount
  <1>2. CASE r \in Holders(w)' /\ r \in Holders(w)
    <2>0. Holders(w)' = Holders(w) \cup {r}
      BY <1>2, HoldersStep
    <2>1. Holders(w)' = Holders(w)
      BY <1>2, <2>0
    <2>2. QED
      BY <1>1, <1>2, <2>1 DEF AdmitInv
  <1>3. CASE r \notin Holders(w)'
    <2>1. Holders(w)' = Holders(w) \ {r}
      BY <1>3, HoldersStep
    <2>2. /\ IsFiniteSet(Holders(w)')
          /\ Cardinality(Holders(w)') = IF r \in Holders(w) THEN h - 1 ELSE h
      BY <1>1, <2>1, FS_RemoveElement
    <2>3. admitted'[w] + Cardinality(Holders(w)') <= admitted[w] + h
      BY <1>1, <1>3, <2>2
    <2>4. w > window => admitted'[w] = 0 /\ Holders(w)' = {}
      BY <1>1, <2>1 DEF AdmitInv
    <2>5. QED
      BY <1>1, <2>2, <2>3, <2>4 DEF AdmitInv
  <1>4. QED
    BY <1>2, <1>3

LEMMA AdmitStep == LimitInv /\ AdmitInv /\ [LimitNext]_limitVars => AdmitInv'
  <1> SUFFICES ASSUME LimitTypeOK, ExpireInv, AdmitInv, [LimitNext]_limitVars PROVE AdmitInv'
    BY DEF LimitInv
  <1>1. ASSUME NEW r \in Request, Incr(r) PROVE AdmitInv'
    BY <1>1, IncrAdmit
  <1>2. ASSUME NEW r \in Request, Expire(r) PROVE AdmitInv'
    <2>1. req[r] \in Drawn
      BY <1>2 DEF Expire, At, LimitTypeOK, Idle
    <2>2. req'[r].n = req[r].n /\ req'[r].window = req[r].window /\ ~At(r, "idle")
      BY <1>2, <2>1 DEF Expire, LimitTypeOK, Drawn, At
    <2>3. \A q \in Request \ {r} : req'[q] = req[q]
      BY <1>2 DEF Expire, LimitTypeOK
    <2>4. \A w \in Windows : r \in Holders(w)' => r \in Holders(w)
      BY <2>2 DEF Holders
    <2>5. QED
      BY <1>2, <2>2, <2>3, <2>4, KeepAdmit DEF Expire
  <1>3. ASSUME NEW r \in Request, Decide(r) PROVE AdmitInv'
    <2>1. req[r] \in Drawn /\ ~At(r, "idle")
      BY <1>3 DEF Goto, End, Decide, At, LimitTypeOK, Idle
    <2>2. /\ \A q \in Request \ {r} : req'[q] = req[q]
          /\ \A w \in Windows : r \notin Holders(w)'
      BY <1>3 DEF Goto, End, Decide, LimitTypeOK, Holders, At, Idle
    <2>3. \A w \in Windows : r \in Holders(w) <=> w = req[r].window /\ req[r].n <= Max
      BY <2>1 DEF Holders
    <2>4. /\ req[r].n \in Nat /\ req[r].window \in Windows
          /\ \A w \in Windows : admitted'[w] =
                IF w = req[r].window /\ req[r].n <= Max THEN admitted[w] + 1 ELSE admitted[w]
      BY <1>3, <2>1 DEF Goto, End, Decide, LimitTypeOK, Drawn
    <2>5. QED
      BY <1>3, <2>1, <2>2, <2>3, <2>4, KeepAdmit DEF Goto, End, Decide
  <1>4. ASSUME NEW r \in Request, LoseDraw(r) PROVE AdmitInv'
    <2>1. /\ \A q \in Request \ {r} : req'[q] = req[q]
          /\ \A w \in Windows : r \notin Holders(w)'
      BY <1>4 DEF Goto, End, LoseDraw, LimitTypeOK, Holders, At, Idle
    <2>2. QED
      BY <1>4, <2>1, KeepAdmit DEF Goto, End, LoseDraw
  <1>5. CASE LimitTick
    <2>1. count' = count \/ count' = 0
      BY <1>5 DEF LimitTick
    <2>2. \A w \in Windows : Holders(w)' = Holders(w)
      BY <1>5 DEF LimitTick, Holders, At
    <2>3. QED
      BY <1>5, <2>1, <2>2 DEF LimitTick, AdmitInv
  <1>6. CASE UNCHANGED limitVars
    BY <1>6 DEF limitVars, AdmitInv, Holders, At
  <1>7. QED
    BY <1>1, <1>2, <1>3, <1>4, <1>5, <1>6 DEF LimitNext, LimitProceed

\* Of the requests of one window, however they interleave, are lost, or outlive
\* it, no more than the limit are admitted.
THEOREM AdmittedBoundedHolds == LimitSpec => []AdmittedBounded
  <1>1. LimitInv /\ AdmitInv => AdmittedBounded
    BY HoldersCount DEF LimitInv, AdmitInv, AdmittedBounded
  <1>2. QED
    BY <1>1, LimitInitInv, InitAdmit, LimitStep, AdmitStep, PTL DEF LimitSpec
=============================================================================
