---------------------------- MODULE RefreshToken ----------------------------
(***************************************************************************)
(* The password and the refresh-token hash of one account, and the         *)
(* handlers of AuthService that read and write them: the logins, refresh,  *)
(* logout, changePassword and the database half of resetPassword.  Every   *)
(* handler reads the users row once, decides on what it read, and writes   *)
(* in a later step; nothing is locked in between.                          *)
(*                                                                         *)
(* Rows of different accounts are disjoint, so one account is modelled.    *)
(* Whether a reset code is accepted is the subject of PasswordReset.       *)
(***************************************************************************)
EXTENDS Requests, Naturals

CONSTANTS
    Password,    \* passwords that are tried and set
    MaxTokens    \* bound on the refresh tokens ever issued

ASSUME MaxTokensAssumption == MaxTokens \in Nat

VARIABLES
    password,    \* users.password: the one it was hashed from, NULL for a social account
    stored,      \* users.refresh_token: a digest, or NULL
    issued,      \* refresh tokens signed so far, numbered 1, 2, ...
    spent,       \* history: how often each token was rotated
    quiet,       \* history: the last revocation met no request in flight, and
                 \*          no login has been accepted since
    pinned       \* history: passwords a reset set with no change in flight,
                 \*          until a change that presented it or a reset

row == <<password, stored>>
tokenHistory == <<quiet, pinned>>
tokenVars == <<row, issued, req, spent, tokenHistory>>

Null == "null"

Tokens == 1..MaxTokens

\* What bcrypt.hash keeps of a token: its first 72 bytes.  The 37 bytes of the
\* JWT header and dot leave 35 base64 characters of the payload, 26 bytes of
\* {"sub":<id>,"email":...,"iat":...}, which end before the digits of iat even
\* for a one-digit id and a null e-mail: every token of an account has the
\* same digest.
Digest(n) == "account"

TokenRequest ==
    {Idle}
    \cup [pc: {"login"}, with: Password]
    \cup [pc: {"oauth", "logout"}]
    \cup [pc: {"refresh", "rotate"}, token: Tokens]
    \cup [pc: {"issue"}]
    \cup [pc: {"change"}, old: Password, new: Password]
    \cup [pc: {"setPassword", "resetPassword"}, new: Password]
    \cup [pc: {"revoke"}]

TokenTypeOK ==
    /\ password \in Password \cup {Null}
    /\ stored \in {Null} \cup {Digest(n) : n \in Tokens}
    /\ issued \in 0..MaxTokens
    /\ req \in [Request -> TokenRequest]
    /\ spent \in [Tokens -> Nat]
    /\ quiet \in BOOLEAN
    /\ pinned \in SUBSET Password

TokenInit ==
    /\ password \in Password \cup {Null}
    /\ stored = Null
    /\ issued = 0
    /\ req = [r \in Request |-> Idle]
    /\ spent = [n \in Tokens |-> 0]
    /\ quiet = TRUE
    /\ pinned = {}

\* No other request is between its read and its write.
Alone(r) == \A q \in Request \ {r} : req[q].pc \notin {"issue", "rotate"}
NoChange == \A q \in Request : ~At(q, "setPassword")

-----------------------------------------------------------------------------
(* Requests arrive. *)

Receive(r, state) ==
    /\ At(r, "idle")
    /\ Goto(r, state)
    /\ UNCHANGED <<row, issued, spent, tokenHistory>>

Login(r, p) == Receive(r, [pc |-> "login", with |-> p])
OAuthLogin(r) == Receive(r, [pc |-> "oauth"])
Logout(r) == Receive(r, [pc |-> "logout"])
Refresh(r, n) == n <= issued /\ Receive(r, [pc |-> "refresh", token |-> n])
ChangePassword(r, p, q) == Receive(r, [pc |-> "change", old |-> p, new |-> q])

\* resetPassword, its code accepted.
ResetAccepted(r, q) == Receive(r, [pc |-> "resetPassword", new |-> q])

-----------------------------------------------------------------------------
(* Logins and refreshes: read the row, then write a new token's hash. *)

\* A login is accepted: from here on a session is wanted.
Accept(r) ==
    /\ Goto(r, [pc |-> "issue"])
    /\ quiet' = FALSE
    /\ UNCHANGED <<row, issued, spent, pinned>>

\* findByEmail and bcrypt.compare.
CheckLogin(r) ==
    /\ At(r, "login")
    /\ \/ /\ req[r].with = password
          /\ Accept(r)
       \/ /\ req[r].with # password
          /\ End(r)
          /\ UNCHANGED <<row, issued, spent, tokenHistory>>

\* The provider vouches for the e-mail; upsertOAuthUser leaves the password.
UpsertOAuth(r) ==
    /\ At(r, "oauth")
    /\ Accept(r)

\* Mutant: the signature is taken for enough, the stored hash not consulted.
CheckRefreshSignature(r) ==
    /\ At(r, "refresh")
    /\ Goto(r, [pc |-> "rotate", token |-> req[r].token])
    /\ UNCHANGED <<row, issued, spent, tokenHistory>>

\* findById, the null check and bcrypt.compare of a refresh.
CheckRefresh(r) ==
    /\ At(r, "refresh")
    /\ \/ /\ stored # Null /\ stored = Digest(req[r].token)
          /\ Goto(r, [pc |-> "rotate", token |-> req[r].token])
       \/ /\ stored = Null \/ stored # Digest(req[r].token)
          /\ End(r)
    /\ UNCHANGED <<row, issued, spent, tokenHistory>>

\* generateTokens and updateRefreshToken: the hash overwrites what is stored.
IssueTokens(r) ==
    /\ At(r, "issue") \/ At(r, "rotate")
    /\ issued < MaxTokens
    /\ issued' = issued + 1
    /\ stored' = Digest(issued + 1)
    /\ spent' = IF At(r, "rotate") THEN [spent EXCEPT ![req[r].token] = @ + 1] ELSE spent
    /\ End(r)
    /\ UNCHANGED <<password, quiet, pinned>>

-----------------------------------------------------------------------------
(* Revocation. *)

\* updateRefreshToken(id, null), of a logout or of a reset.
Revoke(r) ==
    /\ At(r, "logout") \/ At(r, "revoke")
    /\ stored' = Null
    /\ quiet' = (quiet \/ Alone(r))
    /\ End(r)
    /\ UNCHANGED <<password, issued, spent, pinned>>

-----------------------------------------------------------------------------
(* Passwords. *)

\* Mutant: the current password is not compared.
CheckChangeNothing(r) ==
    /\ At(r, "change")
    /\ Goto(r, [pc |-> "setPassword", new |-> req[r].new])
    /\ pinned' = IF req[r].old = password THEN {} ELSE pinned
    /\ UNCHANGED <<row, issued, spent, quiet>>

\* findById and bcrypt.compare of changePassword.
CheckChange(r) ==
    /\ At(r, "change")
    /\ \/ /\ req[r].old = password
          /\ Goto(r, [pc |-> "setPassword", new |-> req[r].new])
          /\ pinned' = {}
       \/ /\ req[r].old # password
          /\ End(r)
          /\ UNCHANGED pinned
    /\ UNCHANGED <<row, issued, spent, quiet>>

\* updatePasswordById: the refresh token stays as it is.
SetPassword(r) ==
    /\ At(r, "setPassword")
    /\ password' = req[r].new
    /\ End(r)
    /\ UNCHANGED <<stored, issued, spent, tokenHistory>>

\* updatePassword of a reset, which then goes on to revoke.
SetResetPassword(r) ==
    /\ At(r, "resetPassword")
    /\ password' = req[r].new
    /\ pinned' = IF NoChange THEN {req[r].new} ELSE {}
    /\ Goto(r, [pc |-> "revoke"])
    /\ UNCHANGED <<stored, issued, spent, quiet>>

\* A database error, or the death of the process, at any await.
TokenAbort(r) ==
    /\ ~At(r, "idle")
    /\ End(r)
    /\ UNCHANGED <<row, issued, spent, tokenHistory>>

-----------------------------------------------------------------------------
Arrive(r) ==
    \/ \E p \in Password : Login(r, p) \/ ResetAccepted(r, p)
    \/ \E p, q \in Password : ChangePassword(r, p, q)
    \/ \E n \in Tokens : Refresh(r, n)
    \/ OAuthLogin(r) \/ Logout(r)

TokenProceed(r) ==
    \/ CheckLogin(r) \/ UpsertOAuth(r) \/ CheckRefresh(r) \/ IssueTokens(r)
    \/ Revoke(r) \/ CheckChange(r) \/ SetPassword(r) \/ SetResetPassword(r)

TokenNext == \E r \in Request : Arrive(r) \/ TokenProceed(r) \/ TokenAbort(r)

TokenSpec == TokenInit /\ [][TokenNext]_tokenVars

-----------------------------------------------------------------------------
(* Properties *)

\* A logout or reset that met no login or refresh between its read and its
\* write holds: no refresh token is stored until a login is accepted anew.
QuietRevocationHolds == quiet => stored = Null

\* A password set by a reset that met no change in flight stays until someone
\* presents it to change it, or resets again.
ResetPasswordHolds == pinned # {} => password \in pinned

\* The inductive invariant behind the two: while the revocation is quiet no
\* request is about to store a token, while the reset is pinned none is about
\* to set a password.
QuietInv ==
    /\ quiet => stored = Null /\ \A r \in Request : req[r].pc \notin {"issue", "rotate"}
    /\ pinned # {} => password \in pinned /\ NoChange

\* "Rotate: ... the presented token is single-use" (refresh).
RotatedTokenIsSingleUse == \A n \in Tokens : spent[n] <= 1
=============================================================================
