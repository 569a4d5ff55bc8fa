------------------------------ MODULE Requests ------------------------------
(***************************************************************************)
(* Requests to AuthService in flight at once: each is idle, or awaits the  *)
(* next call of its handler, with what it carries.                         *)
(***************************************************************************)
CONSTANT Request
VARIABLE req

Idle == [pc |-> "idle"]

At(r, pc) == req[r].pc = pc
Goto(r, state) == req' = [req EXCEPT ![r] = state]
End(r) == Goto(r, Idle)
=============================================================================
