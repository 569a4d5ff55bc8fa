-------------------------------- MODULE Lease --------------------------------
(***************************************************************************)
(* What RedisService.acquireLock and releaseLock promise: a lease.  It is  *)
(* given to one process at a time, for Term ticks, and ends by its         *)
(* holder's own release or by running out, never by another process.  A    *)
(* process may still be inside when its lease has run out.                 *)
(***************************************************************************)
EXTENDS Naturals

CONSTANTS Process, Term

VARIABLES
    holder,  \* the process with the lease, or Nobody
    left,    \* ticks left on the lease, 0 without one
    inside   \* processes in their critical section

vars == <<holder, left, inside>>

Nobody == "nobody"

Init ==
    /\ holder = Nobody
    /\ left = 0
    /\ inside = {}

Enter(p) ==
    /\ holder = Nobody
    /\ p \notin inside
    /\ holder' = p
    /\ left' = Term
    /\ inside' \in {inside, inside \cup {p}}   \* it may never hear of it

Leave(p) ==
    /\ p \in inside
    /\ inside' = inside \ {p}
    /\ \/ /\ holder = p
          /\ holder' = Nobody
          /\ left' = 0
       \/ UNCHANGED <<holder, left>>          \* overrun, or dead

RunOut ==
    /\ left > 0
    /\ left' = left - 1
    /\ holder' = IF left = 1 THEN Nobody ELSE holder
    /\ UNCHANGED inside

Next == RunOut \/ \E p \in Process : Enter(p) \/ Leave(p)

Spec == Init /\ [][Next]_vars
=============================================================================
