----------------------------- MODULE MCBroadcast -----------------------------
EXTENDS Broadcast, TLC

CONSTANTS c1, c2, u1, u2, u3

\* u2 has no alias.  A broadcast that lists a user twice, with crashes and a
\* fault; two with a user in two chunks, one of them with an overtake, the other
\* with a crash and a fault; one chunk overtaken until it has stalled too often.
MCCasts ==
    {[recipients |-> (c1 :> {u1, u2}) @@ (c2 :> {u3}), repeated |-> (c1 :> {}) @@ (c2 :> {u3}),
      crash |-> 2, overtake |-> 0, fault |-> 1],
     [recipients |-> (c1 :> {u1, u2}) @@ (c2 :> {u1, u3}), repeated |-> (c1 :> {}) @@ (c2 :> {}),
      crash |-> 0, overtake |-> 1, fault |-> 0],
     [recipients |-> (c1 :> {u1}) @@ (c2 :> {u1, u2}), repeated |-> (c1 :> {}) @@ (c2 :> {}),
      crash |-> 1, overtake |-> 0, fault |-> 1],
     [recipients |-> (c1 :> {u1, u2}) @@ (c2 :> {}), repeated |-> [c \in Chunk |-> {}],
      crash |-> 0, overtake |-> 2, fault |-> 0]}
=============================================================================
