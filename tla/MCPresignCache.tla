--------------------------- MODULE MCPresignCache ---------------------------
(* A page of three keys over two runs, so that a run takes a second key, and *)
(* one of them alone; an expiry that is never cached and one that is.        *)
EXTENDS PresignCache

CONSTANTS page, single, k1, k2, k3
MCLists == (page :> {{k1, k2, k3}}) @@ (single :> {{k1}})
MCExpiries == {1, 3}
Symmetry == Permutations({k2, k3})
=============================================================================
