---------------------------- MODULE MCQuicHandle ----------------------------
(***************************************************************************)
(* Four objects: the parent a handle is accepted on, the callback's own,   *)
(* the one in the channel and the one the user moves it to.  A context for *)
(* each.  Three handles: a registration, a listener or connection opened   *)
(* under it, and what is accepted or opened on that.                       *)
(***************************************************************************)
EXTENDS QuicHandle, TLC

CONSTANTS w1, w2, w3, w4, n1, n2, n3, x1, x2, x3, x4

const_Wrappers == {w1, w2, w3, w4}
const_Natives == {n1, n2, n3}
const_Contexts == {x1, x2, x3, x4}

Symmetry == Permutations(const_Wrappers) \cup Permutations(const_Natives)
              \cup Permutations(const_Contexts)

==============================================================================
