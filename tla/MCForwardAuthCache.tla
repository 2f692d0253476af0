------------------------- MODULE MCForwardAuthCache -------------------------
(* Instances of ForwardAuthCache. *)
EXTENDS ForwardAuthCache, TLC

CONSTANTS p1, r1, q1, q2

OneProc == {p1}
TwoRequests == {q1, q2}
RequestSymmetry == Permutations({q1, q2})
=============================================================================
