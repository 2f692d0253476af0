----------------------- MODULE MCSubscriptionCascade -----------------------
(* Instances of SubscriptionCascade. *)
EXTENDS SubscriptionCascade, TLC

CONSTANTS p1, p2, r1, r2

OneProc == {p1}
TwoProcs == {p1, p2}
Symmetric == Permutations({p1, p2}) \cup Permutations({r1, r2})
=============================================================================
