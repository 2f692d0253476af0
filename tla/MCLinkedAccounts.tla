--------------------------- MODULE MCLinkedAccounts ---------------------------
(* Instances of LinkedAccounts for TLC. *)
EXTENDS LinkedAccounts, TLC

CONSTANTS p1, p2, u1, u2, x1, x2, x3

(* Everything happens to one user; the other only claims an invite.         *)
MCOps ==
    [u \in Users |-> IF u = u1 THEN Kinds \ {"none"} ELSE {"invite"}]

(* Pairs of operations of that user that may race. *)
MCOverlapping ==
    {{"add"}, {"subscribe"}, {"remove"}, {"add", "cancel"}, {"add", "remove"}, {"subscribe", "cancel"}}

(* Handlers and the accounts that the vendor did not have before are        *)
(* interchangeable.                                                         *)
Symmetric == Permutations(Procs) \cup Permutations(Accounts \ Existing)

=============================================================================
