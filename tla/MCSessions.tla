------------------------------ MODULE MCSessions ------------------------------
(* Instances of Sessions for TLC. *)
EXTENDS Sessions, TLC

CONSTANTS r1, r2, v1, v2, s1, s2, s3, s4

(* An administrator who is signed in, and a user who signs in and browses. *)
MCDoing ==
    [u \in People |-> IF u \in Admins THEN AllKinds \ {"login", "browse", "signOut"}
                      ELSE {"login", "browse", "signOut"}]

(* Once the limit is not enforced any more, the requests in flight end and   *)
(* no other begins.                                                          *)
EnforcedOrEnding ==
    unenforced => \A r \in Requests : Awaits(r, "idle") => request'[r] = request[r]

Interchangeable == Permutations(Requests) \cup Permutations(Sids)

=============================================================================
