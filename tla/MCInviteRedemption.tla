------------------------- MODULE MCInviteRedemption -------------------------
(* Finite instances of InviteRedemption. *)
EXTENDS InviteRedemption, TLC

CONSTANTS i1, i2, a1, a2, e1, e2

(* A PATCH that rebinds, one that extends, one that revokes. *)
MCPatches ==
    {[email |-> e2, expiresAt |-> Keep, revoked |-> FALSE],
     [email |-> Keep, expiresAt |-> MaxTime + 1, revoked |-> FALSE],
     [email |-> Keep, expiresAt |-> Keep, revoked |-> TRUE]}

(* Invite ids and attempts are interchangeable; emails are not (MCPatches    *)
(* names one).                                                               *)
Symmetry == Permutations(Invites) \cup Permutations(Attempts)

=============================================================================
