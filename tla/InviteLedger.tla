---------------------------- MODULE InviteLedger ----------------------------
(***************************************************************************)
(* What the invite system promises, without rows, handlers or clocks: an   *)
(* invite is spent at most once, by one sign-up, and stays spent.          *)
(***************************************************************************)
CONSTANTS Invites, Attempts

VARIABLE winners    \* winners[i]: the sign-ups that completed with invite i

Init == winners = [i \in Invites |-> {}]

Spend(i, a) ==
    /\ winners[i] = {}
    /\ winners' = [winners EXCEPT ![i] = {a}]

Next == \E i \in Invites, a \in Attempts : Spend(i, a)

Spec == Init /\ [][Next]_winners

=============================================================================
