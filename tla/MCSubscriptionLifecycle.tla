------------------------ MODULE MCSubscriptionLifecycle ------------------------
(* Instances of SubscriptionLifecycle for TLC. *)
EXTENDS SubscriptionLifecycle, TLC

CONSTANTS p1, p2, x1, x2, r1, r2

(* Processes, vendor accounts and row ids are interchangeable. *)
Symmetry == Permutations(Procs) \cup Permutations(Accounts) \cup Permutations(Rows)

-----------------------------------------------------------------------------
(* Requests before tasks: users and administrators make their requests, and  *)
(* awaits may reject, while the clock stands; when they are done with a row, *)
(* the tasks run over whatever they have left of it and its account.         *)

RequestKinds == {"none", "subscribe", "cancel", "disable", "enable", "suspend", "retry"}

TaskKinds == {"none", "subscribe", "renew", "process", "sync", "cleanup", "retry"}

Requests ==
    /\ \A p \in Procs : proc'[p].kind \in RequestKinds
    /\ allowed' = allowed
    /\ ~SetAutoRenew

(* Only a policy cancels, and awaits settle. *)
Tasks ==
    /\ \A p \in Procs :
          \/ proc'[p].kind \in TaskKinds
          \/ proc'[p].kind = "cancel" /\ (proc[p].kind = "cancel" \/ allowed' # allowed)
    /\ \A p \in Procs : AwaitRejects(p) => Step(p)
    /\ \E a \in Accounts : vendor'[a] = "free"

RequestsBeforeTasks ==
    IF now' = 0 THEN Requests
    ELSE Tasks /\ (now = 0 => used # Rows /\ \A p \in Procs : At(p, "idle"))

=============================================================================
