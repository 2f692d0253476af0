---------------------------- MODULE MCCascadeParts ----------------------------
(***************************************************************************)
(* Two explorations of SubscriptionCascade in one run: two handlers that   *)
(* race while the clock stands, and one handler at a time, with other      *)
(* operations, time to pass and no restart.  part says which one is made.  *)
(***************************************************************************)
EXTENDS MCSubscriptionCascade

ASSUME PartsConstants == p1 \in Procs

VARIABLE part

partVars == <<cascadeVars, part>>

(* An admin's requests for row t. *)
Admin(t) == \E p \in Procs : DisableRead(p, t) \/ EnableRead(p, t) \/ RenewRead(p, t)

Switched == \E t \in Targets : SetAutoRenew(t)

Races ==
    /\ now' = now
    /\ ~Admin("source")
    /\ ~Switched
    /\ \A p \in Procs : proc'[p].kind \notin {"process", "allow", "deny", "unset"}

Serial ==
    /\ \A p \in Procs \ {p1} : proc'[p] = proc[p]
    /\ ~Admin("derived")
    /\ proc'[p1].kind \notin {"retry", "suspend"}
    /\ Restart => CascadeStep

PartsInit == CascadeInit /\ part \in {"races", "serial"}

PartsNext ==
    /\ CascadeNext
    /\ IF part = "races" THEN Races ELSE Serial
    /\ UNCHANGED part

PartsSpec == PartsInit /\ [][PartsNext]_partVars

(* The derived row mirrors its source when no two handlers overlap (Mirrors).*)
SerialMirrors == part = "serial" => Mirrors

=============================================================================
