--------------------------- MODULE MCAdministration ---------------------------
(***************************************************************************)
(* What administrators do to the server beside inviting: the catalog of    *)
(* services, the tasks and the images.  The modules share no state, so one *)
(* of them moves and the others rest; part says which one, and which of    *)
(* its operations are explored together.                                   *)
(***************************************************************************)
EXTENDS ServiceCatalog, TaskScheduler, ImageLibrary, TLC

CONSTANTS p1, p2, u1, u2, r1, t1, t2, c1, c2

VARIABLE part

adminVars == <<part, catalogVars, schedulerVars, libraryVars>>

(* One task may change in both fields, the other is switched on and off. *)
MCPatches ==
    LET P(t, enabled, cron) == [task |-> t, enabled |-> enabled, cron |-> cron] IN
    {P(t1, {TRUE}, {}), P(t1, {FALSE}, {}), P(t1, {}, {c2}), P(t1, {TRUE}, {c1}),
     P(t2, {FALSE}, {}), P(t2, {TRUE}, {})}

(* Processes are p1 and p2 in every part. *)
Interchangeable == Permutations(Handlers \cup Updates \cup Clients) \cup Permutations(Users)

(* A part that rests is in one of its initial states. *)
Init ==
    /\ part \in {"mirrors", "flags", "tasks", "images"}
    /\ CatalogInit /\ SchedulerInit /\ LibraryInit
    /\ part = "flags" \/ open
    /\ part = "tasks" \/ stored = Defaults

(* Sign-ups, creations and deletions, while sources come, rest and go. *)
Mirrors ==
    /\ part = "mirrors"
    /\ CatalogNext
    /\ open' /\ invited' = {}
    /\ \A r \in Services : service'[r] # "disabled"

(* The same beside the flag of the MANAGED service and invites. *)
Flags == part = "flags" /\ CatalogNext /\ \A u \in Users : source'[u].status \notin {"disabled", "cancelling"}

Next ==
    \/ (Mirrors \/ Flags) /\ UNCHANGED <<part, schedulerVars, libraryVars>>
    \/ part = "tasks" /\ SchedulerNext /\ UNCHANGED <<part, catalogVars, libraryVars>>
    \/ part = "images" /\ LibraryNext /\ UNCHANGED <<part, catalogVars, schedulerVars>>

Spec == Init /\ [][Next]_adminVars

(* Types of all variables, of the parts that move and of those that rest. *)
AdministrationTypeOK == CatalogTypeOK /\ SchedulerTypeOK /\ LibraryTypeOK

=============================================================================
