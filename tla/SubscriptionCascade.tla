------------------------ MODULE SubscriptionCascade ------------------------
(***************************************************************************)
(* One user's subscription to a MANAGED service (the source) and the       *)
(* derived subscription to a REFERENCED service that draws on it.          *)
(*                                                                         *)
(* Users and admins act on the source; SubscriptionCascadeService then     *)
(* carries the change over to the derived row, in later awaits.  Each      *)
(* action is the code between two awaits that touch a row or the event     *)
(* bus.  Vendor calls change neither row and are left out here; the module *)
(* SubscriptionLifecycle has them.                                         *)
(***************************************************************************)
EXTENDS Integers, FiniteSets

CONSTANTS
    Procs,          \* requests and task runs that may be in flight together
    Rows,           \* ids of source rows (uuids, never reused)
    None,           \* no row, SQL null
    Period,         \* length of a subscription (30 days)
    MaxTime,        \* bound: the clock stops here
    MaxExpiry,      \* bound: admins stop renewing a row that runs this long
    Ops,            \* operations that are explored
    Failures        \* what may fail: "await" (it rejects), "crash" (a restart)

ASSUME CascadeConstants ==
    /\ Period \in Nat \ {0}
    /\ MaxTime \in Nat
    /\ MaxExpiry \in Nat
    /\ Failures \subseteq {"await", "crash"}
    /\ None \notin Rows

VARIABLES
    now,        \* the clock
    row,        \* the two subscription rows of the user
    used,       \* ids of source rows handed out so far
    allowed,    \* canSubscribe(user, the referenced service)
    pending,    \* an event was emitted and its listeners have not run
    proc        \* proc[p]: program counter and locals of the handler

cascadeVars == <<now, row, used, allowed, pending, proc>>

Targets == {"source", "derived"}

Statuses ==
    {"none", "provisioning", "active", "disabling", "disabled", "enabling",
     "cancelling", "expired", "failed"}

FailedOperations == {"provisioning", "cancellation", "expiration"}

(* id: of the source row its own id; of the derived row the id of the row it *)
(* derives from (derivedFromSubscriptionId).                                 *)
Row == [id : Rows \cup {None}, status : Statuses, expiresAt : Nat, autoRenew : BOOLEAN,
        failedOp : FailedOperations \cup {"none"}]

NoRow == [id |-> None, status |-> "none", expiresAt |-> 0, autoRenew |-> FALSE,
          failedOp |-> "none"]

Kinds == {"none", "subscribe", "cancel", "disable", "enable", "suspend", "retry",
          "renew", "process", "allow", "deny", "unset"}

Pcs == {"idle", "upsert", "activate", "announce", "announcePolicy", "readSource", "existing",
        "derive", "mark", "remove", "settle", "extend", "find", "propagate", "next"}

(* One row of a task's snapshot that is still to be worked on.               *)
Item == [target : Targets, until : Nat, renew : BOOLEAN]

(* goal: the status to write; until: the expiry that was read or computed;   *)
(* src: the source row as read or as the last write returned it; found: the  *)
(* derived row that was read; rest: what is left of a task's snapshot.       *)
Proc == [pc : Pcs, kind : Kinds, target : Targets, goal : Statuses, until : Nat,
         src : Row, found : Row, rest : SUBSET Item]

IdleProc == [pc |-> "idle", kind |-> "none", target |-> "source", goal |-> "none",
             until |-> 0, src |-> NoRow, found |-> NoRow, rest |-> {}]

-----------------------------------------------------------------------------

IsRow(r) == r.status # "none"

Exists(t) == IsRow(row[t])

(* isCurrentlyActive *)
CurrentlyActive(r) == r.status = "active" /\ r.expiresAt > now

ResubscribeAllowed(r) ==
    r.status = "expired" \/ (r.status = "failed" /\ r.failedOp = "provisioning")

Earliest(a, b) == IF a <= b THEN a ELSE b

CascadeInit ==
    /\ now = 0
    /\ row = [t \in Targets |-> NoRow]
    /\ used = {}
    /\ allowed = TRUE
    /\ pending = FALSE
    /\ proc = [p \in Procs |-> IdleProc]

At(p, pc) == proc[p].pc = pc

Goto(p, pc) == proc' = [proc EXCEPT ![p].pc = pc]

Done(p) == proc' = [proc EXCEPT ![p] = IdleProc]

(* Where a handler goes when the cascade, or a row of its snapshot, is done. *)
Continue(p) ==
    CASE proc[p].kind \in {"process", "suspend"} -> Goto(p, "next")
      [] proc[p].kind \in {"disable", "enable"} -> Goto(p, "announce")
      [] OTHER -> Done(p)

(* A request of the given kind for row t starts.                             *)
Start(p, op, kind, t, pc, goal, until) ==
    /\ At(p, "idle")
    /\ op \in Ops
    /\ proc' = [proc EXCEPT ![p] =
                  [IdleProc EXCEPT !.kind = kind, !.pc = pc, !.target = t, !.goal = goal, !.until = until]]

(* Mutant: the failure is recorded under the name of the request. *)
CatchNamingRequest(kind) == IF kind \in {"subscribe", "cancel", "disable", "enable"} THEN kind ELSE "none"

(* The catch blocks: what each handler records when an await of its try      *)
(* block rejects; the others only rethrow.                                   *)
CatchOperation(kind) ==
    CASE kind = "subscribe" -> "provisioning"
      [] kind \in {"cancel", "disable", "enable"} -> "cancellation"
      [] kind = "process" -> "expiration"
      [] OTHER -> "none"

(* markSubscriptionFailed writes by (userId, serviceId) and throws again     *)
(* when there is no such row; processSubscriptions goes on with its next row *)
(* unless that happens.                                                      *)
Throw(p) ==
    LET q == proc[p]
        caught == CatchOperation(q.kind) # "none" /\ q.pc # "upsert" /\ Exists(q.target)
    IN
    /\ row' = IF caught
              THEN [row EXCEPT ![q.target].status = "failed",
                               ![q.target].failedOp = CatchOperation(q.kind)]
              ELSE row
    /\ IF caught /\ q.kind = "process" THEN Goto(p, "next") ELSE Done(p)

-----------------------------------------------------------------------------
(* subscribe, which only the source service accepts *)

SubscribeRead(p) ==
    /\ Exists("source") => ResubscribeAllowed(row["source"])
    /\ At(p, "idle")
    /\ "subscribe" \in Ops
    /\ proc' = [proc EXCEPT ![p] =
                  [IdleProc EXCEPT !.kind = "subscribe", !.pc = "upsert", !.src = row["source"]]]
    /\ UNCHANGED <<now, row, used, allowed, pending>>

(* upsertProvisioning: an insert fails when a row was created meanwhile, an  *)
(* update when the row was deleted meanwhile.                                *)
UpsertProvisioning(p) ==
    LET fresh == ~IsRow(proc[p].src)
        written(r, auto) == [r EXCEPT !.status = "provisioning", !.expiresAt = now + Period,
                                      !.autoRenew = auto]
    IN
    /\ At(p, "upsert")
    /\ \/ /\ fresh /\ ~Exists("source")
          /\ \E id \in Rows \ used, auto \in BOOLEAN :
                /\ row' = [row EXCEPT !["source"] = written([NoRow EXCEPT !.id = id], auto)]
                /\ used' = used \cup {id}
          /\ Goto(p, "activate")
       \/ /\ ~fresh /\ Exists("source")
          /\ \E auto \in BOOLEAN : row' = [row EXCEPT !["source"] = written(@, auto)]
          /\ Goto(p, "activate")
          /\ UNCHANGED used
       \/ /\ fresh = Exists("source")
          /\ Done(p)
          /\ UNCHANGED <<row, used>>
    /\ UNCHANGED <<now, allowed, pending>>

Activate(p) ==
    /\ At(p, "activate")
    /\ \/ /\ Exists("source")
          /\ row' = [row EXCEPT !["source"].status = "active", !["source"].failedOp = "none"]
          /\ proc' = [proc EXCEPT ![p].pc = "announce", ![p].src = row'["source"]]
       \/ /\ ~Exists("source")
          /\ Throw(p)
    /\ UNCHANGED <<now, used, allowed, pending>>

(* SUBSCRIPTION_CHANGED.  subscribe emits it before it runs the cascade, the *)
(* other handlers as the last thing they do.                                 *)
Announce(p) ==
    /\ At(p, "announce")
    /\ pending' = TRUE
    /\ IF proc[p].kind = "subscribe" THEN Goto(p, "existing") ELSE Done(p)
    /\ UNCHANGED <<now, row, used, allowed>>

(* onActivated and activateFromPolicy look for the derived row ...           *)
FindExisting(p) ==
    /\ At(p, "existing")
    /\ proc' = [proc EXCEPT ![p].found = row["derived"], ![p].pc = "derive"]
    /\ UNCHANGED <<now, row, used, allowed, pending>>

(* Mutant: no foreign key from the derived row to its source.                *)
MirrorUnchecked(p) == IsRow(proc[p].found) <=> Exists("derived")

(* The foreign key needs the source row, the insert needs the place to be    *)
(* free, the update needs the row.                                           *)
MirrorAccepted(p) ==
    /\ row["source"].id = proc[p].src.id
    /\ IsRow(proc[p].found) <=> Exists("derived")

(* ... and then update or create it, as a mirror of the source row they      *)
(* hold.                                                                     *)
Derive(p) ==
    LET src == proc[p].src
        old == IF IsRow(proc[p].found) THEN row["derived"] ELSE NoRow
    IN
    /\ At(p, "derive")
    /\ \/ /\ MirrorAccepted(p)
          /\ row' = [row EXCEPT !["derived"] =
                        [old EXCEPT !.id = src.id, !.status = "active",
                                    !.expiresAt = src.expiresAt, !.autoRenew = src.autoRenew]]
          /\ IF proc[p].kind = "allow" THEN Goto(p, "announce") ELSE Done(p)
       \/ /\ ~MirrorAccepted(p)
          /\ Throw(p)
    /\ UNCHANGED <<now, used, allowed, pending>>

-----------------------------------------------------------------------------
(* delete: refused for the derived service *)

CancelRead(p) ==
    /\ CurrentlyActive(row["source"])
    /\ Start(p, "cancel", "cancel", "source", "mark", "none", 0)
    /\ UNCHANGED <<now, row, used, allowed, pending>>

TransitionalStatus(kind) ==
    CASE kind = "cancel" -> "cancelling"
      [] kind = "disable" -> "disabling"
      [] OTHER -> "enabling"

MarkTransition(p) ==
    LET q == proc[p]
    IN
    /\ At(p, "mark")
    /\ \/ /\ Exists(q.target)
          /\ row' = [row EXCEPT ![q.target].status = TransitionalStatus(q.kind)]
          /\ Goto(p, IF q.kind = "cancel" THEN "remove" ELSE "settle")
       \/ /\ ~Exists(q.target)
          /\ Throw(p)
    /\ UNCHANGED <<now, used, allowed, pending>>

(* The foreign key of the derived row deletes it with its source.            *)
RemoveRow(p) ==
    LET t == proc[p].target
    IN
    /\ At(p, "remove")
    /\ \/ /\ Exists(t)
          /\ row' = IF t = "source" THEN [u \in Targets |-> NoRow] ELSE [row EXCEPT ![t] = NoRow]
          /\ IF proc[p].kind = "cancel" THEN Goto(p, "announce") ELSE Done(p)
       \/ /\ ~Exists(t)
          /\ Throw(p)
    /\ UNCHANGED <<now, used, allowed, pending>>

-----------------------------------------------------------------------------
(* setDisabledStatus, disableAllForUser, retryFailedOperation *)

DisableRead(p, t) ==
    /\ CurrentlyActive(row[t])
    /\ Start(p, IF t = "source" THEN "disable" ELSE "disableDerived", "disable", t, "mark", "disabled", 0)
    /\ UNCHANGED <<now, row, used, allowed, pending>>

EnableRead(p, t) ==
    /\ row[t].status = "disabled"
    /\ Start(p, IF t = "source" THEN "enable" ELSE "enableDerived", "enable", t, "mark", "active", 0)
    /\ UNCHANGED <<now, row, used, allowed, pending>>

RetryRead(p, t) ==
    /\ row[t].status = "failed"
    /\ \/ /\ row[t].failedOp = "cancellation"
          /\ Start(p, "retry", "retry", t, "remove", "none", 0)
       \/ /\ row[t].failedOp = "expiration"
          /\ Start(p, "retry", "retry", t, "settle", "expired", 0)
    /\ UNCHANGED <<now, row, used, allowed, pending>>

(* The status is written by (userId, serviceId).  disable, enable and the    *)
(* expiry cascade from the row that the write returns; disableAllForUser and *)
(* the retry do not.                                                         *)
Settle(p) ==
    LET q == proc[p]
    IN
    /\ At(p, "settle")
    /\ \/ /\ Exists(q.target)
          /\ row' = [row EXCEPT
                       ![q.target].status = q.goal,
                       ![q.target].failedOp = IF q.kind = "retry" THEN "none" ELSE @,
                       ![q.target].autoRenew = IF q.kind = "suspend" THEN FALSE ELSE @]
          /\ IF q.kind \in {"disable", "enable", "process"}
             THEN proc' = [proc EXCEPT ![p].pc = "find", ![p].src = row'[q.target]]
             ELSE Continue(p)
       \/ /\ ~Exists(q.target)
          /\ Throw(p)
    /\ UNCHANGED <<now, used, allowed, pending>>

(* findDerived: nothing derives from a derived row.                          *)
FindDerived(p) ==
    LET q == proc[p]
        derives == q.target = "source" /\ Exists("derived") /\ row["derived"].id = q.src.id
    IN
    /\ At(p, "find")
    /\ proc' = [proc EXCEPT ![p].found = IF derives THEN row["derived"] ELSE NoRow,
                            ![p].pc = "propagate"]
    /\ UNCHANGED <<now, row, used, allowed, pending>>

(* Mutant: a reactivation clamps the expiry and forgets the status.          *)
PropagatedExpiryOnly(p, old) ==
    LET q == proc[p]
        clamped == Earliest(q.found.expiresAt, q.src.expiresAt)
    IN
    CASE q.goal \in {"disabled", "expired"} -> [old EXCEPT !.status = q.goal]
      [] OTHER -> [old EXCEPT !.expiresAt = clamped]

(* onDeactivated, onReactivated, onExpiryChanged: the derived row after the  *)
(* cascade, whose expiry is clamped to the one that was read.                *)
Propagated(p, old) ==
    LET q == proc[p]
        clamped == Earliest(q.found.expiresAt, q.src.expiresAt)
    IN
    CASE q.kind = "enable" -> [old EXCEPT !.status = "active", !.expiresAt = clamped]
      [] q.kind # "enable" /\ q.goal # "none" -> [old EXCEPT !.status = q.goal]
      [] q.kind # "enable" /\ q.goal = "none" ->
            [old EXCEPT !.expiresAt = IF clamped # q.found.expiresAt THEN q.src.expiresAt ELSE @]

Propagate(p) ==
    /\ At(p, "propagate")
    /\ \/ /\ IsRow(proc[p].found) => Exists("derived")
          /\ row' = IF IsRow(proc[p].found)
                    THEN [row EXCEPT !["derived"] = Propagated(p, @)]
                    ELSE row
          /\ Continue(p)
       \/ /\ IsRow(proc[p].found) /\ ~Exists("derived")
          /\ Throw(p)
    /\ UNCHANGED <<now, used, allowed, pending>>

-----------------------------------------------------------------------------
(* renew and auto-renewal *)

RenewRead(p, t) ==
    LET r == row[t]
        base == IF r.expiresAt > now THEN r.expiresAt ELSE now
    IN
    /\ Exists(t)
    /\ r.expiresAt < MaxExpiry
    /\ Start(p, IF t = "source" THEN "renew" ELSE "renewDerived", "renew", t, "extend", "none", base + Period)
    /\ UNCHANGED <<now, row, used, allowed, pending>>

Extend(p) ==
    LET q == proc[p]
    IN
    /\ At(p, "extend")
    /\ \/ /\ Exists(q.target)
          /\ row' = [row EXCEPT ![q.target].expiresAt =
                        IF q.kind = "process" THEN q.until + Period ELSE q.until]
          /\ proc' = [proc EXCEPT ![p].pc = "find", ![p].src = row'[q.target]]
       \/ /\ ~Exists(q.target)
          /\ Throw(p)
    /\ UNCHANGED <<now, used, allowed, pending>>

(* The owner or an admin for the source, an admin for the derived row.       *)
SetAutoRenew(t) ==
    /\ "autoRenew" \in Ops
    /\ Exists(t)
    /\ row' = [row EXCEPT ![t].autoRenew = ~@]
    /\ UNCHANGED <<now, used, allowed, pending, proc>>

-----------------------------------------------------------------------------
(* The runs that work through a snapshot of the user's active rows. *)

(* processSubscriptions skips the rows whose expiry is still ahead.          *)
ProcessRead(p) ==
    LET due == {t \in Targets : row[t].status = "active" /\ row[t].expiresAt <= now}
    IN
    /\ At(p, "idle")
    /\ "process" \in Ops
    /\ due # {}
    /\ proc' = [proc EXCEPT ![p] =
                  [IdleProc EXCEPT !.kind = "process", !.pc = "next",
                                   !.rest = {[target |-> t, until |-> row[t].expiresAt,
                                              renew |-> row[t].autoRenew] : t \in due}]]
    /\ UNCHANGED <<now, row, used, allowed, pending>>

(* disableAllForUser takes every active row, and stops auto-renewal.         *)
SuspendRead(p) ==
    LET active == {t \in Targets : row[t].status = "active"}
    IN
    /\ At(p, "idle")
    /\ "suspend" \in Ops
    /\ active # {}
    /\ proc' = [proc EXCEPT ![p] =
                  [IdleProc EXCEPT !.kind = "suspend", !.pc = "next",
                                   !.rest = {[target |-> t, until |-> 0, renew |-> FALSE] : t \in active}]]
    /\ UNCHANGED <<now, row, used, allowed, pending>>

(* The next row of the snapshot, in the order in which the database returned *)
(* them.                                                                     *)
NextRow(p) ==
    LET q == proc[p]
    IN
    /\ At(p, "next")
    /\ \/ /\ q.rest = {}
          /\ Done(p)
       \/ \E item \in q.rest :
             proc' = [proc EXCEPT ![p] =
                        [q EXCEPT !.rest = @ \ {item}, !.target = item.target, !.until = item.until,
                                  !.pc = IF item.renew THEN "extend" ELSE "settle",
                                  !.goal = IF item.renew THEN "none"
                                           ELSE IF q.kind = "process" THEN "expired" ELSE "disabled"]]
    /\ UNCHANGED <<now, row, used, allowed, pending>>

-----------------------------------------------------------------------------
(* setPolicy and deletePolicy for the referenced service *)

(* Effects: ALLOW, DENY, or no policy, which leaves the service's default.   *)
(* DENY goes on to delete the subscription, which a REFERENCED service       *)
(* refuses: the policy stays, the request fails.                             *)
SetPolicy(p, kind) ==
    /\ Start(p, "policy", kind, "derived", "announcePolicy", "none", 0)
    /\ allowed' = (kind # "deny")
    /\ UNCHANGED <<now, row, used, pending>>

AnnouncePolicy(p) ==
    /\ At(p, "announcePolicy")
    /\ pending' = TRUE
    /\ IF proc[p].kind = "allow" THEN Goto(p, "readSource") ELSE Done(p)
    /\ UNCHANGED <<now, row, used, allowed>>

(* activateFromPolicy: nothing to grant unless the source is active.         *)
ReadSource(p) ==
    /\ At(p, "readSource")
    /\ IF CurrentlyActive(row["source"])
       THEN proc' = [proc EXCEPT ![p].src = row["source"], ![p].pc = "existing"]
       ELSE Done(p)
    /\ UNCHANGED <<now, row, used, allowed, pending>>

-----------------------------------------------------------------------------

AwaitRejects(p) ==
    /\ "await" \in Failures
    /\ proc[p].pc \notin {"idle", "next", "announce", "announcePolicy"}
    /\ Throw(p)
    /\ UNCHANGED <<now, used, allowed, pending>>

(* The server stops: handlers and undelivered events are gone, rows stay.    *)
Restart ==
    /\ "crash" \in Failures
    /\ proc' = [p \in Procs |-> IdleProc]
    /\ pending' = FALSE
    /\ UNCHANGED <<now, row, used, allowed>>

(* EventEmitter runs the asynchronous listeners some time after the emit;    *)
(* the listeners of all events emitted by then run one after the other.      *)
Deliver ==
    /\ pending
    /\ pending' = FALSE
    /\ UNCHANGED <<now, row, used, allowed, proc>>

Tick ==
    /\ now < MaxTime
    /\ now' = now + 1
    /\ UNCHANGED <<row, used, allowed, pending, proc>>

(* Every step of the handlers, which are all that write the rows.            *)
CascadeStep ==
    \/ \E p \in Procs :
          \/ SubscribeRead(p) \/ UpsertProvisioning(p) \/ Activate(p) \/ Announce(p)
          \/ FindExisting(p) \/ Derive(p)
          \/ CancelRead(p) \/ MarkTransition(p) \/ RemoveRow(p)
          \/ \E t \in Targets : DisableRead(p, t) \/ EnableRead(p, t) \/ RetryRead(p, t) \/ RenewRead(p, t)
          \/ Settle(p) \/ FindDerived(p) \/ Propagate(p) \/ Extend(p)
          \/ ProcessRead(p) \/ SuspendRead(p) \/ NextRow(p)
          \/ \E kind \in {"allow", "deny", "unset"} : SetPolicy(p, kind)
          \/ AnnouncePolicy(p) \/ ReadSource(p)
          \/ AwaitRejects(p)
    \/ \E t \in Targets : SetAutoRenew(t)

CascadeNext == CascadeStep \/ Deliver \/ Restart \/ Tick

CascadeSpec == CascadeInit /\ [][CascadeNext]_cascadeVars

-----------------------------------------------------------------------------

CascadeTypeOK ==
    /\ now \in Nat
    /\ row \in [Targets -> Row]
    /\ used \subseteq Rows
    /\ allowed \in BOOLEAN
    /\ pending \in BOOLEAN
    /\ proc \in [Procs -> Proc]

Quiet == \A p \in Procs : At(p, "idle")

(* What the cascade is for: when no handler is in flight and neither row is  *)
(* in an error, the derived row has the status of its source, unless it ran  *)
(* out before a source that was renewed meanwhile.                           *)
Mirrors ==
    /\ Quiet
    /\ row["source"].status \in {"active", "disabled", "expired"}
    /\ row["derived"].status # "failed"
    =>
        \/ row["derived"].status = row["source"].status
        \/ row["derived"].status = "expired" /\ row["derived"].expiresAt <= now

(* onExpiryChanged "Re-clamps derived expiry after the source renews or      *)
(* expires": when no handler is in flight, the derived row does not run      *)
(* longer than an expired source.                                            *)
ClampedOnceExpired ==
    Quiet /\ row["source"].status = "expired" =>
        row["derived"].expiresAt <= row["source"].expiresAt

(* onReactivated "Restores derived subscriptions when the source becomes     *)
(* active again": with no handler in flight an active source whose period    *)
(* runs has no derived row that is still disabled.                           *)
RestoredWithSource ==
    Quiet /\ CurrentlyActive(row["source"]) => row["derived"].status # "disabled"

(* The derived row never names a source row that is gone: it goes with its   *)
(* source, also when the cascade of a sign-up is still to write it while a   *)
(* cancellation deletes the source and a later sign-up brings a new one.     *)
NoOrphan == Exists("derived") => row["derived"].id = row["source"].id

=============================================================================
