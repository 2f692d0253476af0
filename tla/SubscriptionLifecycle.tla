------------------------ MODULE SubscriptionLifecycle ------------------------
(***************************************************************************)
(* One user's subscription to one MANAGED service, and the accounts that   *)
(* the service's vendor (Jellyfin, Immich) keeps for that user.            *)
(*                                                                         *)
(* Handlers of SubscriptionService and runs of the scheduled tasks of      *)
(* SubscriptionLifecycleService interleave at every await.  A process is   *)
(* one of them at a time: each action below is the code between two awaits *)
(* that touch the row or the vendor.  Rows are written by                  *)
(* (userId, serviceId), so a handler that read one row may write the row   *)
(* that has replaced it: rows carry an id to tell the two apart.           *)
(*                                                                         *)
(* The first linked account stands for all of a subscription's accounts.   *)
(* A guard that fails makes the request an error answer with no effect,    *)
(* and is simply a disabled action here.                                   *)
(***************************************************************************)
EXTENDS Integers, FiniteSets

CONSTANTS
    Procs,          \* requests and task runs that may be in flight together
    Accounts,       \* ids the vendor may mint
    Rows,           \* ids of subscription rows (uuids, never reused)
    None,           \* no row, no account, SQL null
    Period,         \* length of a subscription (30 days)
    MaxTime,        \* bound: the clock stops here
    MaxExpiry,      \* bound: admins stop renewing a row that runs this long
    Ops,            \* operations that are explored
    Failures,       \* failures that are explored
    OthersLinked    \* TRUE when other users have linked accounts at the vendor

FailedOperations == {"provisioning", "cancellation", "expiration", "sync"}

FailureKinds == {"await", "unseen", "crash", "drift"}

ASSUME LifecycleConstants ==
    /\ Period \in Nat \ {0}
    /\ MaxTime \in Nat
    /\ MaxExpiry \in Nat
    /\ Failures \subseteq FailureKinds
    /\ OthersLinked \in BOOLEAN
    /\ None \notin Accounts /\ None \notin Rows /\ None \notin FailedOperations

VARIABLES
    now,        \* the clock
    sub,        \* the subscription row of the user for the service
    used,       \* row ids handed out so far
    vendor,     \* vendor[a]: state of account a at the vendor
    allowed,    \* canSubscribe: the access policy, or the service's default
    proc,       \* proc[p]: program counter and locals of the handler
    asked       \* history: rows somebody asked to cancel

vars == <<now, sub, used, vendor, allowed, proc, asked>>

Statuses ==
    {"none", "provisioning", "active", "disabling", "disabled", "enabling",
     "cancelling", "cancelled", "expired", "failed"}

Row == [id : Rows \cup {None}, status : Statuses, expiresAt : Nat, autoRenew : BOOLEAN,
        failedOp : FailedOperations \cup {None}, account : Accounts \cup {None}]

NoRow == [id |-> None, status |-> "none", expiresAt |-> 0, autoRenew |-> FALSE,
          failedOp |-> None, account |-> None]

AccountStates == {"free", "on", "off", "gone"}

Kinds == {"none", "subscribe", "cancel", "disable", "enable", "suspend", "retry",
          "renew", "process", "sync", "cleanup"}

Pcs == {"idle", "upsert", "provision", "link", "activate", "cascade",
        "mark", "context", "deprovision", "remove",
        "vendorDisable", "prune", "vendorEnable", "settle", "probe",
        "extend", "list", "reconcile", "flag", "sweep"}

(* row: the id of the row that was read; account: the account to work on;    *)
(* goal: the status to write, or for sync and cleanup the status that was    *)
(* read; until: the expiry that was read or computed; ext: getAllUsers.      *)
Proc == [pc : Pcs, kind : Kinds, row : Rows \cup {None}, account : Accounts \cup {None},
         goal : Statuses, until : Nat, ext : [Accounts -> AccountStates]]

NothingSeen == [a \in Accounts |-> "free"]

IdleProc == [pc |-> "idle", kind |-> "none", row |-> None, account |-> None,
             goal |-> "none", until |-> 0, ext |-> NothingSeen]

-----------------------------------------------------------------------------

Exists == sub.id # None

CurrentlyActive == sub.status = "active" /\ sub.expiresAt > now

Present(state) == state \in {"on", "off"}

ResubscribeAllowed ==
    \/ sub.status \in {"cancelled", "expired"}
    \/ sub.status = "failed" /\ sub.failedOp = "provisioning"

(* externalAccountRepository.findBySubscriptionId for the row the handler read *)
LinkedTo(id) == IF Exists /\ sub.id = id THEN sub.account ELSE None

Init ==
    /\ now = 0
    /\ sub = NoRow
    /\ used = {}
    /\ vendor = [a \in Accounts |-> "free"]
    /\ allowed = TRUE
    /\ proc = [p \in Procs |-> IdleProc]
    /\ asked = {}

At(p, pc) == proc[p].pc = pc

Goto(p, pc) == proc' = [proc EXCEPT ![p].pc = pc]

Done(p) == proc' = [proc EXCEPT ![p] = IdleProc]

(* A handler of the given kind starts, having read the row.                  *)
Start(p, kind, pc, account, goal, until) ==
    /\ At(p, "idle")
    /\ kind \in Ops
    /\ proc' = [proc EXCEPT ![p] =
                  [IdleProc EXCEPT !.kind = kind, !.pc = pc, !.row = sub.id,
                                   !.account = account, !.goal = goal, !.until = until]]

(* Mutant: the catch stores the request's name, which is no FailedOperation. *)
CatchNamingRequest(kind) == IF kind \in {"subscribe", "cancel"} THEN kind ELSE None

(* The catch blocks: what each handler writes when an await of its try       *)
(* block rejects.  retry, renew, sync, cleanup only rethrow.                 *)
CatchOperation(kind) ==
    CASE kind = "subscribe" -> "provisioning"
      [] kind \in {"cancel", "disable", "enable"} -> "cancellation"
      [] kind = "process" -> "expiration"
      [] OTHER -> None

(* Mutant: the catch block only rethrows. *)
RowLeftAsItIs(p) == sub

(* The row after the catch block (markSubscriptionFailed): by (userId, serviceId), *)
(* and when there is no such row the catch throws again and nothing is written.    *)
RowAfterThrow(p) ==
    IF Exists /\ CatchOperation(proc[p].kind) # None /\ ~At(p, "upsert")
    THEN [sub EXCEPT !.status = "failed", !.failedOp = CatchOperation(proc[p].kind)]
    ELSE sub

Throw(p) == sub' = RowAfterThrow(p) /\ Done(p)

-----------------------------------------------------------------------------
(* subscribe *)

(* The reads and the checks, validate() included.  The linked account is     *)
(* reused when the vendor still shows it; a vendor that does not answer      *)
(* shows nothing.  The request names a user name that the vendor has free.   *)
SubscribeRead(p) ==
    /\ allowed
    /\ Exists => ResubscribeAllowed
    /\ \/ /\ sub.account # None
          /\ Present(vendor[sub.account])
          /\ Start(p, "subscribe", "upsert", sub.account, "active", 0)
       \/ /\ sub.account # None /\ Present(vendor[sub.account]) => "unseen" \in Failures
          /\ Start(p, "subscribe", "upsert", None, "active", 0)
    /\ UNCHANGED <<now, sub, used, vendor, allowed, asked>>

(* upsertProvisioning, outside the try block: a row created meanwhile breaks *)
(* the unique key, a row deleted meanwhile cannot be updated.                *)
UpsertProvisioning(p) ==
    LET fresh == proc[p].row = None
        written(r, auto) == [r EXCEPT !.status = "provisioning", !.expiresAt = now + Period,
                                      !.autoRenew = auto]
    IN
    /\ At(p, "upsert")
    /\ \/ /\ fresh /\ ~Exists
          /\ \E id \in Rows \ used, auto \in BOOLEAN :
                /\ sub' = written([NoRow EXCEPT !.id = id], auto)
                /\ used' = used \cup {id}
          /\ proc' = [proc EXCEPT ![p].pc = "provision", ![p].row = sub'.id]
       \/ /\ ~fresh /\ Exists
          /\ \E auto \in BOOLEAN : sub' = written(sub, auto)
          /\ proc' = [proc EXCEPT ![p].pc = "provision", ![p].row = sub'.id]
          /\ UNCHANGED used
       \/ /\ fresh = Exists
          /\ Done(p)
          /\ UNCHANGED <<sub, used>>
    /\ UNCHANGED <<now, vendor, allowed, asked>>

(* provision(): enable the account found by validate(), or create one.  The  *)
(* vendor may create the account and still answer with an error.             *)
Provision(p) ==
    LET reused == proc[p].account
    IN
    /\ At(p, "provision")
    /\ \/ /\ reused # None
          /\ Present(vendor[reused])
          /\ vendor' = [vendor EXCEPT ![reused] = "on"]
          /\ Goto(p, "link")
          /\ UNCHANGED sub
       \/ /\ reused # None
          /\ ~Present(vendor[reused])
          /\ Throw(p)
          /\ UNCHANGED vendor
       \/ /\ reused = None
          /\ \E a \in Accounts :
                /\ vendor[a] = "free"
                /\ vendor' = [vendor EXCEPT ![a] = "on"]
                /\ \/ /\ proc' = [proc EXCEPT ![p].pc = "link", ![p].account = a]
                      /\ UNCHANGED sub
                   \/ "await" \in Failures /\ Throw(p)
    /\ UNCHANGED <<now, used, allowed, asked>>

(* upsertExternalAccount: a foreign key on the row that upsertProvisioning   *)
(* returned; an account linked before is overwritten.                        *)
LinkAccount(p) ==
    /\ At(p, "link")
    /\ \/ /\ Exists /\ sub.id = proc[p].row
          /\ sub' = [sub EXCEPT !.account = proc[p].account]
          /\ Goto(p, "activate")
       \/ /\ ~(Exists /\ sub.id = proc[p].row)
          /\ Throw(p)
    /\ UNCHANGED <<now, used, vendor, allowed, asked>>

Activate(p) ==
    /\ At(p, "activate")
    /\ \/ /\ Exists
          /\ sub' = [sub EXCEPT !.status = "active", !.failedOp = None]
          /\ Goto(p, "cascade")
       \/ /\ ~Exists
          /\ Throw(p)
    /\ UNCHANGED <<now, used, vendor, allowed, asked>>

(* The cascade to derived subscriptions, which closes several try blocks.    *)
Cascade(p) ==
    /\ At(p, "cascade")
    /\ Done(p)
    /\ UNCHANGED <<now, sub, used, vendor, allowed, asked>>

-----------------------------------------------------------------------------
(* delete, and the DENY branch of setPolicy that calls it *)

CancelRead(p) ==
    /\ CurrentlyActive
    /\ Start(p, "cancel", "mark", None, "none", 0)
    /\ UNCHANGED <<now, sub, used, vendor, allowed, asked>>

(* setPolicy: the policy is stored; DENY cancels a subscription that is      *)
(* active at that moment, ALLOW does nothing for a MANAGED service.          *)
SetPolicy(p) ==
    /\ At(p, "idle")
    /\ "policy" \in Ops
    /\ allowed' = ~allowed
    /\ IF allowed /\ CurrentlyActive
       THEN proc' = [proc EXCEPT ![p] = [IdleProc EXCEPT !.kind = "cancel", !.pc = "mark", !.row = sub.id]]
       ELSE UNCHANGED proc
    /\ UNCHANGED <<now, sub, used, vendor, asked>>

(* The transitional status, first write of delete and of setDisabledStatus.  *)
TransitionalStatus(kind) ==
    CASE kind = "cancel" -> "cancelling"
      [] kind = "disable" -> "disabling"
      [] OTHER -> "enabling"

MarkTransition(p) ==
    LET kind == proc[p].kind
        next == CASE kind = "cancel" -> "context"
                  [] kind = "disable" -> "vendorDisable"
                  [] OTHER -> "prune"
    IN
    /\ At(p, "mark")
    /\ \/ /\ Exists
          /\ sub' = [sub EXCEPT !.status = TransitionalStatus(kind)]
          /\ Goto(p, next)
       \/ /\ ~Exists
          /\ Throw(p)
    /\ asked' = IF kind = "cancel" THEN asked \cup {proc[p].row} ELSE asked
    /\ UNCHANGED <<now, used, vendor, allowed>>

(* buildLifecycleContext: the accounts linked to the row that was read.      *)
BuildContext(p) ==
    /\ At(p, "context")
    /\ proc' = [proc EXCEPT ![p].account = LinkedTo(proc[p].row),
                            ![p].pc = IF proc[p].kind = "cancel" THEN "deprovision" ELSE "vendorDisable"]
    /\ UNCHANGED <<now, sub, used, vendor, allowed, asked>>

(* accountStatus(): what getUser shows of account a.  Every error of the     *)
(* vendor looks like a missing account.                                      *)
Probes(a) ==
    {IF a # None /\ Present(vendor[a]) THEN vendor[a] ELSE "gone"}
        \cup IF "unseen" \in Failures THEN {"gone"} ELSE {}

(* deprovision(): delete the account unless it looks missing.                *)
Deprovision(p) ==
    LET a == proc[p].account
    IN
    /\ At(p, "deprovision")
    /\ \E seen \in Probes(a) :
          vendor' = IF Present(seen) THEN [vendor EXCEPT ![a] = "gone"] ELSE vendor
    /\ Goto(p, "remove")
    /\ UNCHANGED <<now, sub, used, allowed, asked>>

(* repository.delete by (userId, serviceId); links go with the row.          *)
RemoveRow(p) ==
    /\ At(p, "remove")
    /\ sub' = NoRow
    /\ Done(p)
    /\ UNCHANGED <<now, used, vendor, allowed, asked>>

-----------------------------------------------------------------------------
(* setDisabledStatus, disableAllForUser *)

DisableRead(p) ==
    /\ CurrentlyActive
    /\ Start(p, "disable", "mark", sub.account, "disabled", 0)
    /\ UNCHANGED <<now, sub, used, vendor, allowed, asked>>

EnableRead(p) ==
    /\ sub.status = "disabled"
    /\ Start(p, "enable", "mark", sub.account, "active", 0)
    /\ UNCHANGED <<now, sub, used, vendor, allowed, asked>>

(* disableAllForUser reads the rows that are active, expired ones too.       *)
SuspendRead(p) ==
    /\ sub.status = "active"
    /\ Start(p, "suspend", "context", None, "disabled", 0)
    /\ UNCHANGED <<now, sub, used, vendor, allowed, asked>>

(* disable(): disable the account if it looks active.                        *)
DisableAccount(p) ==
    LET a == proc[p].account
    IN
    /\ At(p, "vendorDisable")
    /\ \E seen \in Probes(a) :
          vendor' = IF seen = "on" THEN [vendor EXCEPT ![a] = "off"] ELSE vendor
    /\ Goto(p, "settle")
    /\ UNCHANGED <<now, sub, used, allowed, asked>>

(* Enabling first drops the link of an account that looks missing; a link    *)
(* that is gone already makes the delete throw.                              *)
PruneLink(p) ==
    LET a == proc[p].account
    IN
    /\ At(p, "prune")
    /\ \E seen \in Probes(a) :
          \/ /\ a # None => Present(seen)
             /\ UNCHANGED sub
             /\ Goto(p, "vendorEnable")
          \/ /\ a # None /\ ~Present(seen) /\ LinkedTo(proc[p].row) # None
             /\ sub' = [sub EXCEPT !.account = None]
             /\ Goto(p, "vendorEnable")
          \/ /\ a # None /\ ~Present(seen) /\ LinkedTo(proc[p].row) = None
             /\ Throw(p)
    /\ UNCHANGED <<now, used, vendor, allowed, asked>>

(* enable(): enable the account if it looks inactive.                        *)
EnableAccount(p) ==
    LET a == proc[p].account
    IN
    /\ At(p, "vendorEnable")
    /\ \E seen \in Probes(a) :
          vendor' = IF seen = "off" THEN [vendor EXCEPT ![a] = "on"] ELSE vendor
    /\ IF proc[p].kind = "retry" THEN Done(p) ELSE Goto(p, "settle")
    /\ UNCHANGED <<now, sub, used, allowed, asked>>

(* The status that the handler works towards is written by (userId,          *)
(* serviceId).  A retry also clears failedOperation and has no cascade; a    *)
(* suspension also stops auto-renewal.                                       *)
SettledRow(p) ==
    [sub EXCEPT !.status = proc[p].goal,
                !.failedOp = IF proc[p].kind = "retry" THEN None ELSE @,
                !.autoRenew = IF proc[p].kind = "suspend" THEN FALSE ELSE @]

Settle(p) ==
    LET retried == proc[p].kind = "retry"
        last == proc[p].kind = "suspend" \/ (retried /\ proc[p].goal # "active")
    IN
    /\ At(p, "settle")
    /\ \/ /\ Exists
          /\ sub' = SettledRow(p)
          /\ IF last THEN Done(p) ELSE Goto(p, IF retried THEN "vendorEnable" ELSE "cascade")
       \/ /\ ~Exists
          /\ Throw(p)
    /\ UNCHANGED <<now, used, vendor, allowed, asked>>

-----------------------------------------------------------------------------
(* retryFailedOperation *)

RetryRead(p) ==
    /\ sub.status = "failed"
    /\ \/ /\ sub.failedOp = "cancellation"
          /\ Start(p, "retry", "deprovision", sub.account, "none", 0)
       \/ /\ sub.failedOp = "expiration"
          /\ Start(p, "retry", "vendorDisable", sub.account, "expired", 0)
       \/ /\ sub.failedOp = "sync"
          /\ Start(p, "retry", "probe", sub.account, "none", 0)
    /\ UNCHANGED <<now, sub, used, vendor, allowed, asked>>

(* A failed sync becomes active again if its account shows up, otherwise     *)
(* cancelled.                                                                *)
ProbeAccount(p) ==
    /\ At(p, "probe")
    /\ \E seen \in Probes(proc[p].account) :
          proc' = [proc EXCEPT ![p].pc = "settle",
                               ![p].goal = IF Present(seen) THEN "active" ELSE "cancelled"]
    /\ UNCHANGED <<now, sub, used, vendor, allowed, asked>>

-----------------------------------------------------------------------------
(* renew, setAutoRenew, update({autoRenew}) *)

(* The new expiry is computed from the row that was read.                    *)
RenewRead(p) ==
    LET base == IF sub.expiresAt > now THEN sub.expiresAt ELSE now
    IN
    /\ Exists
    /\ sub.expiresAt < MaxExpiry
    /\ Start(p, "renew", "extend", None, "none", base + Period)
    /\ UNCHANGED <<now, sub, used, vendor, allowed, asked>>

(* Mutant: the run renews from the row as it finds it, not from its snapshot. *)
ExpiryFromCurrentRow(p) ==
    IF proc[p].kind = "process" THEN sub.expiresAt + Period ELSE proc[p].until

(* The write of renew and of processSubscriptions, which renews from the     *)
(* expiry in its own snapshot.                                               *)
NewExpiry(p) == IF proc[p].kind = "process" THEN proc[p].until + Period ELSE proc[p].until

ExtendRow(p) ==
    /\ At(p, "extend")
    /\ \/ /\ Exists
          /\ sub' = [sub EXCEPT !.expiresAt = NewExpiry(p)]
          /\ Goto(p, "cascade")
       \/ /\ ~Exists
          /\ Throw(p)
    /\ UNCHANGED <<now, used, vendor, allowed, asked>>

SetAutoRenew ==
    /\ "autoRenew" \in Ops
    /\ Exists
    /\ sub' = [sub EXCEPT !.autoRenew = ~@]
    /\ UNCHANGED <<now, used, vendor, allowed, proc, asked>>

-----------------------------------------------------------------------------
(* The scheduled tasks.  runNow may start one beside the cron job's own run. *)

(* Mutant: rows without auto-renewal are left to somebody else. *)
ProcessOnlyRenewing(p) ==
    /\ sub.status = "active" /\ sub.expiresAt <= now /\ sub.autoRenew
    /\ Start(p, "process", "extend", None, "none", sub.expiresAt)
    /\ UNCHANGED <<now, sub, used, vendor, allowed, asked>>

(* processSubscriptions: the snapshot of the active rows; only a row that    *)
(* has run out is worked on.                                                 *)
ProcessRead(p) ==
    /\ sub.status = "active"
    /\ sub.expiresAt <= now
    /\ IF sub.autoRenew
       THEN Start(p, "process", "extend", None, "none", sub.expiresAt)
       ELSE Start(p, "process", "context", None, "expired", 0)
    /\ UNCHANGED <<now, sub, used, vendor, allowed, asked>>

(* loadManagedServiceAccounts: the row and its link.                         *)
TaskLoad(p, kind) ==
    /\ Start(p, kind, "list", sub.account, sub.status, 0)
    /\ UNCHANGED <<now, sub, used, vendor, allowed, asked>>

(* getAllUsers; the task skips the service when the vendor does not answer.  *)
ListAccounts(p) ==
    /\ At(p, "list")
    /\ \/ proc' = [proc EXCEPT ![p].ext = vendor,
                               ![p].pc = IF proc[p].kind = "sync" THEN "reconcile" ELSE "sweep"]
       \/ "unseen" \in Failures /\ Done(p)
    /\ UNCHANGED <<now, sub, used, vendor, allowed, asked>>

(* Mutant: accounts without a local row are left alone. *)
ReconciledKeepingOrphans(p, a) ==
    IF a # proc[p].account THEN proc[p].ext[a]
    ELSE IF proc[p].goal = "active" THEN "on" ELSE "off"

(* What pass 1 of the sync wants of account a: delete it when no local row   *)
(* has it, otherwise follow the status of the row in the snapshot.           *)
Reconciled(p, a) ==
    CASE a # proc[p].account -> "gone"
      [] a = proc[p].account /\ proc[p].goal = "active" -> "on"
      [] OTHER -> "off"

(* syncExternalToLocal works on the accounts that getAllUsers listed, and    *)
(* refuses when HomeGate has no links at all.  A call that the vendor        *)
(* refuses is ignored.                                                       *)
ReconcileVendor(p) ==
    LET refuses == proc[p].account = None /\ ~OthersLinked
        listed == {a \in Accounts : Present(proc[p].ext[a]) /\ ~refuses}
    IN
    /\ At(p, "reconcile")
    /\ \E lost \in IF "await" \in Failures THEN SUBSET listed ELSE {{}} :
          vendor' = [a \in Accounts |->
                        IF a \in listed \ lost /\ Present(vendor[a]) /\ Reconciled(p, a) # proc[p].ext[a]
                        THEN Reconciled(p, a)
                        ELSE vendor[a]]
    /\ Goto(p, "flag")
    /\ UNCHANGED <<now, sub, used, allowed, asked>>

MissingInSnapshot(p) ==
    proc[p].account # None /\ ~Present(proc[p].ext[proc[p].account])

(* syncLocalToExternal: markSubscriptionFailed by (userId, serviceId).       *)
FlagMissing(p) ==
    /\ At(p, "flag")
    /\ sub' = IF proc[p].goal = "active" /\ MissingInSnapshot(p) /\ Exists
              THEN [sub EXCEPT !.status = "failed", !.failedOp = "sync"]
              ELSE sub
    /\ Done(p)
    /\ UNCHANGED <<now, used, vendor, allowed, asked>>

(* cleanupStaleLocalAccounts deletes by (userId, serviceId).                 *)
SweepStale(p) ==
    /\ At(p, "sweep")
    /\ sub' = IF proc[p].goal # "active" /\ MissingInSnapshot(p) THEN NoRow ELSE sub
    /\ Done(p)
    /\ UNCHANGED <<now, used, vendor, allowed, asked>>

-----------------------------------------------------------------------------
(* Failures *)

(* An await rejects: the handler's catch block runs.  disableAllForUser      *)
(* ignores the failure of its vendor calls.                                  *)
AwaitRejects(p) ==
    /\ "await" \in Failures
    /\ ~At(p, "idle")
    /\ IF proc[p].kind = "suspend" /\ proc[p].pc \in {"context", "vendorDisable"}
       THEN Goto(p, "settle") /\ UNCHANGED sub
       ELSE Throw(p)
    /\ UNCHANGED <<now, used, vendor, allowed, asked>>

(* The server stops; whatever was in flight is gone.                         *)
Restart ==
    /\ "crash" \in Failures
    /\ proc' = [p \in Procs |-> IdleProc]
    /\ UNCHANGED <<now, sub, used, vendor, allowed, asked>>

(* Somebody changes an account at the vendor.                                *)
Drift ==
    /\ "drift" \in Failures
    /\ \E a \in Accounts, state \in {"on", "off", "gone"} :
          /\ Present(vendor[a])
          /\ vendor' = [vendor EXCEPT ![a] = state]
    /\ UNCHANGED <<now, sub, used, allowed, proc, asked>>

Tick ==
    /\ now < MaxTime
    /\ now' = now + 1
    /\ UNCHANGED <<sub, used, vendor, allowed, proc, asked>>

-----------------------------------------------------------------------------

Request(p) ==
    \/ SubscribeRead(p) \/ CancelRead(p) \/ SetPolicy(p)
    \/ DisableRead(p) \/ EnableRead(p) \/ SuspendRead(p)
    \/ RetryRead(p) \/ RenewRead(p)

Step(p) ==
    \/ UpsertProvisioning(p) \/ Provision(p) \/ LinkAccount(p) \/ Activate(p) \/ Cascade(p)
    \/ MarkTransition(p) \/ BuildContext(p) \/ Deprovision(p) \/ RemoveRow(p)
    \/ DisableAccount(p) \/ PruneLink(p) \/ EnableAccount(p) \/ Settle(p)
    \/ ProbeAccount(p) \/ ExtendRow(p)
    \/ ListAccounts(p) \/ ReconcileVendor(p) \/ FlagMissing(p) \/ SweepStale(p)

Task(p) == ProcessRead(p) \/ TaskLoad(p, "sync") \/ TaskLoad(p, "cleanup")

Next ==
    \/ \E p \in Procs : Request(p) \/ Task(p) \/ Step(p) \/ AwaitRejects(p)
    \/ SetAutoRenew
    \/ Restart
    \/ Drift
    \/ Tick

Spec == Init /\ [][Next]_vars

(* Node resumes every settled await, and cron fires each task again and      *)
(* again.  The cron jobs share the processes of the model with the requests, *)
(* which they do not in the server: hence the strong fairness.               *)
FairSpec ==
    /\ Spec
    /\ \A p \in Procs : WF_vars(Step(p))
    /\ SF_vars(\E p \in Procs : ProcessRead(p))
    /\ SF_vars(\E p \in Procs : TaskLoad(p, "sync"))

-----------------------------------------------------------------------------
(* What the module promises. *)

TypeOK ==
    /\ now \in Nat
    /\ sub \in Row
    /\ used \subseteq Rows
    /\ vendor \in [Accounts -> AccountStates]
    /\ allowed \in BOOLEAN
    /\ proc \in [Procs -> Proc]
    /\ asked \subseteq Rows \cup {None}

(* A handler with the locals q has written the transitional status s, and    *)
(* has still to replace it.                                                  *)
Resolves(q, s) ==
    \/ s = "provisioning" /\ q.kind = "subscribe" /\ q.pc \in {"provision", "link", "activate"}
    \/ s = "cancelling" /\ q.kind = "cancel" /\ q.pc \in {"context", "deprovision", "remove"}
    \/ s = "disabling" /\ q.kind = "disable" /\ q.pc \in {"vendorDisable", "settle"}
    \/ s = "enabling" /\ q.kind = "enable" /\ q.pc \in {"prune", "vendorEnable", "settle"}

(* As long as the server does not stop under a handler, a row never stays in *)
(* a status that no request can leave: a transitional status has a handler   *)
(* in flight that will replace it, whatever other handlers wrote in between, *)
(* and a failed row names the operation that subscribe or the retry needs.   *)
NoDeadEnd ==
    "crash" \notin Failures =>
        /\ sub.status \in {"provisioning", "cancelling", "disabling", "enabling"}
               => \E p \in Procs : Resolves(proc[p], sub.status)
        /\ sub.status = "failed" => sub.failedOp # None

(* Overlapping and late runs of processSubscriptions do not compound: one    *)
(* automatic renewal never carries a row beyond one period from now, however *)
(* many runs (cron, runNow) work on the same snapshot.                       *)
AutoRenewCapped ==
    [][\A p \in Procs :
          ExtendRow(p) /\ proc[p].kind = "process" /\ Exists => sub'.expiresAt <= now + Period]_vars

(* Once the server stops restarting, an expired row does not stay active:    *)
(* with or without auto-renewal the hourly run settles it, although requests *)
(* and the other tasks keep interfering.                                     *)
Overdue == sub.status = "active" /\ sub.expiresAt <= now

ExpiryEnforced == <>[][~Restart]_vars => (Overdue ~> ~Overdue)

Quiet == \A p \in Procs : proc[p].kind \in {"none", "sync"}

InSync ==
    /\ \A a \in Accounts :
          Present(vendor[a]) => a = sub.account /\ (vendor[a] = "on" <=> sub.status = "active")
    /\ sub.status = "active" /\ sub.account # None => Present(vendor[sub.account])

(* scheduler.md: "re-running must converge, not compound".  Whatever races,  *)
(* restarts and changes at the vendor have left behind, once they stop the   *)
(* sync task brings the vendor and the row to agree, for good.               *)
SyncConverges ==
    <>[]Quiet /\ <>[][~Restart /\ ~Drift]_vars => <>[]InSync

-----------------------------------------------------------------------------
(* What comments and tests say of the same code; see the findings. *)

(* "Expired with auto-renew -> extend": the run may shorten a row that an    *)
(* admin renewed after the run took its snapshot.                            *)
AutoRenewExtends ==
    [][\A p \in Procs :
          ExtendRow(p) /\ proc[p].kind = "process" /\ Exists => sub'.expiresAt >= sub.expiresAt]_vars

(* "Retries a previously failed cancellation": a retry deletes only rows     *)
(* that somebody asked to cancel.                                            *)
RetryDeletesOnlyCancelled ==
    [][\A p \in Procs :
          RemoveRow(p) /\ proc[p].kind = "retry" /\ Exists => sub.id \in asked]_vars

(* "deletes external users flagged as orphans (no local record)": the sync   *)
(* never deletes an account that a row links.                                *)
SyncDeletesOnlyOrphans ==
    [][\A p \in Procs : ReconcileVendor(p) =>
          \A a \in Accounts : vendor[a] # "gone" /\ vendor'[a] = "gone" => a # sub.account]_vars

(* "Deletes local records for non-active subscriptions whose external        *)
(* account is gone".                                                         *)
CleanupSparesActive ==
    [][\A p \in Procs : SweepStale(p) /\ sub.status = "active" => sub' = sub]_vars

(* "deprovision() skips accounts that no longer exist upstream": a row is    *)
(* not deleted while the account to deprovision still exists.                *)
DeprovisionedBeforeRemoved ==
    [][\A p \in Procs :
          RemoveRow(p) /\ proc[p].account # None => ~Present(vendor[proc[p].account])]_vars

(* "Drop local rows whose upstream account has vanished".                    *)
PrunesOnlyVanished ==
    [][\A p \in Procs :
          PruneLink(p) /\ sub'.account # sub.account => ~Present(vendor[sub.account])]_vars

(* "Re-enable the surviving vendor account rather than creating a duplicate". *)
NoDuplicateAccount ==
    [][\A p \in Procs :
          Provision(p) /\ (\E a \in Accounts : vendor[a] = "free" /\ vendor'[a] = "on")
              => ~(sub.account # None /\ Present(vendor[sub.account]))]_vars

(* "should throw ConflictException when user is disabled": a disabled row    *)
(* stays disabled until an admin enables it, or goes away.                   *)
DisabledUntilEnabled ==
    [][sub.status = "disabled" /\ sub'.id = sub.id => sub'.status \in {"disabled", "disabling", "enabling"}]_vars

(* "Failed provisioning must be retried through subscribe()": when nothing   *)
(* is in flight, a sign-up that was cut short can be repeated.               *)
ProvisioningCanBeRetried ==
    (\A p \in Procs : At(p, "idle")) => sub.status # "provisioning"

=============================================================================
