---------------------------- MODULE LinkedAccounts ----------------------------
(***************************************************************************)
(* The vendor accounts of one MANAGED service: who holds which of them.    *)
(*                                                                         *)
(* SubscriptionLifecycle follows one row and one account through time;     *)
(* this module follows several users and the several accounts a            *)
(* subscription may own: addAccount and deleteAccount, the loops of        *)
(* ManagedAccountProvisioner over all linked accounts, the listener that   *)
(* links the accounts an invite names, and the two vendor clients          *)
(* (JellyfinIntegration, ImmichIntegration), which differ in what names an *)
(* account and in what deleting one means.                                 *)
(*                                                                         *)
(* An action is the code between two awaits that touch the database or the *)
(* vendor.  The accounts of a context are handled in the order in which    *)
(* the database returns them, which is any order.                          *)
(***************************************************************************)
EXTENDS Integers, FiniteSets

CONSTANTS
    Procs,      \* requests and listeners that may be in flight together
    Users,      \* users; a user also stands for the e-mail and the name of that user
    Accounts,   \* ids the vendor may mint
    Existing,   \* accounts that the vendor had before HomeGate
    None,       \* no user, no account
    Cap,        \* accountsPerService of the policy of the users
    MaxRows,    \* bound: subscription rows a user goes through
    Vendors,    \* vendors that are explored
    Ops,        \* Ops[u]: operations of user u that are explored
    Overlapping,\* {o, q}: operations of one user that are explored in flight together
    Purging,    \* TRUE when Immich's removal of soft-deleted accounts is explored
    Failures    \* failures that are explored

ASSUME AccountsConstants ==
    /\ Existing \subseteq Accounts
    /\ None \notin Users /\ None \notin Accounts
    /\ Cap \in Nat \ {0} /\ MaxRows \in Nat
    /\ Vendors \subseteq {"jellyfin", "immich"}
    /\ IsFiniteSet(Procs) /\ IsFiniteSet(Accounts)

VARIABLES
    vendorName, \* the vendor behind the service; it never changes
    vendor,     \* vendor[a]: state and name of account a at the vendor
    link,       \* link[a]: the user whose subscription owns the row of account a
    sub,        \* sub[u]: id and status of the subscription row of u (id 0: none)
    task,       \* task[p]: program counter and locals of handler p
    tangled,    \* history: users two of whose operations were in flight together
    lost        \* history: accounts whose creator failed, or that were unlinked on purpose

accountVars == <<vendorName, vendor, link, sub, task, tangled, lost>>

Statuses == {"none", "provisioning", "failedProvisioning", "active", "cancelling",
             "failedCancellation", "disabling", "disabled", "enabling"}

Row == [id : Nat, status : Statuses]

NoRow == [id |-> 0, status |-> "none"]

VendorAccount == [state : {"free", "on", "off", "gone"}, name : Users \cup {None}]

Kinds == {"none", "subscribe", "add", "remove", "cancel", "retry", "disable", "enable", "invite"}

Pcs == {"idle", "upsert", "create", "link", "activate", "mark", "context",
        "deprovision", "unlink", "drop", "disable", "prune", "enable", "settle",
        "claimRow", "claimLink"}

(* row: id of the row that was read; name: name in the request; account: the *)
(* account at hand; context: accounts of the LifecycleContext; left: those   *)
(* of them the current loop has not handled.                                 *)
Task == [pc : Pcs, kind : Kinds, user : Users \cup {None}, row : Nat, name : Users \cup {None},
         account : Accounts \cup {None}, context : SUBSET Accounts, left : SUBSET Accounts]

Idle == [pc |-> "idle", kind |-> "none", user |-> None, row |-> 0, name |-> None,
         account |-> None, context |-> {}, left |-> {}]

-----------------------------------------------------------------------------
(* The vendor clients *)

Present(a) == vendor[a].state \in {"on", "off"}

(* getUserByUsername, getUserByEmail(.., true): an account of that name, a   *)
(* disabled or soft-deleted one too.                                         *)
Taken(name) == \E a \in Accounts : Present(a) /\ vendor[a].name = name

(* Jellyfin removes the account.  Immich soft-deletes it, and disables an    *)
(* account by the same call.                                                 *)
StateAfterDelete == IF vendorName = "immich" THEN "off" ELSE "gone"

SetState(a, state) ==
    [vendor EXCEPT ![a] = [state |-> state, name |-> IF state = "gone" THEN None ELSE @.name]]

(* Names a user may ask for: Immich accounts carry the e-mail of the user.   *)
NamesFor(u) == IF vendorName = "immich" THEN {u} ELSE Users

-----------------------------------------------------------------------------

(* externalAccountRepository.findBySubscriptionId, countBySubscriptionId     *)
Linked(u) == {a \in Accounts : link[a] = u}

(* The row that the handler read is still there: what a foreign key checks.  *)
RowStands(p) == sub[task[p].user].id = task[p].row /\ task[p].row # 0

Exists(u) == sub[u].id # 0

At(p, pc) == task[p].pc = pc

Goto(p, pc) == task' = [task EXCEPT ![p].pc = pc]

Done(p) == task' = [task EXCEPT ![p] = Idle]

(* A handler starts.  Two handlers at work for one user tangle them.         *)
Begin(p, u, t) ==
    /\ At(p, "idle")
    /\ t.kind \in Ops[u]
    /\ \A q \in Procs : task[q].user = u => {t.kind, task[q].kind} \in Overlapping
    /\ task' = [task EXCEPT ![p] = [t EXCEPT !.user = u, !.row = sub[u].id]]
    /\ tangled' = IF \E q \in Procs : task[q].user = u THEN tangled \cup {u} ELSE tangled
    /\ UNCHANGED <<vendorName, vendor, link, sub, lost>>

(* The catch blocks.  addAccount, deleteAccount, the retry and the listener  *)
(* only log; the others leave a failed row, if there is a row.               *)
StatusAfterThrow(kind) ==
    CASE kind = "subscribe" -> "failedProvisioning"
      [] kind \in {"cancel", "disable", "enable"} -> "failedCancellation"
      [] OTHER -> "none"

Throw(p) ==
    LET u == task[p].user
        status == StatusAfterThrow(task[p].kind)
    IN
    /\ sub' = IF status # "none" /\ Exists(u) THEN [sub EXCEPT ![u].status = status] ELSE sub
    /\ Done(p)

AccountsInit ==
    /\ vendorName \in Vendors
    /\ \E name \in [Existing -> Users] :
          vendor = [a \in Accounts |-> IF a \in Existing
                                       THEN [state |-> "on", name |-> name[a]]
                                       ELSE [state |-> "free", name |-> None]]
    /\ link = [a \in Accounts |-> None]
    /\ sub = [u \in Users |-> NoRow]
    /\ task = [p \in Procs |-> Idle]
    /\ tangled = {}
    /\ lost = {}

-----------------------------------------------------------------------------
(* subscribe *)

(* validate(): an account linked before is reused if the vendor still has    *)
(* it, and else the name must be free.                                       *)
SubscribeRead(p, u, name) ==
    /\ sub[u].status \in {"none", "failedProvisioning"}
    /\ name \in NamesFor(u)
    /\ \/ \E a \in Linked(u) :
             /\ Present(a)
             /\ Begin(p, u, [Idle EXCEPT !.kind = "subscribe", !.pc = "upsert", !.account = a])
       \/ /\ \A a \in Linked(u) : ~Present(a)
          /\ ~Taken(name)
          /\ Begin(p, u, [Idle EXCEPT !.kind = "subscribe", !.pc = "upsert", !.name = name])

(* A new row gets an id that no handler holds (a uuid in the code).          *)
FreshId(id) ==
    LET Held(n) == \E q \in Procs : task[q].row = n
    IN  ~Held(id) /\ \A n \in 1..(id - 1) : Held(n)

(* upsertProvisioning: outside the try block.                                *)
Upsert(p) ==
    LET u == task[p].user
        fresh == task[p].row = 0
    IN
    /\ At(p, "upsert")
    /\ \/ /\ ~fresh /\ Exists(u)
          /\ sub' = [sub EXCEPT ![u].status = "provisioning"]
          /\ task' = [task EXCEPT ![p].pc = "create", ![p].row = sub[u].id]
       \/ /\ fresh /\ ~Exists(u)
          /\ \E id \in 1..MaxRows :
                /\ FreshId(id)
                /\ sub' = [sub EXCEPT ![u] = [id |-> id, status |-> "provisioning"]]
                /\ task' = [task EXCEPT ![p].pc = "create", ![p].row = id]
       \/ /\ fresh = Exists(u)
          /\ Done(p)
          /\ UNCHANGED sub
    /\ UNCHANGED <<vendorName, vendor, link, tangled, lost>>

(* provision(): enable the account that validate() found, or create one.     *)
(* The vendor gives one name to one account, a soft-deleted one included;    *)
(* it may create the account and still not answer with it.                   *)
Create(p) ==
    LET reused == task[p].account
        name == task[p].name
    IN
    /\ At(p, "create")
    /\ \/ /\ reused # None /\ Present(reused)
          /\ vendor' = SetState(reused, "on")
          /\ Goto(p, "link")
          /\ UNCHANGED <<sub, lost>>
       \/ /\ reused = None /\ ~Taken(name)
          /\ \E a \in Accounts :
                /\ vendor[a].state = "free"
                /\ vendor' = [vendor EXCEPT ![a] = [state |-> "on", name |-> name]]
                /\ \/ /\ task' = [task EXCEPT ![p].pc = "link", ![p].account = a, ![p].name = None]
                      /\ UNCHANGED <<sub, lost>>
                   \/ "answer" \in Failures /\ Throw(p) /\ lost' = lost \cup {a}
       \/ /\ \/ reused # None /\ ~Present(reused)
             \/ reused = None /\ Taken(name)
             \/ "refusal" \in Failures
          /\ Throw(p)
          /\ UNCHANGED <<vendor, lost>>
    /\ UNCHANGED <<vendorName, link, tangled>>

(* Unique key (serviceId, externalAccountId), foreign key on the row.        *)
CanLink(p) == RowStands(p) /\ link[task[p].account] \in {None, task[p].user}

(* upsertExternalAccount overwrites the first account of the subscription;   *)
(* addAccount creates one more.                                              *)
Link(p) ==
    LET u == task[p].user
        a == task[p].account
    IN
    /\ At(p, "link")
    /\ \/ /\ CanLink(p)
          /\ \/ /\ task[p].kind = "subscribe" /\ Linked(u) # {}
                /\ \E first \in Linked(u) :
                      /\ a \in Linked(u) => first = a
                      /\ link' = [link EXCEPT ![first] = None, ![a] = u]
                /\ Goto(p, "activate")
             \/ /\ task[p].kind = "add" \/ Linked(u) = {}
                /\ link' = [link EXCEPT ![a] = u]
                /\ IF task[p].kind = "add" THEN Done(p) ELSE Goto(p, "activate")
          /\ UNCHANGED <<sub, lost>>
       \/ /\ ~CanLink(p)
          /\ Throw(p)
          /\ lost' = lost \cup {a}
          /\ UNCHANGED link
    /\ UNCHANGED <<vendorName, vendor, tangled>>

Activate(p) ==
    LET u == task[p].user IN
    /\ At(p, "activate")
    /\ IF Exists(u) THEN sub' = [sub EXCEPT ![u].status = "active"] /\ Done(p) ELSE Throw(p)
    /\ UNCHANGED <<vendorName, vendor, link, tangled, lost>>

-----------------------------------------------------------------------------
(* addAccount, deleteAccount *)

(* Mutant: the comparison lets one account too many pass. *)
AtMostCap(u) == Cardinality(Linked(u)) <= Cap

(* assertCanAddAccount() *)
BelowCap(u) == Cardinality(Linked(u)) < Cap

(* validate() finds the name free; createUser looks once more.               *)
AddRead(p, u, name) ==
    /\ sub[u].status = "active"
    /\ BelowCap(u)
    /\ name \in NamesFor(u)
    /\ ~Taken(name)
    /\ Begin(p, u, [Idle EXCEPT !.kind = "add", !.pc = "create", !.name = name])

(* Mutant: the last account may be deleted as well. *)
AtLeastOne(u) == Cardinality(Linked(u)) >= 1

(* The check that deleteAccount makes before it does anything.               *)
MoreThanOne(u) == Cardinality(Linked(u)) > 1

(* deprovisionExternal chooses between deleting the account at the vendor    *)
(* and only dropping the local row.                                          *)
RemoveRead(p, u, a, deprovisionExternal) ==
    /\ a \in Linked(u)
    /\ MoreThanOne(u)
    /\ Begin(p, u, [Idle EXCEPT !.kind = "remove", !.account = a, !.left = {a},
                               !.pc = IF deprovisionExternal THEN "deprovision" ELSE "unlink"])

(* The row of the account may be gone already: the delete by id throws.      *)
Unlink(p) ==
    LET a == task[p].account IN
    /\ At(p, "unlink")
    /\ link' = IF link[a] = task[p].user THEN [link EXCEPT ![a] = None] ELSE link
    /\ lost' = IF task[p].left # {} THEN lost \cup {a} ELSE lost
    /\ Done(p)
    /\ UNCHANGED <<vendorName, vendor, sub, tangled>>

-----------------------------------------------------------------------------
(* delete, setDisabledStatus, retryFailedOperation *)

(* Where a handler goes once its loops are over, and where with accounts to  *)
(* handle.                                                                   *)
AfterLoops(kind) ==
    CASE kind \in {"disable", "enable"} -> "settle"
      [] kind = "remove" -> "unlink"
      [] OTHER -> "drop"

FirstLoop(kind) ==
    CASE kind = "disable" -> "disable"
      [] kind = "enable" -> "prune"
      [] OTHER -> "deprovision"

(* Mutant: the handler goes on as if the context had no accounts. *)
EnterWithoutAccounts(kind, accounts) == AfterLoops(kind)

EnterLoops(kind, accounts) == IF accounts = {} THEN AfterLoops(kind) ELSE FirstLoop(kind)

(* The accounts of the context are read with the row, for delete after its   *)
(* first write.                                                              *)
CancelRead(p, u) ==
    /\ sub[u].status = "active"
    /\ Begin(p, u, [Idle EXCEPT !.kind = "cancel", !.pc = "mark"])

DisableRead(p, u) ==
    /\ sub[u].status = "active"
    /\ Begin(p, u, [Idle EXCEPT !.kind = "disable", !.pc = "mark", !.context = Linked(u)])

EnableRead(p, u) ==
    /\ sub[u].status = "disabled"
    /\ Begin(p, u, [Idle EXCEPT !.kind = "enable", !.pc = "mark", !.context = Linked(u)])

RetryRead(p, u) ==
    /\ sub[u].status = "failedCancellation"
    /\ Begin(p, u, [Idle EXCEPT !.kind = "retry", !.pc = EnterLoops("retry", Linked(u)),
                               !.left = Linked(u)])

TransitionalStatus(kind) ==
    CASE kind = "cancel" -> "cancelling"
      [] kind = "disable" -> "disabling"
      [] OTHER -> "enabling"

Mark(p) ==
    LET u == task[p].user
        kind == task[p].kind
    IN
    /\ At(p, "mark")
    /\ IF Exists(u)
       THEN /\ sub' = [sub EXCEPT ![u].status = TransitionalStatus(kind)]
            /\ task' = [task EXCEPT ![p].left = task[p].context,
                                    ![p].pc = IF kind = "cancel" THEN "context"
                                              ELSE EnterLoops(kind, task[p].context)]
       ELSE Throw(p)
    /\ UNCHANGED <<vendorName, vendor, link, tangled, lost>>

BuildContext(p) ==
    LET accounts == IF RowStands(p) THEN Linked(task[p].user) ELSE {}
    IN
    /\ At(p, "context")
    /\ task' = [task EXCEPT ![p].left = accounts, ![p].pc = EnterLoops(task[p].kind, accounts)]
    /\ UNCHANGED <<vendorName, vendor, link, sub, tangled, lost>>

(* Mutant: the loop returns after its first account. *)
AfterFirst(p, a) == [task[p] EXCEPT !.left = {}, !.context = {}, !.pc = AfterLoops(task[p].kind)]

(* The rest of handler p once a loop has handled account a.                  *)
AfterRound(p, a) ==
    LET left == task[p].left \ {a} IN
    IF left # {} THEN [task[p] EXCEPT !.left = left]
    ELSE IF task[p].pc = "prune" THEN [task[p] EXCEPT !.pc = "enable", !.left = task[p].context]
    ELSE [task[p] EXCEPT !.left = {}, !.context = {}, !.pc = AfterLoops(task[p].kind)]

(* One round of a loop of the provisioner: an account in one of the states   *)
(* gets the call, one in another state is skipped, and a call that the       *)
(* vendor refuses ends the loop and the handler.                             *)
Round(p, loop, states, stateAfter) ==
    /\ At(p, loop)
    /\ \E a \in task[p].left :
          \/ /\ IF vendor[a].state \in states
                THEN vendor' = SetState(a, stateAfter)
                ELSE UNCHANGED vendor
             /\ task' = [task EXCEPT ![p] = AfterRound(p, a)]
             /\ UNCHANGED sub
          \/ /\ vendor[a].state \in states
             /\ "refusal" \in Failures
             /\ Throw(p)
             /\ UNCHANGED vendor
    /\ UNCHANGED <<vendorName, link, tangled, lost>>

(* Immich answers that an account is already deleted without another call,   *)
(* which leaves the state as it is.                                          *)
Deprovision(p) == Round(p, "deprovision", {"on", "off"}, StateAfterDelete)

DisableAccounts(p) == Round(p, "disable", {"on"}, "off")

EnableAccounts(p) == Round(p, "enable", {"off"}, "on")

(* Enabling first drops the rows of accounts that look missing; a row that   *)
(* is gone already makes the delete throw.                                   *)
Prune(p) ==
    /\ At(p, "prune")
    /\ \E a \in task[p].left :
          \/ /\ Present(a) \/ link[a] = task[p].user
             /\ link' = IF Present(a) THEN link ELSE [link EXCEPT ![a] = None]
             /\ task' = [task EXCEPT ![p] = AfterRound(p, a)]
             /\ UNCHANGED sub
          \/ /\ ~Present(a) /\ link[a] # task[p].user
             /\ Throw(p)
             /\ UNCHANGED link
    /\ UNCHANGED <<vendorName, vendor, tangled, lost>>

Settle(p) ==
    LET u == task[p].user IN
    /\ At(p, "settle")
    /\ sub' = IF Exists(u)
              THEN [sub EXCEPT ![u].status = IF task[p].kind = "disable" THEN "disabled" ELSE "active"]
              ELSE sub
    /\ Done(p)
    /\ UNCHANGED <<vendorName, vendor, link, tangled, lost>>

(* The row goes, by (userId, serviceId), and its account rows with it.       *)
Drop(p) ==
    LET u == task[p].user IN
    /\ At(p, "drop")
    /\ sub' = [sub EXCEPT ![u] = NoRow]
    /\ link' = [a \in Accounts |-> IF link[a] = u THEN None ELSE link[a]]
    /\ Done(p)
    /\ UNCHANGED <<vendorName, vendor, tangled, lost>>

-----------------------------------------------------------------------------
(* InviteAccountLinkingService *)

(* The invite that u has used names account a.  Only its presence at the     *)
(* vendor is looked at, not whether it is disabled, and that no row has it.  *)
InviteRead(p, u, a) ==
    /\ Present(a)
    /\ link[a] = None
    /\ Begin(p, u, [Idle EXCEPT !.kind = "invite", !.pc = "claimRow", !.account = a])

(* The row starts active; the unique key (userId, serviceId) refuses it to a *)
(* user who has subscribed already.                                          *)
ClaimRow(p) ==
    LET u == task[p].user IN
    /\ At(p, "claimRow")
    /\ \/ /\ ~Exists(u)
          /\ \E id \in 1..MaxRows :
                /\ FreshId(id)
                /\ sub' = [sub EXCEPT ![u] = [id |-> id, status |-> "active"]]
                /\ task' = [task EXCEPT ![p].pc = "claimLink", ![p].row = id]
       \/ /\ Exists(u)
          /\ Done(p)
          /\ UNCHANGED sub
    /\ UNCHANGED <<vendorName, vendor, link, tangled, lost>>

(* Mutant: no unique key, so the later of two listeners takes the account.   *)
ClaimWithoutKey(p) == RowStands(p)

(* What the insert needs: the row, and that nobody has linked the account.   *)
CanClaim(p) == RowStands(p) /\ link[task[p].account] = None

ClaimLink(p) ==
    /\ At(p, "claimLink")
    /\ link' = IF CanClaim(p) THEN [link EXCEPT ![task[p].account] = task[p].user] ELSE link
    /\ Done(p)
    /\ UNCHANGED <<vendorName, vendor, sub, tangled, lost>>

-----------------------------------------------------------------------------
(* External: Immich removes soft-deleted accounts after a delay. *)

Purge(a) ==
    /\ Purging
    /\ vendorName = "immich"
    /\ vendor[a].state = "off"
    /\ vendor' = SetState(a, "gone")
    /\ UNCHANGED <<vendorName, link, sub, task, tangled, lost>>

Handle(p) ==
    \/ Upsert(p) \/ Create(p) \/ Link(p) \/ Activate(p)
    \/ Unlink(p) \/ Mark(p) \/ BuildContext(p)
    \/ Deprovision(p) \/ DisableAccounts(p) \/ EnableAccounts(p) \/ Prune(p)
    \/ Settle(p) \/ Drop(p)
    \/ ClaimRow(p) \/ ClaimLink(p)

Request(p, u) ==
    \/ \E name \in Users : SubscribeRead(p, u, name) \/ AddRead(p, u, name)
    \/ \E a \in Accounts, external \in BOOLEAN : RemoveRead(p, u, a, external)
    \/ CancelRead(p, u) \/ DisableRead(p, u) \/ EnableRead(p, u) \/ RetryRead(p, u)
    \/ \E a \in Accounts : InviteRead(p, u, a)

AccountsNext ==
    \/ \E p \in Procs : Handle(p) \/ (\E u \in Users : Request(p, u))
    \/ \E a \in Accounts : Purge(a)

AccountsSpec == AccountsInit /\ [][AccountsNext]_accountVars

-----------------------------------------------------------------------------
(* Types of all variables (the tables behind the repositories). *)
AccountsTypeOK ==
    /\ vendorName \in Vendors
    /\ vendor \in [Accounts -> VendorAccount]
    /\ link \in [Accounts -> Users \cup {None}]
    /\ sub \in [Users -> Row]
    /\ task \in [Procs -> Task]
    /\ tangled \subseteq Users
    /\ lost \subseteq Accounts

(* addAccount requests that passed the check and may still add an account.   *)
Adding(u) ==
    {p \in Procs : task[p].kind = "add" /\ task[p].user = u /\ task[p].row = sub[u].id}

(* addAccount counts, then creates, then links (subscriptions.service        *)
(* 207-241).  Requests that overlap may exceed the cap, but by no more than  *)
(* one account for each request beyond the first, however often they repeat. *)
CapOvershootBounded ==
    \A u \in Users :
        Cardinality(Linked(u)) + Cardinality(Adding(u)) < Cap + Cardinality(Procs)

(* deleteAccount counts before it calls the vendor (565-583).  As long as no *)
(* two operations of one user overlap, it never takes the last account of a  *)
(* subscription: only enabling drops it, when the vendor has lost it.        *)
LastAccountKept ==
    [][\A u \in Users :
          (Linked(u) # {} /\ Linked(u)' = {} /\ sub[u].id # 0 /\ sub'[u].id = sub[u].id)
          => \/ u \in tangled
             \/ \E p \in Procs : task[p].kind = "enable" /\ task[p].user = u]_accountVars

(* An account of HomeGate's making that works at the vendor belongs to       *)
(* somebody: it is linked, or on its way to be linked.  The exceptions are   *)
(* an answer that got lost, an account unlinked on purpose, and users two of *)
(* whose operations overlapped.                                              *)
NoStrayAccount ==
    \A a \in Accounts \ Existing :
        vendor[a].state = "on" /\ link[a] = None
        => \/ a \in lost
           \/ \E p \in Procs : task[p].account = a /\ task[p].kind \in {"subscribe", "add"}
           \/ tangled # {}

(* However many accounts a subscription owns and whichever of the calls      *)
(* failed, a subscription that says disabled has no working account, unless  *)
(* two operations of one user overlapped.  Of any user: an account that its  *)
(* user unlinked while a retry of subscribe held it may be claimed and       *)
(* disabled by another user, and switched on again by that retry.            *)
DisabledIsOff ==
    \A u \in Users :
        sub[u].status = "disabled" /\ tangled = {}
        => \A a \in Linked(u) : vendor[a].state # "on"

(* An account never passes from one user to another without being unlinked,  *)
(* although the listener looks for a link first and creates it two awaits    *)
(* later (inviteAccountLinking.service 73-103).                              *)
NeverChangesHands ==
    [][\A a \in Accounts : link[a] # None => link'[a] \in {link[a], None}]_accountVars

=============================================================================
