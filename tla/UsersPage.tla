------------------------------ MODULE UsersPage ------------------------------
(***************************************************************************)
(* The administrator's page of users: a list of rows and a row of counters *)
(* per status, both loaded once and then patched after every action.       *)
(*                                                                         *)
(* The confirmation dialog does not wait for the request it starts, and    *)
(* one pendingId says which row is busy, so that actions on several rows   *)
(* overlap.  Answers arrive in any order; a request may fail, or succeed   *)
(* with its answer lost.                                                   *)
(*                                                                         *)
(* One visit to the page by one administrator, whose own row offers        *)
(* nothing: what others change is shown at the next visit.  The hard       *)
(* deletion, which the table does not offer, is left out.                  *)
(***************************************************************************)
EXTENDS Integers, FiniteSets

CONSTANTS
    Members,    \* the other users
    Sends,      \* requests of the page that may be in flight together
    NoMember    \* no user

ASSUME UsersPageConstants == NoMember \notin Members /\ IsFiniteSet(Members)

VARIABLES
    account,    \* account[u]: status and admin flag in the database
    list,       \* the load of useUsersList: its progress and the rows
    stats,      \* the load of useUsersStats: its progress and the counters
    pendingId,  \* the row whose buttons are disabled
    pendingAction, \* the dialog that is open: the action and the row it came from
    sent,       \* sent[p]: a request of useUsersTable
    crossed,    \* history: users with two actions at once, or an answer that misled
    miscounted  \* history: an action the counters could not follow

usersPageVars == <<account, list, stats, pendingId, pendingAction, sent, crossed, miscounted>>

Statuses == {"ACTIVE", "PENDING", "DISABLED", "DELETED"}

Account == [status : Statuses, isAdmin : BOOLEAN]

Loading == {"asked", "read", "shown", "failed"}

Operations == {"disable", "enable", "softDelete", "setAdmin"}

Action == [op : Operations \cup {"none"}, user : Members \cup {NoMember}, row : Account]

NoAction == [op |-> "none", user |-> NoMember, row |-> [status |-> "ACTIVE", isAdmin |-> FALSE]]

SentRequest == [pc : {"idle", "out", "ok", "error"}, action : Action]

NoRequest == [pc |-> "idle", action |-> NoAction]

NumberOf(accounts) == [s \in Statuses |-> Cardinality({u \in Members : accounts[u].status = s})]

UsersPageInit ==
    /\ account \in [Members -> {a \in Account : a.isAdmin => a.status = "ACTIVE"}]
    /\ list = [pc |-> "asked", rows |-> account]
    /\ stats = [pc |-> "asked", byStatus |-> NumberOf(account)]
    /\ pendingId = NoMember
    /\ pendingAction = NoAction
    /\ sent = [p \in Sends |-> NoRequest]
    /\ crossed = {}
    /\ miscounted = FALSE

InFlightFor(u) == {p \in Sends : sent[p].pc # "idle" /\ sent[p].action.user = u}

-----------------------------------------------------------------------------
(* The two loads; neither is repeated on this visit *)

ReadUsers ==
    /\ \/ /\ list.pc = "asked"
          /\ list' = [pc |-> "read", rows |-> account]
          /\ UNCHANGED stats
       \/ /\ stats.pc = "asked"
          /\ stats' = [pc |-> "read", byStatus |-> NumberOf(account)]
          /\ UNCHANGED list
    /\ UNCHANGED <<account, pendingId, pendingAction, sent, crossed, miscounted>>

ShowUsers ==
    /\ \/ /\ list.pc = "read"
          /\ \E pc \in {"shown", "failed"} : list' = [list EXCEPT !.pc = pc]
          /\ UNCHANGED stats
       \/ /\ stats.pc = "read"
          /\ \E pc \in {"shown", "failed"} : stats' = [stats EXCEPT !.pc = pc]
          /\ UNCHANGED list
    /\ UNCHANGED <<account, pendingId, pendingAction, sent, crossed, miscounted>>

-----------------------------------------------------------------------------
(* UsersTable: buttons and the dialog *)

Busy(u) == pendingId = u

Offers(u, op) ==
    LET row == list.rows[u] IN
    CASE op = "disable" -> row.status \notin {"DISABLED", "DELETED"}
      [] op = "enable" -> row.status \in {"DISABLED", "DELETED"}
      [] op = "softDelete" -> row.status # "DELETED"
      [] op = "setAdmin" -> row.isAdmin \/ row.status = "ACTIVE"

OpenDialog(u, op) ==
    /\ list.pc = "shown"
    /\ pendingAction = NoAction
    /\ ~Busy(u)
    /\ Offers(u, op)
    /\ pendingAction' = [op |-> op, user |-> u, row |-> list.rows[u]]
    /\ crossed' = IF InFlightFor(u) = {} THEN crossed ELSE crossed \cup {u}
    /\ UNCHANGED <<account, list, stats, pendingId, sent, miscounted>>

(* The bucket that the action takes the user from: disableUser is not told   *)
(* the status, and assumes ACTIVE.                                           *)
From(action) == IF action.op = "disable" THEN "ACTIVE" ELSE action.row.status

Confirm(p) ==
    /\ pendingAction # NoAction
    /\ sent[p] = NoRequest
    /\ sent' = [sent EXCEPT ![p] = [pc |-> "out", action |-> pendingAction]]
    /\ pendingId' = pendingAction.user
    /\ pendingAction' = NoAction
    /\ miscounted' = (miscounted \/ stats.pc # "shown" \/ From(pendingAction) # pendingAction.row.status)
    /\ UNCHANGED <<account, list, stats, crossed>>

CancelDialog ==
    /\ pendingAction # NoAction
    /\ pendingAction' = NoAction
    /\ UNCHANGED <<account, list, stats, pendingId, sent, crossed, miscounted>>

-----------------------------------------------------------------------------
(* UserController.updateUser, deleteUser; then the rest of useUsersTable *)

Changed(row, action) ==
    CASE action.op = "disable" -> [row EXCEPT !.status = "DISABLED"]
      [] action.op = "enable" -> [row EXCEPT !.status = "ACTIVE"]
      [] action.op = "softDelete" -> [row EXCEPT !.status = "DELETED"]
      [] action.op = "setAdmin" -> [row EXCEPT !.isAdmin = ~action.row.isAdmin]

(* Only active users are made administrators.                                *)
Accepts(action) ==
    (action.op = "setAdmin" /\ ~action.row.isAdmin) => account[action.user].status = "ACTIVE"

(* softDelete() reports a failed write as false, which the page takes for    *)
(* success.                                                                  *)
Handle(p, done, pc) ==
    LET action == sent[p].action
        u == action.user IN
    /\ sent[p].pc = "out"
    /\ done => Accepts(action)
    /\ (pc = "ok" /\ ~done) => action.op = "softDelete"
    /\ account' = IF done THEN [account EXCEPT ![u] = Changed(@, action)] ELSE account
    /\ sent' = [sent EXCEPT ![p].pc = pc]
    /\ crossed' = IF done = (pc = "ok") THEN crossed ELSE crossed \cup {u}
    /\ UNCHANGED <<list, stats, pendingId, pendingAction, miscounted>>

(* Mutant: whoever is enabled is taken from the disabled users. *)
TransitionFromDisabled(byStatus, from, to) ==
    LET left == IF to = "ACTIVE" THEN "DISABLED" ELSE from IN
    [s \in Statuses |->
        IF s = left THEN (IF byStatus[s] > 0 THEN byStatus[s] - 1 ELSE 0)
        ELSE IF s = to THEN byStatus[s] + 1
        ELSE byStatus[s]]

(* transitionStatus()                                                        *)
Transition(byStatus, from, to) ==
    [s \in Statuses |->
        IF s = from THEN (IF byStatus[s] > 0 THEN byStatus[s] - 1 ELSE 0)
        ELSE IF s = to THEN byStatus[s] + 1
        ELSE byStatus[s]]

(* Mutant: the row is patched before the answer is looked at. *)
PatchedAnyway(p) == TRUE

Succeeded(p) == sent[p].pc = "ok"

(* The counters are followed for as long as they can be relied on. *)
Counted == stats.pc = "shown" /\ ~miscounted /\ crossed = {}

(* Only the field that the action changes is patched, into the row as it is  *)
(* now.                                                                      *)
SettleAction(p) ==
    LET action == sent[p].action
        u == action.user
        row == Changed(list.rows[u], action)
    IN
    /\ sent[p].pc \in {"ok", "error"}
    /\ list' = IF Succeeded(p) THEN [list EXCEPT !.rows[u] = row] ELSE list
    /\ stats' = IF Succeeded(p) /\ Counted /\ action.op # "setAdmin"
                THEN [stats EXCEPT !.byStatus = Transition(@, From(action), row.status)]
                ELSE stats
    /\ pendingId' = NoMember
    /\ sent' = [sent EXCEPT ![p] = NoRequest]
    /\ UNCHANGED <<account, pendingAction, crossed, miscounted>>

UsersPageNext ==
    \/ ReadUsers \/ ShowUsers \/ CancelDialog
    \/ \E u \in Members, op \in Operations : OpenDialog(u, op)
    \/ \E p \in Sends :
          \/ Confirm(p) \/ SettleAction(p)
          \/ \E done \in BOOLEAN, pc \in {"ok", "error"} : Handle(p, done, pc)

UsersPageSpec == UsersPageInit /\ [][UsersPageNext]_usersPageVars

-----------------------------------------------------------------------------
(* Types of all variables.                                                   *)
UsersPageTypeOK ==
    /\ account \in [Members -> Account]
    /\ list \in [pc : Loading, rows : [Members -> Account]]
    /\ stats \in [pc : Loading, byStatus : [Statuses -> 0..Cardinality(Members)]]
    /\ pendingId \in Members \cup {NoMember}
    /\ pendingAction \in Action
    /\ sent \in [Sends -> SentRequest]
    /\ miscounted \in BOOLEAN
    /\ crossed \subseteq Members

(* However the actions on several rows overlap, fail and are answered, a row *)
(* whose requests are done shows what is stored, but for two actions on that *)
(* very user at once, a lost answer, and a deletion that failed and was      *)
(* answered with false (useUsersTable 53-71, user.repository 183-195).       *)
RowsFollowActions ==
    list.pc = "shown" =>
        \A u \in Members \ crossed : InFlightFor(u) = {} => list.rows[u] = account[u]

(* So do the counters, unless an action was confirmed before they had loaded *)
(* or disabled a user who was not active (useUsersTable 23-38).              *)
CountersFollowActions ==
    (Counted /\ \A p \in Sends : sent[p].pc = "idle") => stats.byStatus = NumberOf(account)

=============================================================================
