------------------------- MODULE DashboardProofs -------------------------
(***************************************************************************)
(* Proofs about the pages of the dashboard: what a page shows is what the  *)
(* server stores, or differs from it by what the requests under way        *)
(* account for.  A section for each page: its inductive invariant, one     *)
(* lemma for the steps, and the properties.  The last section carries them *)
(* to MCDashboard, where one page is open.                                 *)
(***************************************************************************)
EXTENDS MCDashboard, FiniteSetTheorems, SequenceTheorems, TLAPS

-----------------------------------------------------------------------------
(* The page of users *)

(* An action that was offered for a row changes it.                          *)
Real(action) ==
    /\ action.user \in Members
    /\ action.op \in Operations
    /\ action.op # "setAdmin" => Changed(action.row, action).status # action.row.status

(* Before the list is shown nothing is pressed.                              *)
Quiescent == pendingAction = NoAction /\ \A p \in Sends : sent[p] = NoRequest

(* The types, without the counters, whose numbers are bounded further down. *)
UsersTypes ==
    /\ account \in [Members -> Account]
    /\ list \in [pc : Loading, rows : [Members -> Account]]
    /\ pendingId \in Members \cup {NoMember}
    /\ pendingAction \in Action
    /\ sent \in [Sends -> SentRequest]
    /\ miscounted \in BOOLEAN
    /\ crossed \subseteq Members

(* What the row of a user, the stored user and the action under way have to  *)
(* do with each other.                                                       *)
RowSettles(p, u) ==
    LET action == sent[p].action IN
    /\ action.row = list.rows[u]
    /\ account[u] = IF sent[p].pc = "ok" THEN Changed(list.rows[u], action) ELSE list.rows[u]

(* What is so of a user for whom no two requests were ever under way        *)
(* together.                                                                *)
UserInv(u) ==
    /\ \A p, q \in InFlightFor(u) : p = q
    /\ pendingAction.user = u => InFlightFor(u) = {} /\ pendingAction.row = list.rows[u]
    /\ \A p \in InFlightFor(u) : RowSettles(p, u)
    /\ InFlightFor(u) = {} => account[u] = list.rows[u]

(* The inductive invariant. A row may differ from the stored user only by a *)
(* request for it that was carried out and not yet answered; a user for whom*)
(* two requests were under way (crossed) is excused.                        *)
UsersPageInv ==
    /\ UsersTypes
    /\ \A p \in Sends : sent[p].pc = "idle" <=> sent[p] = NoRequest
    /\ \A p \in Sends : sent[p].pc # "idle" => Real(sent[p].action)
    /\ pendingAction # NoAction => Real(pendingAction)
    /\ list.pc # "shown" => Quiescent
    /\ list.pc = "read" => list.rows = account
    /\ list.pc = "shown" => \A u \in Members \ crossed : UserInv(u)

(* What an action leaves in a row is a row, with the status the action is   *)
(* named for.                                                               *)
LEMMA ChangedRow ==
    ASSUME NEW row \in Account, NEW action \in Action, action.op \in Operations
    PROVE  /\ Changed(row, action) \in Account
           /\ action.op = "disable" => Changed(row, action).status = "DISABLED"
           /\ action.op = "enable" => Changed(row, action).status = "ACTIVE"
           /\ action.op = "softDelete" => Changed(row, action).status = "DELETED"
           /\ action.op = "setAdmin" => Changed(row, action).status = row.status
<1>1. row.status \in Statuses /\ row.isAdmin \in BOOLEAN /\ action.row.isAdmin \in BOOLEAN
  BY DEF Account, Action
<1>2. CASE action.op = "disable"
  BY <1>2 DEF Changed, Account, Statuses
<1>3. CASE action.op = "enable"
  BY <1>3 DEF Changed, Account, Statuses
<1>4. CASE action.op = "softDelete"
  BY <1>4 DEF Changed, Account, Statuses
<1>5. CASE action.op = "setAdmin"
  BY <1>1, <1>5 DEF Changed, Account
<1> QED
  BY <1>2, <1>3, <1>4, <1>5 DEF Operations

(* Initially nothing is shown.                                              *)
LEMMA UsersPageStarts == UsersPageInit => UsersPageInv
<1> SUFFICES ASSUME UsersPageInit PROVE UsersPageInv
  OBVIOUS
<1>0. NoMember \notin Members
  BY UsersPageConstants
<1>1. account \in [Members -> Account]
  BY DEF UsersPageInit
<1>2. NoAction \in Action /\ NoRequest \in SentRequest
  BY DEF NoAction, Action, NoRequest, SentRequest, Account, Statuses
<1>3. UsersTypes
  BY <1>1, <1>2 DEF UsersPageInit, UsersTypes, Loading
<1> QED
  BY <1>3 DEF UsersPageInit, UsersPageInv, Quiescent, NoRequest

(* Every step of the page keeps the invariant.                              *)
LEMMA UsersPageKept == UsersPageInv /\ [UsersPageNext]_usersPageVars => UsersPageInv'
<1> SUFFICES ASSUME UsersPageInv, [UsersPageNext]_usersPageVars PROVE UsersPageInv'
  OBVIOUS
<1>0. /\ NoMember \notin Members
      /\ NoAction \in Action /\ NoAction.user = NoMember /\ NoAction.op = "none"
      /\ NoRequest \in SentRequest /\ NoRequest.pc = "idle" /\ NoRequest.action = NoAction
  BY UsersPageConstants DEF NoAction, Action, NoRequest, SentRequest, Account, Statuses
<1>1. UsersTypes
  BY DEF UsersPageInv
<1>2. CASE UNCHANGED usersPageVars
  BY <1>2 DEF usersPageVars, UsersPageInv, UsersTypes, Quiescent, UserInv, InFlightFor, RowSettles
<1>3. CASE ReadUsers
  BY <1>3 DEF UsersPageInv, UsersTypes, Quiescent, ReadUsers, Loading, UserInv, InFlightFor, RowSettles
<1>4. CASE ShowUsers
  <2>1. CASE list.pc # "read" \/ list' = list
    BY <1>4, <2>1 DEF UsersPageInv, UsersTypes, Quiescent, ShowUsers, UserInv, InFlightFor, RowSettles
  <2>2. CASE list.pc = "read" /\ list' # list
    <3>1. PICK pc \in {"shown", "failed"} : list' = [list EXCEPT !.pc = pc]
      BY <1>4, <2>2 DEF ShowUsers
    <3>2. /\ list' \in [pc : Loading, rows : [Members -> Account]]
          /\ list'.pc = pc /\ list'.rows = account /\ Quiescent
      BY <1>1, <2>2, <3>1 DEF UsersPageInv, UsersTypes, Loading
    <3>3. \A u \in Members : InFlightFor(u) = {} /\ pendingAction.user # u
      BY <1>0, <3>2 DEF InFlightFor, Quiescent
    <3>4. UNCHANGED <<account, pendingId, pendingAction, sent, crossed, miscounted>>
      BY <1>4 DEF ShowUsers
    <3>5. \A u \in Members : UserInv(u)'
      BY <3>2, <3>3, <3>4 DEF UserInv, InFlightFor
    <3> QED
      BY <1>1, <3>1, <3>2, <3>4, <3>5 DEF UsersPageInv, UsersTypes, Quiescent
  <2> QED
    BY <2>1, <2>2
<1>5. CASE CancelDialog
  BY <1>0, <1>5 DEF UsersPageInv, UsersTypes, Quiescent, CancelDialog, UserInv, InFlightFor, RowSettles
<1>6. ASSUME NEW u \in Members, NEW op \in Operations, OpenDialog(u, op)
      PROVE  UsersPageInv'
  <2> DEFINE action == [op |-> op, user |-> u, row |-> list.rows[u]]
  <2>1. /\ action \in Action /\ action.user = u /\ action.row = list.rows[u] /\ pendingAction' = action
        /\ list.pc = "shown"
    BY <1>1, <1>6 DEF OpenDialog, UsersTypes, Action
  <2> HIDE DEF action
  <2>2. /\ UNCHANGED <<account, list, stats, pendingId, sent, miscounted>>
        /\ crossed' = IF InFlightFor(u) = {} THEN crossed ELSE crossed \cup {u}
    BY <1>6 DEF OpenDialog
  <2>3. UsersTypes'
    BY <1>1, <2>1, <2>2 DEF UsersTypes
  <2>4. ASSUME NEW v \in Members \ crossed' PROVE UserInv(v)'
    <3>1. UserInv(v)
      BY <2>1, <2>2, <2>4 DEF UsersPageInv
    <3> QED
      BY <2>1, <2>2, <2>4, <3>1 DEF UserInv, InFlightFor, RowSettles
  <2>5. Real(pendingAction')
    <3>1. list.rows[u] \in Account /\ action.op = op /\ op \in Operations
      BY <1>1 DEF UsersTypes, action
    <3>2. /\ op = "disable" => list.rows[u].status # "DISABLED"
          /\ op = "enable" => list.rows[u].status # "ACTIVE"
          /\ op = "softDelete" => list.rows[u].status # "DELETED"
      BY <1>6 DEF OpenDialog, Offers
    <3> QED
      BY <2>1, <3>1, <3>2, ChangedRow DEF Real, Operations
  <2> QED
    BY <2>1, <2>2, <2>3, <2>4, <2>5 DEF UsersPageInv, Quiescent
<1>7. ASSUME NEW p \in Sends, Confirm(p)
      PROVE  UsersPageInv'
  <2> DEFINE r == [pc |-> "out", action |-> pendingAction]
             w == pendingAction.user
  <2>1. r \in SentRequest /\ r.pc = "out" /\ r.action = pendingAction /\ sent' = [sent EXCEPT ![p] = r]
    BY <1>1, <1>7 DEF Confirm, UsersTypes, SentRequest
  <2> HIDE DEF r
  <2>2. /\ list.pc = "shown" /\ pendingAction' = NoAction /\ sent[p] = NoRequest
        /\ UNCHANGED <<account, list, crossed>> /\ miscounted' \in BOOLEAN
        /\ pendingId' = w /\ pendingAction # NoAction
    BY <1>1, <1>7 DEF Confirm, UsersPageInv, Quiescent, UsersTypes
  <2>3. UsersTypes'
    <3>1. w \in Members \cup {NoMember}
      BY <1>1 DEF UsersTypes, Action
    <3> QED
      BY <1>0, <1>1, <2>1, <2>2, <3>1 DEF UsersTypes
  <2>6. Real(pendingAction)
    BY <2>2 DEF UsersPageInv
  <2>4. ASSUME NEW v \in Members \ crossed PROVE UserInv(v)'
    <3>1. UserInv(v)
      BY <2>2, <2>4 DEF UsersPageInv
    <3>2. CASE v = w
      <4>1. InFlightFor(v) = {} /\ r.action.row = list.rows[v] /\ account[v] = list.rows[v]
        BY <2>1, <3>1, <3>2 DEF UserInv
      <4>2. InFlightFor(v)' = {p}
        BY <1>1, <2>1, <3>2, <4>1 DEF InFlightFor, UsersTypes
      <4>3. sent'[p] = r
        BY <1>1, <2>1 DEF UsersTypes
      <4> QED
        BY <1>0, <2>1, <2>2, <2>4, <4>1, <4>2, <4>3 DEF UserInv, RowSettles
    <3>3. CASE v # w
      <4>1. InFlightFor(v)' = InFlightFor(v) /\ \A q \in InFlightFor(v) : sent'[q] = sent[q]
        BY <1>0, <1>1, <2>1, <2>2, <3>3 DEF InFlightFor, UsersTypes
      <4> QED
        BY <1>0, <2>2, <2>4, <3>1, <4>1 DEF UserInv, RowSettles
    <3> QED
      BY <3>2, <3>3
  <2>5. \A q \in Sends : sent'[q] = IF q = p THEN r ELSE sent[q]
    BY <1>1, <2>1 DEF UsersTypes
  <2> QED
    BY <1>0, <2>1, <2>2, <2>3, <2>4, <2>5, <2>6 DEF UsersPageInv
<1>8. ASSUME NEW p \in Sends, NEW done \in BOOLEAN, NEW pc \in {"ok", "error"}, Handle(p, done, pc)
      PROVE  UsersPageInv'
  <2> DEFINE r == [sent[p] EXCEPT !.pc = pc]
             w == sent[p].action.user
  <2>1. r \in SentRequest /\ r.pc = pc /\ r.action = sent[p].action /\ sent' = [sent EXCEPT ![p] = r]
    BY <1>1, <1>8 DEF Handle, UsersTypes, SentRequest
  <2> HIDE DEF r
  <2>2. /\ sent[p].pc = "out" /\ Real(sent[p].action) /\ w \in Members
        /\ UNCHANGED <<list, stats, pendingId, pendingAction, miscounted>>
        /\ account' = IF done THEN [account EXCEPT ![w] = Changed(account[w], sent[p].action)] ELSE account
        /\ crossed' = IF done = (pc = "ok") THEN crossed ELSE crossed \cup {w}
    BY <1>8 DEF Handle, UsersPageInv, Real
  <2>3. Changed(account[w], sent[p].action) \in Account
    BY <1>1, <2>2, ChangedRow DEF UsersTypes, Real, SentRequest
  <2>4. UsersTypes'
    BY <1>1, <2>1, <2>2, <2>3 DEF UsersTypes
  <2>5. \A q \in Sends : sent'[q] = IF q = p THEN r ELSE sent[q]
    BY <1>1, <2>1 DEF UsersTypes
  <2>6. list.pc = "shown"
    BY <1>0, <2>2 DEF UsersPageInv, Quiescent
  <2>7. ASSUME NEW v \in Members \ crossed' PROVE UserInv(v)'
    <3>1. UserInv(v)
      BY <2>2, <2>6, <2>7 DEF UsersPageInv
    <3>2. InFlightFor(v)' = InFlightFor(v)
      BY <2>1, <2>2, <2>5 DEF InFlightFor
    <3>3. CASE v = w
      <4>1. p \in InFlightFor(v) /\ \A q \in InFlightFor(v) : q = p
        BY <2>2, <3>1, <3>3 DEF UserInv, InFlightFor
      <4>2. account[v] = list.rows[v] /\ sent[p].action.row = list.rows[v]
        BY <2>2, <3>1, <4>1 DEF UserInv, RowSettles
      <4>3. done = (pc = "ok")
        BY <2>2, <2>7, <3>3
      <4>4. account'[v] = IF pc = "ok" THEN Changed(list.rows[v], r.action) ELSE list.rows[v]
        BY <1>1, <2>1, <2>2, <3>3, <4>2, <4>3 DEF UsersTypes
      <4> QED
        <5>1. sent'[p] = r /\ list' = list /\ pendingAction.user # v
          BY <2>2, <2>5, <3>1, <4>1 DEF UserInv
        <5> QED
          BY <2>1, <2>2, <3>2, <4>1, <4>2, <4>4, <5>1 DEF UserInv, RowSettles
    <3>4. CASE v # w
      <4>1. \A q \in InFlightFor(v) : sent'[q] = sent[q]
        BY <2>5, <3>4 DEF InFlightFor
      <4>2. account'[v] = account[v]
        BY <1>1, <2>2, <3>4 DEF UsersTypes
      <4> QED
        BY <2>2, <3>1, <3>2, <4>1, <4>2 DEF UserInv, RowSettles
    <3> QED
      BY <3>3, <3>4
  <2> QED
    BY <1>0, <2>1, <2>2, <2>4, <2>5, <2>6, <2>7 DEF UsersPageInv
<1>9. ASSUME NEW p \in Sends, SettleAction(p)
      PROVE  UsersPageInv'
  <2> DEFINE action == sent[p].action
             w == sent[p].action.user
             row == Changed(list.rows[w], action)
  <2>1. /\ sent[p].pc \in {"ok", "error"} /\ Real(action) /\ w \in Members
        /\ list' = IF sent[p].pc = "ok" THEN [list EXCEPT !.rows[w] = row] ELSE list
        /\ pendingId' = NoMember /\ sent' = [sent EXCEPT ![p] = NoRequest]
        /\ UNCHANGED <<account, pendingAction, crossed, miscounted>>
    BY <1>9 DEF SettleAction, UsersPageInv, Real, Succeeded
  <2>2. row \in Account
    BY <1>1, <2>1, ChangedRow DEF UsersTypes, Real, SentRequest
  <2>3. \A q \in Sends : sent'[q] = IF q = p THEN NoRequest ELSE sent[q]
    BY <1>1, <2>1 DEF UsersTypes
  <2>4. list.pc = "shown"
    BY <1>0, <2>1 DEF UsersPageInv, Quiescent
  <2>5. /\ list' \in [pc : Loading, rows : [Members -> Account]] /\ list'.pc = "shown"
        /\ \A v \in Members : list'.rows[v] = IF v = w /\ sent[p].pc = "ok" THEN row ELSE list.rows[v]
    BY <1>1, <2>1, <2>2, <2>4 DEF UsersTypes
  <2> HIDE DEF row
  <2>6. UsersTypes'
    BY <1>0, <1>1, <2>1, <2>5 DEF UsersTypes
  <2>7. ASSUME NEW v \in Members \ crossed' PROVE UserInv(v)'
    <3>1. UserInv(v)
      BY <2>1, <2>4, <2>7 DEF UsersPageInv
    <3>2. CASE v = w
      <4>1. p \in InFlightFor(v) /\ \A q \in InFlightFor(v) : q = p
        BY <2>1, <3>1, <3>2 DEF UserInv, InFlightFor
      <4>2. InFlightFor(v)' = {}
        BY <1>0, <2>3, <4>1 DEF InFlightFor
      <4>3. account[v] = list'.rows[v] /\ pendingAction.user # v
        BY <2>1, <2>5, <3>1, <3>2, <4>1 DEF UserInv, RowSettles, row
      <4> QED
        BY <2>1, <4>2, <4>3 DEF UserInv
    <3>3. CASE v # w
      <4>1. InFlightFor(v)' = InFlightFor(v) /\ \A q \in InFlightFor(v) : sent'[q] = sent[q]
        BY <1>0, <2>1, <2>3, <3>3 DEF InFlightFor
      <4>2. list'.rows[v] = list.rows[v]
        BY <2>5, <3>3
      <4> QED
        BY <2>1, <3>1, <4>1, <4>2 DEF UserInv, RowSettles
    <3> QED
      BY <3>2, <3>3
  <2> QED
    BY <1>0, <2>1, <2>3, <2>5, <2>6, <2>7 DEF UsersPageInv
<1> QED
  BY <1>2, <1>3, <1>4, <1>5, <1>6, <1>7, <1>8, <1>9 DEF UsersPageNext

(* The invariant of the page of users (useUsersPage, useUsersTable).        *)
THEOREM UsersPageInvHolds == UsersPageSpec => []UsersPageInv
  BY UsersPageStarts, UsersPageKept, PTL DEF UsersPageSpec

(* While nothing is under way for a user, the row that the page patched with*)
(* its answers shows the status and the rights that the server stores       *)
(* (patchUser).                                                             *)
THEOREM RowsFollow == UsersPageSpec => []RowsFollowActions
<1>1. UsersPageInv => RowsFollowActions
  BY DEF UsersPageInv, RowsFollowActions, UserInv
<1> QED
  BY <1>1, UsersPageInvHolds, PTL

-----------------------------------------------------------------------------
(* The counters *)

(* The users of a status.                                                   *)
Having(accounts, s) == {u \in Members : accounts[u].status = s}

(* The counters count the rows that are shown, or, before those are, the    *)
(* stored ones.                                                             *)
CountersInv ==
    /\ stats \in [pc : Loading, byStatus : [Statuses -> 0..Cardinality(Members)]]
    /\ ~miscounted => \A p \in Sends : sent[p].pc # "idle" =>
          /\ stats.pc = "shown"
          /\ From(sent[p].action) = sent[p].action.row.status
    /\ (stats.pc \in {"read", "shown"} /\ ~miscounted /\ crossed = {}) =>
          stats.byStatus = NumberOf(IF list.pc = "shown" THEN list.rows ELSE account)

(* getStats counts finitely many users of every status.                     *)
LEMMA NumberOfType ==
    ASSUME NEW accounts
    PROVE  /\ NumberOf(accounts) \in [Statuses -> 0..Cardinality(Members)]
           /\ \A s \in Statuses : NumberOf(accounts)[s] = Cardinality(Having(accounts, s))
           /\ \A s \in Statuses : IsFiniteSet(Having(accounts, s)) /\ Cardinality(Having(accounts, s)) \in Nat
<1>1. ASSUME NEW s \in Statuses
      PROVE  IsFiniteSet(Having(accounts, s)) /\ Cardinality(Having(accounts, s)) \in 0..Cardinality(Members)
  <2>1. Having(accounts, s) \in SUBSET Members
    BY DEF Having
  <2>2. /\ IsFiniteSet(Having(accounts, s)) /\ Cardinality(Having(accounts, s)) <= Cardinality(Members)
        /\ Cardinality(Having(accounts, s)) \in Nat /\ Cardinality(Members) \in Nat
    BY <2>1, UsersPageConstants, FS_Subset, FS_CardinalityType
  <2> QED
    BY <2>2
<1>2. NumberOf(accounts) = [s \in Statuses |-> Cardinality(Having(accounts, s))]
  BY DEF NumberOf, Having
<1>3. \A n \in 0..Cardinality(Members) : n \in Nat
  BY UsersPageConstants, FS_CardinalityType
<1> QED
  BY <1>1, <1>2, <1>3

(* Moving one user from a status to another moves one from its counter to   *)
(* the other (transitionStats).                                             *)
LEMMA NumberMoves ==
    ASSUME NEW accounts \in [Members -> Account], NEW u \in Members, NEW row \in Account
    PROVE  NumberOf([accounts EXCEPT ![u] = row]) =
               IF row.status = accounts[u].status THEN NumberOf(accounts)
               ELSE Transition(NumberOf(accounts), accounts[u].status, row.status)
<1> DEFINE next == [accounts EXCEPT ![u] = row]
           from == accounts[u].status
           to == row.status
<1>1. /\ next[u] = row /\ \A v \in Members \ {u} : next[v] = accounts[v]
      /\ from \in Statuses /\ to \in Statuses
  BY DEF Account
<1>2. CASE from = to
  <2>1. \A s \in Statuses : Having(next, s) = Having(accounts, s)
    BY <1>1, <1>2 DEF Having
  <2> HIDE DEF next
  <2>2. NumberOf(next) = NumberOf(accounts)
    BY <2>1 DEF NumberOf, Having
  <2> QED
    BY <1>2, <2>2 DEF next
<1>3. CASE from # to
  <2>1. /\ Having(next, from) = Having(accounts, from) \ {u} /\ u \in Having(accounts, from)
        /\ Having(next, to) = Having(accounts, to) \cup {u} /\ u \notin Having(accounts, to)
        /\ \A s \in Statuses \ {from, to} : Having(next, s) = Having(accounts, s)
    BY <1>1, <1>3 DEF Having
  <2> HIDE DEF next, from, to
  <2>0. from \in Statuses /\ to \in Statuses
    BY <1>1
  <2>2. /\ IsFiniteSet(Having(accounts, from)) /\ IsFiniteSet(Having(accounts, to))
        /\ Cardinality(Having(accounts, from)) \in Nat /\ Cardinality(Having(accounts, to)) \in Nat
    BY <2>0, NumberOfType
  <2>10. Cardinality(Having(next, from)) \in Nat
    BY <2>0, NumberOfType
  <2>3. Cardinality(Having(next, from)) = Cardinality(Having(accounts, from)) - 1
    <3> DEFINE S == Having(accounts, from)
    <3>1. IsFiniteSet(S) /\ u \in S /\ Having(next, from) = S \ {u}
      BY <2>1, <2>2
    <3> HIDE DEF S
    <3>2. Cardinality(S \ {u}) = Cardinality(S) - 1
      BY <3>1, FS_RemoveElement
    <3> QED
      BY <3>1, <3>2 DEF S
  <2>4. Cardinality(Having(next, to)) = Cardinality(Having(accounts, to)) + 1
    BY <2>1, <2>2, FS_AddElement
  <2>5. Cardinality(Having(accounts, from)) > 0
    <3> DEFINE m == Cardinality(Having(next, from))
                n == Cardinality(Having(accounts, from))
    <3>1. m \in Nat /\ n \in Nat /\ m = n - 1
      BY <2>2, <2>3, <2>10
    <3> HIDE DEF m, n
    <3>2. n > 0
      BY <3>1
    <3> QED
      BY <3>2 DEF n
  <2>6. ASSUME NEW s \in Statuses
        PROVE  NumberOf(next)[s] = Transition(NumberOf(accounts), from, to)[s]
    <3>1. /\ NumberOf(next)[s] = Cardinality(Having(next, s))
          /\ NumberOf(accounts)[s] = Cardinality(Having(accounts, s))
      BY NumberOfType
    <3>2. Transition(NumberOf(accounts), from, to)[s] =
              IF s = from THEN (IF NumberOf(accounts)[s] > 0 THEN NumberOf(accounts)[s] - 1 ELSE 0)
              ELSE IF s = to THEN NumberOf(accounts)[s] + 1 ELSE NumberOf(accounts)[s]
      BY DEF Transition
    <3> HIDE DEF NumberOf, Transition
    <3> QED
      BY <1>3, <2>1, <2>3, <2>4, <2>5, <3>1, <3>2
  <2>7. Transition(NumberOf(accounts), from, to) =
            [s \in Statuses |-> Transition(NumberOf(accounts), from, to)[s]]
    BY DEF Transition
  <2>8. NumberOf(next) = [s \in Statuses |-> NumberOf(next)[s]]
    BY NumberOfType
  <2> HIDE DEF NumberOf, Transition
  <2>9. NumberOf(next) = Transition(NumberOf(accounts), from, to)
    BY <2>6, <2>7, <2>8
  <2> QED
    BY <1>3, <2>9 DEF next, from, to
<1> QED
  BY <1>2, <1>3

(* At rest the rows of the page are the stored ones.                         *)
LEMMA RestingRows ==
    ASSUME UsersPageInv, list.pc = "shown", crossed = {}, \A p \in Sends : sent[p].pc = "idle"
    PROVE  list.rows = account
<1>1. \A u \in Members : account[u] = list.rows[u]
  BY DEF UsersPageInv, UserInv, InFlightFor
<1> QED
  BY <1>1 DEF UsersPageInv, UsersTypes

(* Initially no counter is shown.                                           *)
LEMMA CountersStart == UsersPageInit => CountersInv
<1> SUFFICES ASSUME UsersPageInit PROVE CountersInv
  OBVIOUS
<1>1. stats \in [pc : Loading, byStatus : [Statuses -> 0..Cardinality(Members)]] /\ stats.pc = "asked"
  BY NumberOfType DEF UsersPageInit, Loading
<1> QED
  BY <1>1 DEF UsersPageInit, CountersInv, NoRequest

(* Every step of the page keeps the counters.                               *)
LEMMA CountersKept == UsersPageInv /\ CountersInv /\ [UsersPageNext]_usersPageVars => CountersInv'
<1> SUFFICES ASSUME UsersPageInv, CountersInv, [UsersPageNext]_usersPageVars PROVE CountersInv'
  OBVIOUS
<1>0. NoRequest.pc = "idle"
  BY DEF NoRequest
<1>1. UsersTypes
  BY DEF UsersPageInv
<1>2. CASE UNCHANGED usersPageVars
  BY <1>2 DEF usersPageVars, CountersInv
<1>3. CASE ReadUsers
  <2>1. UNCHANGED <<account, sent, crossed, miscounted>>
    BY <1>3 DEF ReadUsers
  <2>2. CASE stats' = stats /\ list.pc = "asked" /\ list' = [pc |-> "read", rows |-> account]
    BY <2>1, <2>2 DEF CountersInv
  <2>3. CASE stats.pc = "asked" /\ list' = list /\ stats' = [pc |-> "read", byStatus |-> NumberOf(account)]
    <3>1. stats' \in [pc : Loading, byStatus : [Statuses -> 0..Cardinality(Members)]]
      BY <2>3, NumberOfType DEF Loading
    <3>2. ~miscounted => \A p \in Sends : sent[p].pc = "idle"
      BY <2>3 DEF CountersInv
    <3>3. (list.pc = "shown" /\ ~miscounted /\ crossed = {}) => list.rows = account
      BY <3>2, RestingRows
    <3> QED
      BY <2>1, <2>3, <3>1, <3>2, <3>3 DEF CountersInv
  <2> QED
    BY <1>3, <2>2, <2>3 DEF ReadUsers
<1>4. CASE ShowUsers
  <2>1. UNCHANGED <<account, sent, crossed, miscounted>>
    BY <1>4 DEF ShowUsers
  <2>2. ASSUME NEW pc \in {"shown", "failed"}, list.pc = "read", list' = [list EXCEPT !.pc = pc], stats' = stats
        PROVE  CountersInv'
    <3>1. list'.pc = pc /\ list'.rows = account
      BY <1>1, <2>2 DEF UsersTypes, UsersPageInv
    <3> QED
      BY <2>1, <2>2, <3>1 DEF CountersInv
  <2>3. ASSUME NEW pc \in {"shown", "failed"}, stats.pc = "read", stats' = [stats EXCEPT !.pc = pc], list' = list
        PROVE  CountersInv'
    <3>1. /\ stats' \in [pc : Loading, byStatus : [Statuses -> 0..Cardinality(Members)]]
          /\ stats'.pc = pc /\ stats'.byStatus = stats.byStatus
      BY <2>3 DEF CountersInv, Loading
    <3> QED
      BY <2>1, <2>3, <3>1 DEF CountersInv
  <2> QED
    BY <1>4, <2>2, <2>3 DEF ShowUsers
<1>5. CASE CancelDialog \/ \E u \in Members, op \in Operations : OpenDialog(u, op)
  <2>1. UNCHANGED <<account, list, stats, sent, miscounted>> /\ crossed \subseteq crossed'
    BY <1>5 DEF CancelDialog, OpenDialog
  <2> QED
    BY <2>1 DEF CountersInv
<1>6. ASSUME NEW p \in Sends, Confirm(p)
      PROVE  CountersInv'
  <2>1. /\ UNCHANGED <<account, list, stats, crossed>>
        /\ miscounted' = (miscounted \/ stats.pc # "shown" \/ From(pendingAction) # pendingAction.row.status)
        /\ \A q \in Sends : sent'[q] = IF q = p THEN [pc |-> "out", action |-> pendingAction] ELSE sent[q]
    BY <1>1, <1>6 DEF Confirm, UsersTypes
  <2>2. ASSUME ~miscounted', NEW q \in Sends, sent'[q].pc # "idle"
        PROVE  stats'.pc = "shown" /\ From(sent'[q].action) = sent'[q].action.row.status
    <3>1. CASE q = p
      <4>1. sent'[q].action = pendingAction
        BY <2>1, <3>1
      <4>2. stats.pc = "shown" /\ From(pendingAction) = pendingAction.row.status
        BY <2>1, <2>2
      <4> QED
        BY <2>1, <4>1, <4>2
    <3>2. CASE q # p
      BY <2>1, <2>2, <3>2 DEF CountersInv
    <3> QED
      BY <3>1, <3>2
  <2>3. (stats.pc \in {"read", "shown"} /\ ~miscounted' /\ crossed = {}) =>
            stats.byStatus = NumberOf(IF list.pc = "shown" THEN list.rows ELSE account)
    BY <2>1 DEF CountersInv
  <2> QED
    BY <2>1, <2>2, <2>3 DEF CountersInv
<1>7. ASSUME NEW p \in Sends, NEW done \in BOOLEAN, NEW pc \in {"ok", "error"}, Handle(p, done, pc)
      PROVE  CountersInv'
  <2>1. /\ UNCHANGED <<list, stats, miscounted>> /\ crossed \subseteq crossed'
        /\ \A q \in Sends : sent'[q].action = sent[q].action /\ (sent[q].pc = "idle" => sent'[q].pc = "idle")
        /\ sent[p].pc = "out"
    BY <1>1, <1>7 DEF Handle, UsersTypes
  <2>2. list.pc = "shown"
    BY <1>0, <2>1 DEF UsersPageInv, Quiescent
  <2> QED
    BY <2>1, <2>2 DEF CountersInv
<1>8. ASSUME NEW p \in Sends, SettleAction(p)
      PROVE  CountersInv'
  <2> DEFINE action == sent[p].action
             w == sent[p].action.user
             row == Changed(list.rows[w], action)
  <2>1. /\ sent[p].pc \in {"ok", "error"} /\ Real(action)
        /\ list' = IF sent[p].pc = "ok" THEN [list EXCEPT !.rows[w] = row] ELSE list
        /\ stats' = IF sent[p].pc = "ok" /\ Counted /\ action.op # "setAdmin"
                    THEN [stats EXCEPT !.byStatus = Transition(stats.byStatus, From(action), row.status)]
                    ELSE stats
        /\ sent' = [sent EXCEPT ![p] = NoRequest]
        /\ UNCHANGED <<account, crossed, miscounted>>
    BY <1>8 DEF SettleAction, UsersPageInv, Succeeded
  <2>2. w \in Members /\ action.op \in Operations /\ action \in Action
    BY <1>1, <2>1 DEF Real, UsersTypes, SentRequest
  <2>3. row \in Account
    BY <1>1, <2>2, ChangedRow DEF UsersTypes
  <2>4. list.pc = "shown"
    BY <1>0, <2>1 DEF UsersPageInv, Quiescent
  <2>5. \A q \in Sends : sent'[q] = IF q = p THEN NoRequest ELSE sent[q]
    BY <1>1, <2>1 DEF UsersTypes
  <2>6. CASE sent[p].pc = "ok" /\ Counted
    <3>1. stats.pc = "shown" /\ ~miscounted /\ crossed = {} /\ stats.byStatus = NumberOf(list.rows)
      BY <2>4, <2>6 DEF Counted, CountersInv
    <3>2. action.row = list.rows[w]
      BY <2>1, <2>2, <2>4, <3>1 DEF UsersPageInv, UserInv, RowSettles, InFlightFor
    <3>3. From(action) = list.rows[w].status
      BY <2>1, <3>1, <3>2 DEF CountersInv
    <3>4. list.rows \in [Members -> Account] /\ list' = [list EXCEPT !.rows[w] = row]
      BY <1>1, <2>1, <2>6 DEF UsersTypes
    <3>5. list'.rows = [list.rows EXCEPT ![w] = row] /\ list'.pc = "shown"
      BY <1>1, <2>4, <3>4 DEF UsersTypes
    <3>6. action.op = "setAdmin" <=> row.status = list.rows[w].status
      BY <1>1, <2>1, <2>2, <3>2, ChangedRow DEF Real, UsersTypes
    <3> HIDE DEF row, action, w
    <3>7. NumberOf(list'.rows) = IF action.op = "setAdmin" THEN NumberOf(list.rows)
                                 ELSE Transition(NumberOf(list.rows), list.rows[w].status, row.status)
      BY <2>2, <2>3, <3>4, <3>5, <3>6, NumberMoves
    <3>8. stats'.byStatus = NumberOf(list'.rows) /\ stats'.pc = stats.pc
      BY <2>1, <2>6, <3>1, <3>3, <3>7 DEF CountersInv
    <3>9. stats' \in [pc : Loading, byStatus : [Statuses -> 0..Cardinality(Members)]]
      BY <2>1, <2>6, <3>8, NumberOfType DEF CountersInv
    <3> QED
      BY <1>0, <2>1, <2>5, <3>1, <3>5, <3>8, <3>9 DEF CountersInv
  <2>7. CASE sent[p].pc # "ok"
    BY <1>0, <2>1, <2>5, <2>7 DEF CountersInv
  <2>8. CASE sent[p].pc = "ok" /\ ~Counted
    <3>1. stats' = stats /\ (miscounted \/ crossed # {})
      BY <2>1, <2>8 DEF Counted, CountersInv
    <3> QED
      BY <1>0, <2>1, <2>5, <3>1 DEF CountersInv
  <2> QED
    BY <2>6, <2>7, <2>8
<1> QED
  BY <1>2, <1>3, <1>4, <1>5, <1>6, <1>7, <1>8 DEF UsersPageNext

(* The invariant of the counters (useUsersStats).                           *)
THEOREM CountersInvHolds == UsersPageSpec => []CountersInv
  BY CountersStart, CountersKept, UsersPageInvHolds, PTL DEF UsersPageSpec

(* The counters above the table, changed one at a time by transitionStats,  *)
(* are those getStats would return, unless an answer came before they were  *)
(* loaded.                                                                  *)
THEOREM CountersFollow == UsersPageSpec => []CountersFollowActions
<1>1. UsersPageInv /\ CountersInv => CountersFollowActions
  BY RestingRows DEF CountersInv, CountersFollowActions, Counted
<1> QED
  BY <1>1, CountersInvHolds, UsersPageInvHolds, PTL

-----------------------------------------------------------------------------
(* The page of policies *)

(* What is shown is the stored policy, or one request or load away from it.  *)
ShownInv ==
    (selectedUserId # NoSubject /\ ~tangled) =>
        /\ \A k, l \in LoadsInFlight : k = l
        /\ \A k \in LoadsInFlight :
              /\ isLoading /\ save = NoSave /\ choice = NoChoice
              /\ listing[k].user = selectedUserId
              /\ listing[k].pc = "read" => listing[k].answer = policy[selectedUserId]
        /\ Saving => save.user = selectedUserId
        /\ LoadsInFlight = {} => shown = policy[selectedUserId] \/ save.pc = "ok"
        /\ save.pc = "ok" => policy[selectedUserId] = save.value

(* A number that was typed where access was allowed.                         *)
CapInv ==
    (save.pc = "out" /\ save.kind = "cap" /\ save.trusted) =>
        Effective(save.value) = Effective(policy[save.user])

(* The inductive invariant.                                                 *)
EditorInv ==
    /\ EditorTypeOK
    /\ selectedUserId = NoSubject => isLoading /\ LoadsInFlight = {} /\ save = NoSave /\ choice = NoChoice
    /\ ~Saving => save = NoSave
    /\ Saving => save.user \in Subjects
    /\ choice # NoChoice => save = NoSave /\ choice.effect \in Effects
    /\ \A k \in LoadsInFlight : listing[k].user \in Subjects
    /\ ShownInv
    /\ CapInv

(* What the blank values are.                                               *)
LEMMA EditorBlanks ==
    /\ NoPolicy \in Policy /\ NoLoad \in LoadState /\ NoSave \in SaveState
    /\ NoLoad.pc = "idle" /\ NoSave.pc = "idle" /\ NoSave.kind = "none"
    /\ NoChoice.effect = "none" /\ NoChoice \in [effect : Effects \cup {"none"}, cap : 1..MaxCap]
    /\ NoSubject \notin Subjects /\ MaxCap \in Nat \ {0}
<1>1. 1 \in 1..MaxCap /\ NoSubject \notin Subjects /\ MaxCap \in Nat \ {0}
  BY AccessEditorConstants
<1>2. NoPolicy \in Policy
  BY <1>1 DEF NoPolicy, Policy, Effects
<1> QED
  BY <1>1, <1>2 DEF NoLoad, LoadState, NoSave, SaveState, NoChoice

(* Initially no user is selected.                                           *)
LEMMA EditorStarts == EditorInit => EditorInv
<1> SUFFICES ASSUME EditorInit PROVE EditorInv
  OBVIOUS
<1>1. EditorTypeOK
  <2>1. /\ policy \in [Subjects -> Policy] /\ shown \in Policy /\ defaultAllowed \in BOOLEAN
        /\ selectedUserId \in Subjects \cup {NoSubject} /\ isLoading \in BOOLEAN /\ tangled \in BOOLEAN
    BY EditorBlanks DEF EditorInit
  <2>2. /\ draftCap \in 0..MaxCap /\ choice \in [effect : Effects \cup {"none"}, cap : 1..MaxCap]
        /\ listing \in [Loads -> LoadState] /\ save \in SaveState
    BY EditorBlanks DEF EditorInit
  <2> QED
    BY <2>1, <2>2 DEF EditorTypeOK
<1>2. LoadsInFlight = {}
  BY EditorBlanks DEF EditorInit, LoadsInFlight
<1>3. save.pc = "idle" /\ selectedUserId = NoSubject
  BY EditorBlanks DEF EditorInit
<1> QED
  <2>1. ShownInv /\ CapInv
    BY <1>2, <1>3 DEF ShownInv, CapInv
  <2>2. save = NoSave /\ choice = NoChoice /\ isLoading = TRUE
    BY DEF EditorInit
  <2> QED
    BY <1>1, <1>2, <1>3, <2>1, <2>2 DEF EditorInv, Saving

(* Every step of the page keeps the invariant.                              *)
LEMMA EditorKept == EditorInv /\ [EditorNext]_editorVars => EditorInv'
<1> SUFFICES ASSUME EditorInv, [EditorNext]_editorVars PROVE EditorInv'
  OBVIOUS
<1>0. EditorTypeOK
  BY DEF EditorInv
<1> USE EditorBlanks
<1>1. CASE UNCHANGED editorVars
  <2>1. UNCHANGED <<defaultAllowed, policy, selectedUserId, shown, isLoading, draftCap, choice, listing, save, tangled>>
    BY <1>1 DEF editorVars
  <2>2. EditorTypeOK' /\ ShownInv' /\ CapInv'
    BY <2>1 DEF EditorInv, EditorTypeOK, ShownInv, CapInv, LoadsInFlight, Saving, Effective
  <2> QED
    BY <2>1, <2>2 DEF EditorInv, LoadsInFlight, Saving
<1>2. ASSUME NEW u \in Subjects, NEW k \in Loads, Select(u, k)
      PROVE  EditorInv'
  <2> DEFINE l == [NoLoad EXCEPT !.pc = "asked", !.user = u]
  <2>1. l \in LoadState /\ l.pc = "asked" /\ l.user = u
    BY DEF LoadState, NoLoad
  <2>2. /\ listing' = [listing EXCEPT ![k] = l]
        /\ UNCHANGED <<defaultAllowed, policy, shown, choice, save>>
        /\ selectedUserId' = u /\ isLoading' = TRUE /\ draftCap' = 0
        /\ tangled' = (LoadsInFlight # {} \/ Saving) /\ choice = NoChoice
    BY <1>2 DEF Select
  <2> HIDE DEF l
  <2>3. EditorTypeOK'
    BY <1>0, <2>1, <2>2 DEF EditorTypeOK
  <2>l. listing \in [Loads -> LoadState] /\ k \in Loads
    BY <1>0, <1>2 DEF EditorTypeOK, Select
  <2>a. listing'[k] = l /\ \A j \in Loads : j # k => listing'[j] = listing[j]
    BY <2>l, <2>2
  <2>b. ~tangled' => LoadsInFlight = {} /\ save = NoSave
    BY <2>2 DEF EditorInv
  <2>c. LoadsInFlight = {} => LoadsInFlight' = {k}
    <3>1. \A j \in Loads : j \in LoadsInFlight' <=> listing'[j].pc # "idle"
      BY DEF LoadsInFlight
    <3>2. LoadsInFlight = {} => \A j \in Loads : listing[j].pc = "idle"
      BY DEF LoadsInFlight
    <3>3. LoadsInFlight = {} => \A j \in Loads : j \in LoadsInFlight' <=> j = k
      BY <3>1, <3>2, <2>a, <2>1
    <3>4. LoadsInFlight' \subseteq Loads
      BY DEF LoadsInFlight
    <3> QED
      BY <3>3, <3>4, <2>l
  <2>4. ~tangled' => LoadsInFlight' = {k} /\ save = NoSave /\ listing'[k] = l
    BY <2>a, <2>b, <2>c
  <2>7. \A j \in LoadsInFlight' : listing'[j].user \in Subjects
    BY <1>0, <2>1, <2>2 DEF EditorInv, EditorTypeOK, LoadsInFlight
  <2>5. ShownInv'
    BY <2>1, <2>2, <2>4 DEF ShownInv, Saving
  <2>6. CapInv'
    BY <2>2 DEF EditorInv, CapInv, Effective
  <2> QED
    BY <2>2, <2>3, <2>5, <2>6, <2>7 DEF EditorInv, Saving
<1>3. ASSUME NEW k \in Loads, ListPolicies(k)
      PROVE  EditorInv'
  <2> DEFINE l == [listing[k] EXCEPT !.pc = "read", !.answer = policy[listing[k].user]]
  <2>1. /\ listing' = [listing EXCEPT ![k] = l] /\ listing[k].pc = "asked"
        /\ UNCHANGED <<defaultAllowed, policy, selectedUserId, shown, isLoading, draftCap, choice, save, tangled>>
    BY <1>0, <1>3 DEF ListPolicies, EditorTypeOK, LoadState
  <2>2. listing[k].user \in Subjects
    BY <2>1 DEF EditorInv, LoadsInFlight
  <2>3. /\ l \in LoadState /\ l.pc = "read" /\ l.user = listing[k].user
        /\ l.answer = policy[listing[k].user]
    BY <1>0, <2>2 DEF EditorTypeOK, LoadState
  <2> HIDE DEF l
  <2>4. EditorTypeOK' /\ \A j \in Loads : listing'[j] = IF j = k THEN l ELSE listing[j]
    BY <1>0, <2>1, <2>3 DEF EditorTypeOK
  <2>5. LoadsInFlight' = LoadsInFlight
    BY <2>1, <2>3, <2>4 DEF LoadsInFlight
  <2>6. ShownInv' /\ CapInv'
    BY <2>1, <2>3, <2>4, <2>5 DEF EditorInv, ShownInv, CapInv, Saving, Effective, LoadsInFlight
  <2> QED
    BY <2>1, <2>2, <2>3, <2>4, <2>5, <2>6 DEF EditorInv, Saving, LoadsInFlight
<1>4. ASSUME NEW k \in Loads, ShowPolicies(k)
      PROVE  EditorInv'
  <2>1. /\ shown' = listing[k].answer /\ isLoading' = FALSE /\ listing[k].pc = "read"
        /\ listing' = [listing EXCEPT ![k] = NoLoad]
        /\ UNCHANGED <<defaultAllowed, policy, selectedUserId, draftCap, choice, save, tangled>>
    BY <1>4 DEF ShowPolicies
  <2>2. EditorTypeOK' /\ \A j \in Loads : listing'[j] = IF j = k THEN NoLoad ELSE listing[j]
    BY <1>0, <2>1 DEF EditorTypeOK, LoadState
  <2>3. LoadsInFlight' = LoadsInFlight \ {k} /\ k \in LoadsInFlight
    BY <2>1, <2>2 DEF LoadsInFlight
  <2>4. ShownInv'
    BY <2>1, <2>2, <2>3 DEF EditorInv, ShownInv, Saving
  <2>5. CapInv'
    BY <2>1 DEF EditorInv, CapInv, Effective
  <2> QED
    BY <2>1, <2>2, <2>3, <2>4, <2>5 DEF EditorInv, Saving, LoadsInFlight
<1>5. ASSUME NEW k \in Loads, LoadFails(k)
      PROVE  EditorInv'
  <2>1. /\ isLoading' = FALSE /\ tangled' = TRUE /\ listing[k].pc # "idle"
        /\ listing' = [listing EXCEPT ![k] = NoLoad]
        /\ UNCHANGED <<defaultAllowed, policy, selectedUserId, shown, draftCap, choice, save>>
    BY <1>5 DEF LoadFails
  <2>2. EditorTypeOK' /\ \A j \in Loads : listing'[j] = IF j = k THEN NoLoad ELSE listing[j]
    BY <1>0, <2>1 DEF EditorTypeOK
  <2>3. LoadsInFlight' = LoadsInFlight \ {k} /\ k \in LoadsInFlight
    BY <2>1, <2>2 DEF LoadsInFlight
  <2>4. ShownInv' /\ CapInv'
    BY <2>1 DEF EditorInv, ShownInv, CapInv, Effective
  <2> QED
    BY <2>1, <2>2, <2>3, <2>4 DEF EditorInv, Saving, LoadsInFlight
<1>6. ASSUME NEW n \in 1..MaxCap, TypeCap(n)
      PROVE  EditorInv'
  <2>1. /\ draftCap' \in 0..MaxCap
        /\ UNCHANGED <<defaultAllowed, policy, selectedUserId, shown, isLoading, choice, listing, save, tangled>>
    BY <1>6 DEF TypeCap
  <2>2. EditorTypeOK' /\ ShownInv' /\ CapInv'
    BY <1>0, <2>1 DEF EditorInv, EditorTypeOK, ShownInv, CapInv, LoadsInFlight, Saving, Effective
  <2> QED
    BY <2>1, <2>2 DEF EditorInv, LoadsInFlight, Saving
<1>7. ASSUME NEW effect \in Effects, ChoosePolicy(effect)
      PROVE  EditorInv'
  <2>1. /\ ~isLoading /\ ~Saving
        /\ choice' = [effect |-> effect, cap |-> IF draftCap # 0 THEN draftCap ELSE shown.cap]
        /\ UNCHANGED <<defaultAllowed, policy, selectedUserId, shown, isLoading, draftCap, listing, save, tangled>>
    BY <1>7 DEF ChoosePolicy
  <2>2. choice' \in [effect : Effects \cup {"none"}, cap : 1..MaxCap]
    <3>1. shown.cap \in 1..MaxCap /\ draftCap \in 0..MaxCap
      BY <1>0 DEF EditorTypeOK, Policy
    <3> QED
      BY <2>1, <3>1
  <2>3. EditorTypeOK' /\ ShownInv' /\ CapInv'
    BY <1>0, <2>1, <2>2 DEF EditorInv, EditorTypeOK, ShownInv, CapInv, LoadsInFlight, Saving, Effective
  <2> QED
    BY <2>1, <2>3 DEF EditorInv, LoadsInFlight, Saving
<1>8. CASE CancelChoice
  <2>1. /\ choice' = NoChoice
        /\ UNCHANGED <<defaultAllowed, policy, selectedUserId, shown, isLoading, draftCap, listing, save, tangled>>
    BY <1>8 DEF CancelChoice
  <2>2. EditorTypeOK' /\ ShownInv' /\ CapInv'
    BY <1>0, <2>1 DEF EditorInv, EditorTypeOK, ShownInv, CapInv, LoadsInFlight, Saving, Effective
  <2> QED
    BY <2>1, <2>2 DEF EditorInv, LoadsInFlight, Saving
<1>9. ASSUME NEW kind \in {"cap", "policy"}, NEW value \in Policy, Start(kind, value),
             selectedUserId # NoSubject, save = NoSave,
             (~tangled /\ LoadsInFlight = {} /\ kind = "cap") =>
                 Effective(value) = Effective(policy[selectedUserId]),
             choice' = NoChoice, ~tangled => LoadsInFlight = {},
             UNCHANGED <<defaultAllowed, policy, selectedUserId, shown, isLoading, draftCap, listing, tangled>>
      PROVE  EditorInv'
  <2>1. /\ save' \in SaveState /\ save'.pc = "out" /\ save'.kind = kind /\ save'.user = selectedUserId
        /\ save'.value = value /\ save'.trusted = (~tangled /\ LoadsInFlight = {})
    BY <1>0, <1>9 DEF Start, SaveState, EditorTypeOK
  <2>2. EditorTypeOK'
    BY <1>0, <1>9, <2>1 DEF EditorTypeOK
  <2>3. ShownInv'
    BY <1>9, <2>1 DEF EditorInv, ShownInv, LoadsInFlight, Saving
  <2>4. CapInv'
    BY <1>9, <2>1 DEF CapInv, Effective
  <2> QED
    BY <1>0, <1>9, <2>1, <2>2, <2>3, <2>4 DEF EditorInv, LoadsInFlight, Saving, EditorTypeOK
<1>10. CASE UpdateCap
  <2> DEFINE effect == IF shown.effect = "DEFAULT" THEN "ALLOW" ELSE shown.effect
             value == [effect |-> effect, cap |-> draftCap]
  <2>1. /\ Start("cap", value) /\ ~isLoading /\ ~Saving /\ Effective(shown) # "DENY" /\ draftCap # 0
        /\ choice = NoChoice
        /\ UNCHANGED <<defaultAllowed, policy, selectedUserId, shown, isLoading, draftCap, choice, listing, tangled>>
    BY <1>10 DEF UpdateCap, Editable
  <2>2. value \in Policy /\ Effective(value) = "ALLOW" /\ Effective(shown) = "ALLOW"
    <3>1. shown \in Policy /\ shown.effect \in Effects /\ draftCap \in 1..MaxCap
      BY <1>0, <2>1 DEF EditorTypeOK, Policy
    <3>2. effect \in {"ALLOW", "DENY"}
      BY <3>1 DEF Effects
    <3>3. value \in Policy
      <4> HIDE DEF effect
      <4> QED
        BY <3>1, <3>2 DEF Policy, Effects
    <3>4. Effective(shown) = "ALLOW"
      BY <2>1, <3>1 DEF Effective, Effects
    <3>5. shown.effect # "DENY"
      BY <3>4 DEF Effective
    <3>6. value.effect = "ALLOW"
      BY <3>1, <3>5 DEF Effects
    <3> QED
      BY <3>3, <3>4, <3>6 DEF Effective
  <2>3. selectedUserId # NoSubject /\ save = NoSave /\ (~tangled => LoadsInFlight = {})
    BY <2>1 DEF EditorInv, ShownInv
  <2>4. ~tangled => shown = policy[selectedUserId]
    BY <2>1, <2>3 DEF EditorInv, ShownInv, Saving
  <2> HIDE DEF value
  <2> QED
    BY <1>9, <2>1, <2>2, <2>3, <2>4
<1>11. CASE ConfirmChoice
  <2> DEFINE value == IF choice.effect = "DEFAULT" THEN NoPolicy ELSE choice
  <2>1. /\ Start("policy", value) /\ choice # NoChoice /\ choice' = NoChoice
        /\ UNCHANGED <<defaultAllowed, policy, selectedUserId, shown, isLoading, draftCap, listing, tangled>>
    BY <1>11 DEF ConfirmChoice
  <2>2. save = NoSave /\ selectedUserId # NoSubject /\ (~tangled => LoadsInFlight = {})
    BY <2>1 DEF EditorInv, ShownInv
  <2>3. value \in Policy
    BY <1>0, <2>1 DEF EditorInv, EditorTypeOK, Policy
  <2> HIDE DEF value
  <2> QED
    BY <1>9, <2>1, <2>2, <2>3
<1>12. ASSUME NEW done \in BOOLEAN, NEW pc \in {"ok", "error"}, HandleSave(done, pc)
       PROVE  EditorInv'
  <2>1. /\ save.pc = "out" /\ save' = [save EXCEPT !.pc = pc] /\ (pc = "ok" => done)
        /\ policy' = IF done THEN [policy EXCEPT ![save.user] = save.value] ELSE policy
        /\ tangled' = (tangled \/ (done /\ pc = "error"))
        /\ UNCHANGED <<defaultAllowed, selectedUserId, shown, isLoading, draftCap, choice, listing>>
    BY <1>12 DEF HandleSave
  <2>2. save.user \in Subjects /\ save.value \in Policy
    BY <1>0, <2>1 DEF EditorInv, Saving, EditorTypeOK, SaveState
  <2>3. /\ save' \in SaveState /\ save'.pc = pc /\ save'.user = save.user /\ save'.value = save.value
    BY <1>0, <2>1 DEF EditorTypeOK, SaveState
  <2>4. EditorTypeOK' /\ save # NoSave
    BY <1>0, <2>1, <2>2, <2>3 DEF EditorTypeOK
  <2>5. ShownInv'
    <3>1. LoadsInFlight' = LoadsInFlight
      BY <2>1 DEF LoadsInFlight
    <3>2. done => policy'[save.user] = save.value
      BY <1>0, <2>1, <2>2 DEF EditorTypeOK
    <3>3. CASE selectedUserId # NoSubject /\ ~tangled'
      <4>1. /\ ~tangled /\ save.user = selectedUserId /\ LoadsInFlight = {} /\ shown = policy[selectedUserId]
            /\ (pc = "error" => ~done)
        BY <2>1, <2>4, <3>3 DEF EditorInv, ShownInv, Saving
      <4> QED
        BY <2>1, <2>3, <3>1, <3>2, <4>1 DEF ShownInv, Saving
    <3> QED
      BY <2>1, <3>3 DEF ShownInv
  <2>6. CapInv'
    BY <2>3 DEF CapInv
  <2> QED
    BY <2>1, <2>2, <2>3, <2>4, <2>5, <2>6 DEF EditorInv, Saving, LoadsInFlight
<1>13. CASE SettleSave
  <2>1. /\ save.pc \in {"ok", "error"} /\ save' = NoSave
        /\ shown' = IF save.pc = "ok" THEN save.value ELSE shown
        /\ draftCap' = IF save.kind = "policy" THEN draftCap ELSE IF save.pc = "ok" THEN 0 ELSE shown.cap
        /\ UNCHANGED <<defaultAllowed, policy, selectedUserId, isLoading, choice, listing, tangled>>
    BY <1>13 DEF SettleSave, ShownAfter
  <2>2. EditorTypeOK'
    BY <1>0, <2>1 DEF EditorTypeOK, SaveState, Policy
  <2>3. ShownInv'
    BY <2>1 DEF EditorInv, ShownInv, Saving, LoadsInFlight
  <2>4. CapInv'
    BY <2>1 DEF CapInv
  <2> QED
    BY <2>1, <2>2, <2>3, <2>4 DEF EditorInv, Saving, LoadsInFlight
<1> QED
  BY <1>1, <1>2, <1>3, <1>4, <1>5, <1>6, <1>7, <1>8, <1>10, <1>11, <1>12, <1>13 DEF EditorNext

(* The invariant of the page of policies (useAccessPage).                   *)
THEOREM EditorInvHolds == EditorSpec => []EditorInv
  BY EditorStarts, EditorKept, PTL DEF EditorSpec

(* What the page shows for the selected user is the stored policy once loads*)
(* and saves have ended, unless they ran beside each other.                 *)
THEOREM EditorShows == EditorSpec => []EditorShowsStored
<1>1. EditorInv => EditorShowsStored
  BY DEF EditorInv, ShownInv, EditorShowsStored, Saving
<1> QED
  BY <1>1, EditorInvHolds, PTL

(* Saving a number of accounts stores the access that already held: what the*)
(* user may use is the same (handleCapSave).                                *)
THEOREM CapLeaves == EditorSpec => CapLeavesAccess
<1>1. ASSUME EditorInv, [EditorNext]_editorVars, save.kind = "cap", save.trusted, NEW u \in Subjects
      PROVE  Effective(policy'[u]) = Effective(policy[u])
  <2>1. CASE policy' = policy
    BY <2>1
  <2>2. ASSUME NEW done \in BOOLEAN, NEW pc \in {"ok", "error"}, HandleSave(done, pc)
        PROVE  Effective(policy'[u]) = Effective(policy[u])
    <3>1. /\ save.pc = "out" /\ policy \in [Subjects -> Policy]
          /\ policy' = IF done THEN [policy EXCEPT ![save.user] = save.value] ELSE policy
      BY <1>1, <2>2 DEF HandleSave, EditorInv, EditorTypeOK
    <3>2. Effective(save.value) = Effective(policy[save.user])
      BY <1>1, <3>1 DEF EditorInv, CapInv
    <3>3. policy'[u] = policy[u] \/ (u = save.user /\ policy'[u] = save.value)
      BY <3>1
    <3> QED
      BY <3>2, <3>3
  <2> QED
    BY <1>1, <2>1, <2>2 DEF EditorNext, editorVars, UpdateCap, CancelChoice, ConfirmChoice, SettleSave,
        ListPolicies, ShowPolicies, LoadFails, Select, TypeCap, ChoosePolicy
<1>2. EditorInv /\ [EditorNext]_editorVars =>
          [(save.kind = "cap" /\ save.trusted) =>
              \A u \in Subjects : Effective(policy'[u]) = Effective(policy[u])]_editorVars
  BY <1>1
<1> QED
  BY <1>2, EditorInvHolds, PTL DEF EditorSpec, CapLeavesAccess

-----------------------------------------------------------------------------
(* The page of invites *)

(* A change was answered, and the page has not yet asked for the list again. *)
ReloadDue == \E q \in Requests : asked[q].pc = "answered"

(* What the last load has read, or has shown, is what is stored, or a change *)
(* that was answered will load the list again.                               *)
ListInv ==
    (~outdated /\ ~moved) =>
        /\ loads[latest].pc = "read" => (loads[latest].data = Listed(rowOf) \/ ReloadDue)
        /\ loads[latest].pc = "idle" => (invites = Listed(rowOf) \/ ReloadDue)

(* The inductive invariant.                                                 *)
InvitesPageInv == InvitesPageTypeOK /\ ListInv /\ FormsAgree

(* What the blank values are.                                               *)
LEMMA InvitesBlanks ==
    /\ NoInviteRow \in InviteRow /\ NoDraft \in Draft /\ NothingAsked \in Asked
    /\ NothingAsked.pc = "idle" /\ NothingAsked.acceptable = TRUE
    /\ NoListLoad \in ListLoad /\ NoListLoad.pc = "idle"
    /\ NoDraft.id = NoInvite
<1>1. NoInviteRow \in InviteRow /\ NoDraft \in Draft /\ NoDraft.id = NoInvite
  BY DEF NoInviteRow, InviteRow, AnyEmail, NoDraft, Draft
<1>2. NothingAsked \in Asked /\ NothingAsked.pc = "idle" /\ NothingAsked.acceptable = TRUE
  BY <1>1 DEF NothingAsked, Asked
<1>3. NoListLoad \in ListLoad /\ NoListLoad.pc = "idle"
  BY <1>1 DEF NoListLoad, ListLoad
<1> QED
  BY <1>1, <1>2, <1>3

(* The list is made of rows.                                                *)
LEMMA ListedRows == ASSUME NEW rows \in [Invites -> InviteRow] PROVE Listed(rows) \in [Invites -> InviteRow]
  BY InvitesBlanks DEF Listed

(* What the page lets through, the server does not refuse.                   *)
LEMMA ValidIsAcceptable == \A form \in ValidForms : Acceptable(form)
<1> SUFFICES ASSUME NEW form \in ValidForms PROVE Acceptable(form)
  OBVIOUS
<1>1. Validate(form)
  BY DEF ValidForms
<1>2. \A j \in Given(form) : form.accounts[j].named \/ form.accounts[j].email # NoEmail
  BY <1>1 DEF Validate
<1>3. \A j, k \in Given(form) : form.accounts[j].serviceName = form.accounts[k].serviceName => j = k
  BY <1>1 DEF Validate
<1>4. \A j \in Given(form) : form.accounts[j].email # NoEmail => form.accounts[j].email = form.email
  BY <1>1 DEF Validate
<1> QED
  BY <1>2, <1>3, <1>4 DEF Acceptable

(* A form that was submitted is one the server accepts.                     *)
LEMMA SubmittedForms == \A submitted \in Submitted : submitted.email \in AnyEmail /\ submitted.acceptable = TRUE
<1> SUFFICES ASSUME NEW submitted \in Submitted PROVE submitted.email \in AnyEmail /\ submitted.acceptable = TRUE
  OBVIOUS
<1>1. PICK form \in ValidForms : submitted = [email |-> form.email, acceptable |-> Acceptable(form)]
  BY DEF Submitted
<1>2. form.email \in AnyEmail
  BY DEF ValidForms, Forms
<1>3. Acceptable(form) = TRUE
  BY ValidIsAcceptable DEF Acceptable
<1> QED
  BY <1>1, <1>2, <1>3

(* Initially the list is being loaded.                                      *)
LEMMA InvitesPageStarts == InvitesPageInit => InvitesPageInv
<1> SUFFICES ASSUME InvitesPageInit PROVE InvitesPageInv
  OBVIOUS
<1> USE InvitesBlanks
<1>1. [NoInviteRow EXCEPT !.state = "pending"] \in InviteRow
  BY DEF InviteRow
<1>2. rowOf \in [Invites -> InviteRow] /\ invites \in [Invites -> InviteRow] /\ editDraft \in Draft
      /\ generatedLink \in Invites \cup {NoInvite} /\ asked \in [Requests -> Asked]
  BY <1>1 DEF InvitesPageInit, ListLoad
<1> DEFINE l0 == [NoListLoad EXCEPT !.pc = "asked"]
<1>3. l0 \in ListLoad /\ l0.pc = "asked"
  BY DEF ListLoad
<1> HIDE DEF l0
<1>4. latest \in Lists /\ loads \in [Lists -> ListLoad] /\ loads[latest] = l0
  BY <1>3 DEF InvitesPageInit, l0
<1>5. InvitesPageTypeOK
  BY <1>2, <1>4 DEF InvitesPageTypeOK, InvitesPageInit
<1>6. ListInv
  BY <1>3, <1>4 DEF ListInv
<1>7. FormsAgree
  BY DEF InvitesPageInit, FormsAgree
<1> QED
  BY <1>5, <1>6, <1>7 DEF InvitesPageInv

(* Steps of the draft alone.                                                 *)
LEMMA DraftStep ==
    ASSUME InvitesPageInv, NEW d \in Draft, Edits(d)
    PROVE  InvitesPageInv'
  BY DEF InvitesPageInv, InvitesPageTypeOK, Edits, ListInv, FormsAgree, ReloadDue, Listed

(* Steps that send a request.                                                *)
LEMMA SendStep ==
    ASSUME InvitesPageInv, NEW kind \in {"generate", "save", "delete"}, NEW d \in Draft, Send(kind, d, TRUE)
    PROVE  InvitesPageInv'
<1>1. PICK q \in Requests :
          /\ asked[q].pc = "idle"
          /\ asked' = [asked EXCEPT ![q] = [pc |-> "sent", kind |-> kind, draft |-> d, acceptable |-> TRUE,
                                            created |-> NoInvite]]
  BY DEF Send
<1>2. UNCHANGED <<rowOf, invites, loadingInvites, editDraft, generatedLink, loads, latest, outdated, moved>>
  BY DEF Send
<1> DEFINE new == [pc |-> "sent", kind |-> kind, draft |-> d, acceptable |-> TRUE, created |-> NoInvite]
<1>3. new \in Asked /\ new.pc = "sent" /\ new.acceptable
  BY DEF Asked
<1> HIDE DEF new
<1>4. asked' \in [Requests -> Asked] /\ \A r \in Requests : asked'[r] = IF r = q THEN new ELSE asked[r]
  BY <1>1, <1>3 DEF new, InvitesPageInv, InvitesPageTypeOK
<1>5. InvitesPageTypeOK' /\ FormsAgree'
  BY <1>2, <1>3, <1>4 DEF InvitesPageInv, InvitesPageTypeOK, FormsAgree
<1>6. ReloadDue' <=> ReloadDue
  BY <1>1, <1>3, <1>4 DEF ReloadDue
<1> QED
  BY <1>2, <1>5, <1>6 DEF InvitesPageInv, ListInv, Listed

(* Every step of the page keeps the invariant.                              *)
LEMMA InvitesPageKept == InvitesPageInv /\ [InvitesPageNext]_invitesVars => InvitesPageInv'
<1> SUFFICES ASSUME InvitesPageInv, [InvitesPageNext]_invitesVars PROVE InvitesPageInv'
  OBVIOUS
<1> USE InvitesBlanks
<1>0. InvitesPageTypeOK /\ ListInv /\ FormsAgree
  BY DEF InvitesPageInv
<1>t. /\ rowOf \in [Invites -> InviteRow] /\ invites \in [Invites -> InviteRow] /\ editDraft \in Draft
      /\ asked \in [Requests -> Asked] /\ loads \in [Lists -> ListLoad] /\ latest \in Lists
  BY <1>0 DEF InvitesPageTypeOK
<1>1. CASE UNCHANGED invitesVars
  BY <1>0, <1>1 DEF InvitesPageInv, InvitesPageTypeOK, invitesVars, ListInv, FormsAgree, ReloadDue, Listed
<1>2. CASE UpdateDraft
  <2>1. \A e \in AnyEmail : [editDraft EXCEPT !.email = e] \in Draft
    BY <1>t DEF Draft
  <2>2. \A a \in BOOLEAN : [editDraft EXCEPT !.isAdmin = a] \in Draft
    BY <1>t DEF Draft
  <2>3. [editDraft EXCEPT !.revoked = TRUE] \in Draft
    BY <1>t DEF Draft
  <2>4. \E d \in Draft : Edits(d)
    BY <1>2, <2>1, <2>2, <2>3 DEF UpdateDraft
  <2> QED
    BY <2>4, DraftStep
<1>3. CASE DiscardEdit
  BY <1>3, DraftStep DEF DiscardEdit
<1>4. CASE SaveEdit
  <2>1. Sent(editDraft) \in Draft
    BY <1>t DEF Sent, Draft
  <2> QED
    BY <1>4, <2>1, SendStep DEF SaveEdit
<1>5. CASE Generate
  <2>1. PICK submitted \in Submitted, isAdmin \in BOOLEAN :
            Send("generate", [NoDraft EXCEPT !.isNew = TRUE, !.email = submitted.email, !.isAdmin = isAdmin], submitted.acceptable)
    BY <1>5 DEF Generate
  <2>2. submitted.email \in AnyEmail /\ submitted.acceptable = TRUE
    BY SubmittedForms
  <2> DEFINE d == [NoDraft EXCEPT !.isNew = TRUE, !.email = submitted.email, !.isAdmin = isAdmin]
  <2>3. d \in Draft
    BY <2>2 DEF Draft
  <2>4. Send("generate", d, TRUE)
    BY <2>1, <2>2
  <2> HIDE DEF d
  <2> QED
    BY <2>3, <2>4, SendStep
<1>6. ASSUME NEW i \in Invites, StartEdit(i) \/ DuplicateInvite(i) \/ DeleteShown(i)
      PROVE  InvitesPageInv'
  <2>1. invites[i].email \in AnyEmail /\ invites[i].isAdmin \in BOOLEAN
    BY <1>t DEF InviteRow
  <2> DEFINE edited == [id |-> i, open |-> TRUE, isNew |-> FALSE, email |-> invites[i].email,
                    revoked |-> invites[i].state = "revoked", isAdmin |-> invites[i].isAdmin]
             flipped == [id |-> NoInvite, open |-> TRUE, isNew |-> TRUE, email |-> invites[i].email,
                    revoked |-> FALSE, isAdmin |-> invites[i].isAdmin]
             removed == [NoDraft EXCEPT !.id = i]
  <2>2. edited \in Draft /\ flipped \in Draft
    BY <2>1 DEF Draft
  <2>3. removed \in Draft
    BY DEF Draft
  <2>4. Edits(edited) \/ Edits(flipped) \/ Send("delete", removed, TRUE)
    BY <1>6 DEF StartEdit, DuplicateInvite, DeleteShown
  <2> HIDE DEF edited, flipped, removed
  <2> QED
    BY <2>2, <2>3, <2>4, DraftStep, SendStep
<1>7. ASSUME NEW i \in Invites, Redeem(i)
      PROVE  InvitesPageInv'
  <2>1. PICK state \in {"used", "revoked"} : rowOf' = [rowOf EXCEPT ![i].state = state]
    BY <1>7 DEF Redeem
  <2>2. rowOf' \in [Invites -> InviteRow]
    BY <1>t, <2>1 DEF InviteRow
  <2>3. moved' = TRUE /\ UNCHANGED <<invites, loadingInvites, editDraft, generatedLink, asked, loads, latest, outdated>>
    BY <1>7 DEF Redeem
  <2>4. InvitesPageTypeOK' /\ FormsAgree'
    BY <1>0, <2>2, <2>3 DEF InvitesPageTypeOK, FormsAgree
  <2> QED
    BY <2>3, <2>4 DEF InvitesPageInv, ListInv
<1>8. ASSUME NEW q \in Requests, HandleRequest(q)
      PROVE  InvitesPageInv'
  <2>1. asked[q].pc = "sent" /\ UNCHANGED <<invites, loadingInvites, editDraft, generatedLink, loads, latest, outdated, moved>>
    BY <1>8 DEF HandleRequest
  <2>2. asked[q].draft \in Draft /\ asked[q] \in Asked
    BY <1>t DEF Asked
  <2>3. CASE asked' = [asked EXCEPT ![q].pc = "failed", ![q].draft = NoDraft] /\ UNCHANGED rowOf
    <3> DEFINE new == [asked[q] EXCEPT !.pc = "failed", !.draft = NoDraft]
    <3>1. new \in Asked /\ new.pc = "failed" /\ new.acceptable = asked[q].acceptable
      BY <2>2 DEF Asked
    <3>2. asked' = [asked EXCEPT ![q] = new]
      BY <1>t, <2>3
    <3> HIDE DEF new
    <3>3. asked' \in [Requests -> Asked] /\ \A r \in Requests : asked'[r] = IF r = q THEN new ELSE asked[r]
      BY <1>t, <3>1, <3>2
    <3>4. InvitesPageTypeOK' /\ FormsAgree'
      BY <1>0, <2>1, <2>3, <3>1, <3>3 DEF InvitesPageTypeOK, FormsAgree
    <3>5. ReloadDue' <=> ReloadDue
      BY <2>1, <3>1, <3>3 DEF ReloadDue
    <3> QED
      BY <1>0, <2>1, <2>3, <3>4, <3>5 DEF InvitesPageInv, ListInv, Listed
  <2>4. ASSUME NEW created \in Invites \cup {NoInvite}, AnswerWith(q, created), rowOf' \in [Invites -> InviteRow]
        PROVE  InvitesPageInv'
    <3> DEFINE new == [asked[q] EXCEPT !.pc = "answered", !.draft = NoDraft, !.created = created]
    <3>1. new \in Asked /\ new.pc = "answered" /\ new.acceptable = asked[q].acceptable
      BY <2>2 DEF Asked
    <3>2. asked' = [asked EXCEPT ![q] = new]
      BY <1>t, <2>4 DEF AnswerWith
    <3> HIDE DEF new
    <3>3. asked' \in [Requests -> Asked] /\ \A r \in Requests : asked'[r] = IF r = q THEN new ELSE asked[r]
      BY <1>t, <3>1, <3>2
    <3>4. InvitesPageTypeOK' /\ FormsAgree'
      BY <1>0, <2>1, <2>4, <3>1, <3>3 DEF InvitesPageTypeOK, FormsAgree
    <3>5. ReloadDue'
      BY <3>1, <3>3 DEF ReloadDue
    <3> QED
      BY <3>4, <3>5 DEF InvitesPageInv, ListInv
  <2>5. \A i \in Invites : Created(i, asked[q].draft) \in [Invites -> InviteRow]
    <3> SUFFICES ASSUME NEW i \in Invites, NEW j \in Invites
                 PROVE  Created(i, asked[q].draft)[j] \in InviteRow
      BY DEF Created
    <3>1. [state |-> "pending", email |-> asked[q].draft.email, isAdmin |-> asked[q].draft.isAdmin] \in InviteRow
      BY <2>2 DEF Draft, InviteRow
    <3>2. rowOf[j] \in InviteRow /\ [rowOf[j] EXCEPT !.state = "revoked"] \in InviteRow
      BY <1>t DEF InviteRow
    <3> QED
      BY <3>1, <3>2 DEF Created
  <2>6. Updated(asked[q].draft) \in [Invites -> InviteRow]
    <3> DEFINE d == asked[q].draft
               row == [state |-> IF d.revoked THEN "revoked" ELSE "pending",
                       email |-> IF d.email = NoEmail THEN rowOf[d.id].email ELSE d.email,
                       isAdmin |-> d.isAdmin]
    <3>1. d.id \in Invites => row \in InviteRow
      BY <1>t, <2>2 DEF Draft, InviteRow
    <3>2. Updated(d) = [rowOf EXCEPT ![d.id] = row]
      BY DEF Updated
    <3> HIDE DEF d, row
    <3>3. Updated(d) \in [Invites -> InviteRow]
      BY <1>t, <3>1, <3>2
    <3> QED
      BY <3>3 DEF d
  <2>7. [rowOf EXCEPT ![asked[q].draft.id] = [NoInviteRow EXCEPT !.state = "deleted"]] \in [Invites -> InviteRow]
    <3>1. [NoInviteRow EXCEPT !.state = "deleted"] \in InviteRow
      BY DEF InviteRow
    <3> QED
      BY <1>t, <3>1
  <2> QED
    BY <1>8, <2>3, <2>4, <2>5, <2>6, <2>7 DEF HandleRequest
<1>9. ASSUME NEW q \in Requests, Succeeds(q)
      PROVE  InvitesPageInv'
  <2>1. PICK l \in Lists :
            /\ loads[l].pc = "idle" /\ loads' = [loads EXCEPT ![l].pc = "asked"]
            /\ latest' = l /\ outdated' = FALSE /\ loadingInvites' = TRUE
    BY <1>9 DEF Succeeds, AfterSuccess, Refresh
  <2>2. /\ editDraft' \in Draft /\ generatedLink' \in Invites \cup {NoInvite}
        /\ asked' = [asked EXCEPT ![q] = NothingAsked] /\ UNCHANGED <<rowOf, invites, moved>>
    BY <1>0, <1>t, <1>9 DEF Succeeds, InvitesPageTypeOK, Asked
  <2>3. asked' \in [Requests -> Asked] /\ \A r \in Requests : asked'[r] = IF r = q THEN NothingAsked ELSE asked[r]
    BY <1>t, <2>2
  <2>4. loads' \in [Lists -> ListLoad] /\ loads'[l].pc = "asked"
    BY <1>t, <2>1 DEF ListLoad
  <2>5. InvitesPageTypeOK' /\ FormsAgree'
    BY <1>0, <2>1, <2>2, <2>3, <2>4 DEF InvitesPageTypeOK, FormsAgree
  <2> QED
    BY <2>1, <2>4, <2>5 DEF InvitesPageInv, ListInv
<1>10. ASSUME NEW q \in Requests, Fails(q)
       PROVE  InvitesPageInv'
  <2>1. /\ asked[q].pc \in {"answered", "failed"} /\ asked' = [asked EXCEPT ![q] = NothingAsked]
        /\ moved' = (moved \/ asked[q].pc = "answered")
        /\ UNCHANGED <<rowOf, invites, loadingInvites, editDraft, generatedLink, loads, latest, outdated>>
    BY <1>10 DEF Fails
  <2>2. asked' \in [Requests -> Asked] /\ \A r \in Requests : asked'[r] = IF r = q THEN NothingAsked ELSE asked[r]
    BY <1>t, <2>1
  <2>3. InvitesPageTypeOK' /\ FormsAgree'
    BY <1>0, <2>1, <2>2 DEF InvitesPageTypeOK, FormsAgree
  <2>4. ~moved' => (ReloadDue => ReloadDue')
    BY <2>1, <2>2 DEF ReloadDue
  <2> QED
    BY <1>0, <2>1, <2>3, <2>4 DEF InvitesPageInv, ListInv, Listed
<1>11. ASSUME NEW l \in Lists, ReadList(l)
       PROVE  InvitesPageInv'
  <2> DEFINE new == [pc |-> "read", data |-> Listed(rowOf)]
  <2>1. new \in ListLoad /\ new.pc = "read" /\ new.data = Listed(rowOf)
    BY <1>t, ListedRows DEF ListLoad
  <2>2. /\ loads' = [loads EXCEPT ![l] = new] /\ moved' = (moved /\ l # latest)
        /\ UNCHANGED <<rowOf, invites, loadingInvites, editDraft, generatedLink, asked, latest, outdated>>
    BY <1>11 DEF ReadList
  <2> HIDE DEF new
  <2>3. loads' \in [Lists -> ListLoad] /\ \A k \in Lists : loads'[k] = IF k = l THEN new ELSE loads[k]
    BY <1>t, <2>1, <2>2
  <2>4. InvitesPageTypeOK' /\ FormsAgree'
    BY <1>0, <2>2, <2>3 DEF InvitesPageTypeOK, FormsAgree
  <2> QED
    BY <1>0, <1>t, <2>1, <2>2, <2>3, <2>4 DEF InvitesPageInv, ListInv, ReloadDue, Listed
<1>12. ASSUME NEW l \in Lists, ShowList(l)
       PROVE  InvitesPageInv'
  <2>1. /\ loads[l].pc = "read" /\ invites' = loads[l].data /\ loadingInvites' = FALSE
        /\ outdated' = (outdated \/ (l # latest /\ loads[latest].pc = "idle"))
        /\ loads' = [loads EXCEPT ![l] = NoListLoad]
        /\ UNCHANGED <<rowOf, editDraft, generatedLink, asked, latest, moved>>
    BY <1>12 DEF ShowList
  <2>2. invites' \in [Invites -> InviteRow]
    BY <1>t, <2>1 DEF ListLoad
  <2>3. loads' \in [Lists -> ListLoad] /\ \A k \in Lists : loads'[k] = IF k = l THEN NoListLoad ELSE loads[k]
    BY <1>t, <2>1
  <2>4. InvitesPageTypeOK' /\ FormsAgree'
    BY <1>0, <2>1, <2>2, <2>3 DEF InvitesPageTypeOK, FormsAgree
  <2> QED
    BY <1>0, <1>t, <2>1, <2>3, <2>4 DEF InvitesPageInv, ListInv, ReloadDue, Listed
<1>13. ASSUME NEW l \in Lists, ListFails(l)
       PROVE  InvitesPageInv'
  <2>1. /\ loadingInvites' = FALSE /\ outdated' = (outdated \/ l = latest)
        /\ loads' = [loads EXCEPT ![l] = NoListLoad]
        /\ UNCHANGED <<rowOf, invites, editDraft, generatedLink, asked, latest, moved>>
    BY <1>13 DEF ListFails
  <2>3. loads' \in [Lists -> ListLoad] /\ \A k \in Lists : loads'[k] = IF k = l THEN NoListLoad ELSE loads[k]
    BY <1>t, <2>1
  <2>4. InvitesPageTypeOK' /\ FormsAgree'
    BY <1>0, <2>1, <2>3 DEF InvitesPageTypeOK, FormsAgree
  <2> QED
    BY <1>0, <1>t, <2>1, <2>3, <2>4 DEF InvitesPageInv, ListInv, ReloadDue, Listed
<1> QED
  BY <1>1, <1>2, <1>3, <1>4, <1>5, <1>6, <1>7, <1>8, <1>9, <1>10, <1>11, <1>12, <1>13 DEF InvitesPageNext

(* The invariant of the page of invites (useInvitesPage, useInviteTable,    *)
(* useInviteGenerator).                                                     *)
THEOREM InvitesPageInvHolds == InvitesPageSpec => []InvitesPageInv
  BY InvitesPageStarts, InvitesPageKept, PTL DEF InvitesPageSpec

(* Once no load is under way and no change awaits its reload, the page lists*)
(* the stored invites, unless a load was overtaken or the table changed     *)
(* behind the page (refresh).                                               *)
THEOREM ListCurrent == InvitesPageSpec => []ListIsCurrent
<1>1. InvitesPageInv => ListIsCurrent
  BY DEF InvitesPageInv, InvitesPageTypeOK, ListInv, ListIsCurrent, ReloadDue
<1> QED
  BY <1>1, InvitesPageInvHolds, PTL

(* No form that validate() lets through is refused for its contents by      *)
(* AtLeastOneField, validateUniqueServices or validateAccountEmails.        *)
THEOREM FormsAgreeHolds == InvitesPageSpec => []FormsAgree
<1>1. InvitesPageInv => FormsAgree
  BY DEF InvitesPageInv
<1> QED
  BY <1>1, InvitesPageInvHolds, PTL

-----------------------------------------------------------------------------
(* The page of subscriptions *)

(* A row that has not strayed is the stored one, or one answer away from it. *)
RowInv(s) ==
    s \notin strayed =>
        /\ \A q, r \in CallsFor(s) : q = r
        /\ \A q \in CallsFor(s) : call[q].pc = "ok" =>
              listed.rows[s] # Gone /\ RowAfter(q, listed.rows[s]) = subscription[s]
        /\ (\A q \in CallsFor(s) : call[q].pc # "ok") => listed.rows[s] = subscription[s]

(* What requests and the dialog are for.                                    *)
CallsInv ==
    /\ \A q \in Calls : call[q].pc # "idle" => call[q].sub \in Subs /\ call[q].op \in Requestable
    /\ listed.pc # "shown" => dialog = NoDialog /\ \A q \in Calls : call[q] = NoCall
    /\ dialog # NoDialog => dialog.sub \in Subs /\ dialog.op \in {"disable", "cancel"}
    /\ dialog.deny => dialog.sub \in Derived
    /\ \A q \in Calls : call[q].deny => call[q].sub \in Derived

(* The inductive invariant.                                                 *)
PageRowsInv ==
    /\ SubscriptionsPageTypeOK
    /\ CallsInv
    /\ listed.pc = "read" => listed.rows = subscription
    /\ listed.pc = "shown" => \A s \in Subs : RowInv(s)

(* What the blank values are.                                               *)
LEMMA SubscriptionBlanks ==
    /\ Gone \in SubRow /\ NoDialog \in Dialog /\ NoCall \in Call
    /\ NoCall.pc = "idle" /\ Gone.status = "gone" /\ NoDialog.op = "none"
    /\ NoCall.deny = FALSE /\ NoDialog.deny = FALSE
    /\ NoSub \notin Subs /\ MaxPeriods \in Nat \ {0} /\ Owned \cap Derived = {}
    /\ SourceOf \in [Derived -> Owned]
<1>1. NoSub \notin Subs /\ MaxPeriods \in Nat \ {0} /\ SourceOf \in [Derived -> Owned] /\ Owned \cap Derived = {}
  BY SubscriptionsPageConstants DEF Subs
<1>2. Gone \in SubRow
  BY <1>1 DEF Gone, SubRow
<1> QED
  BY <1>1, <1>2 DEF Gone, NoDialog, Dialog, NoCall, Call

(* What a request makes of the row it is for.                                *)
NewRow(op, row, value) ==
    CASE op = "disable" -> [row EXCEPT !.status = "disabled"]
      [] op = "enable" -> [row EXCEPT !.status = "active"]
      [] op = "renew" -> [row EXCEPT !.until = row.until + 1]
      [] op = "autoRenew" -> [row EXCEPT !.autoRenew = value]
      [] op = "cancel" -> Gone

(* The rows a request changes, and their types.                              *)
LEMMA AppliedRows ==
    ASSUME subscription \in [Subs -> SubRow], NEW s \in Subs, NEW op \in Requestable, NEW value \in BOOLEAN,
           op = "renew" => subscription[s].until < MaxPeriods
    PROVE  /\ Applied(op, s, value) \in [Subs -> SubRow]
           /\ Applied(op, s, value)[s] = NewRow(op, subscription[s], value)
           /\ \A r \in Subs : (r # s /\ r \notin DerivedFrom(s)) => Applied(op, s, value)[r] = subscription[r]
<1> USE SubscriptionBlanks
<1> DEFINE new == CASE op = "disable" -> [subscription[s] EXCEPT !.status = "disabled"]
                    [] op = "enable" -> [subscription[s] EXCEPT !.status = "active"]
                    [] op = "renew" -> [subscription[s] EXCEPT !.until = subscription[s].until + 1]
                    [] op = "autoRenew" -> [subscription[s] EXCEPT !.autoRenew = value]
                    [] op = "cancel" -> Gone
           follow(row) ==
               CASE op = "disable" -> [row EXCEPT !.status = "disabled"]
                 [] op = "enable" -> [row EXCEPT !.status = "active", !.until = Sooner(row.until, new.until)]
                 [] op = "renew" -> [row EXCEPT !.until = Sooner(row.until, new.until)]
                 [] op = "autoRenew" -> row
                 [] op = "cancel" -> Gone
<1>1. Applied(op, s, value) =
        [r \in Subs |-> IF r = s THEN new ELSE IF r \in DerivedFrom(s) THEN follow(subscription[r])
                                                                     ELSE subscription[r]]
  BY DEF Applied
<1>2. new \in SubRow
  <2>1. subscription[s] \in SubRow /\ subscription[s].until \in 0..MaxPeriods
    BY DEF SubRow
  <2>2. op = "renew" => subscription[s].until + 1 \in 0..MaxPeriods
    BY <2>1
  <2>3. CASE op = "disable"
    BY <2>1, <2>3 DEF SubRow
  <2>4. CASE op = "enable"
    BY <2>1, <2>4 DEF SubRow
  <2>5. CASE op = "renew"
    BY <2>1, <2>2, <2>5 DEF SubRow
  <2>6. CASE op = "autoRenew"
    BY <2>1, <2>6 DEF SubRow
  <2>7. CASE op = "cancel"
    BY <2>7
  <2> QED
    BY <2>3, <2>4, <2>5, <2>6, <2>7 DEF Requestable
<1> HIDE DEF new
<1>3. ASSUME NEW r \in Subs PROVE follow(subscription[r]) \in SubRow
  <2> DEFINE row == subscription[r]
  <2>1. row \in SubRow /\ new.until \in 0..MaxPeriods /\ row.until \in 0..MaxPeriods
    BY <1>2 DEF SubRow
  <2>2. Sooner(row.until, new.until) \in 0..MaxPeriods
    BY <2>1 DEF Sooner
  <2> HIDE DEF row
  <2>3. CASE op = "disable"
    BY <2>1, <2>3 DEF SubRow, row
  <2>4. CASE op = "enable"
    <3>1. [row EXCEPT !.status = "active", !.until = Sooner(row.until, new.until)] \in SubRow
      BY <2>1, <2>2 DEF SubRow
    <3> QED
      BY <3>1, <2>4 DEF row
  <2>5. CASE op = "renew"
    <3>1. [row EXCEPT !.until = Sooner(row.until, new.until)] \in SubRow
      BY <2>1, <2>2 DEF SubRow
    <3> QED
      BY <3>1, <2>5 DEF row
  <2>6. CASE op = "autoRenew"
    BY <2>1, <2>6 DEF row
  <2>7. CASE op = "cancel"
    BY <2>7
  <2> QED
    BY <2>3, <2>4, <2>5, <2>6, <2>7 DEF Requestable
<1> HIDE DEF follow
<1>4. Applied(op, s, value) \in [Subs -> SubRow]
  BY <1>1, <1>2, <1>3
<1>5. Applied(op, s, value)[s] = new
  BY <1>1
<1>6. \A r \in Subs : (r # s /\ r \notin DerivedFrom(s)) => Applied(op, s, value)[r] = subscription[r]
  BY <1>1
<1> QED
  BY <1>4, <1>5, <1>6 DEF new, NewRow

(* Initially nothing is shown.                                              *)
LEMMA SubscriptionsPageStarts == SubscriptionsPageInit => PageRowsInv
<1> SUFFICES ASSUME SubscriptionsPageInit PROVE PageRowsInv
  OBVIOUS
<1> USE SubscriptionBlanks
<1>1. SubscriptionsPageTypeOK
  BY DEF SubscriptionsPageInit, SubscriptionsPageTypeOK
<1>2. CallsInv
  BY DEF SubscriptionsPageInit, CallsInv
<1> QED
  BY <1>1, <1>2 DEF PageRowsInv, SubscriptionsPageInit

(* A row that a step leaves alone, and its requests with it.                 *)
LEMMA RowUntouched ==
    ASSUME NEW r \in Subs, r \notin strayed' => RowInv(r) /\ r \notin strayed, CallsFor(r)' = CallsFor(r),
           \A p \in CallsFor(r) : call'[p] = call[p],
           r \notin strayed' => listed'.rows[r] = listed.rows[r] /\ subscription'[r] = subscription[r]
    PROVE  RowInv(r)'
<1> SUFFICES ASSUME r \notin strayed' PROVE RowInv(r)'
  BY DEF RowInv
<1> DEFINE row == listed.rows[r]
<1>1. \A p \in CallsFor(r) : RowAfter(p, row)' = RowAfter(p, row)
  BY DEF RowAfter
<1>2. row' = row /\ subscription'[r] = subscription[r] /\ r \notin strayed
  OBVIOUS
<1>3. \A q, p \in CallsFor(r)' : q = p
  BY DEF RowInv
<1>4. \A q \in CallsFor(r)' : call'[q].pc = "ok" => row' # Gone /\ RowAfter(q, row)' = subscription'[r]
  <2> SUFFICES ASSUME NEW q \in CallsFor(r), call[q].pc = "ok"
               PROVE  row # Gone /\ RowAfter(q, row)' = subscription[r]
    BY <1>2
  <2>1. row # Gone /\ RowAfter(q, row) = subscription[r]
    BY <1>2 DEF RowInv
  <2> QED
    BY <1>1, <2>1
<1>5. (\A q \in CallsFor(r)' : call'[q].pc # "ok") => row' = subscription'[r]
  <2> SUFFICES ASSUME \A q \in CallsFor(r) : call[q].pc # "ok" PROVE row = subscription[r]
    BY <1>2
  <2> QED
    BY <1>2 DEF RowInv
<1> QED
  BY <1>3, <1>4, <1>5 DEF RowInv

(* Steps that send a request.                                                *)
LEMMA SendCallStep ==
    ASSUME PageRowsInv, listed.pc = "shown", NEW s \in Subs, NEW op \in Requestable, NEW value \in BOOLEAN,
           NEW deny \in BOOLEAN, deny => s \in Derived, SendCall(op, s, value, deny), UNCHANGED <<subscription, denied, listed, dialog>>
    PROVE  PageRowsInv'
<1> USE SubscriptionBlanks
<1> DEFINE new == [pc |-> "out", op |-> op, sub |-> s, value |-> value, deny |-> deny, answer |-> Gone]
<1>0. SubscriptionsPageTypeOK /\ CallsInv /\ \A r \in Subs : RowInv(r)
  BY DEF PageRowsInv
<1>1. PICK q \in Calls : call[q] = NoCall /\ call' = [call EXCEPT ![q] = new]
  BY DEF SendCall
<1>2. new \in Call /\ new.pc = "out" /\ new.sub = s /\ new.op = op /\ new.deny = deny
  BY DEF Call
<1> HIDE DEF new
<1>3. call' \in [Calls -> Call] /\ \A r \in Calls : call'[r] = IF r = q THEN new ELSE call[r]
  BY <1>0, <1>1, <1>2 DEF SubscriptionsPageTypeOK
<1>4. strayed' = (IF CallsFor(s) = {} THEN strayed ELSE strayed \cup {s}) /\ pendingSub' = s
  BY DEF SendCall
<1>5. SubscriptionsPageTypeOK'
  BY <1>0, <1>3, <1>4 DEF SubscriptionsPageTypeOK
<1>6. CallsInv'
  BY <1>0, <1>2, <1>3 DEF CallsInv
<1>7. CallsFor(s)' = CallsFor(s) \cup {q} /\ \A r \in Subs \ {s} : CallsFor(r)' = CallsFor(r)
  BY <1>1, <1>2, <1>3 DEF CallsFor
<1>8. ASSUME NEW r \in Subs PROVE RowInv(r)'
  <2>1. CASE r = s
    <3>1. s \notin strayed' => CallsFor(s)' = {q} /\ listed'.rows[s] = subscription'[s]
      BY <1>0, <1>4, <1>7 DEF RowInv
    <3> QED
      BY <1>2, <1>3, <2>1, <3>1 DEF RowInv
  <2>2. CASE r # s
    <3>1. CallsFor(r)' = CallsFor(r) /\ (r \notin strayed' => r \notin strayed) /\ q \notin CallsFor(r)
      BY <1>1, <1>4, <1>7, <2>2 DEF CallsFor
    <3>2. \A p \in CallsFor(r) : call'[p] = call[p]
      BY <1>3, <3>1 DEF CallsFor
    <3> QED
      BY <1>0, <3>1, <3>2, RowUntouched
  <2> QED
    BY <2>1, <2>2
<1> QED
  BY <1>5, <1>6, <1>8 DEF PageRowsInv

(* Steps of the dialog alone.                                                *)
LEMMA DialogStep ==
    ASSUME PageRowsInv, dialog' \in Dialog, UNCHANGED <<subscription, denied, listed, pendingSub, call, strayed>>,
           dialog' # NoDialog => listed.pc = "shown" /\ dialog'.sub \in Subs /\ dialog'.op \in {"disable", "cancel"},
           dialog'.deny => dialog'.sub \in Derived
    PROVE  PageRowsInv'
<1>1. SubscriptionsPageTypeOK'
  BY DEF PageRowsInv, SubscriptionsPageTypeOK
<1>2. CallsInv'
  BY DEF PageRowsInv, CallsInv
<1>3. ASSUME NEW s \in Subs, RowInv(s) PROVE RowInv(s)'
  BY <1>3 DEF RowInv, CallsFor, RowAfter
<1> QED
  BY <1>1, <1>2, <1>3 DEF PageRowsInv

(* Steps of one request on its way, between server and page.                 *)
LEMMA AnswerStep ==
    ASSUME PageRowsInv, NEW q \in Calls, NEW new \in Call, call[q].pc # "idle",
           call' = [call EXCEPT ![q] = new], new.pc \in {"ok", "error"}, new.sub = call[q].sub, new.op = call[q].op,
           new.value = call[q].value, new.deny = call[q].deny,
           subscription' \in [Subs -> SubRow], strayed' \subseteq Subs, strayed \subseteq strayed',
           \A r \in Subs \ (strayed' \cup {call[q].sub}) : subscription'[r] = subscription[r],
           call[q].sub \notin strayed' =>
               /\ new.pc = "error" => call[q].pc # "ok" /\ subscription'[call[q].sub] = subscription[call[q].sub]
               /\ new.pc = "ok" => /\ call[q].pc = "out" /\ subscription[call[q].sub] # Gone
                                   /\ new.answer = subscription'[call[q].sub]
                                   /\ subscription'[call[q].sub] = NewRow(new.op, subscription[call[q].sub], new.value),
           UNCHANGED <<denied, listed, pendingSub, dialog>>
    PROVE  PageRowsInv'
<1> USE SubscriptionBlanks
<1>0. SubscriptionsPageTypeOK /\ CallsInv
  BY DEF PageRowsInv
<1>s. PICK s \in Subs : s = call[q].sub
  BY <1>0 DEF CallsInv
<1>1. s \in Subs /\ new.op \in Requestable
  BY <1>0 DEF CallsInv
<1>2. listed.pc = "shown" /\ \A r \in Subs : RowInv(r)
  BY <1>0 DEF CallsInv, PageRowsInv
<1>3. call' \in [Calls -> Call] /\ \A r \in Calls : call'[r] = IF r = q THEN new ELSE call[r]
  BY <1>0 DEF SubscriptionsPageTypeOK
<1>4. SubscriptionsPageTypeOK' /\ CallsInv'
  BY <1>0, <1>1, <1>2, <1>3 DEF SubscriptionsPageTypeOK, CallsInv
<1>5. \A r \in Subs : CallsFor(r)' = CallsFor(r)
  BY <1>3 DEF CallsFor
<1>6. q \in CallsFor(s)
  BY <1>s DEF CallsFor
<1>7. ASSUME NEW r \in Subs, r # s PROVE RowInv(r)'
  <2>1. \A p \in CallsFor(r) : p # q /\ call'[p] = call[p]
    BY <1>3, <1>7, <1>s DEF CallsFor
  <2>2. r \notin strayed' => r \notin strayed /\ subscription'[r] = subscription[r]
    BY <1>7, <1>s
  <2> QED
    BY <1>2, <1>5, <1>7, <2>1, <2>2, RowUntouched
<1>8. RowInv(s)'
  <2> SUFFICES ASSUME s \notin strayed' PROVE RowInv(s)'
    BY DEF RowInv
  <2>1. CallsFor(s) = {q} /\ s \notin strayed
    BY <1>1, <1>2, <1>6 DEF RowInv
  <2>2. call[q].pc # "ok" => listed.rows[s] = subscription[s]
    BY <1>1, <1>2, <2>1 DEF RowInv
  <2>3. CASE new.pc = "error"
    BY <1>1, <1>3, <1>5, <1>s, <2>1, <2>2, <2>3 DEF RowInv
  <2>4. CASE new.pc = "ok"
    <3> DEFINE row == subscription[s]
    <3>1. listed.rows[s] = row /\ row # Gone /\ new.answer = subscription'[s] /\ row \in SubRow
      BY <1>0, <1>1, <1>s, <2>2, <2>4 DEF SubscriptionsPageTypeOK
    <3>2. RowAfter(q, listed.rows[s])' = subscription'[s]
      <4>1. call'[q] = new /\ new.answer = subscription'[s] /\ listed'.rows[s] = row
        BY <1>3, <3>1
      <4>2. subscription'[s] = NewRow(new.op, row, new.value)
        BY <1>s, <2>4
      <4>3. CASE new.op \in {"disable", "enable"}
        <5>1. PICK status \in {"active", "disabled"} : subscription'[s] = [row EXCEPT !.status = status]
          BY <4>2, <4>3 DEF NewRow
        <5>2. subscription'[s].status = status
          BY <3>1, <5>1 DEF SubRow
        <5>3. RowAfter(q, listed.rows[s])' = [row EXCEPT !.status = new.answer.status]
          BY <4>1, <4>3 DEF RowAfter
        <5> QED
          BY <4>1, <5>1, <5>2, <5>3
      <4>4. CASE new.op = "renew"
        <5>1. subscription'[s] = [row EXCEPT !.until = row.until + 1]
          BY <4>2, <4>4 DEF NewRow
        <5>2. RowAfter(q, listed.rows[s])' =
                [row EXCEPT !.until = subscription'[s].until, !.status = subscription'[s].status]
          BY <4>1, <4>4 DEF RowAfter
        <5>3. subscription'[s].until = row.until + 1 /\ subscription'[s].status = row.status
          BY <3>1, <5>1 DEF SubRow
        <5>4. [row EXCEPT !.until = row.until + 1, !.status = row.status] = [row EXCEPT !.until = row.until + 1]
          BY <3>1 DEF SubRow
        <5> QED
          BY <5>1, <5>2, <5>3, <5>4
      <4>5. CASE new.op = "autoRenew"
        BY <4>1, <4>2, <4>5 DEF RowAfter, NewRow
      <4>6. CASE new.op = "cancel"
        BY <4>1, <4>2, <4>6 DEF RowAfter, NewRow
      <4> QED
        BY <1>1, <4>3, <4>4, <4>5, <4>6 DEF Requestable
    <3>3. CallsFor(s)' = {q} /\ call'[q].pc = "ok" /\ listed'.rows[s] # Gone
      BY <1>1, <1>3, <1>5, <2>1, <2>4, <3>1
    <3> QED
      BY <3>2, <3>3 DEF RowInv
  <2> QED
    BY <2>3, <2>4
<1> QED
  BY <1>2, <1>4, <1>7, <1>8 DEF PageRowsInv

(* Every step of the page keeps the invariant.                              *)
LEMMA SubscriptionsPageKept == PageRowsInv /\ [SubscriptionsPageNext]_subscriptionsPageVars => PageRowsInv'
<1> SUFFICES ASSUME PageRowsInv, [SubscriptionsPageNext]_subscriptionsPageVars PROVE PageRowsInv'
  OBVIOUS
<1> USE SubscriptionBlanks
<1>0. SubscriptionsPageTypeOK /\ CallsInv
  BY DEF PageRowsInv
<1>t. /\ subscription \in [Subs -> SubRow] /\ listed.rows \in [Subs -> SubRow] /\ call \in [Calls -> Call]
      /\ dialog \in Dialog /\ strayed \subseteq Subs
  BY <1>0 DEF SubscriptionsPageTypeOK
<1>1. CASE UNCHANGED subscriptionsPageVars
  <2>1. UNCHANGED <<subscription, denied, listed, pendingSub, dialog, call, strayed>>
    BY <1>1 DEF subscriptionsPageVars
  <2> QED
    BY <1>0, <2>1, DialogStep DEF CallsInv, SubscriptionsPageTypeOK
<1>2. CASE ReadSubscriptions
  <2>1. listed.pc = "asked" /\ listed' = [pc |-> "read", rows |-> subscription]
        /\ UNCHANGED <<subscription, denied, pendingSub, dialog, call, strayed>>
    BY <1>2 DEF ReadSubscriptions
  <2> QED
    BY <1>0, <1>t, <2>1 DEF PageRowsInv, SubscriptionsPageTypeOK, CallsInv
<1>3. CASE ShowSubscriptions
  <2>1. PICK pc \in {"shown", "failed"} : listed' = [listed EXCEPT !.pc = pc]
    BY <1>3 DEF ShowSubscriptions
  <2>2. listed.pc = "read" /\ UNCHANGED <<subscription, denied, pendingSub, dialog, call, strayed>>
    BY <1>3 DEF ShowSubscriptions
  <2>3. listed' \in [pc : {"asked", "read", "shown", "failed"}, rows : [Subs -> SubRow]]
        /\ listed'.pc = pc /\ listed'.rows = subscription
    BY <1>0, <2>1, <2>2 DEF SubscriptionsPageTypeOK, PageRowsInv
  <2>4. \A s \in Subs : CallsFor(s)' = {}
    BY <1>0, <2>2 DEF CallsInv, CallsFor
  <2>5. \A s \in Subs : RowInv(s)'
    BY <2>2, <2>3, <2>4 DEF RowInv
  <2> QED
    BY <1>0, <2>2, <2>3, <2>5 DEF PageRowsInv, SubscriptionsPageTypeOK, CallsInv
<1>4. CASE CheckDeny \/ CloseConfirmation
  <2>1. dialog # NoDialog /\ UNCHANGED <<subscription, denied, listed, pendingSub, call, strayed>>
    BY <1>4 DEF CheckDeny, CloseConfirmation, NoDialog
  <2>2. dialog' \in {NoDialog, [dialog EXCEPT !.deny = ~dialog.deny]}
    BY <1>4 DEF CheckDeny, CloseConfirmation
  <2>3. LET new == [dialog EXCEPT !.deny = ~dialog.deny] IN
        new \in Dialog /\ new.sub = dialog.sub /\ new.op = dialog.op
    BY <1>t DEF Dialog
  <2>4. CASE dialog' = NoDialog
    BY <2>1, <2>4, DialogStep
  <2>5. CASE CheckDeny /\ dialog' # NoDialog
    <3>1. dialog'.sub \in Derived /\ dialog'.sub \in Subs /\ dialog'.op = "cancel" /\ dialog' \in Dialog
      BY <1>0, <1>t, <2>2, <2>3, <2>5 DEF CheckDeny, Subs
    <3>2. listed.pc = "shown"
      BY <1>0, <2>1 DEF CallsInv
    <3> QED
      BY <2>1, <3>1, <3>2, DialogStep
  <2> QED
    BY <1>4, <2>4, <2>5 DEF CloseConfirmation
<1>5. CASE RunPendingAction
  <2>1. /\ dialog # NoDialog /\ SendCall(dialog.op, dialog.sub, FALSE, dialog.deny)
        /\ UNCHANGED <<subscription, denied, listed, dialog>>
    BY <1>5 DEF RunPendingAction
  <2>2. /\ listed.pc = "shown" /\ dialog.sub \in Subs /\ dialog.op \in Requestable
        /\ (dialog.deny => dialog.sub \in Derived)
    BY <1>0, <2>1 DEF CallsInv, Requestable
  <2>3. dialog.deny \in BOOLEAN
    BY <1>t DEF Dialog
  <2> QED
    BY <2>1, <2>2, <2>3, SendCallStep
<1>6. ASSUME NEW s \in Subs, NEW op \in Requestable, Press(s, op)
      PROVE  PageRowsInv'
  <2>1. listed.pc = "shown" /\ SendCall(op, s, ~listed.rows[s].autoRenew, FALSE)
        /\ UNCHANGED <<subscription, denied, listed, dialog>>
    BY <1>6 DEF Press, ButtonsFree
  <2>2. (~listed.rows[s].autoRenew) \in BOOLEAN
    OBVIOUS
  <2> QED
    BY <2>1, <2>2, SendCallStep
<1>7. ASSUME NEW s \in Subs, NEW op \in Requestable, OpenConfirmation(s, op)
      PROVE  PageRowsInv'
  <2>1. /\ listed.pc = "shown" /\ op \in {"disable", "cancel"}
        /\ dialog' = [op |-> op, sub |-> s, deny |-> FALSE]
        /\ UNCHANGED <<subscription, denied, listed, pendingSub, call, strayed>>
    BY <1>7 DEF OpenConfirmation, ButtonsFree
  <2> QED
    BY <2>1, DialogStep DEF Dialog
<1>8. ASSUME NEW q \in Calls, Serve(q)
      PROVE  PageRowsInv'
  <2> DEFINE s == call[q].sub
             new == [call[q] EXCEPT !.pc = "ok", !.answer = subscription'[s]]
             applied == Applied(call[q].op, s, call[q].value)
  <2>1. /\ call[q].pc = "out" /\ Permits(call[q].op, s) /\ (call[q].op = "renew" => subscription[s].until < MaxPeriods)
        /\ subscription' = applied
        /\ strayed' = strayed \cup {d \in Derived : subscription'[d] # subscription[d] /\ d # s}
        /\ call' = [call EXCEPT ![q].pc = "ok", ![q].answer = subscription'[s]]
        /\ UNCHANGED <<denied, listed, pendingSub, dialog>>
    BY <1>8 DEF Serve
  <2>2. s \in Subs /\ call[q].op \in Requestable /\ call[q].value \in BOOLEAN /\ subscription[s] # Gone
    BY <1>0, <1>t, <2>1 DEF CallsInv, Call, Permits
  <2>3. /\ applied \in [Subs -> SubRow]
        /\ applied[s] = NewRow(call[q].op, subscription[s], call[q].value)
        /\ \A r \in Subs : (r # s /\ r \notin DerivedFrom(s)) => applied[r] = subscription[r]
    BY <1>t, <2>1, <2>2, AppliedRows
  <2> HIDE DEF applied
  <2>4. /\ new \in Call /\ new.pc = "ok" /\ new.sub = s /\ new.op = call[q].op /\ new.value = call[q].value /\ new.deny = call[q].deny
        /\ new.answer = subscription'[s]
    BY <1>t, <2>1, <2>2, <2>3 DEF Call
  <2>5. call' = [call EXCEPT ![q] = new]
    BY <1>t, <2>1
  <2> HIDE DEF new
  <2>6. strayed' \subseteq Subs /\ strayed \subseteq strayed'
    BY <1>t, <2>1 DEF Subs
  <2>7. \A r \in Subs \ (strayed' \cup {s}) : subscription'[r] = subscription[r]
    BY <2>1, <2>3 DEF DerivedFrom
  <2>8. s \notin strayed' =>
            /\ new.pc = "error" => call[q].pc # "ok" /\ subscription'[s] = subscription[s]
            /\ new.pc = "ok" => /\ call[q].pc = "out" /\ subscription[s] # Gone
                                /\ new.answer = subscription'[s]
                                /\ subscription'[s] = NewRow(new.op, subscription[s], new.value)
    BY <2>1, <2>2, <2>3, <2>4
  <2>9. subscription' \in [Subs -> SubRow] /\ new.pc \in {"ok", "error"} /\ call[q].pc # "idle"
    BY <2>1, <2>3, <2>4
  <2>10. UNCHANGED <<denied, listed, pendingSub, dialog>>
    BY <2>1
  <2> QED
    BY <2>4, <2>5, <2>6, <2>7, <2>8, <2>9, <2>10, AnswerStep, ZenonT(60)
<1>9. ASSUME NEW q \in Calls, Refuse(q)
      PROVE  PageRowsInv'
  <2> DEFINE new == [call[q] EXCEPT !.pc = "error"]
  <2>1. /\ call[q].pc = "out" /\ call' = [call EXCEPT ![q].pc = "error"]
        /\ UNCHANGED <<subscription, denied, listed, pendingSub, dialog, strayed>>
    BY <1>9 DEF Refuse
  <2>2. new \in Call /\ new.pc = "error" /\ new.sub = call[q].sub /\ new.op = call[q].op /\ new.value = call[q].value /\ new.deny = call[q].deny
    BY <1>t DEF Call
  <2>3. call' = [call EXCEPT ![q] = new]
    BY <1>t, <2>1
  <2> HIDE DEF new
  <2> QED
    BY <1>t, <2>1, <2>2, <2>3, AnswerStep
<1>10. ASSUME NEW q \in Calls, ServeFails(q)
       PROVE  PageRowsInv'
  <2> DEFINE s == call[q].sub
             new == [call[q] EXCEPT !.pc = "error"]
  <2>1. /\ call[q].pc \in {"out", "ok"} /\ call' = [call EXCEPT ![q].pc = "error"]
        /\ strayed' = strayed \cup {s} \cup DerivedFrom(s)
        /\ UNCHANGED <<denied, listed, pendingSub, dialog>>
    BY <1>10 DEF ServeFails
  <2>2. new \in Call /\ new.pc = "error" /\ new.sub = s /\ new.op = call[q].op /\ new.value = call[q].value /\ new.deny = call[q].deny
    BY <1>t DEF Call
  <2>3. call' = [call EXCEPT ![q] = new]
    BY <1>t, <2>1
  <2>4. s \in Subs /\ call[q].op \in Requestable
    BY <1>0, <2>1 DEF CallsInv
  <2>5. strayed' \subseteq Subs /\ strayed \subseteq strayed' /\ s \in strayed'
    BY <1>t, <2>1, <2>4 DEF Subs, DerivedFrom
  <2>6. /\ subscription' \in [Subs -> SubRow]
        /\ \A r \in Subs : (r # s /\ r \notin DerivedFrom(s)) => subscription'[r] = subscription[r]
    <3>1. CASE UNCHANGED subscription
      BY <1>t, <3>1
    <3>2. ASSUME NEW followed \in BOOLEAN,
                 call[q].op \in {"disable", "enable", "cancel"},
                 subscription' = [IF followed /\ call[q].op # "cancel" THEN Applied(call[q].op, s, FALSE)
                                                                     ELSE subscription
                                    EXCEPT ![s] = [subscription[s] EXCEPT !.status = "failed"]]
          PROVE  /\ subscription' \in [Subs -> SubRow]
                 /\ \A r \in Subs : (r # s /\ r \notin DerivedFrom(s)) => subscription'[r] = subscription[r]
      <4> DEFINE rows == IF followed /\ call[q].op # "cancel" THEN Applied(call[q].op, s, FALSE) ELSE subscription
      <4>1. /\ rows \in [Subs -> SubRow]
            /\ \A r \in Subs : (r # s /\ r \notin DerivedFrom(s)) => rows[r] = subscription[r]
        <5>1. (call[q].op = "renew" => subscription[s].until < MaxPeriods) /\ FALSE \in BOOLEAN
          BY <3>2
        <5>2. /\ Applied(call[q].op, s, FALSE) \in [Subs -> SubRow]
              /\ \A r \in Subs : (r # s /\ r \notin DerivedFrom(s)) =>
                    Applied(call[q].op, s, FALSE)[r] = subscription[r]
          BY <1>t, <2>4, <5>1, AppliedRows
        <5> QED
          BY <1>t, <5>2
      <4>2. [subscription[s] EXCEPT !.status = "failed"] \in SubRow
        BY <1>t, <2>4 DEF SubRow
      <4>3. subscription' = [rows EXCEPT ![s] = [subscription[s] EXCEPT !.status = "failed"]]
        BY <3>2
      <4> HIDE DEF rows
      <4> QED
        BY <4>1, <4>2, <4>3
    <3> QED
      BY <1>10, <3>1, <3>2 DEF ServeFails
  <2> HIDE DEF new
  <2>7. \A r \in Subs \ (strayed' \cup {s}) : subscription'[r] = subscription[r]
    BY <2>1, <2>6
  <2> QED
    BY <2>1, <2>2, <2>3, <2>5, <2>6, <2>7, AnswerStep
<1>11. ASSUME NEW q \in Calls, Settle(q)
       PROVE  PageRowsInv'
  <2>0. PICK s \in Subs : s = call[q].sub
    BY <1>0, <1>11 DEF CallsInv, Settle
  <2>1. /\ call[q].pc \in {"ok", "error"} /\ call' = [call EXCEPT ![q] = NoCall]
        /\ listed' = IF call[q].pc = "ok" /\ listed.rows[s] # Gone
                     THEN [listed EXCEPT !.rows[s] = RowAfter(q, listed.rows[s])] ELSE listed
        /\ denied' = IF Denies(q) THEN denied \cup {s} ELSE denied
        /\ pendingSub' = NoSub
        /\ dialog' = IF call[q].op \in {"disable", "cancel"} THEN NoDialog ELSE dialog
        /\ UNCHANGED <<subscription, strayed>>
    BY <1>11, <2>0 DEF Settle, Confirmed
  <2>2. s \in Subs /\ call[q].op \in Requestable /\ listed.pc = "shown" /\ \A r \in Subs : RowInv(r)
    BY <1>0, <2>0, <2>1 DEF CallsInv, PageRowsInv
  <2>3. RowAfter(q, listed.rows[s]) \in SubRow
    <3>1. call[q].answer \in SubRow /\ call[q].value \in BOOLEAN /\ listed.rows[s] \in SubRow
      BY <1>t, <2>2 DEF Call
    <3> QED
      BY <2>2, <3>1 DEF RowAfter, SubRow, Requestable
  <2>4. /\ listed' \in [pc : {"asked", "read", "shown", "failed"}, rows : [Subs -> SubRow]]
        /\ listed'.pc = "shown"
        /\ \A r \in Subs \ {s} : listed'.rows[r] = listed.rows[r]
        /\ listed'.rows[s] = IF call[q].pc = "ok" /\ listed.rows[s] # Gone THEN RowAfter(q, listed.rows[s])
                                                                          ELSE listed.rows[s]
    <3> DEFINE patch == RowAfter(q, listed.rows[s])
    <3> HIDE DEF patch
    <3>1. patch \in SubRow
      BY <2>3 DEF patch
    <3>2. listed' = IF call[q].pc = "ok" /\ listed.rows[s] # Gone THEN [listed EXCEPT !.rows[s] = patch] ELSE listed
      BY <2>1 DEF patch
    <3>3. listed \in [pc : {"asked", "read", "shown", "failed"}, rows : [Subs -> SubRow]]
      BY <1>0 DEF SubscriptionsPageTypeOK
    <3>4. /\ listed' \in [pc : {"asked", "read", "shown", "failed"}, rows : [Subs -> SubRow]]
          /\ listed'.pc = "shown"
          /\ \A r \in Subs \ {s} : listed'.rows[r] = listed.rows[r]
          /\ listed'.rows[s] = IF call[q].pc = "ok" /\ listed.rows[s] # Gone THEN patch ELSE listed.rows[s]
      BY <2>2, <3>1, <3>2, <3>3
    <3> QED
      BY <3>4 DEF patch
  <2>5. call' \in [Calls -> Call] /\ \A r \in Calls : call'[r] = IF r = q THEN NoCall ELSE call[r]
    BY <1>t, <2>1
  <2>6. SubscriptionsPageTypeOK'
    <3>1. denied' \subseteq Derived
      <4>1. denied \subseteq Derived
        BY <1>0 DEF SubscriptionsPageTypeOK
      <4>2. Denies(q) => s \in Derived
        BY <1>0, <2>0 DEF CallsInv, Denies
      <4> QED
        BY <2>1, <4>1, <4>2
    <3> QED
      BY <1>0, <2>1, <2>4, <2>5, <3>1 DEF SubscriptionsPageTypeOK
  <2>7. CallsInv'
    BY <1>0, <2>1, <2>4, <2>5 DEF CallsInv
  <2>8. CallsFor(s)' = CallsFor(s) \ {q} /\ q \in CallsFor(s) /\ \A r \in Subs \ {s} : CallsFor(r)' = CallsFor(r)
    BY <2>0, <2>1, <2>5 DEF CallsFor
  <2>9. ASSUME NEW r \in Subs, r # s PROVE RowInv(r)'
    <3>1. CallsFor(r)' = CallsFor(r) /\ \A p \in CallsFor(r) : call'[p] = call[p]
      BY <2>0, <2>5, <2>8, <2>9 DEF CallsFor
    <3> QED
      BY <2>1, <2>2, <2>4, <2>9, <3>1, RowUntouched DEF RowInv
  <2>10. RowInv(s)'
    <3> SUFFICES ASSUME s \notin strayed' PROVE RowInv(s)'
      BY DEF RowInv
    <3>1. CallsFor(s) = {q} /\ CallsFor(s)' = {}
      BY <2>1, <2>2, <2>8 DEF RowInv
    <3>2. listed'.rows[s] = subscription'[s]
      BY <2>1, <2>2, <2>4, <3>1 DEF RowInv
    <3> QED
      BY <3>1, <3>2 DEF RowInv
  <2> QED
    BY <2>4, <2>6, <2>7, <2>9, <2>10 DEF PageRowsInv
<1> QED
  BY <1>1, <1>2, <1>3, <1>4, <1>5, <1>6, <1>7, <1>8, <1>9, <1>10, <1>11 DEF SubscriptionsPageNext

(* The invariant of the administrator's page of subscriptions               *)
(* (useSubscriptionsPage, useSubscriptionsTable).                           *)
THEOREM PageRowsInvHolds == SubscriptionsPageSpec => []PageRowsInv
  BY SubscriptionsPageStarts, SubscriptionsPageKept, PTL DEF SubscriptionsPageSpec

(* A row for which no request is under way is the stored subscription,      *)
(* unless it strayed: two requests at once for it, a cascade the page was   *)
(* not told of, or an answer that was lost.                                 *)
THEOREM RowsFollowAnswersHolds == SubscriptionsPageSpec => []RowsFollowAnswers
<1>1. PageRowsInv => RowsFollowAnswers
  BY DEF PageRowsInv, RowInv, RowsFollowAnswers
<1> QED
  BY <1>1, PageRowsInvHolds, PTL

-----------------------------------------------------------------------------
(* A user's own subscriptions *)

(* A row that was removed, and a load that will take it from the page: one   *)
(* under way, or the one that follows the answer to a cancellation.          *)
LeavesSoon(c) ==
    /\ mine[c] = NoneLeft
    /\ \/ \E f \in Reloads : reload[f].pc # "idle"
       \/ \E q \in Deeds : deed[q].pc = "ok" /\ deed[q].op = "cancel" /\ c \in Touched(q)

(* A row whose answer, once it is there, makes it the stored one.            *)
PatchedSoon(c) ==
    \E q \in DeedsFor(c) : /\ deed[q].pc = "ok" /\ deed[q].op # "cancel"
                           /\ cards[c] # NoneLeft /\ PatchedCard(q, cards[c]) = mine[c]

(* A card that is not astray is current, or will be: a reload or an answer  *)
(* is on its way.                                                           *)
CardInv(c) ==
    c \notin astray =>
        /\ \A f \in Reloads : reload[f].pc = "read" => reload[f].rows[c] = mine[c]
        /\ present => (cards[c] = mine[c] \/ LeavesSoon(c) \/ PatchedSoon(c))
        /\ \A q, r \in DeedsFor(c) : q = r
        /\ \A q \in DeedsFor(c) :
              (deed[q].pc = "ok" /\ deed[q].op # "cancel") => (mine[c] # NoneLeft /\ deed[q].answer = mine[c])

(* The requests of the dialog.                                              *)
OwnOperations == {"autoRenew", "cancel", "addAccount"}

(* The inductive invariant.                                                 *)
OwnInv ==
    /\ OwnTypeOK
    /\ \A c \in Cards : mine[c].status = "none" => mine[c] = NoneLeft
    /\ \A q \in Deeds : deed[q].pc # "idle" => deed[q].sub \in Mine /\ deed[q].op \in OwnOperations
    /\ \A c \in Cards : CardInv(c)

(* What the blank values are.                                               *)
LEMMA OwnBlanks ==
    /\ NoneLeft \in MyRow /\ NoneLeft.status = "none" /\ NoReload \in Reload /\ NoReload.pc = "idle"
    /\ NoDeed \in Deed /\ NoDeed.pc = "idle" /\ NotOne \notin Mine /\ AccountCap \in Nat \ {0}
    /\ Included \cap Mine = {} /\ ComesWith \in [Included -> Mine]
<1>1. /\ NotOne \notin Mine /\ AccountCap \in Nat \ {0} /\ Included \cap Mine = {} /\ ComesWith \in [Included -> Mine]
  BY OwnSubscriptionsConstants
<1>2. NoneLeft \in MyRow /\ NoneLeft.status = "none"
  BY <1>1 DEF NoneLeft, MyRow
<1> QED
  BY <1>1, <1>2 DEF NoReload, Reload, NoDeed, Deed

(* Initially the first load is under way.                                   *)
LEMMA OwnStarts == OwnInit => OwnInv
<1> SUFFICES ASSUME OwnInit PROVE OwnInv
  OBVIOUS
<1> USE OwnBlanks
<1>1. PICK f \in Reloads : reload = [g \in Reloads |-> IF g = f THEN [NoReload EXCEPT !.pc = "asked"] ELSE NoReload]
  BY DEF OwnInit
<1> DEFINE l == [NoReload EXCEPT !.pc = "asked"]
<1>2. l \in Reload /\ l.pc = "asked"
  BY DEF Reload
<1> HIDE DEF l
<1>3. reload \in [Reloads -> Reload] /\ \A g \in Reloads : reload[g].pc # "read"
  BY <1>1, <1>2 DEF l
<1>4. OwnTypeOK
  BY <1>3 DEF OwnInit, OwnTypeOK
<1>5. \A c \in Cards : CardInv(c)
  BY <1>3 DEF OwnInit, CardInv, DeedsFor
<1> QED
  BY <1>4, <1>5 DEF OwnInv, OwnInit

(* Steps that leave the rows, the loads and the requests as they are.        *)
LEMMA OwnScreenStep ==
    ASSUME OwnInv, UNCHANGED <<mine, cards, present, reload, deed, astray>>,
           managingId' \in Mine \cup {NotOne}, tab' \in {"subscription", "accounts"}, adding' \in Deeds \cup {NotOne}
    PROVE  OwnInv'
<1>1. OwnTypeOK'
  BY DEF OwnInv, OwnTypeOK
<1>2. ASSUME NEW c \in Cards, CardInv(c) PROVE CardInv(c)'
  BY <1>2 DEF CardInv, LeavesSoon, PatchedSoon, DeedsFor, Touched, PatchedCard
<1> QED
  BY <1>1, <1>2 DEF OwnInv

(* A row that a step of one request leaves alone.                            *)
LEMMA CardUntouched ==
    ASSUME NEW c \in Cards, c \notin astray' => CardInv(c) /\ c \notin astray,
           c \notin astray' => mine'[c] = mine[c] /\ cards'[c] = cards[c],
           UNCHANGED <<present, reload>>,
           DeedsFor(c)' = DeedsFor(c), \A p \in DeedsFor(c) : deed'[p] = deed[p],
           \A p \in Deeds : (deed[p].pc = "ok" /\ deed[p].op = "cancel" /\ c \in Touched(p) /\ c \notin astray') =>
               (deed'[p] = deed[p] \/ \E f \in Reloads : reload[f].pc # "idle")
    PROVE  CardInv(c)'
<1> SUFFICES ASSUME c \notin astray' PROVE CardInv(c)'
  BY DEF CardInv
<1>1. CardInv(c) /\ c \notin astray /\ mine'[c] = mine[c] /\ cards'[c] = cards[c]
  OBVIOUS
<1>2. LeavesSoon(c) => LeavesSoon(c)'
  BY <1>1 DEF LeavesSoon, Touched, IncludedWith
<1>3. PatchedSoon(c) => PatchedSoon(c)'
  <2> SUFFICES ASSUME NEW q \in DeedsFor(c), deed[q].pc = "ok", deed[q].op # "cancel", cards[c] # NoneLeft,
                      PatchedCard(q, cards[c]) = mine[c]
               PROVE  PatchedSoon(c)'
    BY DEF PatchedSoon
  <2>1. PatchedCard(q, cards[c])' = PatchedCard(q, cards[c])
    BY <1>1 DEF PatchedCard
  <2> QED
    BY <1>1, <2>1 DEF PatchedSoon
<1>4. \A f \in Reloads : reload'[f].pc = "read" => reload'[f].rows[c] = mine'[c]
  BY <1>1 DEF CardInv
<1>5. present' => (cards'[c] = mine'[c] \/ LeavesSoon(c)' \/ PatchedSoon(c)')
  BY <1>1, <1>2, <1>3 DEF CardInv
<1>6. /\ \A q, r \in DeedsFor(c)' : q = r
      /\ \A q \in DeedsFor(c)' :
            (deed'[q].pc = "ok" /\ deed'[q].op # "cancel") => (mine'[c] # NoneLeft /\ deed'[q].answer = mine'[c])
  BY <1>1 DEF CardInv
<1> QED
  BY <1>4, <1>5, <1>6 DEF CardInv

(* Steps that send a request.                                                *)
LEMMA IssueStep ==
    ASSUME OwnInv, NEW q \in Deeds, NEW op \in OwnOperations, Managing, Issue(q, op),
           UNCHANGED <<mine, cards, present, reload, managingId, tab>>, adding' \in Deeds \cup {NotOne}
    PROVE  OwnInv'
<1> USE OwnBlanks
<1>0. OwnTypeOK /\ \A c \in Cards : CardInv(c)
  BY DEF OwnInv
<1>1. PICK s \in Mine : s = managingId
  BY <1>0 DEF Managing, OwnTypeOK
<1> DEFINE new == [pc |-> "out", op |-> op, sub |-> s, row |-> cards[s], answer |-> NoneLeft]
<1>2. new \in Deed /\ new.pc = "out" /\ new.sub = s /\ new.op = op
  BY <1>0 DEF Deed, OwnTypeOK, Cards, OwnOperations
<1>3. deed[q] = NoDeed /\ deed' = [deed EXCEPT ![q] = new]
      /\ astray' = IF DeedsFor(s) = {} THEN astray ELSE astray \cup {s}
  BY <1>1 DEF Issue
<1> HIDE DEF new
<1>4. deed' \in [Deeds -> Deed] /\ \A p \in Deeds : deed'[p] = IF p = q THEN new ELSE deed[p]
  BY <1>0, <1>2, <1>3 DEF OwnTypeOK
<1>5. OwnTypeOK'
  BY <1>0, <1>3, <1>4 DEF OwnTypeOK, Cards
<1>6. DeedsFor(s)' = DeedsFor(s) \cup {q} /\ \A c \in Cards \ {s} : DeedsFor(c)' = DeedsFor(c)
  BY <1>2, <1>3, <1>4 DEF DeedsFor
<1>7. ASSUME NEW c \in Cards, c # s PROVE CardInv(c)'
  <2>1. DeedsFor(c)' = DeedsFor(c) /\ \A p \in DeedsFor(c) : deed'[p] = deed[p]
    BY <1>3, <1>4, <1>6, <1>7 DEF DeedsFor
  <2>2. \A p \in Deeds : deed[p].pc = "ok" => deed'[p] = deed[p]
    BY <1>3, <1>4
  <2>3. c \notin astray' => c \notin astray
    BY <1>3
  <2> QED
    BY <1>0, <2>1, <2>2, <2>3, CardUntouched
<1>8. CardInv(s)'
  <2> SUFFICES ASSUME s \notin astray' PROVE CardInv(s)'
    BY DEF CardInv
  <2>1. DeedsFor(s) = {} /\ s \notin astray /\ DeedsFor(s)' = {q} /\ CardInv(s) /\ deed'[q].pc = "out"
    BY <1>0, <1>2, <1>3, <1>4, <1>6 DEF Cards
  <2>2. LeavesSoon(s) => LeavesSoon(s)'
    <3>1. \A p \in Deeds : deed[p].pc = "ok" => deed'[p] = deed[p]
      BY <1>3, <1>4
    <3> QED
      BY <3>1 DEF LeavesSoon, Touched, IncludedWith
  <2>3. ~PatchedSoon(s)
    BY <2>1 DEF PatchedSoon
  <2> QED
    BY <2>1, <2>2, <2>3 DEF CardInv
<1>9. \A p \in Deeds : deed'[p].pc # "idle" => deed'[p].sub \in Mine /\ deed'[p].op \in OwnOperations
  BY <1>2, <1>4 DEF OwnInv
<1> QED
  BY <1>5, <1>7, <1>8, <1>9 DEF OwnInv

(* Steps that end at the server: what becomes of one request.                *)
LEMMA ServedStep ==
    ASSUME OwnInv, NEW q \in Deeds, NEW new \in Deed, deed[q].pc # "idle", deed' = [deed EXCEPT ![q] = new],
           new.pc \in {"ok", "error"}, new.sub = deed[q].sub, new.op = deed[q].op,
           new.pc = "error" => deed[q].pc = "out" \/ Touched(q) \subseteq astray',
           new.pc = "ok" => deed[q].pc = "out",
           astray' \subseteq Cards, astray \subseteq astray',
           mine' \in [Cards -> MyRow], \A c \in Cards : mine'[c].status = "none" => mine'[c] = NoneLeft,
           \A c \in Cards \ astray' :
               /\ new.pc = "error" \/ c \notin Touched(q) => mine'[c] = mine[c]
               /\ (new.pc = "ok" /\ c \in Touched(q)) =>
                     /\ ~OutOfDate
                     /\ new.op = "cancel" => mine'[c] = NoneLeft
                     /\ new.op = "autoRenew" => mine[c] # NoneLeft /\ mine'[c] = [mine[c] EXCEPT !.autoRenew = new.answer.autoRenew]
                     /\ new.op # "cancel" => mine[c] # NoneLeft /\ mine'[c] # NoneLeft /\ new.answer = mine'[c],
           UNCHANGED <<cards, present, reload, managingId, tab, adding>>
    PROVE  OwnInv'
<1> USE OwnBlanks
<1>0. OwnTypeOK /\ \A c \in Cards : CardInv(c)
  BY DEF OwnInv
<1>1. PICK s \in Mine : s = deed[q].sub
  BY DEF OwnInv
<1>2. new.op \in OwnOperations /\ s \in Cards
  BY DEF OwnInv, Cards
<1>3. deed' \in [Deeds -> Deed] /\ \A p \in Deeds : deed'[p] = IF p = q THEN new ELSE deed[p]
  BY <1>0 DEF OwnTypeOK
<1>4. OwnTypeOK'
  BY <1>0, <1>3 DEF OwnTypeOK
<1>5. \A c \in Cards : DeedsFor(c)' = DeedsFor(c)
  BY <1>3 DEF DeedsFor
<1>6. s \in Touched(q) /\ q \in DeedsFor(s) /\ Touched(q)' = Touched(q)
  BY <1>1, <1>3 DEF Touched, DeedsFor, IncludedWith
<1>7. ASSUME NEW c \in Cards, c # s, c \notin Touched(q) PROVE CardInv(c)'
  <2>1. \A p \in DeedsFor(c) : deed'[p] = deed[p]
    BY <1>1, <1>3, <1>7 DEF DeedsFor
  <2>2. \A p \in Deeds : c \in Touched(p) => deed'[p] = deed[p]
    BY <1>3, <1>7
  <2>3. c \notin astray' => c \notin astray /\ mine'[c] = mine[c]
    BY <1>7
  <2> QED
    BY <1>0, <1>5, <2>1, <2>2, <2>3, CardUntouched
<1>8. ASSUME NEW c \in Cards, c # s, c \in Touched(q) PROVE CardInv(c)'
  <2>1. deed[q].op = "cancel" /\ c \in Included
    BY <1>1, <1>8 DEF Touched, IncludedWith
  <2>2. DeedsFor(c) = {}
    BY <2>1 DEF OwnInv, DeedsFor
  <2>3. CASE new.pc = "error"
    <3>1. \A p \in Deeds : (deed[p].pc = "ok" /\ c \in Touched(p) /\ c \notin astray') => deed'[p] = deed[p]
      BY <1>3, <1>8, <2>3
    <3>2. c \notin astray' => c \notin astray /\ mine'[c] = mine[c]
      BY <2>3
    <3> QED
      BY <1>0, <1>5, <2>2, <3>1, <3>2, CardUntouched
  <2>4. CASE new.pc = "ok"
    <3> SUFFICES ASSUME c \notin astray' PROVE CardInv(c)'
      BY DEF CardInv
    <3>1. mine'[c] = NoneLeft /\ ~OutOfDate
      BY <1>8, <2>1, <2>4
    <3>2. LeavesSoon(c)'
      BY <1>3, <1>6, <1>8, <2>1, <2>4, <3>1 DEF LeavesSoon
    <3>3. \A f \in Reloads : reload'[f].pc # "read"
      BY <3>1 DEF OutOfDate
    <3> QED
      BY <1>5, <2>2, <3>2, <3>3 DEF CardInv
  <2> QED
    BY <2>3, <2>4
<1>9. CardInv(s)'
  <2> SUFFICES ASSUME s \notin astray' PROVE CardInv(s)'
    BY DEF CardInv
  <2>1. CardInv(s) /\ s \notin astray /\ DeedsFor(s) = {q} /\ DeedsFor(s)' = {q} /\ deed'[q] = new
    BY <1>0, <1>2, <1>3, <1>5, <1>6 DEF CardInv
  <2>2. deed[q].pc = "out"
    BY <1>6
  <2>3. ~PatchedSoon(s)
    BY <2>1, <2>2 DEF PatchedSoon
  <2>4. CASE new.pc = "error"
    <3>1. mine'[s] = mine[s]
      BY <1>2, <2>4
    <3>2. LeavesSoon(s) => LeavesSoon(s)'
      <4>1. \A p \in Deeds : deed[p].pc = "ok" => deed'[p] = deed[p]
        BY <1>3, <2>2
      <4> QED
        BY <3>1, <4>1 DEF LeavesSoon, Touched, IncludedWith
    <3> QED
      BY <2>1, <2>3, <2>4, <3>1, <3>2 DEF CardInv
  <2>5. CASE new.pc = "ok"
    <3>1. ~OutOfDate /\ \A f \in Reloads : reload'[f].pc # "read"
      BY <1>2, <1>6, <2>5 DEF OutOfDate
    <3>2. CASE new.op = "cancel"
      <4>1. LeavesSoon(s)'
        BY <1>2, <1>6, <2>1, <2>5, <3>2 DEF LeavesSoon
      <4> QED
        BY <2>1, <2>5, <3>1, <3>2, <4>1 DEF CardInv
    <3>3. CASE new.op # "cancel"
      <4>1. mine[s] # NoneLeft /\ mine'[s] # NoneLeft /\ new.answer = mine'[s]
        BY <1>2, <1>6, <2>5, <3>3
      <4>2. present => cards[s] = mine[s]
        BY <2>1, <2>3, <4>1 DEF CardInv, LeavesSoon
      <4>3. present => PatchedCard(q, cards[s])' = mine'[s]
        <5>1. CASE new.op = "autoRenew"
          BY <1>2, <1>6, <2>1, <2>5, <4>1, <4>2, <5>1 DEF PatchedCard
        <5>2. CASE new.op # "autoRenew"
          BY <2>1, <4>1, <5>2 DEF PatchedCard
        <5> QED
          BY <5>1, <5>2
      <4>4. present' => PatchedSoon(s)'
        BY <2>1, <2>5, <3>3, <4>1, <4>2, <4>3 DEF PatchedSoon
      <4> QED
        BY <2>1, <2>5, <3>1, <4>1, <4>4 DEF CardInv
    <3> QED
      BY <3>2, <3>3
  <2> QED
    BY <2>4, <2>5
<1>10. \A p \in Deeds : deed'[p].pc # "idle" => deed'[p].sub \in Mine /\ deed'[p].op \in OwnOperations
  BY <1>3 DEF OwnInv
<1> QED
  BY <1>4, <1>7, <1>8, <1>9, <1>10 DEF OwnInv

(* Every step of the page keeps the invariant.                              *)
LEMMA OwnKept == OwnInv /\ [OwnNext]_ownVars => OwnInv'
<1> SUFFICES ASSUME OwnInv, [OwnNext]_ownVars PROVE OwnInv'
  OBVIOUS
<1> USE OwnBlanks
<1>0. OwnTypeOK /\ \A c \in Cards : CardInv(c)
  BY DEF OwnInv
<1>t. /\ mine \in [Cards -> MyRow] /\ cards \in [Cards -> MyRow] /\ reload \in [Reloads -> Reload]
      /\ managingId \in Mine \cup {NotOne} /\ tab \in {"subscription", "accounts"} /\ adding \in Deeds \cup {NotOne}
      /\ deed \in [Deeds -> Deed] /\ astray \subseteq Cards
  BY <1>0 DEF OwnTypeOK
<1>1. CASE UNCHANGED ownVars
  <2>1. UNCHANGED <<mine, cards, present, reload, managingId, tab, adding, deed, astray>>
    BY <1>1 DEF ownVars
  <2> QED
    BY <1>t, <2>1, OwnScreenStep
<1>2. ASSUME NEW f \in Reloads, ReadMine(f) PROVE OwnInv'
  <2> DEFINE l == [pc |-> "read", rows |-> mine]
  <2>1. reload[f].pc = "asked" /\ reload' = [reload EXCEPT ![f] = l]
        /\ UNCHANGED <<mine, cards, present, managingId, tab, adding, deed, astray>>
    BY <1>2 DEF ReadMine
  <2>2. l \in Reload /\ l.pc = "read" /\ l.rows = mine
    BY <1>t DEF Reload
  <2> HIDE DEF l
  <2>3. reload' \in [Reloads -> Reload] /\ \A g \in Reloads : reload'[g] = IF g = f THEN l ELSE reload[g]
    BY <1>t, <2>1, <2>2
  <2>4. OwnTypeOK'
    BY <1>0, <2>1, <2>3 DEF OwnTypeOK
  <2>5. ASSUME NEW c \in Cards PROVE CardInv(c)'
    <3>1. LeavesSoon(c) => LeavesSoon(c)'
      BY <2>1, <2>2, <2>3 DEF LeavesSoon, Touched
    <3>2. PatchedSoon(c) => PatchedSoon(c)'
      BY <2>1 DEF PatchedSoon, DeedsFor, PatchedCard
    <3>3. CardInv(c) /\ DeedsFor(c)' = DeedsFor(c)
      BY <1>0, <2>1 DEF DeedsFor
    <3> QED
      BY <2>1, <2>2, <2>3, <3>1, <3>2, <3>3 DEF CardInv
  <2> QED
    BY <2>1, <2>4, <2>5 DEF OwnInv
<1>3. ASSUME NEW f \in Reloads, ShowMine(f) PROVE OwnInv'
  <2>1. /\ reload[f].pc = "read" /\ cards' = reload[f].rows /\ present' = TRUE
        /\ reload' = [reload EXCEPT ![f] = NoReload]
        /\ UNCHANGED <<mine, managingId, deed, astray>>
    BY <1>3 DEF ShowMine
  <2>2. tab' \in {"subscription", "accounts"} /\ adding' \in Deeds \cup {NotOne}
    BY <1>t, <1>3 DEF ShowMine
  <2>3. reload' \in [Reloads -> Reload] /\ \A g \in Reloads : reload'[g] = IF g = f THEN NoReload ELSE reload[g]
    BY <1>t, <2>1
  <2>4. cards' \in [Cards -> MyRow]
    BY <1>t, <2>1 DEF Reload
  <2>5. OwnTypeOK'
    BY <1>0, <2>1, <2>2, <2>3, <2>4 DEF OwnTypeOK
  <2>6. ASSUME NEW c \in Cards PROVE CardInv(c)'
    <3>1. CardInv(c) /\ DeedsFor(c)' = DeedsFor(c)
      BY <1>0, <2>1 DEF DeedsFor
    <3>2. c \notin astray' => cards'[c] = mine'[c]
      BY <2>1, <3>1 DEF CardInv
    <3> QED
      BY <2>1, <2>3, <3>1, <3>2 DEF CardInv
  <2> QED
    BY <2>1, <2>5, <2>6 DEF OwnInv
<1>4. ASSUME NEW f \in Reloads, ReloadFails(f) PROVE OwnInv'
  <2>1. /\ present' = TRUE /\ reload' = [reload EXCEPT ![f] = NoReload]
        /\ astray' = IF present THEN astray \cup {s \in Cards : mine[s] = NoneLeft} ELSE Cards
        /\ UNCHANGED <<mine, cards, managingId, tab, adding, deed>>
    BY <1>4 DEF ReloadFails
  <2>2. reload' \in [Reloads -> Reload] /\ \A g \in Reloads : reload'[g] = IF g = f THEN NoReload ELSE reload[g]
    BY <1>t, <2>1
  <2>3. OwnTypeOK'
    BY <1>0, <2>1, <2>2 DEF OwnTypeOK
  <2>4. ASSUME NEW c \in Cards PROVE CardInv(c)'
    <3> SUFFICES ASSUME c \notin astray' PROVE CardInv(c)'
      BY DEF CardInv
    <3>1. CardInv(c) /\ c \notin astray /\ DeedsFor(c)' = DeedsFor(c) /\ mine[c] # NoneLeft /\ present
      BY <1>0, <2>1 DEF DeedsFor
    <3>2. PatchedSoon(c) => PatchedSoon(c)'
      BY <2>1, <3>1 DEF PatchedSoon, PatchedCard
    <3> QED
      BY <2>1, <2>2, <3>1, <3>2 DEF CardInv, LeavesSoon
  <2> QED
    BY <2>1, <2>3, <2>4 DEF OwnInv
<1>5. CASE (\E s \in Mine : Manage(s)) \/ (\E t \in {"subscription", "accounts"} : ChooseTab(t)) \/ CloseDialog
  <2>1. UNCHANGED <<mine, cards, present, reload, deed, astray>>
    BY <1>5 DEF Manage, ChooseTab, CloseDialog
  <2>2. managingId' \in Mine \cup {NotOne} /\ tab' \in {"subscription", "accounts"} /\ adding' \in Deeds \cup {NotOne}
    BY <1>t, <1>5 DEF Manage, ChooseTab, CloseDialog
  <2> QED
    BY <2>1, <2>2, OwnScreenStep
<1>6. ASSUME NEW q \in Deeds, NEW op \in {"autoRenew", "cancel"}, ToggleOrCancel(q, op) PROVE OwnInv'
  BY <1>t, <1>6, IssueStep DEF ToggleOrCancel, OwnOperations
<1>7. ASSUME NEW q \in Deeds, AddAccount(q) PROVE OwnInv'
  BY <1>7, IssueStep DEF AddAccount, OwnOperations
<1>8. ASSUME NEW q \in Deeds, Perform(q) PROVE OwnInv'
  <2>0. PICK s \in Mine : s = deed[q].sub
    BY <1>8 DEF Perform, OwnInv
  <2> DEFINE row == mine[s]
             new == [deed[q] EXCEPT !.pc = "ok", !.answer = Performed(q)]
  <2>1. /\ deed[q].pc = "out" /\ Allows(q)
        /\ mine' = [c \in Cards |-> IF c = s THEN Performed(q) ELSE IF c \in Touched(q) THEN NoneLeft ELSE mine[c]]
        /\ astray' = IF OutOfDate THEN astray \cup Touched(q) ELSE astray
        /\ deed' = [deed EXCEPT ![q].pc = "ok", ![q].answer = Performed(q)]
        /\ UNCHANGED <<cards, present, reload, managingId, tab, adding>>
    BY <1>8, <2>0 DEF Perform
  <2>2. deed[q].op \in OwnOperations /\ row \in MyRow /\ row # NoneLeft /\ row.status # "none" /\ s \in Cards
        /\ deed[q].row \in MyRow
    BY <1>t, <2>0, <2>1 DEF OwnInv, Allows, Cards, Deed
  <2>3. /\ Performed(q) \in MyRow
        /\ deed[q].op = "cancel" => Performed(q) = NoneLeft
        /\ deed[q].op # "cancel" => Performed(q).status = row.status
        /\ deed[q].op = "autoRenew" => Performed(q) = [row EXCEPT !.autoRenew = Performed(q).autoRenew]
    <3>1. CASE deed[q].op = "autoRenew"
      <4> DEFINE renew == ~deed[q].row.autoRenew
      <4>1. renew \in BOOLEAN
        OBVIOUS
      <4>2. Performed(q) = [row EXCEPT !.autoRenew = renew]
        BY <2>0, <3>1 DEF Performed
      <4> HIDE DEF renew
      <4> QED
        BY <2>2, <3>1, <4>1, <4>2 DEF MyRow
    <3>2. CASE deed[q].op = "addAccount"
      <4>1. Performed(q) = [row EXCEPT !.accounts = row.accounts + 1]
        BY <2>0, <3>2 DEF Performed
      <4>2. row.accounts + 1 \in 0..AccountCap
        BY <2>0, <2>1, <2>2, <3>2 DEF Allows, MyRow
      <4> QED
        BY <2>2, <3>2, <4>1, <4>2 DEF MyRow
    <3>3. CASE deed[q].op = "cancel"
      BY <3>3 DEF Performed
    <3> QED
      BY <2>2, <3>1, <3>2, <3>3 DEF OwnOperations
  <2>4. new \in Deed /\ new.pc = "ok" /\ new.sub = deed[q].sub /\ new.op = deed[q].op /\ new.answer = Performed(q)
    BY <1>t, <2>3 DEF Deed
  <2>5. deed' = [deed EXCEPT ![q] = new]
    BY <1>t, <2>1
  <2> HIDE DEF new
  <2>6. astray' \subseteq Cards /\ astray \subseteq astray'
    BY <1>t, <2>0, <2>1 DEF Touched, IncludedWith, Cards
  <2>7. mine' \in [Cards -> MyRow] /\ \A c \in Cards : mine'[c].status = "none" => mine'[c] = NoneLeft
    BY <1>t, <2>1, <2>2, <2>3 DEF OwnInv
  <2>8. ASSUME NEW c \in Cards \ astray'
        PROVE  /\ new.pc = "error" \/ c \notin Touched(q) => mine'[c] = mine[c]
               /\ (new.pc = "ok" /\ c \in Touched(q)) =>
                     /\ ~OutOfDate
                     /\ new.op = "cancel" => mine'[c] = NoneLeft
                     /\ new.op = "autoRenew" => mine[c] # NoneLeft /\ mine'[c] = [mine[c] EXCEPT !.autoRenew = new.answer.autoRenew]
                     /\ new.op # "cancel" => mine[c] # NoneLeft /\ mine'[c] # NoneLeft /\ new.answer = mine'[c]
    <3>1. s \in Touched(q)
      BY <2>0 DEF Touched
    <3>2. CASE c \notin Touched(q)
      BY <2>1, <3>1, <3>2
    <3>3. CASE c \in Touched(q) /\ c # s
      <4>1. mine'[c] = NoneLeft /\ ~OutOfDate /\ deed[q].op = "cancel"
        BY <2>0, <2>1, <3>3 DEF Touched
      <4> QED
        BY <2>4, <3>3, <4>1
    <3>4. CASE c = s
      <4>1. mine'[c] = Performed(q) /\ ~OutOfDate
        BY <2>1, <3>1, <3>4
      <4> QED
        BY <2>2, <2>3, <2>4, <3>1, <3>4, <4>1
    <3> QED
      BY <3>2, <3>3, <3>4
  <2> QED
    <3>1. deed[q].pc # "idle" /\ new.pc \in {"ok", "error"} /\ (new.pc = "ok" => deed[q].pc = "out")
          /\ (new.pc = "error" => deed[q].pc = "out" \/ Touched(q) \subseteq astray')
      BY <2>1, <2>4
    <3> QED
      BY <2>1, <2>4, <2>5, <2>6, <2>7, <2>8, <3>1, ServedStep
<1>9. ASSUME NEW q \in Deeds, Reject(q) PROVE OwnInv'
  <2> DEFINE new == [deed[q] EXCEPT !.pc = "error"]
  <2>1. deed[q].pc = "out" /\ deed' = [deed EXCEPT ![q].pc = "error"]
        /\ UNCHANGED <<mine, cards, present, reload, managingId, tab, adding, astray>>
    BY <1>9 DEF Reject
  <2>2. new \in Deed /\ new.pc = "error" /\ new.sub = deed[q].sub /\ new.op = deed[q].op
    BY <1>t DEF Deed
  <2>3. deed' = [deed EXCEPT ![q] = new]
    BY <1>t, <2>1
  <2> HIDE DEF new
  <2>4. \A c \in Cards : mine'[c].status = "none" => mine'[c] = NoneLeft
    BY <2>1 DEF OwnInv
  <2> QED
    BY <1>t, <2>1, <2>2, <2>3, <2>4, ServedStep
<1>10. ASSUME NEW q \in Deeds, BreakOff(q) PROVE OwnInv'
  <2>0. PICK s \in Mine : s = deed[q].sub
    BY <1>10 DEF BreakOff, OwnInv
  <2> DEFINE new == [deed[q] EXCEPT !.pc = "error"]
  <2>1. /\ deed[q].pc \in {"out", "ok"} /\ deed' = [deed EXCEPT ![q].pc = "error"]
        /\ astray' = astray \cup Touched(q)
        /\ mine' = [mine EXCEPT ![s].status = "failed"] \/ UNCHANGED mine
        /\ UNCHANGED <<cards, present, reload, managingId, tab, adding>>
    BY <1>10, <2>0 DEF BreakOff
  <2>2. new \in Deed /\ new.pc = "error" /\ new.sub = deed[q].sub /\ new.op = deed[q].op
    BY <1>t DEF Deed
  <2>3. deed' = [deed EXCEPT ![q] = new]
    BY <1>t, <2>1
  <2> HIDE DEF new
  <2>4. s \in Touched(q) /\ s \in Cards /\ astray' \subseteq Cards
    BY <1>t, <2>0, <2>1 DEF Touched, IncludedWith, Cards
  <2>5. /\ mine' \in [Cards -> MyRow] /\ \A c \in Cards : mine'[c].status = "none" => mine'[c] = NoneLeft
        /\ \A c \in Cards \ {s} : mine'[c] = mine[c]
    <3> DEFINE row == [mine[s] EXCEPT !.status = "failed"]
    <3>1. row \in MyRow /\ row.status = "failed"
      BY <1>t, <2>4 DEF MyRow
    <3>2. mine' = [mine EXCEPT ![s] = row] \/ mine' = mine
      BY <1>t, <2>1
    <3> HIDE DEF row
    <3> QED
      BY <1>t, <2>4, <3>1, <3>2 DEF OwnInv
  <2> QED
    <3>1. /\ deed[q].pc # "idle" /\ new.pc \in {"ok", "error"} /\ (new.pc = "ok" => deed[q].pc = "out")
          /\ (new.pc = "error" => deed[q].pc = "out" \/ Touched(q) \subseteq astray')
          /\ astray \subseteq astray'
      BY <2>1, <2>2
    <3>2. ASSUME NEW c \in Cards \ astray'
          PROVE  /\ new.pc = "error" \/ c \notin Touched(q) => mine'[c] = mine[c]
                 /\ (new.pc = "ok" /\ c \in Touched(q)) =>
                       /\ ~OutOfDate
                       /\ new.op = "cancel" => mine'[c] = NoneLeft
                       /\ new.op = "autoRenew" => mine[c] # NoneLeft /\ mine'[c] = [mine[c] EXCEPT !.autoRenew = new.answer.autoRenew]
                       /\ new.op # "cancel" => mine[c] # NoneLeft /\ mine'[c] # NoneLeft /\ new.answer = mine'[c]
      BY <2>1, <2>2, <2>4, <2>5
    <3> QED
      BY <2>1, <2>2, <2>3, <2>4, <2>5, <3>1, <3>2, ServedStep
<1>11. ASSUME NEW q \in Deeds, Acknowledge(q) PROVE OwnInv'
  <2>0. PICK s \in Mine : s = deed[q].sub
    BY <1>11 DEF Acknowledge, OwnInv
  <2> DEFINE done == deed[q].pc = "ok"
             cancelled == done /\ deed[q].op = "cancel"
  <2>1. /\ deed[q].pc \in {"ok", "error"}
        /\ cards' = IF done /\ ~cancelled /\ cards[s] # NoneLeft THEN [cards EXCEPT ![s] = PatchedCard(q, cards[s])] ELSE cards
        /\ IF cancelled
           THEN \E f \in Reloads : reload[f] = NoReload /\ reload' = [reload EXCEPT ![f].pc = "asked"]
           ELSE UNCHANGED reload
        /\ managingId' = IF cancelled THEN NotOne ELSE managingId
        /\ tab' = IF cancelled THEN "subscription" ELSE tab
        /\ adding' = IF cancelled \/ adding = q THEN NotOne ELSE adding
        /\ deed' = [deed EXCEPT ![q] = NoDeed]
        /\ UNCHANGED <<mine, present, astray>>
    BY <1>11, <2>0 DEF Acknowledge
  <2>2. deed' \in [Deeds -> Deed] /\ \A p \in Deeds : deed'[p] = IF p = q THEN NoDeed ELSE deed[p]
    BY <1>t, <2>1
  <2>3. s \in Cards /\ deed[q].op \in OwnOperations
    BY <2>0, <2>1 DEF OwnInv, Cards
  <2>4. cards' \in [Cards -> MyRow]
    <3>1. PatchedCard(q, cards[s]) \in MyRow
      <4>1. deed[q].answer \in MyRow /\ cards[s] \in MyRow /\ deed[q].answer.autoRenew \in BOOLEAN
        BY <1>t, <2>3 DEF Deed, MyRow
      <4> QED
        BY <4>1 DEF PatchedCard, MyRow
    <3> QED
      BY <1>t, <2>1, <2>3, <3>1
  <2>5. CASE ~cancelled
    <3>1. OwnTypeOK'
      BY <1>0, <2>1, <2>2, <2>4, <2>5 DEF OwnTypeOK
    <3>2. ASSUME NEW c \in Cards, c # s PROVE CardInv(c)'
      <4>1. DeedsFor(c)' = DeedsFor(c) /\ \A p \in DeedsFor(c) : deed'[p] = deed[p]
        BY <2>0, <2>2, <3>2 DEF DeedsFor
      <4>2. cards'[c] = cards[c] /\ mine'[c] = mine[c] /\ UNCHANGED <<present, reload>>
        BY <1>t, <2>1, <2>5, <3>2
      <4>3. \A p \in Deeds : deed[p].pc = "ok" /\ deed[p].op = "cancel" => deed'[p] = deed[p]
        BY <2>2, <2>5
      <4> QED
        BY <1>0, <2>1, <4>1, <4>2, <4>3, CardUntouched
    <3>3. CardInv(s)'
      <4> SUFFICES ASSUME s \notin astray' PROVE CardInv(s)'
        BY DEF CardInv
      <4>1. CardInv(s) /\ s \notin astray /\ q \in DeedsFor(s) /\ DeedsFor(s)' = DeedsFor(s) \ {q}
        BY <1>0, <2>0, <2>1, <2>2, <2>3 DEF DeedsFor
      <4>2. DeedsFor(s) = {q} /\ DeedsFor(s)' = {}
        BY <4>1 DEF CardInv
      <4>3. CASE done
        <5>1. mine[s] # NoneLeft
          BY <2>5, <4>1, <4>3 DEF CardInv
        <5>2. deed[q].answer = mine[s]
          BY <2>5, <4>1, <4>3 DEF CardInv
        <5>3. present => (cards[s] = mine[s] \/ PatchedSoon(s))
          BY <4>1, <5>1 DEF CardInv, LeavesSoon
        <5>4. PatchedSoon(s) => cards[s] # NoneLeft /\ PatchedCard(q, cards[s]) = mine[s]
          BY <4>2 DEF PatchedSoon
        <5>5. PatchedCard(q, mine[s]) = mine[s]
          BY <1>t, <2>3, <5>2 DEF PatchedCard, MyRow
        <5>6. present => cards'[s] = mine[s]
          <6>1. cards[s] # NoneLeft => cards'[s] = PatchedCard(q, cards[s])
            BY <1>t, <2>1, <2>3, <2>5, <4>3
          <6>2. cards[s] = mine[s] => cards'[s] = mine[s]
            BY <5>1, <5>5, <6>1
          <6> QED
            BY <5>3, <5>4, <6>1, <6>2
        <5> QED
          BY <2>1, <2>5, <4>1, <4>2, <5>6 DEF CardInv
      <4>4. CASE ~done
        <5>1. cards' = cards /\ UNCHANGED reload
          BY <2>1, <4>4
        <5>2. ~PatchedSoon(s)
          BY <4>2, <4>4 DEF PatchedSoon
        <5>3. LeavesSoon(s) => LeavesSoon(s)'
          <6>1. \A p \in Deeds : deed[p].pc = "ok" => deed'[p] = deed[p]
            BY <2>2, <4>4
          <6> QED
            BY <2>1, <5>1, <6>1 DEF LeavesSoon, Touched, IncludedWith
        <5> QED
          BY <2>1, <4>1, <4>2, <5>1, <5>2, <5>3 DEF CardInv
      <4> QED
        BY <4>3, <4>4
    <3> QED
      BY <2>1, <2>2, <3>1, <3>2, <3>3 DEF OwnInv
  <2>6. CASE cancelled
    <3>1. PICK f \in Reloads : reload[f] = NoReload /\ reload' = [reload EXCEPT ![f].pc = "asked"]
      BY <2>1, <2>6
    <3> DEFINE l == [reload[f] EXCEPT !.pc = "asked"]
    <3>2. l \in Reload /\ l.pc = "asked"
      BY <1>t DEF Reload
    <3>3. reload' \in [Reloads -> Reload] /\ \A g \in Reloads : reload'[g] = IF g = f THEN l ELSE reload[g]
      BY <1>t, <3>1, <3>2
    <3> HIDE DEF l
    <3>4. OwnTypeOK'
      BY <1>0, <2>1, <2>2, <2>4, <2>6, <3>3 DEF OwnTypeOK
    <3>5. ASSUME NEW c \in Cards PROVE CardInv(c)'
      <4> SUFFICES ASSUME c \notin astray' PROVE CardInv(c)'
        BY DEF CardInv
      <4>1. CardInv(c) /\ c \notin astray /\ cards' = cards /\ mine' = mine /\ present' = present
        BY <1>0, <2>1, <2>6
      <4>2. DeedsFor(c)' = DeedsFor(c) \ {q}
        BY <2>2 DEF DeedsFor
      <4>3. LeavesSoon(c) => LeavesSoon(c)'
        BY <3>2, <3>3, <4>1 DEF LeavesSoon
      <4>4. PatchedSoon(c) => PatchedSoon(c)'
        <5> SUFFICES ASSUME NEW p \in DeedsFor(c), deed[p].pc = "ok", deed[p].op # "cancel", cards[c] # NoneLeft,
                            PatchedCard(p, cards[c]) = mine[c]
                     PROVE  PatchedSoon(c)'
          BY DEF PatchedSoon
        <5>1. p # q /\ deed'[p] = deed[p] /\ p \in DeedsFor(c)'
          BY <2>2, <2>6, <4>2 DEF DeedsFor
        <5>2. PatchedCard(p, cards[c])' = mine'[c]
          BY <4>1, <5>1 DEF PatchedCard
        <5> QED
          BY <4>1, <5>1, <5>2 DEF PatchedSoon
      <4>5. \A g \in Reloads : reload'[g].pc = "read" => reload'[g].rows[c] = mine'[c]
        BY <3>2, <3>3, <4>1 DEF CardInv
      <4>6. \A p \in DeedsFor(c)' : p \in DeedsFor(c) /\ deed'[p] = deed[p]
        BY <2>2, <4>2 DEF DeedsFor
      <4> QED
        BY <4>1, <4>3, <4>4, <4>5, <4>6 DEF CardInv
    <3> QED
      BY <2>1, <2>2, <3>4, <3>5 DEF OwnInv
  <2> QED
    BY <2>5, <2>6
<1> QED
  BY <1>1, <1>2, <1>3, <1>4, <1>5, <1>6, <1>7, <1>8, <1>9, <1>10, <1>11 DEF OwnNext

(* The invariant of a user's own page of subscriptions (useAccountPage).    *)
THEOREM OwnInvHolds == OwnSpec => []OwnInv
  BY OwnStarts, OwnKept, PTL DEF OwnSpec

(* With no load and no request under way, the cards show the status, the    *)
(* auto-renewal and the number of accounts that are stored, except those    *)
(* that went astray.                                                        *)
THEOREM CardsCurrent == OwnSpec => []CardsAreCurrent
<1>1. ASSUME OwnInv, present, \A f \in Reloads : reload[f] = NoReload, NEW c \in Cards \ astray,
             DeedsFor(c) = {}, \A q \in Deeds : c \in Touched(q) => deed[q].pc = "idle"
      PROVE  cards[c] = mine[c]
  <2>1. CardInv(c) /\ \A f \in Reloads : reload[f].pc = "idle"
    BY <1>1, OwnBlanks DEF OwnInv
  <2> QED
    BY <1>1, <2>1 DEF CardInv, LeavesSoon, PatchedSoon
<1>2. OwnInv => CardsAreCurrent
  <2> SUFFICES ASSUME OwnInv, present, \A f \in Reloads : reload[f] = NoReload PROVE CardsAreCurrent
    BY DEF CardsAreCurrent
  <2>1. ASSUME NEW s \in Mine, s \notin astray, DeedsFor(s) = {} PROVE cards[s] = mine[s]
    <3>1. \A q \in Deeds : s \in Touched(q) => deed[q].pc = "idle"
      BY <2>1, OwnBlanks DEF Touched, IncludedWith, DeedsFor
    <3> QED
      BY <1>1, <2>1, <3>1 DEF Cards
  <2>2. ASSUME NEW d \in Included, d \notin astray, DeedsFor(ComesWith[d]) = {} PROVE cards[d] = mine[d]
    <3>1. \A q \in Deeds : deed[q].pc # "idle" => deed[q].sub # d
      BY OwnBlanks DEF OwnInv
    <3>2. DeedsFor(d) = {}
      BY <3>1 DEF DeedsFor
    <3>3. \A q \in Deeds : d \in Touched(q) => deed[q].pc = "idle"
      BY <2>2, <3>1 DEF Touched, IncludedWith, DeedsFor
    <3> QED
      BY <1>1, <2>2, <3>2, <3>3 DEF Cards
  <2> QED
    BY <2>1, <2>2 DEF CardsAreCurrent
<1> QED
  BY <1>2, OwnInvHolds, PTL

-----------------------------------------------------------------------------
(* The page of services *)

(* What the server has stored by now, where the page shows row.              *)
Written(c, row) ==
    IF c.kind = "delete" THEN (IF c.pc = "done" THEN Blank ELSE row)
    ELSE [slug |-> c.at,
          enabled |-> IF c.pc \in {"url", "imageUrl", "done"} THEN c.to.enabled ELSE row.enabled,
          url |-> IF c.pc \in {"imageUrl", "done"} THEN c.to.url ELSE row.url,
          imageUrl |-> IF c.pc = "done" THEN c.to.imageUrl ELSE row.imageUrl]

(* Request c is for what the page shows in row.                              *)
IsFor(c, row) ==
    c.pc # "idle" /\ c.kind \in {"update", "delete"} /\ row # Blank /\ row.slug = c.path

(* A row that a creation made; the list will be loaded again.                *)
MadeAnew(e) == \E q \in Changers : change[q].kind = "create" /\ change[q].pc = "done" /\ service[e] = change[q].to

(* A row of the page is what is stored, or what was stored before the       *)
(* request for it.                                                          *)
RowFollows(e) ==
    /\ \A q \in Changers : IsFor(change[q], services[e]) => service[e] = Written(change[q], services[e])
    /\ (\A q \in Changers : ~IsFor(change[q], services[e])) => service[e] = services[e]

(* What requests are made of, and how far one has come.                     *)
ChangeOK(c) ==
    c.pc # "idle" =>
        /\ c.kind \in {"update", "create", "delete"}
        /\ c.kind = "update" => /\ c.to \in Fields /\ c.path \in Slugs
                                /\ c.pc \in {"slug", "enabled", "url", "imageUrl", "done", "error"}
                                /\ c.pc = "slug" => c.at = c.path
                                /\ c.pc \in {"enabled", "url", "imageUrl", "done"} => c.at = c.to.slug
                                /\ c.at \in {c.path, c.to.slug}
        /\ c.kind = "create" => c.to \in Fields /\ c.path = c.to.slug /\ c.pc \in {"create", "done", "error"}
        /\ c.kind = "delete" => c.at = c.path /\ c.path \in Slugs /\ c.pc \in {"delete", "done", "error"}

(* No two services have the same slug.                                      *)
SlugsDiffer(rows) == \A e, f \in Entries : (rows[e] # Blank /\ rows[f] # Blank /\ rows[e].slug = rows[f].slug) => e = f

(* The page and the table differ in what requests under way account for,     *)
(* each for a service of its own, and a renaming for all of them.            *)
UnderWay ==
    /\ \A q, r \in Changers : (InFlight(q) /\ InFlight(r) /\ q # r) =>
          /\ change[q].path # change[r].path
          /\ ~Renames(change[q].kind, change[q].path, change[q].to)
    /\ \A q \in Changers : (InFlight(q) /\ change[q].kind = "update" /\ change[q].at # change[q].path) =>
          change[q].pc # "error" /\ WithSlug(services, change[q].path) # {}
    /\ SlugsDiffer(services)
    /\ \A e \in Entries : MadeAnew(e) \/ RowFollows(e)

(* The inductive invariant.                                                 *)
ServicesInv ==
    /\ ServicesPageTypeOK
    /\ \A q \in Changers : ChangeOK(change[q])
    /\ SlugsDiffer(service)
    /\ (loadStep = "read" /\ ~unclear) => loaded = service /\ \A q \in Changers : ~InFlight(q)
    /\ (loadStep = "idle" /\ ~unclear) => UnderWay

(* What the blank values are.                                               *)
LEMMA ServicesBlanks ==
    /\ NoSlug \notin Slugs /\ Blank \in ServiceRow /\ Blank \notin Fields
    /\ NoChange \in Change /\ NoChange.pc = "idle"
    /\ \A r \in ServiceRow : r # Blank => r \in Fields
<1>1. NoSlug \notin Slugs
  BY ServicesPageConstants
<1>2. Blank \in ServiceRow /\ Blank \notin Fields
  BY <1>1 DEF Blank, ServiceRow, Fields
<1> QED
  BY <1>1, <1>2 DEF NoChange, Change, ServiceRow

(* Initially nothing is shown.                                              *)
LEMMA ServicesStart == ServicesPageInit => ServicesInv
<1> SUFFICES ASSUME ServicesPageInit PROVE ServicesInv
  OBVIOUS
<1> USE ServicesBlanks
<1>1. ServicesPageTypeOK
  BY DEF ServicesPageInit, ServicesPageTypeOK
<1>2. SlugsDiffer(service)
  BY DEF ServicesPageInit, SlugsDiffer, Stands
<1> QED
  BY <1>1, <1>2 DEF ServicesInv, ServicesPageInit, ChangeOK

(* The row that a request finds by its slug is the one the page meant.       *)
LEMMA FoundIsMeant ==
    ASSUME ServicesInv, loadStep = "idle", ~unclear, NEW q \in Changers, InFlight(q),
           change[q].kind \in {"update", "delete"}, NEW e \in WithSlug(service, change[q].at)
    PROVE  IsFor(change[q], services[e]) /\ RowFollows(e)
<1> USE ServicesBlanks
<1>0. UnderWay /\ SlugsDiffer(service) /\ \A r \in Changers : ChangeOK(change[r])
  BY DEF ServicesInv
<1>1. e \in Entries /\ service[e] # Blank /\ service[e].slug = change[q].at
  BY DEF WithSlug
<1>2. change[q].at # change[q].path =>
          /\ change[q].kind = "update" /\ \A r \in Changers \ {q} : ~InFlight(r)
          /\ WithSlug(services, change[q].path) # {}
  BY <1>0 DEF UnderWay, ChangeOK, Renames, InFlight
<1>3. \A r \in Changers \ {q} : InFlight(r) => change[q].at = change[q].path /\ change[r].path # change[q].path
  BY <1>0, <1>2 DEF UnderWay
<1>4. ~MadeAnew(e)
  <2> SUFFICES ASSUME NEW r \in Changers, change[r].kind = "create", change[r].pc = "done", service[e] = change[r].to
               PROVE  FALSE
    BY DEF MadeAnew
  <2>1. r # q /\ InFlight(r) /\ change[r].path = service[e].slug
    BY <1>0 DEF ChangeOK, InFlight
  <2> QED
    BY <1>1, <1>3, <2>1
<1>5. RowFollows(e)
  BY <1>0, <1>1, <1>4 DEF UnderWay
<1>6. IsFor(change[q], services[e])
  <2>1. ASSUME NEW r \in Changers, r # q, IsFor(change[r], services[e]) PROVE FALSE
    <3>1. InFlight(r) /\ services[e].slug = change[r].path
      BY <2>1 DEF IsFor, InFlight
    <3>2. service[e] = Written(change[r], services[e])
      BY <1>5, <2>1 DEF RowFollows
    <3>3. change[r].at = change[r].path
      BY <1>0, <1>3, <2>1, <3>1 DEF UnderWay, ChangeOK, Renames, InFlight, IsFor
    <3>4. service[e].slug = change[r].path
      BY <1>1, <3>1, <3>2, <3>3 DEF Written
    <3> QED
      BY <1>1, <1>3, <2>1, <3>1, <3>4
  <2>2. CASE \A r \in Changers : ~IsFor(change[r], services[e])
    <3>1. service[e] = services[e]
      BY <1>5, <2>2 DEF RowFollows
    <3>2. change[q].at # change[q].path
      BY <1>1, <2>2, <3>1 DEF IsFor, InFlight
    <3>3. PICK f \in Entries : services[f] # Blank /\ services[f].slug = change[q].path
      BY <1>2, <3>2 DEF WithSlug
    <3>4. IsFor(change[q], services[f])
      BY <3>3 DEF IsFor, InFlight
    <3>5. ~MadeAnew(f)
      <4>1. \A r \in Changers : change[r].kind = "create" => change[r].pc = "idle"
        BY <1>2, <3>2 DEF InFlight
      <4> QED
        BY <4>1 DEF MadeAnew
    <3>6. service[f] = Written(change[q], services[f])
      BY <1>0, <3>3, <3>4, <3>5 DEF UnderWay, RowFollows
    <3>7. service[f].slug = change[q].at /\ service[f] # Blank
      <4>1. change[q].kind = "update" /\ change[q].at \in Slugs
        BY <1>0, <1>2, <3>2 DEF ChangeOK, InFlight, Fields
      <4> QED
        BY <3>6, <4>1 DEF Written, Blank
    <3>8. e = f
      BY <1>0, <1>1, <3>3, <3>7 DEF SlugsDiffer
    <3> QED
      BY <3>4, <3>8
  <2> QED
    BY <2>1, <2>2
<1> QED
  BY <1>5, <1>6

(* A step that leaves the rows and the requests as they are.                 *)
LEMMA ServicesScreenStep ==
    ASSUME ServicesInv, UNCHANGED <<service, services, loadStep, loaded, change, unclear>>,
           {pendingName', editingService', deletingService'} \subseteq Slugs \cup {NoSlug}
    PROVE  ServicesInv'
<1>1. ServicesPageTypeOK'
  BY DEF ServicesInv, ServicesPageTypeOK
<1>2. UnderWay => UnderWay'
  BY DEF UnderWay, MadeAnew, RowFollows, InFlight, WithSlug
<1> QED
  BY <1>1, <1>2 DEF ServicesInv, InFlight

(* Steps that send a request.                                                *)
LEMMA AskStep ==
    ASSUME ServicesInv, loadStep = "idle", NEW kind \in {"update", "create", "delete"},
           NEW pc \in {"slug", "enabled", "create", "delete"}, NEW path \in Slugs, NEW to \in ServiceRow,
           Ask(kind, pc, path, to),
           kind = "update" => to \in Fields /\ pc = (IF to.slug = path THEN "enabled" ELSE "slug"),
           kind = "create" => to \in Fields /\ path = to.slug /\ pc = "create",
           kind = "delete" => pc = "delete",
           UNCHANGED <<service, services, loadStep, loaded>>,
           {pendingName', editingService', deletingService'} \subseteq Slugs \cup {NoSlug}
    PROVE  ServicesInv'
<1> USE ServicesBlanks
<1> DEFINE new == [pc |-> pc, kind |-> kind, path |-> path, at |-> path, to |-> to]
<1>1. PICK q \in Changers :
          /\ ~InFlight(q) /\ change' = [change EXCEPT ![q] = new]
          /\ unclear' = (unclear \/ \E r \in Changers : Crosses(kind, path, to, r))
  BY DEF Ask
<1>2. /\ new \in Change /\ new.pc = pc /\ new.kind = kind /\ new.path = path /\ new.at = path /\ new.to = to
      /\ ChangeOK(new)
  BY DEF Change, ChangeOK
<1> HIDE DEF new
<1>3. change' \in [Changers -> Change] /\ \A r \in Changers : change'[r] = IF r = q THEN new ELSE change[r]
  BY <1>1, <1>2 DEF ServicesInv, ServicesPageTypeOK
<1>4. ServicesPageTypeOK'
  BY <1>1, <1>3 DEF ServicesInv, ServicesPageTypeOK
<1>5. \A r \in Changers : ChangeOK(change[r])'
  BY <1>2, <1>3 DEF ServicesInv, ChangeOK
<1>6. SlugsDiffer(service)'
  BY DEF ServicesInv, SlugsDiffer
<1>7. ASSUME ~unclear' PROVE UnderWay'
  <2>1. ~unclear /\ UnderWay /\ \A r \in Changers : ~Crosses(kind, path, to, r)
    BY <1>1, <1>7 DEF ServicesInv
  <2>2. \A r \in Changers : InFlight(r) =>
            /\ change[r].path # path /\ ~Renames(kind, path, to)
            /\ ~Renames(change[r].kind, change[r].path, change[r].to)
    BY <2>1 DEF Crosses
  <2>3. \A r, p \in Changers : (InFlight(r)' /\ InFlight(p)' /\ r # p) =>
            /\ change'[r].path # change'[p].path
            /\ ~Renames(change'[r].kind, change'[r].path, change'[r].to)
    BY <1>2, <1>3, <2>1, <2>2 DEF UnderWay, InFlight
  <2>4. \A r \in Changers : (InFlight(r)' /\ change'[r].kind = "update" /\ change'[r].at # change'[r].path) =>
            change'[r].pc # "error" /\ WithSlug(services, change'[r].path) # {}
    BY <1>2, <1>3, <2>1 DEF UnderWay, InFlight
  <2>5. ASSUME NEW e \in Entries PROVE MadeAnew(e)' \/ RowFollows(e)'
    <3>1. CASE MadeAnew(e)
      BY <1>1, <1>3, <3>1 DEF MadeAnew, InFlight
    <3>2. CASE RowFollows(e) /\ IsFor(new, services[e])
      <4>1. \A r \in Changers : ~IsFor(change[r], services[e])
        BY <1>2, <2>2, <3>2 DEF IsFor, InFlight
      <4>2. service[e] = services[e] /\ services[e] # Blank
        BY <3>2, <4>1 DEF RowFollows, IsFor
      <4>3. services[e] \in Fields /\ services[e].slug = path
        BY <1>2, <3>2, <4>2 DEF IsFor, ServicesInv, ServicesPageTypeOK
      <4>4. Written(new, services[e]) = services[e]
        BY <1>2, <3>2, <4>3 DEF Written, Fields, IsFor
      <4> QED
        BY <1>3, <3>2, <4>1, <4>2, <4>4 DEF RowFollows
    <3>3. CASE RowFollows(e) /\ ~IsFor(new, services[e])
      <4>1. \A r \in Changers : IsFor(change'[r], services[e]) => r # q /\ IsFor(change[r], services[e])
        BY <1>3, <3>3
      <4>2. \A r \in Changers : IsFor(change[r], services[e]) => r # q
        BY <1>1 DEF IsFor, InFlight
      <4> QED
        BY <1>3, <3>3, <4>1, <4>2 DEF RowFollows
    <3> QED
      BY <2>1, <3>1, <3>2, <3>3 DEF UnderWay
  <2>6. SlugsDiffer(services)'
    BY <2>1 DEF UnderWay, SlugsDiffer
  <2> QED
    BY <2>3, <2>4, <2>5, <2>6 DEF UnderWay, WithSlug
<1> QED
  BY <1>4, <1>5, <1>6, <1>7 DEF ServicesInv

(* Steps that store one field, or delete, and those that refuse: what becomes *)
(* of one request, and of the row it finds.                                  *)
LEMMA StoreStep ==
    ASSUME ServicesInv, NEW q \in Changers, InFlight(q), NEW new \in Change, ChangeOK(new), new.pc # "idle",
           new.kind = change[q].kind, new.path = change[q].path, new.to = change[q].to,
           change' = [change EXCEPT ![q] = new],
           service' \in [Entries -> ServiceRow], SlugsDiffer(service)',
           unclear => unclear',
           \A e \in Entries : service'[e] = service[e] \/
               (e \in WithSlug(service, change[q].at) /\ new.kind \in {"update", "delete"}),
           new.kind = "create" => new.pc # "done" /\ change[q].pc # "done",
           (loadStep = "idle" /\ ~unclear' /\ new.kind = "update" /\ new.at # new.path) =>
               new.pc # "error" /\ WithSlug(services, new.path) # {},
           (loadStep = "idle" /\ ~unclear') => \A e \in Entries :
               (IsFor(change[q], services[e]) /\ service[e] = Written(change[q], services[e])) =>
                   service'[e] = Written(new, services[e]),
           UNCHANGED <<services, loadStep, loaded, pendingName, editingService, deletingService>>,
           unclear' \in BOOLEAN
    PROVE  ServicesInv'
<1> USE ServicesBlanks
<1>1. change' \in [Changers -> Change] /\ \A r \in Changers : change'[r] = IF r = q THEN new ELSE change[r]
  BY DEF ServicesInv, ServicesPageTypeOK
<1>2. ServicesPageTypeOK'
  BY <1>1 DEF ServicesInv, ServicesPageTypeOK
<1>3. \A r \in Changers : ChangeOK(change[r])'
  BY <1>1 DEF ServicesInv, ChangeOK
<1>4. ASSUME loadStep = "idle", ~unclear' PROVE UnderWay'
  <2>1. ~unclear /\ UnderWay
    BY <1>4 DEF ServicesInv
  <2>2. \A r, p \in Changers : (InFlight(r)' /\ InFlight(p)' /\ r # p) =>
            /\ change'[r].path # change'[p].path
            /\ ~Renames(change'[r].kind, change'[r].path, change'[r].to)
    BY <1>1, <2>1 DEF UnderWay, InFlight
  <2>3. \A r \in Changers : (InFlight(r)' /\ change'[r].kind = "update" /\ change'[r].at # change'[r].path) =>
            change'[r].pc # "error" /\ WithSlug(services, change'[r].path) # {}
    BY <1>1, <1>4, <2>1 DEF UnderWay, InFlight
  <2>4. \A e \in Entries, r \in Changers : IsFor(change'[r], services[e]) <=> IsFor(change[r], services[e])
    BY <1>1 DEF IsFor, InFlight
  <2>5. ASSUME NEW e \in Entries PROVE MadeAnew(e)' \/ RowFollows(e)'
    <3>1. CASE service'[e] = service[e] /\ MadeAnew(e)
      <4>1. PICK r \in Changers : change[r].kind = "create" /\ change[r].pc = "done" /\ service[e] = change[r].to
        BY <3>1 DEF MadeAnew
      <4>2. r # q
        BY <4>1
      <4> QED
        BY <1>1, <3>1, <4>1, <4>2 DEF MadeAnew
    <3>2. CASE RowFollows(e) /\ IsFor(change[q], services[e])
      <4>1. service[e] = Written(change[q], services[e])
        BY <3>2 DEF RowFollows
      <4>2. service'[e] = Written(new, services[e])
        BY <1>4, <3>2, <4>1
      <4>3. \A r \in Changers : r # q => ~IsFor(change[r], services[e])
        BY <2>1, <3>2 DEF UnderWay, IsFor, InFlight
      <4>4. \A r \in Changers : IsFor(change'[r], services[e]) => r = q
        BY <2>4, <4>3
      <4>5. IsFor(change'[q], services[e]) /\ change'[q] = new
        BY <1>1, <2>4, <3>2
      <4> QED
        BY <4>2, <4>4, <4>5 DEF RowFollows
    <3>3. CASE service'[e] = service[e] /\ RowFollows(e) /\ ~IsFor(change[q], services[e])
      <4>1. \A r \in Changers : IsFor(change'[r], services[e]) => r # q /\ IsFor(change[r], services[e])
        BY <2>4, <3>3
      <4> QED
        BY <1>1, <2>4, <3>3, <4>1 DEF RowFollows
    <3>4. CASE service'[e] # service[e]
      <4>1. RowFollows(e) /\ IsFor(change[q], services[e])
        BY <1>4, <2>1, <3>4, FoundIsMeant
      <4> QED
        BY <3>2, <4>1
    <3> QED
      BY <2>1, <3>1, <3>2, <3>3, <3>4 DEF UnderWay
  <2>6. SlugsDiffer(services)'
    BY <2>1 DEF UnderWay, SlugsDiffer
  <2> QED
    BY <2>2, <2>3, <2>5, <2>6 DEF UnderWay, WithSlug
<1>5. (loadStep = "read" /\ ~unclear') => FALSE
  BY DEF ServicesInv
<1> QED
  BY <1>2, <1>3, <1>4, <1>5 DEF ServicesInv

(* One field of an update is stored.                                         *)
LEMMA WriteStep ==
    ASSUME ServicesInv, NEW q \in Changers, change[q].kind = "update", NEW e \in WithSlug(service, change[q].at),
           NEW field \in {"slug", "enabled", "url", "imageUrl"}, change[q].pc = field, NEW row \in Fields,
           NEW next, next = (CASE field = "slug" -> "enabled" [] field = "enabled" -> "url"
                               [] field = "url" -> "imageUrl" [] field = "imageUrl" -> "done"),
           row = (CASE field = "slug" -> [service[e] EXCEPT !.slug = change[q].to.slug]
                    [] field = "enabled" -> [service[e] EXCEPT !.enabled = change[q].to.enabled]
                    [] field = "url" -> [service[e] EXCEPT !.url = change[q].to.url]
                    [] field = "imageUrl" -> [service[e] EXCEPT !.imageUrl = change[q].to.imageUrl]),
           field = "slug" => WithSlug(service, change[q].to.slug) = {},
           service' = [service EXCEPT ![e] = row],
           change' = [change EXCEPT ![q].pc = next, ![q].at = IF field = "slug" THEN change[q].to.slug ELSE change[q].at],
           UNCHANGED <<services, loadStep, loaded, pendingName, editingService, deletingService, unclear>>
    PROVE  ServicesInv'
<1> USE ServicesBlanks
<1> DEFINE at == IF field = "slug" THEN change[q].to.slug ELSE change[q].at
           new == [change[q] EXCEPT !.pc = next, !.at = at]
<1>0. /\ change[q] \in Change /\ ChangeOK(change[q]) /\ change \in [Changers -> Change] /\ InFlight(q)
      /\ service \in [Entries -> ServiceRow] /\ SlugsDiffer(service) /\ unclear \in BOOLEAN
  BY DEF ServicesInv, ServicesPageTypeOK, InFlight
<1>1. /\ change[q].to \in Fields /\ change[q].to.slug \in Slugs /\ change[q].path \in Slugs
      /\ field = "slug" => change[q].at = change[q].path
      /\ field # "slug" => change[q].at = change[q].to.slug
  BY <1>0 DEF ChangeOK, Fields
<1>2. /\ new \in Change /\ new.pc = next /\ new.at = change[q].to.slug /\ new.kind = "update"
      /\ new.path = change[q].path /\ new.to = change[q].to
  <2>1. change[q] \in Change /\ at = change[q].to.slug /\ next \in {"enabled", "url", "imageUrl", "done"}
    BY <1>0, <1>1
  <2>2. at \in Slugs
    BY <2>1, <1>1
  <2> HIDE DEF at
  <2>3. /\ new.pc = next /\ new.at = at /\ new.kind = change[q].kind
        /\ new.path = change[q].path /\ new.to = change[q].to
    BY <2>1 DEF Change
  <2>4. new \in Change
    BY <2>1, <2>2 DEF Change
  <2> QED
    BY <2>1, <2>3, <2>4
<1>3. ChangeOK(new) /\ new.pc \notin {"idle", "error"}
  BY <1>1, <1>2 DEF ChangeOK
<1>4. change' = [change EXCEPT ![q] = new]
  <2>1. \A C \in [Changers -> Change] : \A a, b :
           [C EXCEPT ![q].pc = a, ![q].at = b] = [C EXCEPT ![q] = [C[q] EXCEPT !.pc = a, !.at = b]]
    OBVIOUS
  <2> HIDE DEF at
  <2> QED
    BY <1>0, <2>1 DEF at
<1> HIDE DEF new, at
<1>5. e \in Entries /\ service[e] \in Fields /\ service[e].slug = change[q].at
  <2> SUFFICES ASSUME NEW S \in [Entries -> ServiceRow], NEW x, e \in WithSlug(S, x)
               PROVE  e \in Entries /\ S[e] \in Fields /\ S[e].slug = x
    BY <1>0
  <2> QED
    BY DEF WithSlug, ServiceRow
<1>6. service' \in [Entries -> ServiceRow] /\ \A f \in Entries : service'[f] = IF f = e THEN row ELSE service[f]
  <2>1. row \in ServiceRow /\ e \in Entries
    BY <1>5 DEF ServiceRow
  <2> SUFFICES ASSUME NEW S \in [Entries -> ServiceRow], NEW r \in ServiceRow
               PROVE  /\ [S EXCEPT ![e] = r] \in [Entries -> ServiceRow]
                      /\ \A f \in Entries : [S EXCEPT ![e] = r][f] = IF f = e THEN r ELSE S[f]
    BY <1>0, <2>1
  <2> QED
    BY <2>1
<1>7. row.slug = change[q].to.slug /\ row # Blank
  BY <1>1, <1>5 DEF Fields
<1>8. SlugsDiffer(service)'
  <2>1. \A f \in Entries : (f # e /\ service[f] # Blank) => service[f].slug # change[q].to.slug
    BY <1>0, <1>1, <1>5 DEF SlugsDiffer, WithSlug
  <2> QED
    BY <1>0, <1>6, <1>7, <2>1 DEF SlugsDiffer
<1>9. ASSUME loadStep = "idle", ~unclear
      PROVE  /\ IsFor(change[q], services[e])
             /\ service'[e] = Written(new, services[e])
             /\ \A f \in Entries : IsFor(change[q], services[f]) => f = e
  <2>1. IsFor(change[q], services[e]) /\ RowFollows(e) /\ UnderWay
    BY <1>0, <1>9, FoundIsMeant DEF ServicesInv
  <2>2. service[e] = Written(change[q], services[e])
    BY <2>1 DEF RowFollows
  <2>3. \A f \in Entries : IsFor(change[q], services[f]) => f = e
    <3>1. SlugsDiffer(services)
      BY <2>1 DEF UnderWay
    <3> QED
      BY <1>5, <2>1, <3>1 DEF SlugsDiffer, IsFor
  <2> DEFINE r == services[e]
             c == change[q]
  <2>4. service[e] = [slug |-> c.at,
                      enabled |-> IF c.pc \in {"url", "imageUrl", "done"} THEN c.to.enabled ELSE r.enabled,
                      url |-> IF c.pc \in {"imageUrl", "done"} THEN c.to.url ELSE r.url,
                      imageUrl |-> IF c.pc = "done" THEN c.to.imageUrl ELSE r.imageUrl]
    BY <2>2 DEF Written
  <2>5. Written(new, r) =
                     [slug |-> c.to.slug,
                      enabled |-> IF next \in {"url", "imageUrl", "done"} THEN c.to.enabled ELSE r.enabled,
                      url |-> IF next \in {"imageUrl", "done"} THEN c.to.url ELSE r.url,
                      imageUrl |-> IF next = "done" THEN c.to.imageUrl ELSE r.imageUrl]
    BY <1>2 DEF Written
  <2> HIDE DEF r, c
  <2>6. c.to = change[q].to /\ c.pc = field /\ c.at = change[q].at
    BY DEF c
  <2>7. row = Written(new, r)
    <3>1. CASE field = "slug"
      BY <2>4, <2>5, <2>6, <3>1
    <3>2. CASE field = "enabled"
      BY <1>1, <2>4, <2>5, <2>6, <3>2
    <3>3. CASE field = "url"
      BY <1>1, <2>4, <2>5, <2>6, <3>3
    <3>4. CASE field = "imageUrl"
      BY <1>1, <2>4, <2>5, <2>6, <3>4
    <3> QED
      BY <3>1, <3>2, <3>3, <3>4
  <2> QED
    BY <1>5, <1>6, <2>1, <2>3, <2>7 DEF r
<1>10. (loadStep = "idle" /\ ~unclear') => WithSlug(services, new.path) # {}
  BY <1>2, <1>5, <1>9 DEF IsFor, WithSlug
<1>11. (loadStep = "idle" /\ ~unclear') => \A f \in Entries :
           (IsFor(change[q], services[f]) /\ service[f] = Written(change[q], services[f])) =>
               service'[f] = Written(new, services[f])
  BY <1>9
<1> QED
  <2>1. \A f \in Entries : service'[f] = service[f] \/
            (f \in WithSlug(service, change[q].at) /\ new.kind \in {"update", "delete"})
    BY <1>2, <1>6
  <2>2. new.kind = change[q].kind /\ new.pc # "idle" /\ (new.kind = "create" => new.pc # "done" /\ change[q].pc # "done")
    BY <1>2, <1>3
  <2>3. (loadStep = "idle" /\ ~unclear' /\ new.kind = "update" /\ new.at # new.path) =>
            new.pc # "error" /\ WithSlug(services, new.path) # {}
    BY <1>3, <1>10
  <2> QED
    BY <1>0, <1>2, <1>3, <1>4, <1>6, <1>8, <1>11, <2>1, <2>2, <2>3, StoreStep

(* An answer reaches the page: the row of the path is patched, or nothing.   *)
LEMMA PatchStep ==
    ASSUME ServicesInv, NEW q \in Changers, change[q].kind \in {"update", "delete"}, change[q].pc \in {"done", "error"},
           NEW row \in ServiceRow, row = (IF change[q].kind = "update" THEN change[q].to ELSE Blank),
           services' = IF change[q].pc = "error" THEN services
                       ELSE [e \in Entries |-> IF e \in Patched(q) THEN row ELSE services[e]],
           change' = [change EXCEPT ![q] = NoChange],
           {pendingName', editingService', deletingService'} \subseteq Slugs \cup {NoSlug},
           UNCHANGED <<service, loadStep, loaded, unclear>>
    PROVE  ServicesInv'
<1> USE ServicesBlanks
<1> DEFINE c == change[q]
<1>0. /\ c \in Change /\ ChangeOK(c) /\ change \in [Changers -> Change] /\ services \in [Entries -> ServiceRow]
      /\ service \in [Entries -> ServiceRow] /\ SlugsDiffer(service) /\ InFlight(q)
  BY DEF ServicesInv, ServicesPageTypeOK, InFlight
<1>1. change' \in [Changers -> Change] /\ \A r \in Changers : change'[r] = IF r = q THEN NoChange ELSE change[r]
  BY <1>0
<1>2. services' \in [Entries -> ServiceRow]
  BY <1>0
<1>3. ServicesPageTypeOK'
  BY <1>1, <1>2 DEF ServicesInv, ServicesPageTypeOK
<1>4. \A r \in Changers : ChangeOK(change[r])'
  BY <1>1 DEF ServicesInv, ChangeOK
<1>5. SlugsDiffer(service)'
  BY DEF ServicesInv, SlugsDiffer
<1>6. ASSUME loadStep = "idle", ~unclear PROVE UnderWay'
  <2>0. UnderWay
    BY <1>6 DEF ServicesInv
  <2>1. \A r, p \in Changers : (InFlight(r)' /\ InFlight(p)' /\ r # p) =>
            /\ change'[r].path # change'[p].path
            /\ ~Renames(change'[r].kind, change'[r].path, change'[r].to)
    BY <1>1, <2>0 DEF UnderWay, InFlight
  <2>2. \A e \in Entries : e \in Patched(q) <=> IsFor(c, services[e])
    BY <1>0 DEF Patched, WithSlug, IsFor, InFlight
  <2>3. c.pc = "error" => c.at = c.path
    BY <1>0, <2>0 DEF UnderWay, ChangeOK, InFlight
  <2>4. ASSUME NEW e \in Entries, RowFollows(e), IsFor(c, services[e])
        PROVE  service[e] = services'[e]
    <3>1. service[e] = Written(c, services[e]) /\ services[e] \in Fields /\ services[e].slug = c.path
      BY <1>0, <2>4 DEF RowFollows, IsFor
    <3>2. CASE c.pc = "error"
      <4>1. Written(c, services[e]) = services[e]
        BY <2>3, <3>1, <3>2 DEF Written, Fields
      <4> QED
        BY <3>1, <3>2, <4>1
    <3>3. CASE c.pc = "done" /\ c.kind = "delete"
      BY <2>2, <2>4, <3>1, <3>3 DEF Written
    <3>4. CASE c.pc = "done" /\ c.kind = "update"
      <4>1. c.at = c.to.slug /\ c.to \in Fields
        BY <1>0, <3>4 DEF ChangeOK
      <4>2. Written(c, services[e]) = c.to
        BY <3>1, <3>4, <4>1 DEF Written, Fields
      <4> QED
        BY <2>2, <2>4, <3>1, <3>4, <4>2
    <3> QED
      BY <3>2, <3>3, <3>4
  <2>5. \A e \in Entries : ~IsFor(c, services[e]) => services'[e] = services[e]
    BY <1>0, <2>2
  <2>6. \A e \in Entries : MadeAnew(e) => MadeAnew(e)'
    BY <1>1 DEF MadeAnew
  <2>7. ASSUME NEW e \in Entries, NEW r \in Changers, r # q, IsFor(c, services[e]) PROVE ~IsFor(change[r], services'[e])
    <3> SUFFICES ASSUME IsFor(change[r], services'[e]) PROVE FALSE
      OBVIOUS
    <3>1. InFlight(r) /\ change[r].path # c.path /\ ~Renames(c.kind, c.path, c.to)
      BY <1>0, <2>0, <2>7 DEF UnderWay, IsFor, InFlight
    <3>2. services'[e] = services[e] \/ (c.kind = "update" /\ services'[e] = c.to) \/ services'[e] = Blank
      BY <1>0
    <3> QED
      BY <2>7, <3>1, <3>2 DEF IsFor, Renames
  <2>8. ASSUME NEW e \in Entries PROVE MadeAnew(e)' \/ RowFollows(e)'
    <3>1. CASE RowFollows(e) /\ IsFor(c, services[e])
      <4>1. service[e] = services'[e]
        BY <2>4, <3>1
      <4>2. \A r \in Changers : ~IsFor(change'[r], services'[e])
        BY <1>1, <2>7, <3>1 DEF IsFor
      <4> QED
        BY <4>1, <4>2 DEF RowFollows
    <3>2. CASE RowFollows(e) /\ ~IsFor(c, services[e])
      <4>1. services'[e] = services[e]
        BY <2>5, <3>2
      <4>2. \A r \in Changers : IsFor(change'[r], services'[e]) => r # q /\ IsFor(change[r], services[e])
        BY <1>1, <4>1 DEF IsFor
      <4>3. \A r \in Changers : IsFor(change[r], services[e]) => IsFor(change'[r], services'[e])
        BY <1>1, <3>2, <4>1
      <4> QED
        BY <1>1, <3>2, <4>1, <4>2, <4>3 DEF RowFollows
    <3> QED
      BY <2>0, <2>6, <3>1, <3>2 DEF UnderWay
  <2>9. SlugsDiffer(services)'
    <3> SUFFICES ASSUME NEW e \in Entries, NEW f \in Entries, services'[e] # Blank, services'[f] # Blank,
                        services'[e].slug = services'[f].slug, e # f
                 PROVE  FALSE
      BY DEF SlugsDiffer
    <3>0. c.pc = "done" /\ c.kind = "update"
      BY <1>0, <2>0 DEF UnderWay, SlugsDiffer
    <3>1. \A g \in Entries : services'[g] = IF IsFor(c, services[g]) THEN c.to ELSE services[g]
      BY <1>0, <2>2, <3>0
    <3>2. ~(IsFor(c, services[e]) /\ IsFor(c, services[f]))
      BY <2>0 DEF UnderWay, SlugsDiffer, IsFor
    <3>3. IsFor(c, services[e]) \/ IsFor(c, services[f])
      BY <2>0, <3>1 DEF UnderWay, SlugsDiffer
    <3>4. PICK g, h \in Entries : g # h /\ IsFor(c, services[g]) /\ ~IsFor(c, services[h])
                                /\ services[h] # Blank /\ services[h].slug = c.to.slug
      BY <3>1, <3>2, <3>3
    <3>5. c.to.slug # c.path
      BY <1>0, <3>4 DEF IsFor, InFlight
    <3>6. \A r \in Changers \ {q} : ~InFlight(r)
      BY <1>0, <2>0, <3>0, <3>5 DEF UnderWay, Renames
    <3>7. RowFollows(g) /\ RowFollows(h)
      <4>1. ~\E r \in Changers : change[r].kind = "create" /\ change[r].pc = "done"
        BY <3>0, <3>6 DEF InFlight
      <4> QED
        BY <2>0, <4>1 DEF UnderWay, MadeAnew
    <3>8. service[g] = c.to
      BY <2>4, <3>1, <3>4, <3>7
    <3>9. service[h] = services[h]
      BY <3>4, <3>6, <3>7 DEF RowFollows, IsFor, InFlight
    <3>10. c.to \in Fields /\ c.to # Blank
      BY <1>0, <3>0 DEF ChangeOK
    <3> QED
      BY <1>0, <3>4, <3>8, <3>9, <3>10 DEF SlugsDiffer
  <2>10. \A r \in Changers : (InFlight(r)' /\ change'[r].kind = "update" /\ change'[r].at # change'[r].path) =>
            change'[r].pc # "error" /\ WithSlug(services, change[r].path)' # {}
    <3> SUFFICES ASSUME NEW r \in Changers, InFlight(r)', change'[r].kind = "update", change'[r].at # change'[r].path
                 PROVE  FALSE
      OBVIOUS
    <3>1. r # q /\ InFlight(r) /\ change[r].kind = "update" /\ change[r].at # change[r].path
      BY <1>1 DEF InFlight
    <3>2. Renames(change[r].kind, change[r].path, change[r].to)
      BY <3>1 DEF ServicesInv, ChangeOK, InFlight, Renames
    <3> QED
      BY <1>0, <2>0, <3>1, <3>2 DEF UnderWay
  <2> QED
    BY <2>1, <2>8, <2>9, <2>10 DEF UnderWay
<1>7. (loadStep = "read" /\ ~unclear) => FALSE
  BY <1>0 DEF ServicesInv
<1> QED
  BY <1>3, <1>4, <1>5, <1>6, <1>7 DEF ServicesInv

(* Every step of the page keeps the invariant.                              *)
LEMMA ServicesKept == ServicesInv /\ [ServicesPageNext]_servicesPageVars => ServicesInv'
<1> SUFFICES ASSUME ServicesInv, [ServicesPageNext]_servicesPageVars PROVE ServicesInv'
  OBVIOUS
<1> USE ServicesBlanks
<1>t. /\ service \in [Entries -> ServiceRow] /\ services \in [Entries -> ServiceRow]
      /\ change \in [Changers -> Change] /\ unclear \in BOOLEAN
      /\ pendingName \in Slugs \cup {NoSlug} /\ editingService \in Slugs \cup {NoSlug}
      /\ deletingService \in Slugs \cup {NoSlug}
  BY DEF ServicesInv, ServicesPageTypeOK
<1>c. \A q \in Changers : change[q] \in Change /\ ChangeOK(change[q])
  BY <1>t DEF ServicesInv
<1>1. CASE UNCHANGED servicesPageVars
  BY <1>1, <1>t, ServicesScreenStep DEF servicesPageVars
<1>2. CASE ReadServices
  <2>1. /\ loadStep = "asked" /\ loadStep' = "read" /\ loaded' = service
        /\ unclear' = \E q \in Changers : InFlight(q)
        /\ UNCHANGED <<service, services, pendingName, editingService, deletingService, change>>
    BY <1>2 DEF ReadServices
  <2>2. unclear' \in BOOLEAN
    BY <2>1
  <2> QED
    BY <2>1, <2>2 DEF ServicesInv, ServicesPageTypeOK, InFlight, SlugsDiffer
<1>3. CASE ShowServices
  <2>1. /\ loadStep = "read" /\ services' = loaded /\ loadStep' = "idle"
        /\ UNCHANGED <<service, loaded, pendingName, editingService, deletingService, change, unclear>>
    BY <1>3 DEF ShowServices
  <2>2. ServicesPageTypeOK'
    BY <2>1 DEF ServicesInv, ServicesPageTypeOK
  <2>3. ~unclear' => UnderWay'
    <3> SUFFICES ASSUME ~unclear PROVE UnderWay'
      BY <2>1
    <3>1. services' = service /\ \A q \in Changers : change[q].pc = "idle"
      BY <2>1 DEF ServicesInv, InFlight
    <3>2. SlugsDiffer(services)'
      BY <3>1 DEF ServicesInv, SlugsDiffer
    <3>3. \A e \in Entries : RowFollows(e)'
      BY <2>1, <3>1 DEF RowFollows, IsFor
    <3> QED
      BY <2>1, <3>1, <3>2, <3>3 DEF UnderWay, InFlight
  <2> QED
    BY <2>1, <2>2, <2>3 DEF ServicesInv, SlugsDiffer
<1>4. CASE LoadServicesFails
  BY <1>4 DEF LoadServicesFails, ServicesInv, ServicesPageTypeOK, SlugsDiffer
<1>5. CASE CloseDialogs \/ \E e \in Entries : OpenEditor(e) \/ OpenDeletion(e)
  <2>1. UNCHANGED <<service, services, loadStep, loaded, change, unclear>>
    BY <1>5 DEF CloseDialogs, OpenEditor, OpenDeletion
  <2>2. {pendingName', editingService', deletingService'} \subseteq Slugs \cup {NoSlug}
    <3>1. \A e \in Entries : services[e] # Blank => services[e].slug \in Slugs
      BY <1>t DEF Fields
    <3> QED
      BY <1>5, <1>t, <3>1 DEF CloseDialogs, OpenEditor, OpenDeletion, Free
  <2> QED
    BY <2>1, <2>2, ServicesScreenStep
<1>6. CASE ConfirmDeletion
  <2>1. /\ loadStep = "idle" /\ deletingService # NoSlug
        /\ Ask("delete", "delete", deletingService, Blank)
        /\ UNCHANGED <<service, services, loadStep, loaded, pendingName, editingService, deletingService>>
    BY <1>6 DEF ConfirmDeletion
  <2> QED
    BY <1>t, <2>1, AskStep
<1>7. ASSUME NEW to \in Fields, SaveService(to) PROVE ServicesInv'
  <2> DEFINE pc == IF to.slug = editingService THEN "enabled" ELSE "slug"
  <2>1. /\ loadStep = "idle" /\ editingService # NoSlug /\ Ask("update", pc, editingService, to)
        /\ pendingName' = editingService
        /\ UNCHANGED <<service, services, loadStep, loaded, editingService, deletingService>>
    BY <1>7 DEF SaveService
  <2>2. editingService \in Slugs /\ to \in ServiceRow /\ pc \in {"slug", "enabled", "create", "delete"}
    BY <1>t, <2>1 DEF ServiceRow
  <2>3. {pendingName', editingService', deletingService'} \subseteq Slugs \cup {NoSlug}
    BY <1>t, <2>1
  <2> QED
    BY <2>1, <2>2, <2>3, AskStep
<1>8. ASSUME NEW to \in Fields, CreateService(to) PROVE ServicesInv'
  <2>1. /\ loadStep = "idle" /\ Ask("create", "create", to.slug, to)
        /\ UNCHANGED <<service, services, loadStep, loaded, pendingName, editingService, deletingService>>
    BY <1>8 DEF CreateService
  <2>2. to.slug \in Slugs /\ to \in ServiceRow
    BY DEF Fields, ServiceRow
  <2>3. {pendingName', editingService', deletingService'} \subseteq Slugs \cup {NoSlug}
    BY <1>t, <2>1
  <2> QED
    BY <2>1, <2>2, <2>3, AskStep
<1>u. \A q \in Changers : change[q].pc \in {"slug", "enabled", "url", "imageUrl"} =>
          change[q].kind = "update" /\ change[q].to \in Fields
  BY <1>c DEF ChangeOK
<1>9. ASSUME NEW q \in Changers, SetSlug(q) PROVE ServicesInv'
  <2>1. PICK e \in WithSlug(service, change[q].at) :
            service' = [service EXCEPT ![e] = [service[e] EXCEPT !.slug = change[q].to.slug]]
    BY <1>t, <1>9 DEF SetSlug, Write, WithSlug
  <2>2. /\ change[q].pc = "slug" /\ WithSlug(service, change[q].to.slug) = {}
        /\ change' = [change EXCEPT ![q].pc = "enabled", ![q].at = change[q].to.slug]
        /\ UNCHANGED <<services, loadStep, loaded, pendingName, editingService, deletingService, unclear>>
    BY <1>9 DEF SetSlug, Write
  <2>3. service[e] \in Fields
    BY <1>t DEF WithSlug
  <2>4. [service[e] EXCEPT !.slug = change[q].to.slug] \in Fields
    BY <1>u, <2>2, <2>3 DEF Fields
  <2> QED
    BY <1>u, <2>1, <2>2, <2>4, WriteStep
<1>10. ASSUME NEW q \in Changers, SetEnabled(q) PROVE ServicesInv'
  <2>1. PICK e \in WithSlug(service, change[q].at) :
            service' = [service EXCEPT ![e] = [service[e] EXCEPT !.enabled = change[q].to.enabled]]
    BY <1>t, <1>10 DEF SetEnabled, Write, WithSlug
  <2>2. /\ change[q].pc = "enabled"
        /\ change' = [change EXCEPT ![q].pc = "url", ![q].at = change[q].at]
        /\ UNCHANGED <<services, loadStep, loaded, pendingName, editingService, deletingService, unclear>>
    BY <1>10 DEF SetEnabled, Write
  <2>3. service[e] \in Fields
    BY <1>t DEF WithSlug
  <2>4. [service[e] EXCEPT !.enabled = change[q].to.enabled] \in Fields
    BY <1>u, <2>2, <2>3 DEF Fields
  <2> QED
    BY <1>u, <2>1, <2>2, <2>4, WriteStep
<1>11. ASSUME NEW q \in Changers, SetUrl(q) PROVE ServicesInv'
  <2>1. PICK e \in WithSlug(service, change[q].at) :
            service' = [service EXCEPT ![e] = [service[e] EXCEPT !.url = change[q].to.url]]
    BY <1>t, <1>11 DEF SetUrl, Write, WithSlug
  <2>2. /\ change[q].pc = "url"
        /\ change' = [change EXCEPT ![q].pc = "imageUrl", ![q].at = change[q].at]
        /\ UNCHANGED <<services, loadStep, loaded, pendingName, editingService, deletingService, unclear>>
    BY <1>11 DEF SetUrl, Write
  <2>3. service[e] \in Fields
    BY <1>t DEF WithSlug
  <2>4. [service[e] EXCEPT !.url = change[q].to.url] \in Fields
    BY <1>u, <2>2, <2>3 DEF Fields
  <2> QED
    BY <1>u, <2>1, <2>2, <2>4, WriteStep
<1>12. ASSUME NEW q \in Changers, SetImageUrl(q) PROVE ServicesInv'
  <2>1. PICK e \in WithSlug(service, change[q].at) :
            service' = [service EXCEPT ![e] = [service[e] EXCEPT !.imageUrl = change[q].to.imageUrl]]
    BY <1>t, <1>12 DEF SetImageUrl, Write, WithSlug
  <2>2. /\ change[q].pc = "imageUrl"
        /\ change' = [change EXCEPT ![q].pc = "done", ![q].at = change[q].at]
        /\ UNCHANGED <<services, loadStep, loaded, pendingName, editingService, deletingService, unclear>>
    BY <1>12 DEF SetImageUrl, Write
  <2>3. service[e] \in Fields
    BY <1>t DEF WithSlug
  <2>4. [service[e] EXCEPT !.imageUrl = change[q].to.imageUrl] \in Fields
    BY <1>u, <2>2, <2>3 DEF Fields
  <2> QED
    BY <1>u, <2>1, <2>2, <2>4, WriteStep
<1>13. ASSUME NEW q \in Changers, CreateRow(q) PROVE ServicesInv'
  <2> DEFINE new == [change[q] EXCEPT !.pc = "done"]
             to == change[q].to
  <2>1. PICK e \in Entries \ Managed : ~Stands(e) /\ service' = [service EXCEPT ![e] = to]
    BY <1>13 DEF CreateRow
  <2>2. /\ change[q].pc = "create" /\ WithSlug(service, to.slug) = {}
        /\ change' = [change EXCEPT ![q].pc = "done"]
        /\ UNCHANGED <<services, loadStep, loaded, pendingName, editingService, deletingService, unclear>>
    BY <1>13 DEF CreateRow
  <2>3. change[q].kind = "create" /\ to \in Fields /\ change[q].path = to.slug /\ to \in ServiceRow /\ to # Blank
    BY <1>c, <2>2 DEF ChangeOK, ServiceRow
  <2>4. /\ new \in Change /\ new.pc = "done" /\ new.kind = "create" /\ new.path = change[q].path /\ new.to = to
        /\ ChangeOK(new)
    BY <1>c, <2>3 DEF Change, ChangeOK
  <2>5. change' = [change EXCEPT ![q] = new]
    BY <1>t, <2>2
  <2> HIDE DEF new
  <2>6. change' \in [Changers -> Change] /\ \A r \in Changers : change'[r] = IF r = q THEN new ELSE change[r]
    BY <1>t, <2>4, <2>5
  <2>7. service' \in [Entries -> ServiceRow] /\ \A f \in Entries : service'[f] = IF f = e THEN to ELSE service[f]
    BY <1>t, <2>1, <2>3
  <2>8. SlugsDiffer(service)'
    <3>1. \A f \in Entries : service[f] # Blank => service[f].slug # to.slug
      BY <2>2 DEF WithSlug
    <3> QED
      BY <2>7, <3>1 DEF ServicesInv, SlugsDiffer
  <2>9. ServicesPageTypeOK' /\ \A r \in Changers : ChangeOK(change[r])'
    <3>1. ServicesPageTypeOK'
      BY <2>2, <2>6, <2>7 DEF ServicesInv, ServicesPageTypeOK
    <3> QED
      BY <1>c, <2>4, <2>6, <3>1
  <2>10. ASSUME loadStep = "idle", ~unclear PROVE UnderWay'
    <3>1. UnderWay
      BY <2>10 DEF ServicesInv
    <3>2. \A r, p \in Changers : (InFlight(r)' /\ InFlight(p)' /\ r # p) =>
              /\ change'[r].path # change'[p].path
              /\ ~Renames(change'[r].kind, change'[r].path, change'[r].to)
      <4>1. \A r \in Changers : /\ InFlight(r)' <=> InFlight(r)
                                /\ change'[r].path = change[r].path /\ change'[r].kind = change[r].kind
                                /\ change'[r].to = change[r].to
        BY <2>2, <2>3, <2>4, <2>6 DEF InFlight
      <4> QED
        BY <3>1, <4>1 DEF UnderWay
    <3>3. \A r \in Changers : (InFlight(r)' /\ change'[r].kind = "update" /\ change'[r].at # change'[r].path) =>
              change'[r].pc # "error" /\ WithSlug(services, change'[r].path) # {}
      BY <2>4, <2>6, <3>1 DEF UnderWay, InFlight
    <3>4. SlugsDiffer(services)'
      BY <2>2, <3>1 DEF UnderWay, SlugsDiffer
    <3>5. MadeAnew(e)'
      BY <2>4, <2>6, <2>7 DEF MadeAnew
    <3>6. ASSUME NEW f \in Entries, f # e PROVE MadeAnew(f)' \/ RowFollows(f)'
      <4>1. service'[f] = service[f] /\ services' = services
        BY <2>2, <2>7, <3>6
      <4>2. MadeAnew(f) => MadeAnew(f)'
        BY <2>2, <2>6, <4>1 DEF MadeAnew
      <4>3. \A r \in Changers : IsFor(change'[r], services[f]) => r # q
        BY <2>4, <2>6 DEF IsFor
      <4>4. \A r \in Changers : IsFor(change[r], services[f]) => r # q
        BY <2>3 DEF IsFor
      <4>5. RowFollows(f) => RowFollows(f)'
        BY <2>6, <4>1, <4>3, <4>4 DEF RowFollows
      <4> QED
        BY <3>1, <4>2, <4>5 DEF UnderWay
    <3> QED
      BY <2>2, <3>2, <3>3, <3>4, <3>5, <3>6 DEF UnderWay, WithSlug
  <2>11. (loadStep = "read" /\ ~unclear) => FALSE
    BY <2>2 DEF ServicesInv, InFlight
  <2> QED
    BY <2>2, <2>8, <2>9, <2>10, <2>11 DEF ServicesInv
<1>14. ASSUME NEW q \in Changers, DeleteRow(q) PROVE ServicesInv'
  <2> DEFINE new == [change[q] EXCEPT !.pc = "done"]
  <2>1. PICK e \in WithSlug(service, change[q].at) : service' = [service EXCEPT ![e] = Blank]
    BY <1>14 DEF DeleteRow
  <2>2. /\ change[q].pc = "delete" /\ change' = [change EXCEPT ![q].pc = "done"]
        /\ UNCHANGED <<services, loadStep, loaded, pendingName, editingService, deletingService, unclear>>
    BY <1>14 DEF DeleteRow
  <2>3. change[q].kind = "delete" /\ change[q].at = change[q].path /\ InFlight(q)
    BY <1>c, <2>2 DEF ChangeOK, InFlight
  <2>4. /\ new \in Change /\ new.pc = "done" /\ new.kind = "delete" /\ new.path = change[q].path
        /\ new.to = change[q].to /\ ChangeOK(new)
    BY <1>c, <2>2, <2>3 DEF Change, ChangeOK
  <2>5. change' = [change EXCEPT ![q] = new]
    BY <1>t, <2>2
  <2> HIDE DEF new
  <2>6. /\ service' \in [Entries -> ServiceRow] /\ e \in Entries
        /\ \A f \in Entries : service'[f] = IF f = e THEN Blank ELSE service[f]
    BY <1>t, <2>1 DEF WithSlug
  <2>7. SlugsDiffer(service)'
    BY <2>6 DEF ServicesInv, SlugsDiffer
  <2>8. \A f \in Entries : service'[f] = service[f] \/
            (f \in WithSlug(service, change[q].at) /\ new.kind \in {"update", "delete"})
    BY <2>4, <2>6
  <2>9. ASSUME loadStep = "idle", ~unclear, NEW f \in Entries, IsFor(change[q], services[f])
        PROVE  service'[f] = Written(new, services[f])
    <3>1. IsFor(change[q], services[e]) /\ UnderWay
      BY <2>3, <2>9, FoundIsMeant DEF ServicesInv
    <3>2. SlugsDiffer(services)
      BY <3>1 DEF UnderWay
    <3>3. f = e
      BY <2>6, <2>9, <3>1, <3>2 DEF SlugsDiffer, IsFor
    <3> QED
      BY <2>4, <2>6, <3>3 DEF Written
  <2> QED
    BY <1>t, <2>2, <2>3, <2>4, <2>5, <2>6, <2>7, <2>8, <2>9, StoreStep
<1>15. ASSUME NEW q \in Changers, Refused(q) PROVE ServicesInv'
  <2> DEFINE new == [change[q] EXCEPT !.pc = "error"]
  <2>1. /\ InFlight(q) /\ change[q].pc # "error" /\ change' = [change EXCEPT ![q].pc = "error"]
        /\ unclear' = (unclear \/ change[q].pc \in {"url", "imageUrl", "done"} \/ change[q].at # change[q].path)
        /\ UNCHANGED <<service, services, loadStep, loaded, pendingName, editingService, deletingService>>
    BY <1>15 DEF Refused
  <2>2. /\ new \in Change /\ new.pc = "error" /\ new.kind = change[q].kind /\ new.path = change[q].path
        /\ new.to = change[q].to /\ new.at = change[q].at
    BY <1>c DEF Change
  <2>3. ChangeOK(new)
    BY <1>c, <2>1, <2>2 DEF ChangeOK, InFlight
  <2>4. change' = [change EXCEPT ![q] = new]
    BY <1>t, <2>1
  <2> HIDE DEF new
  <2>5. ASSUME ~unclear', NEW f \in Entries PROVE Written(new, services[f]) = Written(change[q], services[f])
    BY <2>1, <2>2, <2>5 DEF Written
  <2>6. CASE new.kind = "create" /\ change[q].pc = "done"
    <3>1. unclear' = TRUE
      BY <2>1, <2>6
    <3>2. change' \in [Changers -> Change] /\ \A r \in Changers : change'[r] = IF r = q THEN new ELSE change[r]
      BY <1>t, <2>2, <2>4
    <3>3. ServicesPageTypeOK'
      BY <2>1, <3>1, <3>2 DEF ServicesInv, ServicesPageTypeOK
    <3>4. \A r \in Changers : ChangeOK(change[r])'
      BY <1>c, <2>3, <3>2
    <3>5. SlugsDiffer(service)'
      BY <2>1 DEF ServicesInv, SlugsDiffer
    <3> QED
      BY <3>1, <3>3, <3>4, <3>5 DEF ServicesInv
  <2>7. CASE ~(new.kind = "create" /\ change[q].pc = "done")
    <3>1. SlugsDiffer(service)' /\ unclear' \in BOOLEAN
      BY <2>1 DEF ServicesInv, SlugsDiffer
    <3>2. (loadStep = "idle" /\ ~unclear') => \A e \in Entries :
               (IsFor(change[q], services[e]) /\ service[e] = Written(change[q], services[e])) =>
                   service'[e] = Written(new, services[e])
      BY <2>1, <2>5
    <3>3. ~unclear' => new.at = new.path
      BY <2>1, <2>2
    <3> QED
      BY <1>t, <2>1, <2>2, <2>3, <2>4, <2>7, <3>1, <3>2, <3>3, StoreStep
  <2> QED
    BY <2>6, <2>7
<1>16. ASSUME NEW q \in Changers, SettleUpdate(q) PROVE ServicesInv'
  <2>1. /\ change[q].kind = "update" /\ change[q].pc \in {"done", "error"}
        /\ services' = IF change[q].pc = "error" THEN services
                       ELSE [e \in Entries |-> IF e \in Patched(q) THEN change[q].to ELSE services[e]]
        /\ change' = [change EXCEPT ![q] = NoChange]
        /\ UNCHANGED <<service, loadStep, loaded, deletingService, unclear>>
    BY <1>16 DEF SettleUpdate
  <2>2. {pendingName', editingService', deletingService'} \subseteq Slugs \cup {NoSlug}
    BY <1>t, <1>16 DEF SettleUpdate
  <2>3. change[q].to \in ServiceRow
    BY <1>c DEF Change
  <2> QED
    BY <2>1, <2>2, <2>3, PatchStep
<1>17. ASSUME NEW q \in Changers, SettleDelete(q) PROVE ServicesInv'
  <2>1. /\ change[q].kind = "delete" /\ change[q].pc \in {"done", "error"}
        /\ services' = IF change[q].pc = "error" THEN services
                       ELSE [e \in Entries |-> IF e \in Patched(q) THEN Blank ELSE services[e]]
        /\ change' = [change EXCEPT ![q] = NoChange]
        /\ UNCHANGED <<service, loadStep, loaded, pendingName, editingService, unclear>>
    BY <1>17 DEF SettleDelete
  <2>2. {pendingName', editingService', deletingService'} \subseteq Slugs \cup {NoSlug}
    BY <1>t, <1>17 DEF SettleDelete
  <2> QED
    BY <2>1, <2>2, PatchStep
<1>18. ASSUME NEW q \in Changers, SettleCreate(q) PROVE ServicesInv'
  <2>1. /\ change[q].kind = "create" /\ change[q].pc \in {"done", "error"}
        /\ loadStep' = (IF change[q].pc = "done" THEN "asked" ELSE loadStep)
        /\ change' = [change EXCEPT ![q] = NoChange]
        /\ UNCHANGED <<service, services, loaded, pendingName, editingService, deletingService, unclear>>
    BY <1>18 DEF SettleCreate
  <2>2. change' \in [Changers -> Change] /\ \A r \in Changers : change'[r] = IF r = q THEN NoChange ELSE change[r]
    BY <1>t, <2>1
  <2>3. ServicesPageTypeOK'
    BY <2>1, <2>2 DEF ServicesInv, ServicesPageTypeOK
  <2>4. \A r \in Changers : ChangeOK(change[r])'
    BY <1>c, <2>2 DEF ChangeOK
  <2>5. SlugsDiffer(service)'
    BY <2>1 DEF ServicesInv, SlugsDiffer
  <2>6. ASSUME change[q].pc = "error", loadStep = "idle", ~unclear PROVE UnderWay'
    <3>1. UnderWay
      BY <2>6 DEF ServicesInv
    <3>2. \A r \in Changers : InFlight(r)' => InFlight(r) /\ change'[r] = change[r]
      BY <2>2 DEF InFlight
    <3>3. \A r, p \in Changers : (InFlight(r)' /\ InFlight(p)' /\ r # p) =>
              /\ change'[r].path # change'[p].path
              /\ ~Renames(change'[r].kind, change'[r].path, change'[r].to)
      BY <3>1, <3>2 DEF UnderWay
    <3>4. \A r \in Changers : (InFlight(r)' /\ change'[r].kind = "update" /\ change'[r].at # change'[r].path) =>
              change'[r].pc # "error" /\ WithSlug(services, change'[r].path) # {}
      BY <3>1, <3>2 DEF UnderWay
    <3>5. ASSUME NEW e \in Entries PROVE MadeAnew(e)' \/ RowFollows(e)'
      <4>1. MadeAnew(e) => MadeAnew(e)'
        BY <2>1, <2>2, <2>6 DEF MadeAnew
      <4>2. \A r \in Changers : IsFor(change'[r], services[e]) <=> IsFor(change[r], services[e])
        BY <2>1, <2>2 DEF IsFor
      <4>3. \A r \in Changers : IsFor(change'[r], services[e]) => change'[r] = change[r]
        BY <2>2 DEF IsFor
      <4>4. RowFollows(e) => RowFollows(e)'
        BY <2>1, <4>2, <4>3 DEF RowFollows
      <4> QED
        BY <3>1, <4>1, <4>4 DEF UnderWay
    <3>6. SlugsDiffer(services)'
      BY <2>1, <3>1 DEF UnderWay, SlugsDiffer
    <3> QED
      BY <2>1, <3>3, <3>4, <3>5, <3>6 DEF UnderWay, WithSlug
  <2>7. (loadStep = "read" /\ ~unclear) => FALSE
    BY <2>1 DEF ServicesInv, InFlight
  <2> QED
    BY <2>1, <2>3, <2>4, <2>5, <2>6, <2>7 DEF ServicesInv
<1> QED
  BY <1>1, <1>2, <1>3, <1>4, <1>5, <1>6, <1>7, <1>8, <1>9, <1>10, <1>11, <1>12, <1>13, <1>14, <1>15, <1>16,
     <1>17, <1>18 DEF ServicesPageNext

(* The invariant of the page of services (useServicesPage,                  *)
(* useServicesTable).                                                       *)
THEOREM ServicesInvHolds == ServicesPageSpec => []ServicesInv
  BY ServicesStart, ServicesKept, PTL DEF ServicesPageSpec

(* With nothing under way the page shows every service as it is stored,     *)
(* though it patches its rows by slug and the server writes one field after *)
(* another, unless requests crossed or a load failed.                       *)
THEOREM ServicesCurrent == ServicesPageSpec => []ServicesAreCurrent
<1>1. ServicesInv => ServicesAreCurrent
  <2> SUFFICES ASSUME ServicesInv, loadStep = "idle", \A q \in Changers : ~InFlight(q), ~unclear
               PROVE  services = service
    BY DEF ServicesAreCurrent
  <2>1. UnderWay
    BY DEF ServicesInv
  <2>2. \A e \in Entries : RowFollows(e)
    <3>1. \A e \in Entries : ~MadeAnew(e)
      BY DEF MadeAnew, InFlight
    <3> QED
      BY <2>1, <3>1 DEF UnderWay
  <2>3. \A e \in Entries : service[e] = services[e]
    BY <2>2 DEF RowFollows, IsFor, InFlight
  <2>4. service \in [Entries -> ServiceRow] /\ services \in [Entries -> ServiceRow]
    BY DEF ServicesInv, ServicesPageTypeOK
  <2> QED
    BY <2>3, <2>4
<1> QED
  BY <1>1, ServicesInvHolds, PTL

-----------------------------------------------------------------------------
(* The page of log entries *)

(* The place of an entry in an order: how many there are up to it.           *)
UpTo(S, direction, e) == {f \in S : IF direction = "asc" THEN f <= e ELSE f >= e}

(* How many there are.                                                      *)
Rank(S, direction, e) == Cardinality(UpTo(S, direction, e))

(* The order oldest first, or newest first.                                 *)
Before(direction, e, f) == IF direction = "asc" THEN e < f ELSE e > f

(* The entries that were ever written and fit, and those that offsets count. *)
(* Newest first, what is purged comes last and may as well be counted.       *)
Fitting(query) == {e \in 1..written : query.logLevel \in {level[e], AnyLevel}}

(* The entries the filters let through.                                     *)
Table(query) == {e \in Fitting(query) : query.direction = "asc" => e > purged}

(* A sequence of such entries.                                               *)
Within(S, s) == \A i \in 1..Len(s) : s[i] \in S

(* The entries of s follow each other, after skip others and x that are new. *)
Numbered(T, direction, s, skip, x) ==
    \A i \in 1..Len(s) : s[i] \in T /\ Rank(T, direction, s[i]) = skip + i + x

(* Newest first: between the first entry and any other none is missing.      *)
Closed(T, s) ==
    \A e \in T : \A i \in 1..Len(s) : (s[i] <= e /\ e <= s[1]) => \E j \in 1..Len(s) : s[j] = e

(* Newest first: the oldest is as far back as the next offset says, or more. *)
Deep(T, s, n) == \E j \in 1..Len(s) : s[j] \in T /\ Rank(T, "desc", s[j]) >= n

(* What load() has asked for and found, on what the page holds, and what     *)
(* loadMore() has, where T are the entries to count and off tells whether    *)
(* the offsets have moved.                                                   *)
LoadInv(T, query, l, m, off) ==
    l.pc = "asked" =>
        /\ l.query = query /\ l.skip = 0 /\ m.pc = "idle"
        /\ (l.found /\ (query.direction = "desc" \/ ~off)) =>
              \E x \in Nat : (~off => x = 0) /\ Numbered(T, query.direction, l.data, 0, x)

(* What the page holds.                                                     *)
HeldInv(T, query, held, off) ==
    /\ ~off => Numbered(T, query.direction, held, 0, 0)
    /\ (query.direction = "desc" /\ held # <<>>) => Closed(T, held) /\ Deep(T, held, Len(held))

(* What loadMore() has asked for and found.                                 *)
LoadMoreInv(T, query, held, m, off) ==
    m.pc = "asked" =>
        /\ m.query = query /\ m.skip = Len(held) /\ held # <<>>
        /\ (m.found /\ (query.direction = "desc" \/ ~off)) =>
              \E x \in Nat : /\ ~off => x = 0
                             /\ Numbered(T, query.direction, m.data, m.skip, x)
                             /\ query.direction = "desc" => Deep(T, held, m.skip + x)

(* Nothing was found before it was.                                         *)
Sound(req) ==
    /\ req.pc = "idle" => ~req.found
    /\ ~req.found => req.data = <<>>

(* The inductive invariant.                                                 *)
LogsInv ==
    /\ LogsTypeOK
    /\ Sound(load) /\ Sound(loadMore)
    /\ Within(Fitting(load.query), load.data) /\ Within(Fitting(loadMore.query), loadMore.data)
    /\ ~mixed => LoadInv(Table(filters), filters, load, loadMore, shifted)
    /\ (~mixed /\ load.pc = "idle") =>
          /\ Within(Fitting(filters), logs)
          /\ HeldInv(Table(filters), filters, logs, shifted)
          /\ LoadMoreInv(Table(filters), filters, logs, loadMore, shifted)

(* Places in an order are numbers from 1, and differ.                       *)
LEMMA RankFacts ==
    ASSUME NEW S \in SUBSET (1..MaxEntries), NEW direction \in {"asc", "desc"}
    PROVE  /\ IsFiniteSet(S) /\ Cardinality(S) \in Nat
           /\ \A e \in S : Rank(S, direction, e) \in 1..Cardinality(S)
           /\ \A e, f \in S : Before(direction, e, f) => Rank(S, direction, e) < Rank(S, direction, f)
           /\ \A e, f \in S : Rank(S, direction, e) = Rank(S, direction, f) => e = f
<1>1. IsFiniteSet(S) /\ Cardinality(S) \in Nat
  <2>1. IsFiniteSet(1..MaxEntries)
    BY LogsPageConstants, FS_Interval
  <2> QED
    BY <2>1, FS_Subset, FS_CardinalityType
<1>2. ASSUME NEW e \in S
      PROVE  /\ IsFiniteSet(UpTo(S, direction, e)) /\ Cardinality(UpTo(S, direction, e)) \in 1..Cardinality(S)
  <2>1. UpTo(S, direction, e) \in SUBSET S /\ e \in UpTo(S, direction, e)
    BY LogsPageConstants DEF UpTo
  <2>2. /\ IsFiniteSet(UpTo(S, direction, e)) /\ Cardinality(UpTo(S, direction, e)) <= Cardinality(S)
        /\ Cardinality(UpTo(S, direction, e)) \in Nat
    BY <1>1, <2>1, FS_Subset, FS_CardinalityType
  <2>3. Cardinality(UpTo(S, direction, e)) # 0
    BY <2>1, <2>2, FS_EmptySet
  <2> QED
    BY <1>1, <2>2, <2>3
<1>3. ASSUME NEW e \in S, NEW f \in S, Before(direction, e, f)
      PROVE  Rank(S, direction, e) < Rank(S, direction, f)
  <2>1. e \in Int /\ f \in Int
    BY LogsPageConstants
  <2>2. UpTo(S, direction, e) \in SUBSET UpTo(S, direction, f)
    <3> SUFFICES ASSUME NEW g \in UpTo(S, direction, e) PROVE g \in UpTo(S, direction, f)
      OBVIOUS
    <3>1. g \in S /\ g \in Int
      BY LogsPageConstants DEF UpTo
    <3> QED
      BY <1>3, <2>1, <3>1 DEF UpTo, Before
  <2>3. f \in UpTo(S, direction, f) /\ f \notin UpTo(S, direction, e)
    BY <1>3, <2>1 DEF UpTo, Before
  <2>4. /\ Cardinality(UpTo(S, direction, e)) <= Cardinality(UpTo(S, direction, f))
        /\ Cardinality(UpTo(S, direction, e)) # Cardinality(UpTo(S, direction, f))
    <3> DEFINE A == UpTo(S, direction, e)
               B == UpTo(S, direction, f)
    <3>1. IsFiniteSet(B) /\ A \in SUBSET B /\ A # B
      BY <1>2, <2>2, <2>3
    <3>2. Cardinality(A) \in Int /\ Cardinality(B) \in Int
      BY <1>1, <1>2
    <3> HIDE DEF A, B
    <3>3. Cardinality(A) <= Cardinality(B) /\ Cardinality(A) # Cardinality(B)
      BY <3>1, FS_Subset
    <3> QED
      BY <3>3 DEF A, B
  <2>5. Cardinality(UpTo(S, direction, e)) \in Int /\ Cardinality(UpTo(S, direction, f)) \in Int
    BY <1>1, <1>2
  <2> QED
    BY <2>4, <2>5 DEF Rank
<1>4. ASSUME NEW e \in S, NEW f \in S, Rank(S, direction, e) = Rank(S, direction, f) PROVE e = f
  <2>1. e \in Int /\ f \in Int /\ Rank(S, direction, e) \in Int
    BY <1>1, <1>2, LogsPageConstants DEF Rank
  <2>2. ~Before(direction, e, f) /\ ~Before(direction, f, e)
    BY <1>3, <1>4, <2>1
  <2> QED
    BY <2>1, <2>2 DEF Before
<1> QED
  BY <1>1, <1>2, <1>3, <1>4 DEF Rank

(* The table in the order of the query: every entry is at its place.         *)
LEMMA OrderedFacts ==
    ASSUME LogsTypeOK, NEW query \in Filters
    PROVE  /\ Matches(query) \in SUBSET (1..MaxEntries) /\ Cardinality(Matches(query)) \in Nat
           /\ \A i \in 1..Cardinality(Matches(query)) :
                 /\ Ordered(query)[i] \in Matches(query)
                 /\ Rank(Matches(query), query.direction, Ordered(query)[i]) = i
           /\ Len(Ordered(query)) = Cardinality(Matches(query))
<1> DEFINE M == Matches(query)
           n == Cardinality(M)
           rank == [e \in M |-> Rank(M, query.direction, e)]
<1>0. M \in SUBSET (1..MaxEntries)
  BY LogsPageConstants DEF LogsTypeOK, Matches
<1>1. query.direction \in {"asc", "desc"}
  BY DEF Filters
<1>2. /\ IsFiniteSet(M) /\ n \in Nat
      /\ \A e \in M : Rank(M, query.direction, e) \in 1..n
      /\ \A e, f \in M : Rank(M, query.direction, e) = Rank(M, query.direction, f) => e = f
  BY <1>0, <1>1, RankFacts
<1>3. rank \in Injection(M, 1..n)
  BY <1>2 DEF Injection, IsInjective
<1>4. IsFiniteSet(1..n) /\ Cardinality(1..n) = n
  BY <1>2, FS_Interval
<1>5. rank \in Surjection(M, 1..n)
  <2> HIDE DEF rank, M
  <2> QED
    BY <1>3, <1>4, FS_Injection
<1>6. ASSUME NEW i \in 1..n PROVE \E e \in M : Rank(M, query.direction, e) = i
  BY <1>5 DEF Surjection
<1>7. Ordered(query) = [i \in 1..n |-> CHOOSE e \in M : Rank(M, query.direction, e) = i]
  BY DEF Ordered, Rank, UpTo
<1>8. \A i \in 1..n : Ordered(query)[i] \in M /\ Rank(M, query.direction, Ordered(query)[i]) = i
  BY <1>6, <1>7
<1>9. Len(Ordered(query)) = n
  BY <1>2, <1>7
<1> QED
  BY <1>0, <1>2, <1>8, <1>9

(* An entry of the table is at the same place among those that offsets count.*)
LEMMA TableRank ==
    ASSUME LogsTypeOK, NEW query \in Filters
    PROVE  /\ Table(query) \in SUBSET (1..MaxEntries) /\ Matches(query) \in SUBSET Table(query)
           /\ \A e \in Matches(query) :
                 Rank(Table(query), query.direction, e) = Rank(Matches(query), query.direction, e)
<1>1. Table(query) \in SUBSET (1..MaxEntries) /\ Matches(query) \in SUBSET Table(query)
  BY LogsPageConstants DEF LogsTypeOK, Table, Fitting, Matches
<1>2. ASSUME NEW e \in Matches(query)
      PROVE  UpTo(Table(query), query.direction, e) = UpTo(Matches(query), query.direction, e)
  <2>1. query.direction \in {"asc", "desc"}
    BY DEF Filters
  <2> QED
    BY <1>1, <1>2, <2>1, LogsPageConstants DEF LogsTypeOK, UpTo, Table, Fitting, Matches
<1> QED
  BY <1>1, <1>2 DEF Rank

(* findMany returns entries that match, one after the other.                 *)
LEMMA PageFacts ==
    ASSUME LogsTypeOK, NEW query \in Filters, NEW skip \in Nat
    PROVE  /\ FindMany(query, skip) \in Seq(1..MaxEntries)
           /\ Within(Fitting(query), FindMany(query, skip))
           /\ Numbered(Table(query), query.direction, FindMany(query, skip), skip, 0)
<1> DEFINE all == Ordered(query)
           n == Cardinality(Matches(query))
           end == IF skip + PAGE_SIZE < n THEN skip + PAGE_SIZE ELSE n
           page == SubSeq(all, skip + 1, end)
<1>1. /\ Matches(query) \in SUBSET (1..MaxEntries) /\ n \in Nat /\ Len(all) = n
      /\ \A i \in 1..n : all[i] \in Matches(query) /\ Rank(Matches(query), query.direction, all[i]) = i
  BY OrderedFacts
<1>2. FindMany(query, skip) = page
  BY <1>1 DEF FindMany, First
<1> HIDE DEF all, n
<1>3. skip + 1 \in Int /\ end \in Int /\ end <= n
  BY <1>1, LogsPageConstants
<1>4. \A i \in skip + 1 .. end : all[i] \in Matches(query)
  BY <1>1, <1>3
<1>5. /\ page \in Seq(Matches(query))
      /\ Len(page) = IF skip + 1 <= end THEN end - (skip + 1) + 1 ELSE 0
      /\ \A i \in 1 .. end - (skip + 1) + 1 : page[i] = all[skip + 1 + i - 1]
  <2> HIDE DEF end
  <2> QED
    BY <1>3, <1>4, SubSeqProperties
<1>6. ASSUME NEW i \in 1..Len(page)
      PROVE  page[i] \in Matches(query) /\ Rank(Matches(query), query.direction, page[i]) = skip + i
  <2>1. i \in 1 .. end - (skip + 1) + 1 /\ skip + i \in 1..n
    BY <1>1, <1>3, <1>5
  <2>2. page[i] = all[skip + i]
    BY <1>5, <2>1
  <2> QED
    BY <1>1, <2>1, <2>2
<1>7. page \in Seq(1..MaxEntries)
  BY <1>1, <1>5, SeqMonotonic
<1> HIDE DEF page
<1>8. \A i \in 1..Len(page) : page[i] \in Table(query) /\ Rank(Table(query), query.direction, page[i]) = skip + i
  BY <1>6, TableRank
<1>9. Within(Fitting(query), page)
  BY <1>8 DEF Within, Table
<1>10. Numbered(Table(query), query.direction, page, skip, 0)
  <2>1. \A i \in 1..Len(page) : skip + i + 0 = skip + i
    OBVIOUS
  <2> QED
    BY <1>8, <2>1 DEF Numbered
<1> QED
  BY <1>2, <1>7, <1>9, <1>10

(* Places in the table differ, in the order of the query.                    *)
LEMMA TableOrder ==
    ASSUME LogsTypeOK, NEW query \in Filters
    PROVE  /\ \A e \in Table(query) : Rank(Table(query), query.direction, e) \in Nat \ {0}
           /\ \A e, f \in Table(query) : Before(query.direction, e, f) =>
                 Rank(Table(query), query.direction, e) < Rank(Table(query), query.direction, f)
           /\ \A e, f \in Table(query) :
                 Rank(Table(query), query.direction, e) = Rank(Table(query), query.direction, f) => e = f
<1> DEFINE T == Table(query)
           d == query.direction
<1>1. T \in SUBSET (1..MaxEntries) /\ d \in {"asc", "desc"}
  BY TableRank DEF Filters
<1>2. /\ Cardinality(T) \in Nat
      /\ \A e \in T : Rank(T, d, e) \in 1..Cardinality(T)
      /\ \A e, f \in T : Before(d, e, f) => Rank(T, d, e) < Rank(T, d, f)
      /\ \A e, f \in T : Rank(T, d, e) = Rank(T, d, f) => e = f
  <2> HIDE DEF T, d
  <2> QED
    BY <1>1, RankFacts
<1> QED
  BY <1>2

(* Newest first a page is closed.                                            *)
LEMMA PageClosed ==
    ASSUME LogsTypeOK, NEW query \in Filters, query.direction = "desc", NEW s \in Seq(1..MaxEntries),
           NEW x \in Nat, Numbered(Table(query), "desc", s, 0, x)
    PROVE  Closed(Table(query), s)
<1> SUFFICES ASSUME NEW e \in Table(query), NEW i \in 1..Len(s), s[i] <= e, e <= s[1]
             PROVE  \E j \in 1..Len(s) : s[j] = e
  BY DEF Closed
<1> DEFINE R(f) == Rank(Table(query), "desc", f)
<1>1. /\ \A f \in Table(query) : R(f) \in Nat
      /\ \A f, g \in Table(query) : f > g => R(f) < R(g)
      /\ \A f, g \in Table(query) : R(f) = R(g) => f = g
  BY TableOrder DEF Before
<1>2. /\ Len(s) \in Nat /\ 1 \in 1..Len(s)
      /\ \A j \in 1..Len(s) : s[j] \in Table(query) /\ R(s[j]) = j + x
  BY DEF Numbered
<1> HIDE DEF R
<1>3. R(e) <= i + x /\ R(e) >= 1 + x
  <2>1. e \in Int /\ s[i] \in Int /\ s[1] \in Int
    BY <1>2, TableRank
  <2>2. (e > s[i] \/ e = s[i]) /\ (s[1] > e \/ s[1] = e)
    BY <2>1
  <2> QED
    BY <1>1, <1>2, <2>2
<1>4. R(e) - x \in 1..Len(s) /\ R(s[R(e) - x]) = R(e)
  <2>1. R(e) \in Nat /\ i \in Nat /\ i <= Len(s)
    BY <1>1, <1>2
  <2> DEFINE k == R(e) - x
  <2>2. k \in 1..Len(s) /\ k + x = R(e)
    BY <1>2, <1>3, <2>1
  <2> HIDE DEF k
  <2>3. R(s[k]) = k + x
    BY <1>2, <2>2
  <2> QED
    BY <2>2, <2>3 DEF k
<1> QED
  BY <1>1, <1>2, <1>4

(* A new entry is the last of the order oldest first, and the first of the   *)
(* other, where it moves all that are there by one place.                    *)
LEMMA NewEntry ==
    ASSUME LogsTypeOK, CreateEntry, NEW query \in Filters
    PROVE  /\ \E new \in Nat : new > written /\ Table(query)' \subseteq Table(query) \cup {new}
           /\ Fitting(query) \subseteq Fitting(query)'
           /\ \E by \in {0, 1} :
                 /\ query.direction = "asc" => by = 0
                 /\ \A e \in Table(query) :
                       /\ e \in Table(query)'
                       /\ Rank(Table(query)', query.direction, e) = Rank(Table(query), query.direction, e) + by
<1> DEFINE T == Table(query)
           N == IF query.logLevel \in {level[written + 1], AnyLevel} THEN {written + 1} ELSE {}
           d == query.direction
<1>1. /\ written \in Nat /\ written + 1 \in 1..MaxEntries /\ purged \in 0..written
      /\ written' = written + 1 /\ level' = level /\ purged' = purged
  BY LogsPageConstants DEF LogsTypeOK, CreateEntry
<1>2. Fitting(query)' = Fitting(query) \cup N
  BY <1>1 DEF Fitting
<1>3. Table(query)' = T \cup N
  <2>1. \A e \in N : e > purged
    BY <1>1
  <2> HIDE DEF N
  <2> QED
    BY <1>1, <1>2, <2>1 DEF Table
<1>4. T \in SUBSET (1..MaxEntries) /\ d \in {"asc", "desc"} /\ \A e \in T : e <= written /\ e \in Int
  BY <1>1, TableRank DEF Filters, Table, Fitting
<1>5. \E new \in Nat : new > written /\ Table(query)' \subseteq Table(query) \cup {new}
  <2>1. written + 1 \in Nat /\ written + 1 > written /\ N \subseteq {written + 1}
    BY <1>1
  <2> QED
    BY <1>3, <2>1
<1>6. Fitting(query) \subseteq Fitting(query)'
  BY <1>2
<1>7. CASE d = "asc"
  <2>1. ASSUME NEW e \in T PROVE UpTo(T \cup N, d, e) = UpTo(T, d, e)
    BY <1>1, <1>4, <1>7 DEF UpTo
  <2>2. ASSUME NEW e \in T PROVE Rank(T \cup N, d, e) = Rank(T, d, e) + 0
    <3>1. Rank(T, d, e) \in Nat
      BY TableOrder
    <3>2. Rank(T \cup N, d, e) = Rank(T, d, e)
      BY <2>1 DEF Rank
    <3> QED
      BY <3>1, <3>2
  <2>3. \A e \in T : e \in T \cup N /\ Rank(T \cup N, d, e) = Rank(T, d, e) + 0
    BY <2>2
  <2> QED
    BY <1>3, <1>5, <1>6, <2>3
<1>8. CASE d = "desc"
  <2>1. ASSUME NEW e \in T PROVE UpTo(T \cup N, d, e) = UpTo(T, d, e) \cup N
    BY <1>1, <1>4, <1>8 DEF UpTo
  <2>2. \A e \in T : Rank(T, d, e) \in Nat
    BY TableOrder
  <2>3. CASE N = {}
    <3>1. \A e \in T : e \in T \cup N /\ Rank(T \cup N, d, e) = Rank(T, d, e) + 0
      BY <2>2, <2>3
    <3> QED
      BY <1>3, <1>8, <1>5, <1>6, <3>1
  <2>4. CASE N = {written + 1}
    <3>1. ASSUME NEW e \in T PROVE Rank(T \cup N, d, e) = Rank(T, d, e) + 1
      <4>1. IsFiniteSet(T)
        BY <1>4, RankFacts
      <4>2. UpTo(T, d, e) \in SUBSET T /\ written + 1 \notin UpTo(T, d, e)
        BY <1>1, <1>4 DEF UpTo
      <4>3. IsFiniteSet(UpTo(T, d, e))
        <5> HIDE DEF T, d
        <5> QED
          BY <4>1, <4>2, FS_Subset
      <4>4. Cardinality(UpTo(T, d, e) \cup {written + 1}) = Cardinality(UpTo(T, d, e)) + 1
        <5> HIDE DEF T, d
        <5> QED
          BY <4>2, <4>3, FS_AddElement
      <4> QED
        BY <2>1, <2>4, <4>4 DEF Rank
    <3>2. \A e \in T : e \in T \cup N /\ Rank(T \cup N, d, e) = Rank(T, d, e) + 1
      BY <3>1
    <3> QED
      BY <1>3, <1>8, <1>5, <1>6, <3>2
  <2> QED
    BY <2>3, <2>4
<1> QED
  BY <1>4, <1>7, <1>8

(* A purge moves nothing in the order newest first.                          *)
LEMMA PurgedEntries ==
    ASSUME LogsTypeOK, NEW cutoff, DeleteOlderThan(cutoff), NEW query \in Filters
    PROVE  /\ Fitting(query)' = Fitting(query)
           /\ query.direction = "desc" => Table(query)' = Table(query)
<1>1. level' = level /\ written' = written
  BY DEF DeleteOlderThan
<1>2. Fitting(query)' = Fitting(query)
  BY <1>1 DEF Fitting
<1> QED
  BY <1>2 DEF Table

(* The places of all entries move by as many, newest first by what the       *)
(* offsets did not move for; what the page holds and has asked for.          *)
MovesBy(T, U, query, by, before, after, held, l, m) ==
    /\ query \in Filters /\ by \in {0, 1} /\ before \in BOOLEAN /\ after \in BOOLEAN
    /\ held \in Seq(1..MaxEntries) /\ l \in Request /\ m \in Request
    /\ \A e \in T : e \in U /\ Rank(T, query.direction, e) \in Nat
                  /\ Rank(U, query.direction, e) = Rank(T, query.direction, e) + by
    /\ ~after => ~before
    /\ (~after /\ (l.found \/ m.found \/ held # <<>>)) => by = 0

(* What was so of them still is.                                             *)
MovedBy(T, U, query, by, before, after, held, l, m) ==
    /\ LoadInv(T, query, l, m, before) => LoadInv(U, query, l, m, after)
    /\ LoadMoreInv(T, query, held, m, before) => LoadMoreInv(U, query, held, m, after)
    /\ (~before => Numbered(T, query.direction, held, 0, 0)) =>
           (~after => Numbered(U, query.direction, held, 0, 0))
    /\ \A n \in Nat : (query.direction = "desc" /\ Deep(T, held, n)) => Deep(U, held, n + by)

(* Where an entry stands after entries were added at one end and taken away *)
(* at the other.                                                            *)
LEMMA MovedPlaces ==
    ASSUME NEW T, NEW U, NEW query, NEW by, NEW before, NEW after, NEW held, NEW l, NEW m,
           MovesBy(T, U, query, by, before, after, held, l, m)
    PROVE  MovedBy(T, U, query, by, before, after, held, l, m)
<1>h. /\ query \in Filters /\ by \in {0, 1} /\ before \in BOOLEAN /\ after \in BOOLEAN
      /\ held \in Seq(1..MaxEntries) /\ l \in Request /\ m \in Request
      /\ \A e \in T : e \in U /\ Rank(T, query.direction, e) \in Nat
                    /\ Rank(U, query.direction, e) = Rank(T, query.direction, e) + by
      /\ ~after => ~before
      /\ (~after /\ (l.found \/ m.found \/ held # <<>>)) => by = 0
  BY DEF MovesBy
<1>b. by \in Int
  BY <1>h
<1> USE <1>h
<1>t. l.data \in Seq(1..MaxEntries) /\ m.data \in Seq(1..MaxEntries) /\ l.skip \in Nat /\ m.skip \in Nat
  BY DEF Request
<1>1. ASSUME NEW s \in Seq(1..MaxEntries), NEW skip \in Nat, NEW x \in Nat, Numbered(T, query.direction, s, skip, x)
      PROVE  Numbered(U, query.direction, s, skip, x + by)
  <2>1. ASSUME NEW i \in 1..Len(s)
        PROVE  s[i] \in U /\ Rank(U, query.direction, s[i]) = skip + i + (x + by)
    <3>1. s[i] \in T /\ Rank(T, query.direction, s[i]) = skip + i + x /\ i \in Nat
      BY <1>1 DEF Numbered
    <3> QED
      BY <3>1
  <2> QED
    BY <2>1 DEF Numbered
<1>2. ASSUME NEW n \in Nat, query.direction = "desc", Deep(T, held, n)
      PROVE  Deep(U, held, n + by)
  BY <1>2 DEF Deep
<1>3. ASSUME LoadInv(T, query, l, m, before) PROVE LoadInv(U, query, l, m, after)
  <2> SUFFICES ASSUME l.pc = "asked" PROVE LoadInv(U, query, l, m, after)
    BY DEF LoadInv
  <2>1. l.query = query /\ l.skip = 0 /\ m.pc = "idle"
    BY <1>3 DEF LoadInv
  <2>2. ASSUME l.found, query.direction = "desc" \/ ~after
        PROVE  \E x \in Nat : (~after => x = 0) /\ Numbered(U, query.direction, l.data, 0, x)
    <3>1. PICK x \in Nat : (~before => x = 0) /\ Numbered(T, query.direction, l.data, 0, x)
      BY <1>3, <2>2 DEF LoadInv
    <3>2. x + by \in Nat /\ Numbered(U, query.direction, l.data, 0, x + by)
      BY <1>t, <1>1, <3>1
    <3>3. ~after => x + by = 0
      BY <2>2, <3>1
    <3> QED
      BY <3>2, <3>3
  <2> QED
    BY <2>1, <2>2 DEF LoadInv
<1>4. ASSUME ~before => Numbered(T, query.direction, held, 0, 0), ~after
      PROVE  Numbered(U, query.direction, held, 0, 0)
  <2>1. CASE held # <<>>
    BY <1>1, <1>4, <2>1
  <2>2. CASE held = <<>>
    BY <2>2 DEF Numbered
  <2> QED
    BY <2>1, <2>2
<1>5. ASSUME LoadMoreInv(T, query, held, m, before) PROVE LoadMoreInv(U, query, held, m, after)
  <2> SUFFICES ASSUME m.pc = "asked" PROVE LoadMoreInv(U, query, held, m, after)
    BY DEF LoadMoreInv
  <2>1. m.query = query /\ m.skip = Len(held) /\ held # <<>>
    BY <1>5 DEF LoadMoreInv
  <2>2. ASSUME m.found, query.direction = "desc" \/ ~after
        PROVE  \E x \in Nat : /\ ~after => x = 0
                              /\ Numbered(U, query.direction, m.data, m.skip, x)
                              /\ query.direction = "desc" => Deep(U, held, m.skip + x)
    <3>1. PICK x \in Nat : /\ ~before => x = 0
                           /\ Numbered(T, query.direction, m.data, m.skip, x)
                           /\ query.direction = "desc" => Deep(T, held, m.skip + x)
      BY <1>5, <2>2 DEF LoadMoreInv
    <3>2. x + by \in Nat /\ Numbered(U, query.direction, m.data, m.skip, x + by)
      BY <1>t, <1>1, <3>1
    <3>3. ~after => x + by = 0
      BY <2>2, <3>1
    <3>4. query.direction = "desc" => Deep(U, held, m.skip + (x + by))
      <4> SUFFICES ASSUME query.direction = "desc" PROVE Deep(U, held, m.skip + (x + by))
        OBVIOUS
      <4>1. m.skip + x \in Nat /\ (m.skip + x) + by = m.skip + (x + by)
        <5> HIDE <1>h
        <5>1. m.skip \in Nat /\ by \in Int
          BY <1>t, <1>b
        <5> QED
          BY <5>1
      <4>2. Deep(U, held, (m.skip + x) + by)
        BY <1>2, <3>1, <4>1
      <4> QED
        BY <4>1, <4>2
    <3> QED
      BY <3>2, <3>3, <3>4
  <2> QED
    BY <2>1, <2>2 DEF LoadMoreInv
<1> QED
  BY <1>2, <1>3, <1>4, <1>5 DEF MovedBy

(* What findMany answers a request with.                                     *)
Found(req, page) == [req EXCEPT !.found = TRUE, !.data = page]

(* A request that was answered by findMany.                                 *)
LEMMA FoundRequest ==
    ASSUME NEW req \in Request, NEW page \in Seq(1..MaxEntries)
    PROVE  /\ Found(req, page) \in Request
           /\ Found(req, page).pc = req.pc /\ Found(req, page).query = req.query /\ Found(req, page).skip = req.skip
           /\ Found(req, page).found /\ Found(req, page).data = page
<1>1. /\ Found(req, page).pc = req.pc /\ Found(req, page).query = req.query /\ Found(req, page).skip = req.skip
      /\ Found(req, page).found /\ Found(req, page).data = page
  BY DEF Request, Found
<1>2. Found(req, page) \in Request
  BY DEF Request, Found
<1> QED
  BY <1>1, <1>2

(* What the blank values are.                                               *)
LEMMA LogsBlanks ==
    /\ DefaultFilters \in Filters /\ NoAsk \in Request /\ NoAsk.pc = "idle" /\ ~NoAsk.found
    /\ NoAsk.data = <<>> /\ Len(NoAsk.data) = 0
    /\ \A query \in Filters, skip \in Nat :
          /\ AskFor(query, skip) \in Request /\ AskFor(query, skip).pc = "asked"
          /\ AskFor(query, skip).query = query /\ AskFor(query, skip).skip = skip
          /\ ~AskFor(query, skip).found /\ AskFor(query, skip).data = <<>>
<1>1. DefaultFilters \in Filters
  BY DEF DefaultFilters, Filters
<1>2. <<>> \in Seq(1..MaxEntries) /\ Len(<<>>) = 0
  BY EmptySeq
<1> QED
  BY <1>1, <1>2 DEF NoAsk, Request, AskFor

(* Initially the first page is asked for.                                   *)
LEMMA LogsStart == LogsInit => LogsInv
<1> SUFFICES ASSUME LogsInit PROVE LogsInv
  OBVIOUS
<1>1. /\ load = AskFor(DefaultFilters, 0) /\ loadMore = NoAsk /\ filters = DefaultFilters
      /\ logs = <<>> /\ load.pc = "asked" /\ ~load.found /\ load.data = <<>> /\ load.query = filters /\ load.skip = 0
  BY LogsBlanks DEF LogsInit
<1>2. LogsTypeOK
  <2>1. load \in Request /\ loadMore \in Request /\ filters \in Filters
    BY <1>1, LogsBlanks
  <2>2. logs \in Seq(1..MaxEntries)
    BY <1>1, EmptySeq
  <2>3. level \in [1..MaxEntries -> Levels] /\ written \in 0..MaxEntries /\ purged \in 0..written
    BY LogsPageConstants DEF LogsInit
  <2>4. {hasMore, mixed, shifted} \subseteq BOOLEAN
    BY DEF LogsInit
  <2> QED
    BY <2>1, <2>2, <2>3, <2>4 DEF LogsTypeOK
<1>3. Sound(load) /\ Sound(loadMore)
  BY <1>1, LogsBlanks DEF Sound
<1>4. Within(Fitting(load.query), load.data) /\ Within(Fitting(loadMore.query), loadMore.data)
  BY <1>1, LogsBlanks DEF Within
<1>5. LoadInv(Table(filters), filters, load, loadMore, shifted)
  BY <1>1, LogsBlanks DEF LoadInv
<1> QED
  BY <1>1, <1>2, <1>3, <1>4, <1>5 DEF LogsInv

(* An answer to load() is held from the first entry on.                      *)
LEMMA LoadShown ==
    ASSUME LogsTypeOK, NEW query \in Filters, NEW l \in Request, NEW m, NEW off \in BOOLEAN,
           l.pc = "asked", l.found, LoadInv(Table(query), query, l, m, off)
    PROVE  HeldInv(Table(query), query, l.data, off)
<1>t. l.data \in Seq(1..MaxEntries) /\ query.direction \in {"asc", "desc"}
  BY DEF Request, Filters
<1> SUFFICES ASSUME query.direction = "desc" \/ ~off PROVE HeldInv(Table(query), query, l.data, off)
  BY DEF HeldInv
<1>1. PICK x \in Nat : (~off => x = 0) /\ Numbered(Table(query), query.direction, l.data, 0, x)
  BY DEF LoadInv
<1>2. ~off => Numbered(Table(query), query.direction, l.data, 0, 0)
  BY <1>1
<1>3. ASSUME query.direction = "desc", l.data # <<>>
      PROVE  Closed(Table(query), l.data) /\ Deep(Table(query), l.data, Len(l.data))
  <2>1. Closed(Table(query), l.data)
    BY <1>t, <1>1, <1>3, PageClosed
  <2>2. Len(l.data) \in Nat /\ Len(l.data) \in 1..Len(l.data)
    BY <1>t, <1>3
  <2>3. /\ l.data[Len(l.data)] \in Table(query)
        /\ Rank(Table(query), "desc", l.data[Len(l.data)]) = 0 + Len(l.data) + x
    BY <1>1, <1>3, <2>2 DEF Numbered
  <2>4. Rank(Table(query), "desc", l.data[Len(l.data)]) >= Len(l.data)
    BY <2>2, <2>3
  <2> QED
    BY <2>1, <2>2, <2>3, <2>4 DEF Deep
<1> QED
  BY <1>2, <1>3 DEF HeldInv

(* An answer to loadMore() continues what is held.                           *)
LEMMA MoreShown ==
    ASSUME LogsTypeOK, NEW query \in Filters, NEW held \in Seq(1..MaxEntries), NEW m \in Request,
           NEW off \in BOOLEAN, m.pc = "asked", m.found,
           HeldInv(Table(query), query, held, off), LoadMoreInv(Table(query), query, held, m, off)
    PROVE  HeldInv(Table(query), query, held \o m.data, off)
<1> DEFINE T == Table(query)
           both == held \o m.data
           R(e) == Rank(Table(query), "desc", e)
<1>t. m.data \in Seq(1..MaxEntries) /\ query.direction \in {"asc", "desc"}
  BY DEF Request, Filters
<1>1. /\ both \in Seq(1..MaxEntries) /\ Len(both) = Len(held) + Len(m.data)
      /\ \A i \in 1..Len(both) : both[i] = IF i <= Len(held) THEN held[i] ELSE m.data[i - Len(held)]
      /\ Len(held) \in Nat /\ Len(m.data) \in Nat
  BY <1>t, ConcatProperties
<1>2. m.skip = Len(held) /\ held # <<>> /\ 1 <= Len(held)
  BY DEF LoadMoreInv
<1> SUFFICES ASSUME query.direction = "desc" \/ ~off PROVE HeldInv(T, query, both, off)
  BY DEF HeldInv
<1> HIDE DEF both
<1>3. PICK x \in Nat : /\ ~off => x = 0
                       /\ Numbered(T, query.direction, m.data, m.skip, x)
                       /\ query.direction = "desc" => Deep(T, held, m.skip + x)
  BY DEF LoadMoreInv
<1>4. ASSUME ~off PROVE Numbered(T, query.direction, both, 0, 0)
  <2> SUFFICES ASSUME NEW i \in 1..Len(both)
               PROVE  both[i] \in T /\ Rank(T, query.direction, both[i]) = 0 + i + 0
    BY DEF Numbered
  <2>1. CASE i <= Len(held)
    <3>1. i \in 1..Len(held) /\ both[i] = held[i] /\ Numbered(T, query.direction, held, 0, 0)
      BY <1>1, <1>4, <2>1 DEF HeldInv
    <3> QED
      BY <3>1 DEF Numbered
  <2>2. CASE ~(i <= Len(held))
    <3> DEFINE k == i - Len(held)
    <3>1. k \in 1..Len(m.data) /\ both[i] = m.data[k] /\ Len(held) + k + 0 = 0 + i + 0
      BY <1>1, <2>2
    <3> HIDE DEF k
    <3>2. m.data[k] \in T /\ Rank(T, query.direction, m.data[k]) = Len(held) + k + 0
      BY <1>2, <1>3, <1>4, <3>1 DEF Numbered
    <3> QED
      BY <3>1, <3>2
  <2> QED
    BY <2>1, <2>2
<1>5. ASSUME query.direction = "desc" PROVE Deep(T, both, Len(both))
  <2>1. CASE Len(m.data) = 0
    <3>1. PICK j \in 1..Len(held) : held[j] \in T /\ R(held[j]) >= Len(held)
      BY <1>2, <1>5 DEF HeldInv, Deep
    <3>2. j \in 1..Len(both) /\ both[j] = held[j] /\ Len(both) = Len(held)
      BY <1>1, <2>1
    <3> QED
      BY <3>1, <3>2 DEF Deep
  <2>2. CASE Len(m.data) # 0
    <3>1. Len(both) \in 1..Len(both) /\ both[Len(both)] = m.data[Len(m.data)] /\ Len(m.data) \in 1..Len(m.data)
      BY <1>1, <2>2
    <3>2. m.data[Len(m.data)] \in T /\ R(m.data[Len(m.data)]) = Len(held) + Len(m.data) + x
      BY <1>2, <1>3, <1>5, <3>1 DEF Numbered
    <3>3. R(both[Len(both)]) >= Len(both)
      BY <1>1, <3>1, <3>2
    <3> QED
      BY <3>1, <3>2, <3>3 DEF Deep
  <2> QED
    BY <2>1, <2>2
<1>6. ASSUME query.direction = "desc", NEW e \in T, NEW i \in 1..Len(both), both[i] <= e, e <= both[1]
      PROVE  \E j \in 1..Len(both) : both[j] = e
  <2>0. 1 \in 1..Len(held) /\ both[1] = held[1] /\ \A j \in 1..Len(held) : j \in 1..Len(both) /\ both[j] = held[j]
    BY <1>1, <1>2
  <2>1. CASE \E j \in 1..Len(held) : held[j] <= e
    <3>1. \E j \in 1..Len(held) : held[j] = e
      BY <1>2, <1>6, <2>0, <2>1 DEF HeldInv, Closed
    <3> QED
      BY <2>0, <3>1
  <2>2. CASE ~\E j \in 1..Len(held) : held[j] <= e
    <3> DEFINE k == i - Len(held)
    <3>1. k \in 1..Len(m.data) /\ both[i] = m.data[k]
      BY <1>1, <1>6, <2>0, <2>2
    <3> HIDE DEF k
    <3>2. m.data[k] \in T /\ R(m.data[k]) = Len(held) + k + x
      BY <1>2, <1>3, <1>6, <3>1 DEF Numbered
    <3>3. PICK j \in 1..Len(held) : held[j] \in T /\ R(held[j]) >= Len(held) + x
      BY <1>2, <1>3, <1>6 DEF Deep
    <3>4. /\ \A f \in T : R(f) \in Nat /\ f \in Int
          /\ \A f, g \in T : f > g => R(f) < R(g)
          /\ \A f, g \in T : R(f) = R(g) => f = g
      BY <1>6, TableOrder, TableRank DEF Before
    <3>5. held[j] > e
      BY <2>2, <3>3, <3>4
    <3>6. R(held[j]) < R(e)
      BY <3>3, <3>4, <3>5
    <3>7. R(e) <= R(m.data[k])
      <4>1. m.data[k] < e \/ m.data[k] = e
        BY <1>6, <3>1, <3>2, <3>4
      <4> QED
        BY <3>2, <3>4, <4>1
    <3> DEFINE h == R(e) - Len(held) - x
    <3> HIDE DEF R
    <3>8. h \in 1..Len(m.data) /\ Len(held) + h + x = R(e)
      <4>1. R(e) \in Nat /\ R(held[j]) \in Nat
        BY <3>3, <3>4
      <4>2. k \in Nat /\ k <= Len(m.data) /\ Len(held) \in Nat /\ Len(m.data) \in Nat /\ x \in Nat
        BY <1>1, <1>3, <3>1
      <4>3. R(e) <= Len(held) + k + x /\ R(e) > Len(held) + x
        BY <3>2, <3>3, <3>6, <3>7, <4>1, <4>2
      <4> DEFINE r == R(e)
                 a == Len(held)
                 b == Len(m.data)
      <4>4. r \in Nat /\ a \in Nat /\ b \in Nat /\ k \in Nat /\ x \in Nat /\ k <= b /\ r <= a + k + x /\ r > a + x
        BY <4>1, <4>2, <4>3
      <4> HIDE DEF r, a, b
      <4>5. r - a - x \in 1..b /\ a + (r - a - x) + x = r
        BY <4>4
      <4> QED
        BY <4>5 DEF r, a, b
    <3> HIDE DEF h
    <3>9. m.data[h] \in T /\ R(m.data[h]) = Len(held) + h + x
      BY <1>2, <1>3, <1>6, <3>8 DEF Numbered, R
    <3>10. m.data[h] = e
      <4>1. R(m.data[h]) = R(e)
        BY <3>8, <3>9
      <4> QED
        BY <3>4, <3>9, <4>1
    <3> DEFINE p == Len(held) + h
    <3>11. p \in 1..Len(both) /\ ~(p <= Len(held)) /\ p - Len(held) = h
      BY <1>1, <3>8
    <3> HIDE DEF p
    <3>12. both[p] = m.data[h]
      BY <1>1, <3>11
    <3> QED
      BY <3>10, <3>11, <3>12
  <2> QED
    BY <2>1, <2>2
<1>7. query.direction = "desc" => Closed(T, both)
  BY <1>6 DEF Closed
<1> QED
  BY <1>4, <1>5, <1>7 DEF HeldInv

(* Every step of the page keeps the invariant.                              *)
LEMMA LogsKept == LogsInv /\ [LogsNext]_logsVars => LogsInv'
<1> SUFFICES ASSUME LogsInv, [LogsNext]_logsVars PROVE LogsInv'
  OBVIOUS
<1>t. /\ LogsTypeOK /\ Sound(load) /\ Sound(loadMore)
      /\ level \in [1..MaxEntries -> Levels] /\ written \in 0..MaxEntries /\ purged \in 0..written
      /\ filters \in Filters /\ logs \in Seq(1..MaxEntries) /\ load \in Request /\ loadMore \in Request
      /\ hasMore \in BOOLEAN /\ mixed \in BOOLEAN /\ shifted \in BOOLEAN
  BY DEF LogsInv, LogsTypeOK
<1>q. PICK q \in Filters : q = filters
  BY <1>t
<1>i. /\ Within(Fitting(load.query), load.data) /\ Within(Fitting(loadMore.query), loadMore.data)
      /\ ~mixed => LoadInv(Table(q), q, load, loadMore, shifted)
      /\ (~mixed /\ load.pc = "idle") =>
            /\ Within(Fitting(q), logs)
            /\ HeldInv(Table(q), q, logs, shifted)
            /\ LoadMoreInv(Table(q), q, logs, loadMore, shifted)
  BY <1>q DEF LogsInv
<1>s. ASSUME UNCHANGED <<level, written, purged>>
      PROVE  \A query : Fitting(query)' = Fitting(query) /\ Table(query)' = Table(query)
  BY <1>s DEF Fitting, Table
<1> USE LogsBlanks
<1>1. CASE UNCHANGED logsVars
  <2>1. /\ UNCHANGED <<level, written, purged, filters, logs, hasMore>>
        /\ UNCHANGED <<load, loadMore, mixed, shifted>>
    BY <1>1 DEF logsVars
  <2>2. LogsTypeOK' /\ Sound(load)' /\ Sound(loadMore)'
    BY <1>t, <2>1 DEF LogsTypeOK
  <2> QED
    BY <1>q, <1>i, <1>s, <2>1, <2>2 DEF LogsInv
<1>2. CASE CreateEntry
  <2>1. /\ written < MaxEntries /\ written' = written + 1
        /\ shifted' = (shifted \/ (Showing /\ filters.direction = "desc"))
        /\ UNCHANGED <<level, purged, filters, logs, hasMore>> /\ UNCHANGED <<load, loadMore, mixed>>
    BY <1>2 DEF CreateEntry
  <2>2. LogsTypeOK' /\ Sound(load)' /\ Sound(loadMore)'
    <3>1. written' \in 0..MaxEntries /\ purged' \in 0..written' /\ shifted' \in BOOLEAN
      BY <1>t, <2>1, LogsPageConstants
    <3> QED
      BY <1>t, <2>1, <3>1 DEF LogsTypeOK
  <2>3. \A query \in Filters : Fitting(query) \subseteq Fitting(query)'
    BY <1>t, <1>2, NewEntry
  <2>4. Within(Fitting(load.query), load.data)' /\ Within(Fitting(loadMore.query), loadMore.data)'
    <3>1. PICK ql \in Filters, qm \in Filters : ql = load.query /\ qm = loadMore.query
      BY <1>t DEF Request
    <3>2. Fitting(ql) \subseteq Fitting(ql)' /\ Fitting(qm) \subseteq Fitting(qm)'
      BY <2>3
    <3> QED
      BY <1>i, <2>1, <3>1, <3>2 DEF Within
  <2>5. PICK by \in {0, 1} :
              /\ q.direction = "asc" => by = 0
              /\ \A e \in Table(q) :
                    /\ e \in Table(q)'
                    /\ Rank(Table(q)', q.direction, e) = Rank(Table(q), q.direction, e) + by
    BY <1>t, <1>2, NewEntry
  <2>6. PICK U : U = Table(q)'
    OBVIOUS
  <2>7. \A e \in Table(q) : e \in U /\ Rank(Table(q), q.direction, e) \in Nat
                            /\ Rank(U, q.direction, e) = Rank(Table(q), q.direction, e) + by
    BY <1>t, <2>5, <2>6, TableOrder
  <2>8. /\ shifted' \in BOOLEAN /\ (~shifted' => ~shifted)
        /\ (~shifted' /\ (load.found \/ loadMore.found \/ logs # <<>>)) => by = 0
    <3>1. q.direction \in {"asc", "desc"}
      BY DEF Filters
    <3> QED
      BY <1>t, <1>q, <2>1, <2>5, <3>1 DEF Showing
  <2>9. /\ LoadInv(Table(q), q, load, loadMore, shifted) => LoadInv(U, q, load, loadMore, shifted')
        /\ LoadMoreInv(Table(q), q, logs, loadMore, shifted) => LoadMoreInv(U, q, logs, loadMore, shifted')
        /\ (~shifted => Numbered(Table(q), q.direction, logs, 0, 0)) =>
               (~shifted' => Numbered(U, q.direction, logs, 0, 0))
        /\ \A n \in Nat : (q.direction = "desc" /\ Deep(Table(q), logs, n)) => Deep(U, logs, n + by)
    <3> DEFINE T == Table(q)
               after == shifted'
    <3>1. \A e \in T : e \in U /\ Rank(T, q.direction, e) \in Nat /\ Rank(U, q.direction, e) = Rank(T, q.direction, e) + by
      BY <2>7
    <3>2. after \in BOOLEAN /\ (~after => ~shifted)
      BY <2>8
    <3>3. (~after /\ (load.found \/ loadMore.found \/ logs # <<>>)) => by = 0
      BY <2>8
    <3> HIDE DEF T, after
    <3>4. MovesBy(T, U, q, by, shifted, after, logs, load, loadMore)
      BY <1>t, <3>1, <3>2, <3>3 DEF MovesBy
    <3>5. /\ LoadInv(T, q, load, loadMore, shifted) => LoadInv(U, q, load, loadMore, after)
          /\ LoadMoreInv(T, q, logs, loadMore, shifted) => LoadMoreInv(U, q, logs, loadMore, after)
          /\ (~shifted => Numbered(T, q.direction, logs, 0, 0)) => (~after => Numbered(U, q.direction, logs, 0, 0))
          /\ \A n \in Nat : (q.direction = "desc" /\ Deep(T, logs, n)) => Deep(U, logs, n + by)
      <4>1. MovedBy(T, U, q, by, shifted, after, logs, load, loadMore)
        BY <3>4, MovedPlaces, Zenon
      <4> QED
        BY <4>1 DEF MovedBy
    <3> QED
      BY <3>5 DEF T, after
  <2>10. ASSUME ~mixed, load.pc = "idle" PROVE HeldInv(U, q, logs, shifted')
    <3>1. HeldInv(Table(q), q, logs, shifted) /\ Within(Fitting(q), logs)
      BY <1>i, <2>10
    <3>2. ~shifted' => Numbered(U, q.direction, logs, 0, 0)
      BY <2>9, <3>1 DEF HeldInv
    <3>3. ASSUME q.direction = "desc", logs # <<>> PROVE Closed(U, logs)
      <4>1. PICK new \in Nat : new > written /\ U \subseteq Table(q) \cup {new}
        BY <1>t, <1>2, <2>6, NewEntry
      <4>2. logs[1] <= written /\ logs[1] \in Int /\ written \in Int
        <5>1. 1 \in 1..Len(logs)
          BY <1>t, <3>3
        <5> QED
          BY <1>t, <3>1, <5>1 DEF Within, Fitting
      <4>3. Closed(Table(q), logs)
        BY <3>1, <3>3 DEF HeldInv
      <4>4. \A e \in U : e <= logs[1] => e \in Table(q)
        BY <4>1, <4>2
      <4> QED
        BY <4>3, <4>4 DEF Closed
    <3>4. ASSUME q.direction = "desc", logs # <<>> PROVE Deep(U, logs, Len(logs))
      <4>1. Deep(Table(q), logs, Len(logs)) /\ Len(logs) \in Nat
        BY <1>t, <3>1, <3>4 DEF HeldInv
      <4>2. PICK j \in 1..Len(logs) : logs[j] \in Table(q) /\ Rank(Table(q), "desc", logs[j]) >= Len(logs)
        BY <4>1 DEF Deep
      <4>3. Rank(Table(q), "desc", logs[j]) \in Nat /\ Rank(U, "desc", logs[j]) = Rank(Table(q), "desc", logs[j]) + by
        BY <2>7, <3>4, <4>2
      <4>4. Rank(U, "desc", logs[j]) >= Len(logs) /\ logs[j] \in U
        BY <2>7, <4>1, <4>2, <4>3
      <4> QED
        BY <4>4 DEF Deep
    <3> QED
      BY <3>2, <3>3, <3>4 DEF HeldInv
  <2>11. (~mixed /\ load.pc = "idle") => Within(Fitting(q)', logs)
    BY <1>i, <2>3 DEF Within
  <2> QED
    BY <1>q, <1>i, <2>1, <2>2, <2>4, <2>6, <2>9, <2>10, <2>11 DEF LogsInv
<1>3. ASSUME NEW cutoff \in 1..MaxEntries, DeleteOlderThan(cutoff) PROVE LogsInv'
  <2>1. /\ cutoff \in purged + 1..written /\ purged' = cutoff
        /\ shifted' = (shifted \/ (Showing /\ filters.direction = "asc"))
        /\ UNCHANGED <<level, written, filters, logs, hasMore>> /\ UNCHANGED <<load, loadMore, mixed>>
    BY <1>3 DEF DeleteOlderThan
  <2>2. LogsTypeOK' /\ Sound(load)' /\ Sound(loadMore)'
    <3>1. purged' \in 0..written' /\ shifted' \in BOOLEAN
      BY <1>t, <2>1, LogsPageConstants
    <3> QED
      BY <1>t, <2>1, <3>1 DEF LogsTypeOK
  <2>3. \A query \in Filters : Fitting(query)' = Fitting(query) /\ (query.direction = "desc" => Table(query)' = Table(query))
    BY <1>t, <1>3, PurgedEntries
  <2>4. Within(Fitting(load.query), load.data)' /\ Within(Fitting(loadMore.query), loadMore.data)'
    <3>1. PICK ql, qm : ql = load.query /\ qm = loadMore.query
      OBVIOUS
    <3>2. Fitting(ql)' = Fitting(ql) /\ Fitting(qm)' = Fitting(qm)
      BY <2>1 DEF Fitting
    <3> QED
      BY <1>i, <2>1, <3>1, <3>2
  <2>5. CASE q.direction = "desc"
    <3>1. Table(q)' = Table(q) /\ Fitting(q)' = Fitting(q) /\ shifted' = shifted
      BY <1>t, <1>q, <2>1, <2>3, <2>5
    <3> QED
      BY <1>q, <1>i, <2>1, <2>2, <2>4, <3>1 DEF LogsInv
  <2>6. CASE q.direction = "asc" /\ Showing
    <3>1. shifted' = TRUE /\ q.direction # "desc"
      BY <1>q, <2>1, <2>6
    <3>2. \A T, U : LoadInv(T, q, load, loadMore, shifted) => LoadInv(U, q, load, loadMore, TRUE)
      BY <3>1 DEF LoadInv
    <3>3. \A T, U : LoadMoreInv(T, q, logs, loadMore, shifted) => LoadMoreInv(U, q, logs, loadMore, TRUE)
      BY <3>1 DEF LoadMoreInv
    <3>4. \A U : HeldInv(U, q, logs, TRUE)
      BY <3>1 DEF HeldInv
    <3>5. Fitting(q)' = Fitting(q)
      BY <2>3
    <3>6. PICK U : U = Table(q)'
      OBVIOUS
    <3>7. /\ ~mixed => LoadInv(U, q, load, loadMore, shifted')
          /\ (~mixed /\ load.pc = "idle") =>
                HeldInv(U, q, logs, shifted') /\ LoadMoreInv(U, q, logs, loadMore, shifted')
      BY <1>i, <3>1, <3>2, <3>3, <3>4
    <3> QED
      BY <1>q, <1>i, <2>1, <2>2, <2>4, <3>5, <3>6, <3>7 DEF LogsInv
  <2>7. CASE q.direction = "asc" /\ ~Showing
    <3>1. logs = <<>> /\ ~load.found /\ ~loadMore.found /\ q.direction # "desc" /\ shifted' = shifted
      BY <1>t, <1>q, <2>1, <2>7 DEF Showing
    <3>2. \A T, U : LoadInv(T, q, load, loadMore, shifted) => LoadInv(U, q, load, loadMore, shifted)
      BY <3>1 DEF LoadInv
    <3>3. \A T, U : LoadMoreInv(T, q, logs, loadMore, shifted) => LoadMoreInv(U, q, logs, loadMore, shifted)
      BY <3>1 DEF LoadMoreInv
    <3>4. \A U : HeldInv(U, q, logs, shifted)
      <4>1. Len(logs) = 0
        BY <3>1, EmptySeq
      <4> QED
        BY <3>1, <4>1 DEF HeldInv, Numbered
    <3>5. Fitting(q)' = Fitting(q)
      BY <2>3
    <3>6. PICK U : U = Table(q)'
      OBVIOUS
    <3>7. /\ ~mixed => LoadInv(U, q, load, loadMore, shifted')
          /\ (~mixed /\ load.pc = "idle") =>
                HeldInv(U, q, logs, shifted') /\ LoadMoreInv(U, q, logs, loadMore, shifted')
      BY <1>i, <3>1, <3>2, <3>3, <3>4
    <3> QED
      BY <1>q, <1>i, <2>1, <2>2, <2>4, <3>5, <3>6, <3>7 DEF LogsInv
  <2> QED
    BY <2>5, <2>6, <2>7 DEF Filters
<1>4. CASE Answer
  <2>1. /\ UNCHANGED <<level, written, purged, filters, logs, hasMore>> /\ UNCHANGED <<mixed, shifted>>
    BY <1>4 DEF Answer
  <2>2. \A query : Fitting(query)' = Fitting(query) /\ Table(query)' = Table(query)
    BY <1>s, <2>1
  <2>3. \A req \in Request : /\ CountEntries(req) \in Request /\ CountEntries(req).pc = req.pc
                              /\ CountEntries(req).query = req.query /\ CountEntries(req).skip = req.skip
                              /\ CountEntries(req).found = req.found /\ CountEntries(req).data = req.data
    <3>1. ASSUME NEW req \in Request PROVE Cardinality(Matches(req.query)) \in Nat
      <4>1. req.query \in Filters
        BY DEF Request
      <4> QED
        BY <1>t, <4>1, OrderedFacts
    <3> QED
      BY <3>1 DEF CountEntries, Request
  <2>4. ASSUME NEW req \in Request
        PROVE  /\ FindEntries(req) \in Request /\ FindEntries(req).pc = req.pc
               /\ FindEntries(req).query = req.query /\ FindEntries(req).skip = req.skip
               /\ FindEntries(req).found
               /\ Within(Fitting(req.query), FindEntries(req).data)
               /\ Numbered(Table(req.query), req.query.direction, FindEntries(req).data, req.skip, 0)
    <3>1. req.query \in Filters /\ req.skip \in Nat
      BY DEF Request
    <3> DEFINE page == FindMany(req.query, req.skip)
    <3>2. /\ page \in Seq(1..MaxEntries) /\ Within(Fitting(req.query), page)
          /\ Numbered(Table(req.query), req.query.direction, page, req.skip, 0)
      BY <1>t, <3>1, PageFacts
    <3>3. FindEntries(req) = Found(req, page)
      BY DEF FindEntries, Found
    <3> HIDE DEF page
    <3>4. /\ FindEntries(req) \in Request /\ FindEntries(req).pc = req.pc
          /\ FindEntries(req).query = req.query /\ FindEntries(req).skip = req.skip
          /\ FindEntries(req).found /\ FindEntries(req).data = page
      BY <3>2, <3>3, FoundRequest
    <3> QED
      BY <3>2, <3>4
  <2>5. CASE load.pc = "asked" /\ load' = FindEntries(load) /\ loadMore' = loadMore
    <3>1. /\ load' \in Request /\ load'.pc = "asked" /\ load'.query = load.query /\ load'.skip = load.skip /\ load'.found
          /\ Within(Fitting(load.query), load'.data)
          /\ Numbered(Table(load.query), load.query.direction, load'.data, load.skip, 0)
      BY <1>t, <2>4, <2>5
    <3>2. LogsTypeOK' /\ Sound(load)' /\ Sound(loadMore)'
      BY <1>t, <2>1, <2>5, <3>1 DEF LogsTypeOK, Sound
    <3>3. ~mixed => LoadInv(Table(q), q, load', loadMore, shifted)
      BY <1>i, <2>5, <3>1 DEF LoadInv
    <3> QED
      BY <1>q, <1>i, <2>1, <2>2, <2>5, <3>1, <3>2, <3>3 DEF LogsInv
  <2>6. CASE load.pc = "asked" /\ load' = CountEntries(load) /\ loadMore' = loadMore
    <3>1. /\ load' \in Request /\ load'.pc = load.pc /\ load'.query = load.query /\ load'.skip = load.skip
          /\ load'.found = load.found /\ load'.data = load.data
      BY <1>t, <2>3, <2>6
    <3>2. LogsTypeOK' /\ Sound(load)' /\ Sound(loadMore)'
      BY <1>t, <2>1, <2>6, <3>1 DEF LogsTypeOK, Sound
    <3>3. ~mixed => LoadInv(Table(q), q, load', loadMore, shifted)
      BY <1>i, <3>1 DEF LoadInv
    <3> QED
      BY <1>q, <1>i, <2>1, <2>2, <2>6, <3>1, <3>2, <3>3 DEF LogsInv
  <2>7. CASE loadMore.pc = "asked" /\ loadMore' = FindEntries(loadMore) /\ load' = load
    <3>1. /\ loadMore' \in Request /\ loadMore'.pc = "asked" /\ loadMore'.query = loadMore.query
          /\ loadMore'.skip = loadMore.skip /\ loadMore'.found
          /\ Within(Fitting(loadMore.query), loadMore'.data)
          /\ Numbered(Table(loadMore.query), loadMore.query.direction, loadMore'.data, loadMore.skip, 0)
      BY <1>t, <2>4, <2>7
    <3>2. LogsTypeOK' /\ Sound(load)' /\ Sound(loadMore)'
      BY <1>t, <2>1, <2>7, <3>1 DEF LogsTypeOK, Sound
    <3>3. ~mixed => LoadInv(Table(q), q, load, loadMore', shifted)
      BY <1>i, <2>7, <3>1 DEF LoadInv
    <3>4. ASSUME ~mixed, load.pc = "idle" PROVE LoadMoreInv(Table(q), q, logs, loadMore', shifted)
      <4>1. /\ loadMore.query = q /\ loadMore.skip = Len(logs) /\ logs # <<>> /\ HeldInv(Table(q), q, logs, shifted)
        BY <1>i, <2>7, <3>4 DEF LoadMoreInv
      <4>2. Len(logs) + 0 = Len(logs)
        BY <1>t
      <4>3. q.direction = "desc" => Deep(Table(q), logs, loadMore.skip + 0)
        BY <4>1, <4>2 DEF HeldInv
      <4> QED
        BY <3>1, <4>1, <4>3 DEF LoadMoreInv
    <3> QED
      BY <1>q, <1>i, <2>1, <2>2, <2>7, <3>1, <3>2, <3>3, <3>4 DEF LogsInv
  <2>8. CASE loadMore.pc = "asked" /\ loadMore' = CountEntries(loadMore) /\ load' = load
    <3>1. /\ loadMore' \in Request /\ loadMore'.pc = loadMore.pc /\ loadMore'.query = loadMore.query
          /\ loadMore'.skip = loadMore.skip /\ loadMore'.found = loadMore.found /\ loadMore'.data = loadMore.data
      BY <1>t, <2>3, <2>8
    <3>2. LogsTypeOK' /\ Sound(load)' /\ Sound(loadMore)'
      BY <1>t, <2>1, <2>8, <3>1 DEF LogsTypeOK, Sound
    <3>3. ~mixed => LoadInv(Table(q), q, load, loadMore', shifted)
      BY <1>i, <3>1 DEF LoadInv
    <3>4. (~mixed /\ load.pc = "idle") => LoadMoreInv(Table(q), q, logs, loadMore', shifted)
      BY <1>i, <3>1 DEF LoadMoreInv
    <3> QED
      BY <1>q, <1>i, <2>1, <2>2, <2>8, <3>1, <3>2, <3>3, <3>4 DEF LogsInv
  <2> QED
    BY <1>4, <2>5, <2>6, <2>7, <2>8 DEF Answer
<1>5. ASSUME NEW next \in Filters, ApplyFilters(next) PROVE LogsInv'
  <2>1. /\ filters' = next /\ load' = AskFor(next, 0) /\ mixed' = (loadMore.pc # "idle") /\ shifted' = FALSE
        /\ UNCHANGED <<level, written, purged, logs, hasMore, loadMore>>
    BY <1>5 DEF ApplyFilters
  <2>2. \A query : Fitting(query)' = Fitting(query) /\ Table(query)' = Table(query)
    BY <1>s, <2>1
  <2>3. /\ load' \in Request /\ load'.pc = "asked" /\ load'.query = next /\ load'.skip = 0
        /\ ~load'.found /\ load'.data = <<>>
    BY <2>1
  <2>4. LogsTypeOK' /\ Sound(load)' /\ Sound(loadMore)'
    BY <1>t, <2>1, <2>3 DEF LogsTypeOK, Sound
  <2>5. Within(Fitting(next), load'.data)
    BY <2>3, EmptySeq DEF Within
  <2>6. ~mixed' => LoadInv(Table(next), next, load', loadMore, shifted')
    BY <2>1, <2>3 DEF LoadInv
  <2> QED
    BY <1>i, <2>1, <2>2, <2>3, <2>4, <2>5, <2>6 DEF LogsInv
<1>6. CASE ShowLoad
  <2>1. /\ load.pc = "asked" /\ load.found /\ logs' = load.data /\ load' = NoAsk /\ hasMore' = More(load)
        /\ UNCHANGED <<level, written, purged, filters, loadMore, mixed, shifted>>
    BY <1>6 DEF ShowLoad, Answered
  <2>2. \A query : Fitting(query)' = Fitting(query) /\ Table(query)' = Table(query)
    BY <1>s, <2>1
  <2>3. LogsTypeOK' /\ Sound(load)' /\ Sound(loadMore)'
    <3>1. logs' \in Seq(1..MaxEntries) /\ hasMore' \in BOOLEAN
      BY <1>t, <2>1 DEF Request, More
    <3> QED
      BY <1>t, <2>1, <3>1 DEF LogsTypeOK, Sound
  <2>4. Within(Fitting(NoAsk.query), NoAsk.data)
    BY DEF Within
  <2>5. ASSUME ~mixed
        PROVE  /\ LoadInv(Table(q), q, NoAsk, loadMore, shifted)
               /\ Within(Fitting(q), load.data) /\ HeldInv(Table(q), q, load.data, shifted)
               /\ LoadMoreInv(Table(q), q, load.data, loadMore, shifted)
    <3>1. LoadInv(Table(q), q, load, loadMore, shifted)
      BY <1>i, <2>5
    <3>2. load.query = q /\ loadMore.pc = "idle"
      BY <2>1, <3>1 DEF LoadInv
    <3>3. HeldInv(Table(q), q, load.data, shifted)
      BY <1>t, <2>1, <3>1, LoadShown
    <3> QED
      BY <1>i, <3>2, <3>3 DEF LoadInv, LoadMoreInv
  <2> QED
    BY <1>q, <1>i, <2>1, <2>2, <2>3, <2>4, <2>5 DEF LogsInv
<1>7. CASE AskMore
  <2>1. /\ load.pc = "idle" /\ logs # <<>> /\ loadMore.pc = "idle" /\ loadMore' = AskFor(filters, Len(logs))
        /\ UNCHANGED <<level, written, purged, filters, logs, hasMore>> /\ UNCHANGED <<load, mixed, shifted>>
    BY <1>7 DEF AskMore, Offered
  <2>2. \A query : Fitting(query)' = Fitting(query) /\ Table(query)' = Table(query)
    BY <1>s, <2>1
  <2>3. /\ loadMore' \in Request /\ loadMore'.pc = "asked" /\ loadMore'.query = q /\ loadMore'.skip = Len(logs)
        /\ ~loadMore'.found /\ loadMore'.data = <<>>
    <3>1. Len(logs) \in Nat
      BY <1>t
    <3> QED
      BY <1>q, <2>1, <3>1
  <2>4. LogsTypeOK' /\ Sound(load)' /\ Sound(loadMore)'
    BY <1>t, <2>1, <2>3 DEF LogsTypeOK, Sound
  <2>5. Within(Fitting(q), loadMore'.data)
    BY <2>3, EmptySeq DEF Within
  <2>6. LoadInv(Table(q), q, load, loadMore', shifted) /\ LoadMoreInv(Table(q), q, logs, loadMore', shifted)
    BY <2>1, <2>3 DEF LoadInv, LoadMoreInv
  <2> QED
    BY <1>q, <1>i, <2>1, <2>2, <2>3, <2>4, <2>5, <2>6 DEF LogsInv
<1>8. CASE ShowMore
  <2>1. /\ loadMore.pc = "asked" /\ loadMore.found /\ logs' = logs \o loadMore.data /\ loadMore' = NoAsk
        /\ hasMore' = More(loadMore) /\ UNCHANGED <<level, written, purged, filters, load, mixed, shifted>>
    BY <1>8 DEF ShowMore, Answered, Extended
  <2>2. \A query : Fitting(query)' = Fitting(query) /\ Table(query)' = Table(query)
    BY <1>s, <2>1
  <2>3. loadMore.data \in Seq(1..MaxEntries)
    BY <1>t DEF Request
  <2>4. LogsTypeOK' /\ Sound(load)' /\ Sound(loadMore)'
    <3>1. logs' \in Seq(1..MaxEntries) /\ hasMore' \in BOOLEAN
      BY <1>t, <2>1, <2>3, ConcatProperties DEF More
    <3> QED
      BY <1>t, <2>1, <3>1 DEF LogsTypeOK, Sound
  <2>5. Within(Fitting(NoAsk.query), NoAsk.data)
    BY DEF Within
  <2>6. ~mixed => load.pc = "idle" /\ LoadInv(Table(q), q, load, NoAsk, shifted)
    <3>1. load.pc \in {"idle", "asked"}
      BY <1>t DEF Request
    <3> QED
      BY <1>i, <2>1, <3>1 DEF LoadInv
  <2>7. ASSUME ~mixed
        PROVE  /\ Within(Fitting(q), logs') /\ HeldInv(Table(q), q, logs', shifted)
               /\ LoadMoreInv(Table(q), q, logs', NoAsk, shifted)
    <3>1. /\ Within(Fitting(q), logs) /\ HeldInv(Table(q), q, logs, shifted)
          /\ LoadMoreInv(Table(q), q, logs, loadMore, shifted)
      BY <1>i, <2>6, <2>7
    <3>2. HeldInv(Table(q), q, logs', shifted)
      BY <1>t, <2>1, <3>1, MoreShown
    <3>3. Within(Fitting(q), loadMore.data)
      BY <1>i, <2>1, <3>1 DEF LoadMoreInv
    <3>4. Within(Fitting(q), logs')
      <4> SUFFICES ASSUME NEW i \in 1..Len(logs') PROVE logs'[i] \in Fitting(q)
        BY DEF Within
      <4>1. /\ Len(logs') = Len(logs) + Len(loadMore.data) /\ Len(logs) \in Nat /\ Len(loadMore.data) \in Nat
            /\ logs'[i] = IF i <= Len(logs) THEN logs[i] ELSE loadMore.data[i - Len(logs)]
        BY <1>t, <2>1, <2>3, ConcatProperties
      <4>2. CASE i <= Len(logs)
        BY <3>1, <4>1, <4>2 DEF Within
      <4>3. CASE ~(i <= Len(logs))
        <5>1. i - Len(logs) \in 1..Len(loadMore.data)
          BY <4>1, <4>3
        <5> QED
          BY <3>3, <4>1, <4>3, <5>1 DEF Within
      <4> QED
        BY <4>2, <4>3
    <3> QED
      BY <3>2, <3>4 DEF LoadMoreInv
  <2> QED
    BY <1>q, <1>i, <2>1, <2>2, <2>4, <2>5, <2>6, <2>7 DEF LogsInv
<1>9. CASE RequestFails
  <2>1. UNCHANGED <<level, written, purged, filters, logs, hasMore>> /\ shifted' = shifted
    BY <1>9 DEF RequestFails
  <2>2. \A query : Fitting(query)' = Fitting(query) /\ Table(query)' = Table(query)
    BY <1>s, <2>1
  <2>3. Within(Fitting(NoAsk.query), NoAsk.data)
    BY DEF Within
  <2>4. CASE load' = NoAsk /\ mixed' = TRUE /\ loadMore' = loadMore
    <3>1. LogsTypeOK' /\ Sound(load)' /\ Sound(loadMore)'
      BY <1>t, <2>1, <2>4 DEF LogsTypeOK, Sound
    <3> QED
      BY <1>i, <2>1, <2>2, <2>3, <2>4, <3>1 DEF LogsInv
  <2>5. CASE loadMore' = NoAsk /\ UNCHANGED <<load, mixed>>
    <3>1. LogsTypeOK' /\ Sound(load)' /\ Sound(loadMore)'
      BY <1>t, <2>1, <2>5 DEF LogsTypeOK, Sound
    <3>2. ~mixed => LoadInv(Table(q), q, load, NoAsk, shifted)
      BY <1>i DEF LoadInv
    <3>3. LoadMoreInv(Table(q), q, logs, NoAsk, shifted)
      BY DEF LoadMoreInv
    <3> QED
      BY <1>q, <1>i, <2>1, <2>2, <2>3, <2>5, <3>1, <3>2, <3>3 DEF LogsInv
  <2> QED
    BY <1>9, <2>4, <2>5 DEF RequestFails
<1> QED
  BY <1>1, <1>2, <1>3, <1>4, <1>5, <1>6, <1>7, <1>8, <1>9 DEF LogsNext

(* The invariant of the page of log entries (useLogsPage,                   *)
(* LoggingRepository).                                                      *)
THEOREM LogsInvHolds == LogsSpec => []LogsInv
  BY LogsStart, LogsKept, PTL DEF LogsSpec

(* The pages that load() and loadMore() put together by offset have no entry*)
(* twice, none the filters exclude and no gap, though entries are written   *)
(* and purged between them, with the exceptions of PagesJoin.               *)
THEOREM PagesJoinHolds == LogsSpec => []PagesJoin
<1>1. LogsInv => PagesJoin
  <2> SUFFICES ASSUME LogsInv, load.pc = "idle", ~mixed
               PROVE  /\ ~shifted => Cardinality(Shown) = Len(logs)
                      /\ \A e \in Shown : filters.logLevel \in {level[e], AnyLevel}
                      /\ filters.direction = "desc" \/ ~shifted =>
                            \A e \in Matches(filters), f \in Shown :
                                (Precedes(logs[1], e) /\ Precedes(e, f)) => e \in Shown
    BY DEF PagesJoin
  <2>t. LogsTypeOK /\ filters \in Filters /\ logs \in Seq(1..MaxEntries) /\ Len(logs) \in Nat
    BY DEF LogsInv, LogsTypeOK
  <2> DEFINE T == Table(filters)
             d == filters.direction
  <2>1. Within(Fitting(filters), logs) /\ HeldInv(T, filters, logs, shifted)
    BY DEF LogsInv
  <2>o. /\ \A e \in T : Rank(T, d, e) \in Nat \ {0}
        /\ \A e, f \in T : Before(d, e, f) => Rank(T, d, e) < Rank(T, d, f)
        /\ \A e, f \in T : Rank(T, d, e) = Rank(T, d, f) => e = f
    BY <2>t, TableOrder
  <2>2. \A e \in Shown : filters.logLevel \in {level[e], AnyLevel}
    BY <2>1 DEF Shown, Within, Fitting
  <2>3. ASSUME ~shifted PROVE Cardinality(Shown) = Len(logs)
    <3> DEFINE I == 1..Len(logs)
               at == [i \in I |-> logs[i]]
    <3>1. \A i \in I : logs[i] \in T /\ Rank(T, d, logs[i]) = 0 + i + 0
      BY <2>1, <2>3 DEF HeldInv, Numbered
    <3>2. \A i, j \in I : logs[i] = logs[j] => i = j
      BY <3>1
    <3>3. at \in Surjection(I, Shown) /\ at \in Injection(I, Shown)
      BY <3>2 DEF Surjection, Injection, IsInjective, Shown
    <3>4. IsFiniteSet(I) /\ Cardinality(I) = Len(logs)
      <4> DEFINE n == Len(logs)
      <4> HIDE DEF n
      <4>1. n \in Nat
        BY <2>t DEF n
      <4>2. IsFiniteSet(1..n) /\ Cardinality(1..n) = n
        BY <4>1, FS_Interval
      <4> QED
        BY <4>2 DEF n
    <3> HIDE DEF I, at
    <3> QED
      BY <3>3, <3>4, FS_Surjection
  <2>4. ASSUME d = "desc" \/ ~shifted, NEW e \in Matches(filters), NEW f \in Shown,
               Precedes(logs[1], e), Precedes(e, f)
        PROVE  e \in Shown
    <3>1. PICK i \in 1..Len(logs) : f = logs[i]
      BY DEF Shown
    <3>2. e \in T /\ d \in {"asc", "desc"} /\ 1 \in 1..Len(logs) /\ logs # <<>>
      BY <2>t, <3>1, TableRank, EmptySeq DEF Filters
    <3>3. CASE d = "desc"
      <4>1. e \in Int /\ f \in Int /\ logs[1] \in Int
        <5>1. e \in 1..written /\ f \in 1..written /\ logs[1] \in 1..written
          BY <2>1, <3>1, <3>2 DEF Table, Fitting, Within
        <5> QED
          BY <5>1
      <4>2. logs[i] <= e /\ e <= logs[1]
        BY <2>4, <3>1, <3>3, <4>1 DEF Precedes
      <4> QED
        BY <2>1, <3>2, <3>3, <4>2 DEF HeldInv, Closed, Shown
    <3>4. CASE d = "asc"
      <4>1. \A j \in 1..Len(logs) : logs[j] \in T /\ Rank(T, d, logs[j]) = 0 + j + 0
        BY <2>1, <2>4, <3>4 DEF HeldInv, Numbered
      <4>2. Rank(T, d, e) < Rank(T, d, f) /\ Rank(T, d, e) \in Nat \ {0} /\ Rank(T, d, f) = i
        BY <2>4, <2>o, <3>1, <3>2, <3>4, <4>1 DEF Precedes, Before
      <4>3. Rank(T, d, e) \in 1..Len(logs)
        BY <2>t, <4>2
      <4>4. logs[Rank(T, d, e)] = e
        BY <2>o, <3>2, <4>1, <4>3
      <4> QED
        BY <4>3, <4>4 DEF Shown
    <3> QED
      BY <3>2, <3>3, <3>4
  <2> QED
    BY <2>2, <2>3, <2>4
<1> QED
  BY <1>1, LogsInvHolds, PTL

-----------------------------------------------------------------------------
(* The dashboard *)

(* A step of the dashboard is a step of the page that is open, and none of   *)
(* the others.                                                               *)
LEMMA PagesAreSteps ==
    [Next]_dashboardVars =>
        /\ [UsersPageNext]_usersPageVars /\ [EditorNext]_editorVars /\ [LogsNext]_logsVars
        /\ [InvitesPageNext]_invitesVars /\ [ServicesPageNext]_servicesPageVars
        /\ [SubscriptionsPageNext]_subscriptionsPageVars /\ [OwnNext]_ownVars
<1> SUFFICES ASSUME [Next]_dashboardVars
             PROVE  /\ [UsersPageNext]_usersPageVars /\ [EditorNext]_editorVars /\ [LogsNext]_logsVars
                    /\ [InvitesPageNext]_invitesVars /\ [ServicesPageNext]_servicesPageVars
                    /\ [SubscriptionsPageNext]_subscriptionsPageVars /\ [OwnNext]_ownVars
  OBVIOUS
<1>1. Page => UsersPageNext
  BY DEF Page
<1>2. EditPage => EditorNext
  BY DEF EditPage
<1>3. LogPage => LogsNext
  BY DEF LogPage
<1>4. InvitePage => InvitesPageNext
  BY DEF InvitePage
<1>5. ServicePage => ServicesPageNext
  BY DEF ServicePage
<1>6. SubscriptionPage => SubscriptionsPageNext
  BY DEF SubscriptionPage
<1>7. OwnPage => OwnNext
  BY DEF OwnPage
<1> QED
  BY <1>1, <1>2, <1>3, <1>4, <1>5, <1>6, <1>7 DEF Next, dashboardVars

(* Each page behaves in the dashboard as it does alone.                      *)
LEMMA PagesAlone ==
    Spec => /\ UsersPageSpec /\ EditorSpec /\ LogsSpec /\ InvitesPageSpec
            /\ ServicesPageSpec /\ SubscriptionsPageSpec /\ OwnSpec
<1>1. Init => /\ UsersPageInit /\ EditorInit /\ LogsInit /\ InvitesPageInit
              /\ ServicesPageInit /\ SubscriptionsPageInit /\ OwnInit
  BY DEF Init
<1> QED
  BY <1>1, PagesAreSteps, PTL DEF Spec, UsersPageSpec, EditorSpec, LogsSpec, InvitesPageSpec,
     ServicesPageSpec, SubscriptionsPageSpec, OwnSpec

(* All pages of the dashboard at once, the open one and those that rest:     *)
(* each follows what the server stores, and a cap that is saved leaves the   *)
(* access alone.                                                             *)
THEOREM DashboardFollows ==
    Spec => /\ [](RowsFollowActions /\ CountersFollowActions /\ EditorShowsStored /\ PagesJoin)
            /\ [](ListIsCurrent /\ FormsAgree /\ ServicesAreCurrent /\ RowsFollowAnswers /\ CardsAreCurrent)
            /\ CapLeavesAccess
  BY PagesAlone, RowsFollow, CountersFollow, EditorShows, PagesJoinHolds, ListCurrent, FormsAgreeHolds,
     ServicesCurrent, RowsFollowAnswersHolds, CardsCurrent, CapLeaves, PTL

(* All variables of the pages keep their types.                              *)
THEOREM DashboardTypesKept == Spec => []DashboardTypeOK
<1>1. UsersPageInv /\ CountersInv => UsersPageTypeOK
  BY DEF UsersPageInv, UsersTypes, CountersInv, UsersPageTypeOK
<1>2. /\ EditorInv => EditorTypeOK
      /\ LogsInv => LogsTypeOK
      /\ InvitesPageInv => InvitesPageTypeOK
  BY DEF EditorInv, LogsInv, InvitesPageInv
<1>3. /\ ServicesInv => ServicesPageTypeOK
      /\ PageRowsInv => SubscriptionsPageTypeOK
      /\ OwnInv => OwnTypeOK
  BY DEF ServicesInv, PageRowsInv, OwnInv
<1> QED
  BY <1>1, <1>2, <1>3, PagesAlone, UsersPageInvHolds, CountersInvHolds, EditorInvHolds, LogsInvHolds,
     InvitesPageInvHolds, ServicesInvHolds, PageRowsInvHolds, OwnInvHolds, PTL DEF DashboardTypeOK

==============================================================================
