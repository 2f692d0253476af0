------------------------- MODULE LinkedAccountsProofs -------------------------
(***************************************************************************)
(* The accounts of a MANAGED service, for any number of users, accounts,   *)
(* requests in flight and rows.                                            *)
(*                                                                         *)
(* Basics says where a handler may be and that two handlers of one user    *)
(* make the user tangled; every other invariant rests on it.  Spare keeps  *)
(* a second account beside the one that is being deleted.  CapInv counts,  *)
(* with the accounts of a user, the handlers that may still add one.       *)
(* Orderly speaks of the time before any two operations of one user        *)
(* overlapped: Works says what each handler relies on from one await to    *)
(* the next, and a step of a handler may only disturb what belongs to its  *)
(* own user (Frame), or to nobody.                                         *)
(***************************************************************************)
EXTENDS LinkedAccounts, FiniteSetTheorems, TLAPS

(* The stations of a handler, and what its locals hold there.                *)
TaskOK(t) ==
    \/ t = Idle
    \/ /\ t.user \in Users
       /\ \/ t.kind = "subscribe" /\ t.pc \in {"upsert", "create", "link", "activate"}
          \/ t.kind = "add" /\ t.pc \in {"create", "link"} /\ t.row # 0
          \/ t.kind = "remove" /\ t.pc \in {"deprovision", "unlink"}
          \/ t.kind = "cancel" /\ t.pc \in {"mark", "context", "deprovision", "drop"}
          \/ t.kind = "retry" /\ t.pc \in {"deprovision", "drop"}
          \/ t.kind = "disable" /\ t.pc \in {"mark", "disable", "settle"}
          \/ t.kind = "enable" /\ t.pc \in {"mark", "prune", "enable", "settle"}
          \/ t.kind = "invite" /\ t.pc \in {"claimRow", "claimLink"}
       /\ t.pc \in {"link", "activate"} => t.account \in Accounts
       /\ t.kind \in {"remove", "invite"} => t.account \in Accounts
       /\ t.pc = "claimLink" => t.row # 0

Placed == \A p \in Procs : TaskOK(task[p])

(* A status and linked accounts need a row.                                  *)
Rows ==
    /\ \A u \in Users : sub[u].id = 0 <=> sub[u].status = "none"
    /\ \A a \in Accounts : link[a] # None => sub[link[a]].id # 0

(* What is linked or at hand was minted.                                     *)
Minted ==
    \A a \in Accounts :
        vendor[a].state = "free" => link[a] = None /\ \A p \in Procs : task[p].account # a

(* Users whose operations never overlapped have one handler at most.         *)
Solo ==
    \A p \in Procs, q \in Procs :
        p # q /\ task[p].user = task[q].user /\ task[p].user # None => task[p].user \in tangled

Basics ==
    /\ AccountsTypeOK
    /\ Placed
    /\ Rows
    /\ Minted
    /\ Solo

-----------------------------------------------------------------------------
(* A handler that is not at work.                                            *)
LEMMA IdleType ==
    /\ Idle \in Task /\ TaskOK(Idle)
    /\ Idle.pc = "idle" /\ Idle.kind = "none" /\ Idle.user = None /\ Idle.account = None /\ Idle.row = 0
    /\ NoRow \in Row
  BY DEF Idle, Task, Pcs, Kinds, TaskOK, NoRow, Row, Statuses

(* Handler p goes on for the same user, or is done.                          *)
LEMMA TaskSet ==
    ASSUME task \in [Procs -> Task], Placed, Solo, NEW p \in Procs, NEW t \in Task, TaskOK(t),
           t = Idle \/ t.user = task[p].user,
           task' = [task EXCEPT ![p] = t], tangled' = tangled
    PROVE  task' \in [Procs -> Task] /\ Placed' /\ Solo'
<1>1. task' \in [Procs -> Task] /\ \A q \in Procs : task'[q] = IF q = p THEN t ELSE task[q]
  OBVIOUS
<1>2. Placed'
  BY <1>1 DEF Placed
<1>3. t.user = None \/ t.user = task[p].user
  BY DEF Idle
<1>4. Solo'
  BY <1>1, <1>3 DEF Solo
<1> QED
  BY <1>1, <1>2, <1>4

(* The status of u changes, and there is a row.                              *)
LEMMA StatusSet ==
    ASSUME AccountsTypeOK, Rows, NEW u \in Users, NEW s \in Statuses \ {"none"}, Exists(u),
           sub' = [sub EXCEPT ![u].status = s], link' = link
    PROVE  /\ sub' \in [Users -> Row] /\ Rows'
           /\ \A w \in Users : sub'[w].id = sub[w].id
           /\ \A w \in Users \ {u} : sub'[w] = sub[w]
           /\ sub'[u].status = s
<1> DEFINE r == [sub[u] EXCEPT !.status = s]
<1>1. sub[u] \in Row
  BY DEF AccountsTypeOK
<1>2. r \in Row /\ r.id = sub[u].id /\ r.status = s
  BY <1>1 DEF Row
<1>3. sub' = [sub EXCEPT ![u] = r] /\ sub \in [Users -> Row]
  BY DEF AccountsTypeOK
<1> HIDE DEF r
<1>4. sub' \in [Users -> Row] /\ \A w \in Users : sub'[w] = IF w = u THEN r ELSE sub[w]
  BY <1>2, <1>3
<1>5. \A a \in Accounts : link[a] \in Users \cup {None}
  BY DEF AccountsTypeOK
<1>6. Rows'
  BY <1>2, <1>4, <1>5 DEF Rows, Exists
<1> QED
  BY <1>2, <1>4, <1>6

(* What a catch block leaves.                                                *)
LEMMA ThrowKeeps ==
    ASSUME Basics, NEW p \in Procs, task[p] # Idle, Throw(p), link' = link, tangled' = tangled
    PROVE  /\ sub' \in [Users -> Row] /\ Rows'
           /\ task' \in [Procs -> Task] /\ Placed' /\ Solo'
           /\ task' = [task EXCEPT ![p] = Idle]
           /\ \A w \in Users : sub'[w].id = sub[w].id
           /\ \A w \in Users \ {task[p].user} : sub'[w] = sub[w]
           /\ sub'[task[p].user].status \in {sub[task[p].user].status, "failedProvisioning", "failedCancellation"}
<1> DEFINE u == task[p].user
           s == StatusAfterThrow(task[p].kind)
<1>1. u \in Users
  BY DEF Basics, Placed, TaskOK
<1>2. task' = [task EXCEPT ![p] = Idle]
  BY DEF Throw, Done
<1>3. task' \in [Procs -> Task] /\ Placed' /\ Solo'
  BY <1>2, IdleType, TaskSet DEF Basics, AccountsTypeOK
<1>4. s \in {"none", "failedProvisioning", "failedCancellation"}
  BY DEF StatusAfterThrow
<1>5. CASE s # "none" /\ Exists(u)
  <2>1. sub' = [sub EXCEPT ![u].status = s]
    BY <1>5 DEF Throw
  <2>2. s \in Statuses \ {"none"}
    BY <1>4, <1>5 DEF Statuses
  <2> HIDE DEF u, s
  <2> QED
    BY <1>1, <1>2, <1>3, <1>4, <1>5, <2>1, <2>2, StatusSet DEF Basics, u
<1>6. CASE ~(s # "none" /\ Exists(u))
  <2>1. sub' = sub
    BY <1>6 DEF Throw
  <2> QED
    BY <1>1, <1>2, <1>3, <2>1 DEF Basics, Rows, AccountsTypeOK
<1> QED
  BY <1>5, <1>6

(* Link stays, and so do the ids at hand, but for those that were minted.    *)
LEMMA MintedStays ==
    ASSUME Basics, NEW p \in Procs, task' \in [Procs -> Task],
           \A q \in Procs \ {p} : task'[q] = task[q],
           \A a \in Accounts : vendor'[a].state = "free" =>
               vendor[a].state = "free" /\ task'[p].account # a /\ link'[a] = link[a]
    PROVE  Minted'
  BY DEF Basics, Minted
-----------------------------------------------------------------------------
(* Types, stations, rows *)

(* A step of handler p that leaves vendor and links alone.                   *)
LEMMA TaskStep ==
    ASSUME Basics, NEW p \in Procs, NEW t \in Task, TaskOK(t),
           t = Idle \/ t.user = task[p].user,
           t.account \in {task[p].account, None},
           task' = [task EXCEPT ![p] = t],
           sub' \in [Users -> Row] /\ Rows', lost' \subseteq Accounts,
           UNCHANGED <<vendorName, vendor, link, tangled>>
    PROVE  Basics'
<1>1. task' \in [Procs -> Task] /\ Placed' /\ Solo'
  BY TaskSet DEF Basics, AccountsTypeOK
<1>2. task \in [Procs -> Task] /\ None \notin Accounts
  BY AccountsConstants DEF Basics, AccountsTypeOK
<1>3. Minted'
  BY <1>2 DEF Basics, Minted
<1>4. AccountsTypeOK'
  BY <1>1 DEF Basics, AccountsTypeOK
<1> QED
  BY <1>1, <1>3, <1>4 DEF Basics

(* A catch block keeps the basics.                                           *)
LEMMA ThrowStep ==
    ASSUME Basics, NEW p \in Procs, task[p] # Idle, Throw(p), lost' \subseteq Accounts,
           UNCHANGED <<vendorName, vendor, link, tangled>>
    PROVE  Basics'
<1>1. /\ sub' \in [Users -> Row] /\ Rows'
      /\ task' = [task EXCEPT ![p] = Idle]
  BY ThrowKeeps
<1> QED
  BY <1>1, TaskStep, IdleType

(* The handler of a process has the fields that its station needs.           *)
LEMMA BusyTask ==
    ASSUME Basics, NEW p \in Procs
    PROVE  /\ task[p] \in Task /\ TaskOK(task[p])
           /\ task[p].pc # "idle" <=> task[p] # Idle
           /\ task[p].pc # "idle" => task[p].user \in Users
  BY DEF Basics, Placed, TaskOK, Idle, AccountsTypeOK

(* The record that a handler becomes when it moves to another station.       *)
LEMMA Moved ==
    ASSUME Basics, NEW p \in Procs, NEW pc \in Pcs
    PROVE  LET t == [task[p] EXCEPT !.pc = pc] IN
           /\ [task EXCEPT ![p].pc = pc] = [task EXCEPT ![p] = t]
           /\ t \in Task /\ t.pc = pc /\ t.kind = task[p].kind /\ t.user = task[p].user
           /\ t.row = task[p].row /\ t.name = task[p].name /\ t.account = task[p].account
           /\ t.context = task[p].context /\ t.left = task[p].left
  BY DEF Basics, AccountsTypeOK, Task

(* A new row, of a user who had none.                                        *)
LEMMA RowSet ==
    ASSUME Basics, NEW u \in Users, ~Exists(u), NEW id \in 1..MaxRows,
           NEW s \in Statuses \ {"none"},
           sub' = [sub EXCEPT ![u] = [id |-> id, status |-> s]], link' = link
    PROVE  sub' \in [Users -> Row] /\ Rows'
<1>1. id \in Nat /\ id # 0
  BY AccountsConstants
<1>2. [id |-> id, status |-> s] \in Row
  BY <1>1 DEF Row
<1>3. sub' \in [Users -> Row] /\ \A w \in Users : sub'[w] = IF w = u THEN [id |-> id, status |-> s] ELSE sub[w]
  BY <1>2 DEF Basics, AccountsTypeOK
<1>4. \A a \in Accounts : link[a] \in Users \cup {None}
  BY DEF Basics, AccountsTypeOK
<1>5. Rows'
  BY <1>1, <1>3, <1>4 DEF Basics, Rows, Exists
<1> QED
  BY <1>3, <1>5

(* The row is there from here on, new or with another status.                *)
LEMMA UpsertKeeps ==
    ASSUME Basics, NEW p \in Procs, Upsert(p)
    PROVE  Basics'
<1> DEFINE u == task[p].user
<1>1. At(p, "upsert") /\ UNCHANGED <<vendorName, vendor, link, tangled, lost>>
  BY DEF Upsert
<1>2. u \in Users /\ task[p] \in Task /\ TaskOK(task[p]) /\ task[p].pc = "upsert"
  BY <1>1, BusyTask DEF At
<1>3. task[p].kind = "subscribe" /\ None \notin Users
  BY <1>2, AccountsConstants DEF TaskOK, Idle
<1>4. lost' \subseteq Accounts /\ sub \in [Users -> Row]
  BY <1>1 DEF Basics, AccountsTypeOK
<1>5. ASSUME NEW id \in Nat, task' = [task EXCEPT ![p].pc = "create", ![p].row = id],
             sub' \in [Users -> Row] /\ Rows'
      PROVE  Basics'
  <2> DEFINE t == [task[p] EXCEPT !.pc = "create", !.row = id]
  <2>1. /\ t \in Task /\ t.user = u /\ t.account = task[p].account
        /\ t.kind = "subscribe" /\ t.pc = "create"
    BY <1>2, <1>3 DEF Task, Pcs
  <2>2. task' = [task EXCEPT ![p] = t]
    BY <1>5
  <2> HIDE DEF t
  <2>3. TaskOK(t)
    BY <1>2, <2>1 DEF TaskOK
  <2> QED
    BY <1>1, <1>4, <1>5, <2>1, <2>2, <2>3, TaskStep
<1>6. CASE task[p].row # 0 /\ Exists(u) /\ sub' = [sub EXCEPT ![u].status = "provisioning"]
           /\ task' = [task EXCEPT ![p].pc = "create", ![p].row = sub[u].id]
  <2>1. sub' \in [Users -> Row] /\ Rows'
    BY <1>1, <1>2, <1>6, StatusSet DEF Basics, Statuses
  <2> QED
    BY <1>2, <1>4, <1>5, <1>6, <2>1 DEF Row
<1>7. ASSUME task[p].row = 0, ~Exists(u), NEW id \in 1..MaxRows,
             sub' = [sub EXCEPT ![u] = [id |-> id, status |-> "provisioning"]],
             task' = [task EXCEPT ![p].pc = "create", ![p].row = id]
      PROVE  Basics'
  <2>1. sub' \in [Users -> Row] /\ Rows'
    BY <1>1, <1>2, <1>7, RowSet DEF Statuses
  <2>2. id \in Nat
    BY AccountsConstants
  <2> QED
    BY <1>5, <1>7, <2>1, <2>2
<1>8. CASE Done(p) /\ UNCHANGED sub
  <2>1. Rows' /\ sub' \in [Users -> Row]
    BY <1>1, <1>4, <1>8 DEF Basics, Rows
  <2> QED
    BY <1>1, <1>4, <1>8, <2>1, TaskStep, IdleType DEF Done
<1> QED
  BY <1>6, <1>7, <1>8 DEF Upsert

(* The vendor after a call for one account.                                  *)
LEMMA StateSet ==
    ASSUME AccountsTypeOK, NEW a \in Accounts, NEW s \in {"on", "off", "gone"}
    PROVE  /\ SetState(a, s) \in [Accounts -> VendorAccount]
           /\ SetState(a, s)[a].state = s
           /\ \A b \in Accounts \ {a} : SetState(a, s)[b] = vendor[b]
<1> DEFINE v == [state |-> s, name |-> IF s = "gone" THEN None ELSE vendor[a].name]
<1>1. vendor \in [Accounts -> VendorAccount]
  BY DEF AccountsTypeOK
<1>2. v \in VendorAccount /\ v.state = s
  BY <1>1 DEF VendorAccount
<1>3. SetState(a, s) = [vendor EXCEPT ![a] = v]
  BY <1>1 DEF SetState
<1> HIDE DEF v
<1> QED
  BY <1>1, <1>2, <1>3

(* A step of handler p that changes the vendor, and frees no account.        *)
LEMMA VendorStep ==
    ASSUME Basics, NEW p \in Procs, NEW t \in Task, TaskOK(t),
           t = Idle \/ t.user = task[p].user,
           task' = [task EXCEPT ![p] = t],
           vendor' \in [Accounts -> VendorAccount],
           \A a \in Accounts : vendor'[a].state = "free" =>
               vendor[a].state = "free" /\ t.account # a,
           sub' \in [Users -> Row] /\ Rows', lost' \subseteq Accounts,
           UNCHANGED <<vendorName, link, tangled>>
    PROVE  Basics'
<1>1. task' \in [Procs -> Task] /\ Placed' /\ Solo'
  BY TaskSet DEF Basics, AccountsTypeOK
<1>2. task \in [Procs -> Task]
  BY DEF Basics, AccountsTypeOK
<1>3. Minted'
  BY <1>2 DEF Basics, Minted
<1>4. AccountsTypeOK'
  BY <1>1 DEF Basics, AccountsTypeOK
<1> QED
  BY <1>1, <1>3, <1>4 DEF Basics

(* A free account is minted before any handler has it at hand.               *)
LEMMA CreateKeeps ==
    ASSUME Basics, NEW p \in Procs, Create(p)
    PROVE  Basics'
<1> DEFINE reused == task[p].account
           u == task[p].user
<1>1. At(p, "create") /\ UNCHANGED <<vendorName, link, tangled>>
  BY DEF Create
<1>2. u \in Users /\ task[p] \in Task /\ TaskOK(task[p]) /\ task[p].pc = "create" /\ task[p] # Idle
  BY <1>1, BusyTask DEF At
<1>3. /\ task[p].kind = "subscribe" \/ (task[p].kind = "add" /\ task[p].row # 0)
      /\ None \notin Users /\ None \notin Accounts
  BY <1>2, AccountsConstants DEF TaskOK, Idle
<1>4. /\ sub \in [Users -> Row] /\ lost \subseteq Accounts /\ task \in [Procs -> Task]
      /\ vendor \in [Accounts -> VendorAccount] /\ Rows
  BY DEF Basics, AccountsTypeOK
<1>5. (Rows' /\ sub' \in [Users -> Row]) \/ sub' # sub
  BY <1>1, <1>4 DEF Rows
<1>6. CASE reused # None /\ Present(reused) /\ vendor' = SetState(reused, "on") /\ Goto(p, "link")
           /\ UNCHANGED <<sub, lost>>
  <2> DEFINE t == [task[p] EXCEPT !.pc = "link"]
  <2>1. /\ task' = [task EXCEPT ![p] = t] /\ t \in Task
        /\ t.pc = "link" /\ t.kind = task[p].kind /\ t.user = task[p].user
        /\ t.row = task[p].row /\ t.account = task[p].account
    BY <1>2, <1>4, <1>6 DEF Goto, Task, Pcs
  <2> HIDE DEF t
  <2>2. reused \in Accounts
    BY <1>2, <1>6 DEF Task
  <2>3. TaskOK(t)
    BY <1>2, <1>3, <2>1, <2>2 DEF TaskOK
  <2>4. /\ vendor' \in [Accounts -> VendorAccount]
        /\ \A a \in Accounts : vendor'[a].state = "free" => vendor[a].state = "free" /\ t.account # a
    BY <1>6, <2>1, <2>2, StateSet DEF Basics
  <2> QED
    BY <1>1, <1>4, <1>5, <1>6, <2>1, <2>3, <2>4, VendorStep
<1>7. ASSUME NEW a \in Accounts, vendor[a].state = "free",
             vendor' = [vendor EXCEPT ![a] = [state |-> "on", name |-> task[p].name]]
      PROVE  /\ vendor' \in [Accounts -> VendorAccount]
             /\ vendor'[a].state = "on" /\ \A b \in Accounts \ {a} : vendor'[b] = vendor[b]
  <2>1. [state |-> "on", name |-> task[p].name] \in VendorAccount
    BY <1>2 DEF Task, VendorAccount
  <2> QED
    BY <1>4, <1>7, <2>1
<1>8. ASSUME NEW a \in Accounts, vendor[a].state = "free",
             vendor' = [vendor EXCEPT ![a] = [state |-> "on", name |-> task[p].name]],
             task' = [task EXCEPT ![p].pc = "link", ![p].account = a, ![p].name = None],
             UNCHANGED <<sub, lost>>
      PROVE  Basics'
  <2> DEFINE t == [task[p] EXCEPT !.pc = "link", !.account = a, !.name = None]
  <2>1. /\ t \in Task /\ t.pc = "link" /\ t.kind = task[p].kind /\ t.user = task[p].user
        /\ t.row = task[p].row /\ t.account = a
    BY <1>2 DEF Task, Pcs
  <2>2. task' = [task EXCEPT ![p] = t]
    BY <1>8, ZenonT(60)
  <2> HIDE DEF t
  <2>3. TaskOK(t)
    BY <1>2, <1>3, <2>1 DEF TaskOK
  <2>4. \A b \in Accounts : vendor'[b].state = "free" => vendor[b].state = "free" /\ t.account # b
    BY <1>7, <1>8, <2>1
  <2>5. vendor' \in [Accounts -> VendorAccount]
    BY <1>7, <1>8
  <2>6. Rows' /\ sub' \in [Users -> Row] /\ lost' \subseteq Accounts
    BY <1>4, <1>5, <1>8
  <2>7. UNCHANGED <<vendorName, link, tangled>>
    BY <1>1
  <2> QED
    BY <1>1, <2>1, <2>2, <2>3, <2>4, <2>5, <2>6, <2>7, VendorStep
<1>9. ASSUME NEW a \in Accounts, vendor[a].state = "free",
             vendor' = [vendor EXCEPT ![a] = [state |-> "on", name |-> task[p].name]],
             Throw(p), lost' = lost \cup {a}
      PROVE  Basics'
  <2>1. sub' \in [Users -> Row] /\ Rows' /\ task' = [task EXCEPT ![p] = Idle]
    BY <1>1, <1>2, <1>9, ThrowKeeps
  <2>2. \A b \in Accounts : vendor'[b].state = "free" => vendor[b].state = "free" /\ Idle.account # b
    <3>1. \A b \in Accounts : vendor'[b].state = "free" => vendor[b].state = "free"
      BY <1>9, <1>7, ZenonT(60)
    <3>2. \A b \in Accounts : Idle.account # b
      BY <1>3, IdleType
    <3> QED
      BY <3>1, <3>2
  <2>3. vendor' \in [Accounts -> VendorAccount] /\ lost' \subseteq Accounts
    BY <1>4, <1>7, <1>9
  <2>4. UNCHANGED <<vendorName, link, tangled>>
    BY <1>1
  <2> QED
    BY <1>1, <2>1, <2>2, <2>3, <2>4, IdleType, VendorStep
<1>10. CASE Throw(p) /\ UNCHANGED <<vendor, lost>>
  BY <1>1, <1>2, <1>4, <1>10, ThrowStep
<1> QED
  BY <1>6, <1>8, <1>9, <1>10 DEF Create

(* A step of handler p that changes links.                                   *)
LEMMA LinkStep ==
    ASSUME Basics, NEW p \in Procs, NEW t \in Task, TaskOK(t),
           t = Idle \/ t.user = task[p].user,
           t.account \in {task[p].account, None},
           task' = [task EXCEPT ![p] = t],
           link' \in [Accounts -> Users \cup {None}],
           \A a \in Accounts : link'[a] # None => sub'[link'[a]].id # 0 /\ vendor[a].state # "free",
           sub' \in [Users -> Row], \A u \in Users : sub'[u].id = 0 <=> sub'[u].status = "none",
           lost' \subseteq Accounts,
           UNCHANGED <<vendorName, vendor, tangled>>
    PROVE  Basics'
<1>1. task' \in [Procs -> Task] /\ Placed' /\ Solo'
  BY TaskSet DEF Basics, AccountsTypeOK
<1>2. task \in [Procs -> Task] /\ None \notin Accounts
  BY AccountsConstants DEF Basics, AccountsTypeOK
<1>3. Minted'
  BY <1>2 DEF Basics, Minted
<1>4. AccountsTypeOK'
  BY <1>1 DEF Basics, AccountsTypeOK
<1>5. Rows'
  BY DEF Rows
<1> QED
  BY <1>1, <1>3, <1>4, <1>5 DEF Basics

(* A link is made only for a row that stands.                                *)
LEMMA LinkKeeps ==
    ASSUME Basics, NEW p \in Procs, Link(p)
    PROVE  Basics'
<1> DEFINE u == task[p].user
           a == task[p].account
<1>1. At(p, "link") /\ UNCHANGED <<vendorName, vendor, tangled>>
  BY DEF Link
<1>2. u \in Users /\ task[p] \in Task /\ TaskOK(task[p]) /\ task[p].pc = "link" /\ task[p] # Idle
  BY <1>1, BusyTask DEF At
<1>3. a \in Accounts /\ None \notin Users
  BY <1>2, AccountsConstants DEF TaskOK, Idle
<1>4. task[p].kind = "subscribe" \/ (task[p].kind = "add" /\ task[p].row # 0)
  BY <1>2 DEF TaskOK, Idle
<1>5. /\ sub \in [Users -> Row] /\ lost \subseteq Accounts /\ task \in [Procs -> Task]
      /\ link \in [Accounts -> Users \cup {None}]
      /\ \A w \in Users : sub[w].id = 0 <=> sub[w].status = "none"
      /\ \A b \in Accounts : link[b] # None => sub[link[b]].id # 0 /\ vendor[b].state # "free"
      /\ vendor[a].state # "free"
  BY <1>3 DEF Basics, AccountsTypeOK, Rows, Minted
<1>6. ASSUME CanLink(p), UNCHANGED <<sub, lost>>,
             Done(p) \/ (Goto(p, "activate") /\ task[p].kind = "subscribe"),
             NEW l \in [Accounts -> Users \cup {None}], link' = [l EXCEPT ![a] = u],
             \A b \in Accounts : l[b] \in {link[b], None}
      PROVE  Basics'
  <2>1. /\ link' \in [Accounts -> Users \cup {None}]
        /\ \A b \in Accounts : link'[b] = IF b = a THEN u ELSE l[b]
    BY <1>2, <1>3, <1>6
  <2>2. \A b \in Accounts : link'[b] # None => sub'[link'[b]].id # 0 /\ vendor[b].state # "free"
    BY <1>5, <1>6, <2>1 DEF CanLink, RowStands
  <2>3. CASE Done(p)
    BY <1>1, <1>5, <1>6, <2>1, <2>2, <2>3, IdleType, LinkStep DEF Done
  <2>4. CASE Goto(p, "activate") /\ task[p].kind = "subscribe"
    <3> DEFINE t == [task[p] EXCEPT !.pc = "activate"]
    <3>1. /\ t \in Task /\ t.pc = "activate" /\ t.kind = task[p].kind /\ t.user = task[p].user
          /\ t.row = task[p].row /\ t.account = a
      BY <1>2 DEF Task, Pcs
    <3>2. task' = [task EXCEPT ![p] = t]
      BY <1>5, <2>4 DEF Goto
    <3> HIDE DEF t
    <3>3. TaskOK(t)
      BY <1>2, <1>3, <2>4, <3>1 DEF TaskOK
    <3> QED
      BY <1>1, <1>5, <1>6, <2>1, <2>2, <3>1, <3>2, <3>3, LinkStep
  <2> QED
    BY <1>6, <2>3, <2>4
<1>7. ASSUME CanLink(p), UNCHANGED <<sub, lost>>, task[p].kind = "subscribe",
             NEW first \in Linked(u), link' = [link EXCEPT ![first] = None, ![a] = u],
             Goto(p, "activate")
      PROVE  Basics'
  <2> DEFINE l == [link EXCEPT ![first] = None]
  <2>1. /\ l \in [Accounts -> Users \cup {None}] /\ link' = [l EXCEPT ![a] = u]
        /\ \A b \in Accounts : l[b] \in {link[b], None}
    BY <1>5, <1>7
  <2> HIDE DEF l
  <2> QED
    BY <1>6, <1>7, <2>1
<1>8. ASSUME CanLink(p), UNCHANGED <<sub, lost>>, link' = [link EXCEPT ![a] = u],
             IF task[p].kind = "add" THEN Done(p) ELSE Goto(p, "activate")
      PROVE  Basics'
  BY <1>4, <1>5, <1>6, <1>8
<1>9. CASE Throw(p) /\ lost' = lost \cup {a} /\ UNCHANGED link
  BY <1>1, <1>2, <1>3, <1>5, <1>9, ThrowStep
<1> QED
  BY <1>7, <1>8, <1>9 DEF Link

(* The status changes if there is a row.                                     *)
LEMMA ActivateKeeps ==
    ASSUME Basics, NEW p \in Procs, Activate(p)
    PROVE  Basics'
<1> DEFINE u == task[p].user
<1>1. At(p, "activate") /\ UNCHANGED <<vendorName, vendor, link, tangled, lost>>
  BY DEF Activate
<1>2. u \in Users /\ task[p] # Idle /\ lost' \subseteq Accounts
  BY <1>1, BusyTask DEF At, Basics, AccountsTypeOK
<1>3. CASE Exists(u) /\ sub' = [sub EXCEPT ![u].status = "active"] /\ Done(p)
  <2>1. sub' \in [Users -> Row] /\ Rows'
    BY <1>1, <1>2, <1>3, StatusSet DEF Basics, Statuses
  <2> QED
    BY <1>1, <1>2, <1>3, <2>1, TaskStep, IdleType DEF Done
<1>4. CASE Throw(p)
  BY <1>1, <1>2, <1>4, ThrowStep
<1> QED
  BY <1>3, <1>4 DEF Activate

(* A link less needs nothing.                                                *)
LEMMA UnlinkKeeps ==
    ASSUME Basics, NEW p \in Procs, Unlink(p)
    PROVE  Basics'
<1> DEFINE a == task[p].account
<1>1. /\ task' = [task EXCEPT ![p] = Idle] /\ task[p].pc = "unlink"
      /\ UNCHANGED <<vendorName, vendor, sub, tangled>>
      /\ link' = IF link[a] = task[p].user THEN [link EXCEPT ![a] = None] ELSE link
      /\ lost' = IF task[p].left # {} THEN lost \cup {a} ELSE lost
  BY DEF Unlink, Done, At
<1>2. task[p].kind = "remove" /\ a \in Accounts
  BY <1>1, BusyTask DEF TaskOK, Idle
<1>3. /\ sub \in [Users -> Row] /\ lost \subseteq Accounts
      /\ link \in [Accounts -> Users \cup {None}]
      /\ \A w \in Users : sub[w].id = 0 <=> sub[w].status = "none"
      /\ \A b \in Accounts : link[b] # None => sub[link[b]].id # 0 /\ vendor[b].state # "free"
  BY DEF Basics, AccountsTypeOK, Rows, Minted
<1>4. link' \in [Accounts -> Users \cup {None}] /\ \A b \in Accounts : link'[b] \in {link[b], None}
  BY <1>1, <1>3
<1> QED
  BY <1>1, <1>2, <1>3, <1>4, IdleType, LinkStep

(* The status changes if there is a row; the context is of accounts.         *)
LEMMA MarkKeeps ==
    ASSUME Basics, NEW p \in Procs, Mark(p)
    PROVE  Basics'
<1> DEFINE u == task[p].user
           kind == task[p].kind
           pc == IF kind = "cancel" THEN "context" ELSE EnterLoops(kind, task[p].context)
           t == [task[p] EXCEPT !.left = task[p].context, !.pc = pc]
<1>1. At(p, "mark") /\ UNCHANGED <<vendorName, vendor, link, tangled, lost>>
  BY DEF Mark
<1>2. u \in Users /\ task[p] \in Task /\ TaskOK(task[p]) /\ task[p].pc = "mark" /\ task[p] # Idle
  BY <1>1, BusyTask DEF At
<1>3. kind \in {"cancel", "disable", "enable"} /\ lost' \subseteq Accounts /\ task \in [Procs -> Task]
  BY <1>1, <1>2 DEF TaskOK, Idle, Basics, AccountsTypeOK
<1>4. ASSUME Exists(u), sub' = [sub EXCEPT ![u].status = TransitionalStatus(kind)],
             task' = [task EXCEPT ![p].left = task[p].context, ![p].pc = pc]
      PROVE  Basics'
  <2>1. TransitionalStatus(kind) \in Statuses \ {"none"}
    BY DEF TransitionalStatus, Statuses
  <2>2. sub' \in [Users -> Row] /\ Rows'
    BY <1>1, <1>2, <1>4, <2>1, StatusSet DEF Basics
  <2>3. /\ kind = "cancel" => pc = "context"
        /\ kind = "disable" => pc \in {"disable", "settle"}
        /\ kind = "enable" => pc \in {"prune", "settle"}
    BY <1>3 DEF EnterLoops, AfterLoops, FirstLoop
  <2>4. pc \in Pcs
    BY <1>3, <2>3 DEF Pcs
  <2>5. task' = [task EXCEPT ![p] = t]
    BY <1>3, <1>4
  <2> HIDE DEF pc
  <2>6. t \in Task /\ t.pc = pc /\ t.kind = kind /\ t.user = u /\ t.account = task[p].account
    BY <1>2, <2>4 DEF Task
  <2> HIDE DEF t
  <2>7. TaskOK(t)
    BY <1>2, <1>3, <2>3, <2>6 DEF TaskOK
  <2> QED
    BY <1>1, <1>3, <2>2, <2>5, <2>6, <2>7, TaskStep
<1>5. CASE Throw(p)
  BY <1>1, <1>2, <1>3, <1>5, ThrowStep
<1> QED
  BY <1>4, <1>5 DEF Mark

(* The context of a row that is gone is empty.                               *)
LEMMA BuildContextKeeps ==
    ASSUME Basics, NEW p \in Procs, BuildContext(p)
    PROVE  Basics'
<1> DEFINE accounts == IF RowStands(p) THEN Linked(task[p].user) ELSE {}
           pc == EnterLoops(task[p].kind, accounts)
           t == [task[p] EXCEPT !.left = accounts, !.pc = pc]
<1>1. /\ At(p, "context") /\ UNCHANGED <<vendorName, vendor, link, sub, tangled, lost>>
      /\ task' = [task EXCEPT ![p].left = accounts, ![p].pc = pc]
  BY DEF BuildContext
<1>2. task[p].user \in Users /\ task[p] \in Task /\ TaskOK(task[p]) /\ task[p].pc = "context"
  BY <1>1, BusyTask DEF At
<1>3. /\ task[p].kind = "cancel" /\ lost' \subseteq Accounts /\ task \in [Procs -> Task]
      /\ sub' \in [Users -> Row] /\ Rows'
  BY <1>1, <1>2 DEF TaskOK, Idle, Basics, AccountsTypeOK, Rows
<1>4. pc \in {"drop", "deprovision"}
  BY <1>3 DEF EnterLoops, AfterLoops, FirstLoop
<1>5. pc \in Pcs /\ accounts \in SUBSET Accounts
  BY <1>4 DEF Pcs, Linked
<1>6. task' = [task EXCEPT ![p] = t]
  BY <1>1, <1>3
<1> HIDE DEF pc, accounts
<1>7. t \in Task /\ t.pc = pc /\ t.kind = "cancel" /\ t.user = task[p].user /\ t.account = task[p].account
  BY <1>2, <1>3, <1>5 DEF Task
<1> HIDE DEF t
<1>8. TaskOK(t)
  BY <1>2, <1>3, <1>4, <1>7 DEF TaskOK
<1> QED
  BY <1>1, <1>3, <1>6, <1>7, <1>8, TaskStep

(* One round of a loop keeps the handler on its way.                         *)
LEMMA RoundTask ==
    ASSUME Basics, NEW p \in Procs, NEW a \in task[p].left,
           task[p].pc \in {"deprovision", "disable", "prune", "enable"}
    PROVE  LET t == AfterRound(p, a) IN
           /\ t \in Task /\ TaskOK(t)
           /\ t.kind = task[p].kind /\ t.user = task[p].user /\ t.row = task[p].row
           /\ t.account = task[p].account
           /\ \/ t.pc = task[p].pc /\ t.left = task[p].left \ {a} /\ t.left # {}
                 /\ t.context = task[p].context
              \/ /\ task[p].left \ {a} = {}
                 /\ IF task[p].pc = "prune"
                    THEN t.pc = "enable" /\ t.left = task[p].context /\ t.context = task[p].context
                    ELSE t.pc = AfterLoops(task[p].kind) /\ t.left = {} /\ t.context = {}
<1> DEFINE t == AfterRound(p, a)
           left == task[p].left \ {a}
           u == task[p].user
<1>1. task[p] \in Task /\ TaskOK(task[p]) /\ task[p] # Idle
  BY BusyTask
<1>2. /\ u \in Users
      /\ \/ task[p].kind \in {"remove", "cancel", "retry"} /\ task[p].pc = "deprovision"
         \/ task[p].kind = "disable" /\ task[p].pc = "disable"
         \/ task[p].kind = "enable" /\ task[p].pc \in {"prune", "enable"}
      /\ task[p].kind = "remove" => task[p].account \in Accounts
  BY <1>1 DEF TaskOK
<1>3. CASE left # {}
  <2>1. t = [task[p] EXCEPT !.left = left]
    BY <1>3 DEF AfterRound
  <2>2. left \in SUBSET Accounts
    BY <1>1 DEF Task
  <2> HIDE DEF t, left
  <2>3. /\ t \in Task /\ t.kind = task[p].kind /\ t.user = u /\ t.row = task[p].row
        /\ t.account = task[p].account /\ t.pc = task[p].pc /\ t.left = left /\ t.context = task[p].context
    BY <1>1, <2>1, <2>2 DEF Task
  <2>4. TaskOK(t)
    BY <1>2, <2>3 DEF TaskOK
  <2> QED
    BY <1>3, <2>3, <2>4 DEF t, left
<1>4. CASE left = {} /\ task[p].pc = "prune"
  <2>1. t = [task[p] EXCEPT !.pc = "enable", !.left = task[p].context]
    BY <1>4 DEF AfterRound
  <2> HIDE DEF t
  <2>2. /\ t \in Task /\ t.kind = task[p].kind /\ t.user = u /\ t.row = task[p].row
        /\ t.account = task[p].account /\ t.pc = "enable" /\ t.left = task[p].context
        /\ t.context = task[p].context
    BY <1>1, <2>1 DEF Task, Pcs
  <2>3. TaskOK(t)
    BY <1>2, <1>4, <2>2 DEF TaskOK
  <2> QED
    BY <1>4, <2>2, <2>3 DEF t
<1>5. CASE left = {} /\ task[p].pc # "prune"
  <2>1. t = [task[p] EXCEPT !.left = {}, !.context = {}, !.pc = AfterLoops(task[p].kind)]
    BY <1>5 DEF AfterRound
  <2>2. /\ task[p].kind = "remove" => AfterLoops(task[p].kind) = "unlink"
        /\ task[p].kind \in {"cancel", "retry"} => AfterLoops(task[p].kind) = "drop"
        /\ task[p].kind \in {"disable", "enable"} => AfterLoops(task[p].kind) = "settle"
    BY DEF AfterLoops
  <2>3. AfterLoops(task[p].kind) \in Pcs
    BY <1>2, <2>2 DEF Pcs
  <2> HIDE DEF t
  <2>4. /\ t \in Task /\ t.kind = task[p].kind /\ t.user = u /\ t.row = task[p].row
        /\ t.account = task[p].account /\ t.pc = AfterLoops(task[p].kind) /\ t.left = {}
        /\ t.context = {}
    BY <1>1, <2>1, <2>3 DEF Task
  <2>5. TaskOK(t)
    BY <1>2, <1>5, <2>2, <2>4 DEF TaskOK
  <2> QED
    BY <1>5, <2>4, <2>5 DEF t, left
<1> QED
  BY <1>3, <1>4, <1>5

(* A round of a loop frees no account.                                       *)
LEMMA RoundKeeps ==
    ASSUME Basics, NEW p \in Procs, NEW loop \in {"deprovision", "disable", "enable"},
           NEW states \in SUBSET {"on", "off"}, NEW after \in {"on", "off", "gone"},
           Round(p, loop, states, after)
    PROVE  Basics'
<1>0. AccountsTypeOK /\ after # "free"
  BY DEF Basics
<1>1. task[p].pc = loop /\ UNCHANGED <<vendorName, link, tangled, lost>>
  BY DEF Round, At
<1>2. task[p] # Idle /\ task[p] \in Task
  BY <1>1, BusyTask
<1>3. /\ vendor \in [Accounts -> VendorAccount] /\ lost' \subseteq Accounts
      /\ sub \in [Users -> Row] /\ Rows /\ Minted
  BY <1>1 DEF Basics, AccountsTypeOK
<1>4. ASSUME NEW a \in task[p].left,
             IF vendor[a].state \in states THEN vendor' = SetState(a, after) ELSE UNCHANGED vendor,
             task' = [task EXCEPT ![p] = AfterRound(p, a)], UNCHANGED sub
      PROVE  Basics'
  <2> DEFINE t == AfterRound(p, a)
  <2>1. t \in Task /\ TaskOK(t) /\ t.user = task[p].user /\ t.account = task[p].account
    BY <1>1, RoundTask
  <2>2. a \in Accounts
    BY <1>2 DEF Task
  <2>3. /\ vendor' \in [Accounts -> VendorAccount]
        /\ \A b \in Accounts : vendor'[b].state = "free" => vendor[b].state = "free"
    <3>1. CASE vendor[a].state \in states /\ vendor' = SetState(a, after)
      <4>1. /\ vendor' \in [Accounts -> VendorAccount] /\ vendor'[a].state = after
            /\ \A b \in Accounts \ {a} : vendor'[b] = vendor[b]
        BY <1>0, <2>2, <3>1, StateSet
      <4> QED
        BY <1>0, <4>1
    <3>2. CASE vendor' = vendor
      BY <1>3, <3>2
    <3> QED
      BY <1>4, <3>1, <3>2
  <2>4. \A b \in Accounts : vendor'[b].state = "free" => t.account # b
    BY <1>3, <2>1, <2>3 DEF Minted
  <2>5. sub' \in [Users -> Row] /\ Rows'
    BY <1>1, <1>3, <1>4 DEF Rows
  <2> HIDE DEF t
  <2> QED
    BY <1>1, <1>3, <1>4, <2>1, <2>3, <2>4, <2>5, VendorStep DEF t
<1>5. CASE Throw(p) /\ UNCHANGED vendor
  BY <1>1, <1>2, <1>3, <1>5, ThrowStep
<1> QED
  BY <1>4, <1>5 DEF Round

(* The loops over the accounts of a context keep the basics.                 *)
LEMMA LoopsKeep ==
    ASSUME Basics, NEW p \in Procs, Deprovision(p) \/ DisableAccounts(p) \/ EnableAccounts(p)
    PROVE  Basics'
<1>1. StateAfterDelete \in {"off", "gone"}
  BY DEF StateAfterDelete
<1>2. ASSUME Deprovision(p) PROVE Basics'
  BY <1>1, <1>2, RoundKeeps DEF Deprovision
<1>3. ASSUME DisableAccounts(p) PROVE Basics'
  BY <1>3, RoundKeeps DEF DisableAccounts
<1>4. ASSUME EnableAccounts(p) PROVE Basics'
  BY <1>4, RoundKeeps DEF EnableAccounts
<1> QED
  BY <1>2, <1>3, <1>4

(* Dropping a link needs nothing.                                            *)
LEMMA PruneKeeps ==
    ASSUME Basics, NEW p \in Procs, Prune(p)
    PROVE  Basics'
<1>1. task[p].pc = "prune" /\ UNCHANGED <<vendorName, vendor, tangled, lost>>
  BY DEF Prune, At
<1>2. task[p] # Idle /\ task[p] \in Task
  BY <1>1, BusyTask
<1>3. /\ lost' \subseteq Accounts /\ sub \in [Users -> Row] /\ link \in [Accounts -> Users \cup {None}]
      /\ \A w \in Users : sub[w].id = 0 <=> sub[w].status = "none"
      /\ \A b \in Accounts : link[b] # None => sub[link[b]].id # 0 /\ vendor[b].state # "free"
  BY <1>1 DEF Basics, AccountsTypeOK, Rows, Minted
<1>4. ASSUME NEW a \in task[p].left,
             link' = IF Present(a) THEN link ELSE [link EXCEPT ![a] = None],
             task' = [task EXCEPT ![p] = AfterRound(p, a)], UNCHANGED sub
      PROVE  Basics'
  <2> DEFINE t == AfterRound(p, a)
  <2>1. t \in Task /\ TaskOK(t) /\ t.user = task[p].user /\ t.account = task[p].account
    BY <1>1, RoundTask
  <2>2. link' \in [Accounts -> Users \cup {None}] /\ \A b \in Accounts : link'[b] \in {link[b], None}
    BY <1>3, <1>4
  <2> HIDE DEF t
  <2> QED
    BY <1>1, <1>3, <1>4, <2>1, <2>2, LinkStep DEF t
<1>5. CASE Throw(p) /\ UNCHANGED link
  BY <1>1, <1>2, <1>3, <1>5, ThrowStep
<1> QED
  BY <1>4, <1>5 DEF Prune

(* The status changes if there is a row.                                     *)
LEMMA SettleKeeps ==
    ASSUME Basics, NEW p \in Procs, Settle(p)
    PROVE  Basics'
<1> DEFINE u == task[p].user
           s == IF task[p].kind = "disable" THEN "disabled" ELSE "active"
<1>1. /\ task[p].pc = "settle" /\ UNCHANGED <<vendorName, vendor, link, tangled, lost>>
      /\ task' = [task EXCEPT ![p] = Idle]
      /\ sub' = IF Exists(u) THEN [sub EXCEPT ![u].status = s] ELSE sub
  BY DEF Settle, At, Done
<1>2. u \in Users /\ lost' \subseteq Accounts /\ s \in Statuses \ {"none"}
  BY <1>1, BusyTask DEF Basics, AccountsTypeOK, Statuses
<1> HIDE DEF u, s
<1>3. sub' \in [Users -> Row] /\ Rows'
  <2>1. CASE Exists(u)
    BY <1>1, <1>2, <2>1, StatusSet DEF Basics
  <2>2. CASE ~Exists(u)
    BY <1>1, <2>2 DEF Basics, AccountsTypeOK, Rows
  <2> QED
    BY <2>1, <2>2
<1> QED
  BY <1>1, <1>2, <1>3, TaskStep, IdleType

(* The row goes, and its links with it.                                      *)
LEMMA DropKeeps ==
    ASSUME Basics, NEW p \in Procs, Drop(p)
    PROVE  Basics'
<1> DEFINE u == task[p].user
<1>1. /\ task[p].pc = "drop" /\ UNCHANGED <<vendorName, vendor, tangled, lost>>
      /\ task' = [task EXCEPT ![p] = Idle]
      /\ sub' = [sub EXCEPT ![u] = NoRow]
      /\ link' = [a \in Accounts |-> IF link[a] = u THEN None ELSE link[a]]
  BY DEF Drop, At, Done
<1>2. u \in Users
  BY <1>1, BusyTask
<1>3. /\ lost' \subseteq Accounts /\ sub \in [Users -> Row] /\ link \in [Accounts -> Users \cup {None}]
      /\ \A w \in Users : sub[w].id = 0 <=> sub[w].status = "none"
      /\ \A b \in Accounts : link[b] # None => sub[link[b]].id # 0 /\ vendor[b].state # "free"
  BY <1>1 DEF Basics, AccountsTypeOK, Rows, Minted
<1>4. sub' \in [Users -> Row] /\ \A w \in Users : sub'[w] = IF w = u THEN NoRow ELSE sub[w]
  BY <1>1, <1>3, IdleType
<1>5. /\ link' \in [Accounts -> Users \cup {None}]
      /\ \A b \in Accounts : link'[b] # None => link'[b] = link[b] /\ link'[b] # u
  BY <1>1, <1>3
<1>6. \A w \in Users : sub'[w].id = 0 <=> sub'[w].status = "none"
  BY <1>3, <1>4 DEF NoRow
<1>7. \A b \in Accounts : link'[b] # None => sub'[link'[b]].id # 0 /\ vendor[b].state # "free"
  BY <1>3, <1>4, <1>5
<1> QED
  BY <1>1, <1>3, <1>4, <1>5, <1>6, <1>7, IdleType, LinkStep

(* The row of the listener is there from here on.                            *)
LEMMA ClaimRowKeeps ==
    ASSUME Basics, NEW p \in Procs, ClaimRow(p)
    PROVE  Basics'
<1> DEFINE u == task[p].user
<1>1. At(p, "claimRow") /\ UNCHANGED <<vendorName, vendor, link, tangled, lost>>
  BY DEF ClaimRow
<1>2. u \in Users /\ task[p] \in Task /\ TaskOK(task[p]) /\ task[p].pc = "claimRow"
  BY <1>1, BusyTask DEF At
<1>3. /\ task[p].kind = "invite" /\ task[p].account \in Accounts /\ lost' \subseteq Accounts
      /\ sub \in [Users -> Row] /\ task \in [Procs -> Task]
  BY <1>1, <1>2 DEF TaskOK, Idle, Basics, AccountsTypeOK
<1>4. ASSUME ~Exists(u), NEW id \in 1..MaxRows,
             sub' = [sub EXCEPT ![u] = [id |-> id, status |-> "active"]],
             task' = [task EXCEPT ![p].pc = "claimLink", ![p].row = id]
      PROVE  Basics'
  <2> DEFINE t == [task[p] EXCEPT !.pc = "claimLink", !.row = id]
  <2>1. sub' \in [Users -> Row] /\ Rows'
    BY <1>1, <1>2, <1>4, RowSet DEF Statuses
  <2>2. id \in Nat /\ id # 0
    BY AccountsConstants
  <2>3. task' = [task EXCEPT ![p] = t]
    BY <1>3, <1>4
  <2>4. /\ t \in Task /\ t.user = u /\ t.account = task[p].account
        /\ t.kind = "invite" /\ t.pc = "claimLink" /\ t.row = id
    BY <1>2, <1>3, <2>2 DEF Task, Pcs
  <2> HIDE DEF t
  <2>5. TaskOK(t)
    BY <1>2, <1>3, <2>2, <2>4 DEF TaskOK
  <2> QED
    BY <1>1, <1>3, <2>1, <2>3, <2>4, <2>5, TaskStep
<1>5. CASE Done(p) /\ UNCHANGED sub
  <2>1. Rows' /\ sub' \in [Users -> Row]
    BY <1>1, <1>3, <1>5 DEF Basics, Rows
  <2> QED
    BY <1>1, <1>3, <1>5, <2>1, TaskStep, IdleType DEF Done
<1> QED
  BY <1>4, <1>5 DEF ClaimRow

(* The listener links only to a row that stands.                             *)
LEMMA ClaimLinkKeeps ==
    ASSUME Basics, NEW p \in Procs, ClaimLink(p)
    PROVE  Basics'
<1> DEFINE u == task[p].user
           a == task[p].account
<1>1. /\ task[p].pc = "claimLink" /\ UNCHANGED <<vendorName, vendor, sub, tangled, lost>>
      /\ task' = [task EXCEPT ![p] = Idle]
      /\ link' = IF CanClaim(p) THEN [link EXCEPT ![a] = u] ELSE link
  BY DEF ClaimLink, At, Done
<1>2. u \in Users /\ a \in Accounts
  BY <1>1, BusyTask DEF TaskOK, Idle
<1>3. /\ lost' \subseteq Accounts /\ sub \in [Users -> Row] /\ link \in [Accounts -> Users \cup {None}]
      /\ \A w \in Users : sub[w].id = 0 <=> sub[w].status = "none"
      /\ \A b \in Accounts : link[b] # None => sub[link[b]].id # 0 /\ vendor[b].state # "free"
      /\ vendor[a].state # "free"
  BY <1>1, <1>2 DEF Basics, AccountsTypeOK, Rows, Minted
<1>4. /\ link' \in [Accounts -> Users \cup {None}]
      /\ \A b \in Accounts : link'[b] = link[b] \/ (b = a /\ link'[b] = u /\ CanClaim(p))
  BY <1>1, <1>2, <1>3
<1>5. \A b \in Accounts : link'[b] # None => sub'[link'[b]].id # 0 /\ vendor[b].state # "free"
  BY <1>1, <1>3, <1>4 DEF CanClaim, RowStands
<1> QED
  BY <1>1, <1>3, <1>4, <1>5, IdleType, LinkStep

-----------------------------------------------------------------------------
(* Requests *)

(* What each request has read when it starts a handler with locals t.        *)
Starts(u, t) ==
    \/ /\ t.kind = "subscribe" /\ t.pc = "upsert"
       /\ \/ t.account \in Linked(u) /\ Present(t.account)
          \/ t.account = None /\ \A b \in Linked(u) : ~Present(b)
    \/ /\ t.kind = "add" /\ t.pc = "create" /\ t.account = None
       /\ sub[u].status = "active" /\ BelowCap(u)
    \/ /\ t.kind = "remove" /\ t.pc \in {"deprovision", "unlink"} /\ t.left = {t.account}
       /\ t.account \in Linked(u) /\ MoreThanOne(u)
    \/ /\ t.kind = "cancel" /\ t.pc = "mark" /\ t.account = None
       /\ sub[u].status = "active"
    \/ /\ t.kind = "disable" /\ t.pc = "mark" /\ t.account = None
       /\ t.context = Linked(u) /\ t.left = {}
    \/ /\ t.kind = "enable" /\ t.pc = "mark" /\ t.account = None
       /\ t.context = Linked(u) /\ t.left = {}
    \/ /\ t.kind = "retry" /\ t.account = None
       /\ t.left = Linked(u) /\ t.pc = IF Linked(u) = {} THEN "drop" ELSE "deprovision"
    \/ /\ t.kind = "invite" /\ t.pc = "claimRow"
       /\ t.account \in Accounts /\ Present(t.account)

Started(u, t) == [t EXCEPT !.user = u, !.row = sub[u].id]

(* Every request starts a handler with what it has read.                     *)
LEMMA RequestStarts ==
    ASSUME NEW p \in Procs, NEW u \in Users, Request(p, u)
    PROVE  \E t \in Task : Begin(p, u, t) /\ Starts(u, t)
<1>0. /\ Idle \in Task /\ Linked(u) \in SUBSET Accounts
      /\ Idle = [pc |-> "idle", kind |-> "none", user |-> None, row |-> 0, name |-> None,
                 account |-> None, context |-> {}, left |-> {}]
  BY IdleType DEF Linked, Idle
<1>00. /\ {"subscribe", "add", "remove", "cancel", "retry", "disable", "enable", "invite"} \subseteq Kinds
       /\ {"upsert", "create", "deprovision", "unlink", "drop", "mark", "claimRow"} \subseteq Pcs
  BY DEF Kinds, Pcs
<1>1. ASSUME NEW name \in Users, SubscribeRead(p, u, name)
      PROVE  \E t \in Task : Begin(p, u, t) /\ Starts(u, t)
  <2>1. ASSUME NEW a \in Linked(u), Present(a),
               Begin(p, u, [Idle EXCEPT !.kind = "subscribe", !.pc = "upsert", !.account = a])
        PROVE  \E t \in Task : Begin(p, u, t) /\ Starts(u, t)
    <3> DEFINE t == [Idle EXCEPT !.kind = "subscribe", !.pc = "upsert", !.account = a]
    <3>1. t \in Task /\ t.kind = "subscribe" /\ t.pc = "upsert" /\ t.account = a
      BY <1>0, <1>00, <2>1 DEF Task
    <3>2. Begin(p, u, t)
      BY <2>1
    <3> HIDE DEF t
    <3> QED
      BY <2>1, <3>1, <3>2 DEF Starts
  <2>2. ASSUME \A a \in Linked(u) : ~Present(a),
               Begin(p, u, [Idle EXCEPT !.kind = "subscribe", !.pc = "upsert", !.name = name])
        PROVE  \E t \in Task : Begin(p, u, t) /\ Starts(u, t)
    <3> DEFINE t == [Idle EXCEPT !.kind = "subscribe", !.pc = "upsert", !.name = name]
    <3>1. t \in Task /\ t.kind = "subscribe" /\ t.pc = "upsert" /\ t.account = None
      BY <1>0, <1>00 DEF Task
    <3>2. Begin(p, u, t)
      BY <2>2
    <3> HIDE DEF t
    <3> QED
      BY <2>2, <3>1, <3>2 DEF Starts
  <2> QED
    BY <1>1, <2>1, <2>2 DEF SubscribeRead
<1>2. ASSUME NEW name \in Users, AddRead(p, u, name)
      PROVE  \E t \in Task : Begin(p, u, t) /\ Starts(u, t)
  <2> DEFINE t == [Idle EXCEPT !.kind = "add", !.pc = "create", !.name = name]
  <2>1. t \in Task /\ t.kind = "add" /\ t.pc = "create" /\ t.account = None
    BY <1>0, <1>00 DEF Task
  <2>2. Begin(p, u, t) /\ sub[u].status = "active" /\ BelowCap(u)
    BY <1>2 DEF AddRead
  <2> HIDE DEF t
  <2> QED
    BY <2>1, <2>2 DEF Starts
<1>3. ASSUME NEW a \in Accounts, NEW external \in BOOLEAN, RemoveRead(p, u, a, external)
      PROVE  \E t \in Task : Begin(p, u, t) /\ Starts(u, t)
  <2> DEFINE t == [Idle EXCEPT !.kind = "remove", !.account = a, !.left = {a},
                              !.pc = IF external THEN "deprovision" ELSE "unlink"]
  <2>1. /\ t \in Task /\ t.kind = "remove" /\ t.pc \in {"deprovision", "unlink"} /\ t.account = a
        /\ t.left = {a}
    BY <1>0, <1>00 DEF Task
  <2>2. Begin(p, u, t) /\ a \in Linked(u) /\ MoreThanOne(u)
    BY <1>3 DEF RemoveRead
  <2> HIDE DEF t
  <2> QED
    BY <2>1, <2>2 DEF Starts
<1>4. ASSUME CancelRead(p, u)
      PROVE  \E t \in Task : Begin(p, u, t) /\ Starts(u, t)
  <2> DEFINE t == [Idle EXCEPT !.kind = "cancel", !.pc = "mark"]
  <2>1. t \in Task /\ t.kind = "cancel" /\ t.pc = "mark" /\ t.account = None
    BY <1>0, <1>00 DEF Task
  <2>2. Begin(p, u, t) /\ sub[u].status = "active"
    BY <1>4 DEF CancelRead
  <2> HIDE DEF t
  <2> QED
    BY <2>1, <2>2 DEF Starts
<1>5. ASSUME NEW kind \in {"disable", "enable"},
             Begin(p, u, [Idle EXCEPT !.kind = kind, !.pc = "mark", !.context = Linked(u)])
      PROVE  \E t \in Task : Begin(p, u, t) /\ Starts(u, t)
  <2> DEFINE t == [Idle EXCEPT !.kind = kind, !.pc = "mark", !.context = Linked(u)]
  <2>1. /\ t \in Task /\ t.kind = kind /\ t.pc = "mark" /\ t.account = None
        /\ t.context = Linked(u) /\ t.left = {}
    BY <1>0, <1>00 DEF Task
  <2>2. Begin(p, u, t)
    BY <1>5
  <2> HIDE DEF t
  <2> QED
    BY <1>5, <2>1, <2>2 DEF Starts
<1>6. ASSUME RetryRead(p, u)
      PROVE  \E t \in Task : Begin(p, u, t) /\ Starts(u, t)
  <2> DEFINE pc == EnterLoops("retry", Linked(u))
             t == [Idle EXCEPT !.kind = "retry", !.pc = pc, !.left = Linked(u)]
  <2>1. pc = IF Linked(u) = {} THEN "drop" ELSE "deprovision"
    BY DEF EnterLoops, AfterLoops, FirstLoop
  <2>2. Begin(p, u, t)
    BY <1>6 DEF RetryRead
  <2>3. pc \in Pcs
    BY <1>00, <2>1
  <2> HIDE DEF pc
  <2>4. t \in Task /\ t.kind = "retry" /\ t.pc = pc /\ t.account = None /\ t.left = Linked(u)
    BY <1>0, <1>00, <2>3, ZenonT(60) DEF Task
  <2> HIDE DEF t
  <2> QED
    BY <2>1, <2>2, <2>4 DEF Starts
<1>7. ASSUME NEW a \in Accounts, InviteRead(p, u, a)
      PROVE  \E t \in Task : Begin(p, u, t) /\ Starts(u, t)
  <2> DEFINE t == [Idle EXCEPT !.kind = "invite", !.pc = "claimRow", !.account = a]
  <2>1. t \in Task /\ t.kind = "invite" /\ t.pc = "claimRow" /\ t.account = a
    BY <1>0, <1>00 DEF Task
  <2>2. Begin(p, u, t) /\ Present(a)
    BY <1>7 DEF InviteRead
  <2> HIDE DEF t
  <2> QED
    BY <2>1, <2>2 DEF Starts
<1> QED
  BY <1>1, <1>2, <1>3, <1>4, <1>5, <1>6, <1>7 DEF Request, DisableRead, EnableRead

(* What has been read is right for the first station of the handler.         *)
LEMMA StartedOK ==
    ASSUME Basics, NEW u \in Users, NEW t \in Task, Starts(u, t)
    PROVE  LET r == Started(u, t) IN
           /\ r \in Task /\ TaskOK(r)
           /\ r.pc = t.pc /\ r.kind = t.kind /\ r.user = u /\ r.row = sub[u].id /\ r.name = t.name
           /\ r.account = t.account /\ r.context = t.context /\ r.left = t.left
           /\ \A a \in Accounts : vendor[a].state = "free" => r.account # a
<1> DEFINE r == Started(u, t)
<1>1. sub[u].id \in Nat /\ (sub[u].status = "active" => sub[u].id # 0)
  BY DEF Basics, AccountsTypeOK, Rows, Row
<1>2. /\ r \in Task /\ r.pc = t.pc /\ r.kind = t.kind /\ r.user = u /\ r.row = sub[u].id
      /\ r.name = t.name /\ r.account = t.account /\ r.context = t.context /\ r.left = t.left
  BY <1>1 DEF Started, Task
<1>3. \A a \in Linked(u) : a \in Accounts /\ vendor[a].state # "free"
  BY AccountsConstants DEF Basics, Minted, Linked
<1> HIDE DEF r
<1>4. TaskOK(r)
  BY <1>1, <1>2, <1>3 DEF Starts, TaskOK
<1>5. \A a \in Accounts : vendor[a].state = "free" => r.account # a
  BY <1>2, <1>3, AccountsConstants DEF Starts, Present
<1> QED
  BY <1>2, <1>4, <1>5 DEF r

(* A request makes its user tangled if another handler is at work for the    *)
(* user.                                                                     *)
LEMMA RequestKeeps ==
    ASSUME Basics, NEW p \in Procs, NEW u \in Users, Request(p, u)
    PROVE  Basics'
<1>1. PICK t \in Task : Begin(p, u, t) /\ Starts(u, t)
  BY RequestStarts
<1> DEFINE r == Started(u, t)
<1>2. /\ task' = [task EXCEPT ![p] = r] /\ task[p].pc = "idle"
      /\ tangled' = IF \E q \in Procs : task[q].user = u THEN tangled \cup {u} ELSE tangled
      /\ UNCHANGED <<vendorName, vendor, link, sub, lost>>
  BY <1>1 DEF Begin, At, Started
<1>3. /\ r \in Task /\ TaskOK(r) /\ r.user = u
      /\ \A a \in Accounts : vendor[a].state = "free" => r.account # a
  BY <1>1, StartedOK
<1> HIDE DEF r
<1>4. /\ AccountsTypeOK /\ Placed /\ Rows /\ Minted /\ Solo
  BY DEF Basics
<1>5. /\ task' \in [Procs -> Task] /\ \A q \in Procs : task'[q] = IF q = p THEN r ELSE task[q]
      /\ tangled \subseteq tangled' /\ tangled' \subseteq Users
  BY <1>2, <1>3, <1>4 DEF AccountsTypeOK
<1>6. AccountsTypeOK' /\ Rows'
  BY <1>2, <1>4, <1>5 DEF AccountsTypeOK, Rows
<1>7. Placed'
  BY <1>3, <1>4, <1>5 DEF Placed
<1>8. Minted'
  BY <1>2, <1>3, <1>4, <1>5 DEF Minted
<1>9. Solo'
  BY <1>2, <1>3, <1>4, <1>5 DEF Solo
<1> QED
  BY <1>6, <1>7, <1>8, <1>9 DEF Basics

(* A purged account has been minted.                                         *)
LEMMA PurgeKeeps ==
    ASSUME Basics, NEW a \in Accounts, Purge(a)
    PROVE  Basics'
<1>1. vendor' = SetState(a, "gone") /\ UNCHANGED <<vendorName, link, sub, task, tangled, lost>>
  BY DEF Purge
<1>2. /\ vendor' \in [Accounts -> VendorAccount]
      /\ \A b \in Accounts : vendor'[b].state = "free" => vendor[b].state = "free"
  BY <1>1, StateSet DEF Basics
<1> QED
  BY <1>1, <1>2 DEF Basics, AccountsTypeOK, Placed, Rows, Minted, Solo

(* Initially no account is linked and no handler at work.                    *)
LEMMA BasicsInit == AccountsInit => Basics
<1> SUFFICES ASSUME AccountsInit PROVE Basics
  OBVIOUS
<1>1. AccountsTypeOK
  <2>1. PICK name \in [Existing -> Users] :
          vendor = [a \in Accounts |-> IF a \in Existing
                                       THEN [state |-> "on", name |-> name[a]]
                                       ELSE [state |-> "free", name |-> None]]
    BY DEF AccountsInit
  <2>2. vendor \in [Accounts -> VendorAccount]
    BY <2>1 DEF VendorAccount
  <2> QED
    BY <2>2, IdleType DEF AccountsInit, AccountsTypeOK
<1>2. task = [p \in Procs |-> Idle] /\ link = [a \in Accounts |-> None] /\ sub = [u \in Users |-> NoRow]
  BY DEF AccountsInit
<1>3. Placed /\ Solo
  BY <1>2, IdleType DEF Placed, Solo
<1>4. Minted
  BY <1>2, IdleType, AccountsConstants DEF Minted
<1>5. Rows
  BY <1>2 DEF Rows, NoRow
<1> QED
  BY <1>1, <1>3, <1>4, <1>5 DEF Basics

(* Every step keeps the basics.                                              *)
LEMMA BasicsStep == Basics /\ [AccountsNext]_accountVars => Basics'
<1> SUFFICES ASSUME Basics, [AccountsNext]_accountVars PROVE Basics'
  OBVIOUS
<1>1. ASSUME NEW p \in Procs, Handle(p) PROVE Basics'
  BY <1>1, UpsertKeeps, CreateKeeps, LinkKeeps, ActivateKeeps, UnlinkKeeps, MarkKeeps, BuildContextKeeps,
     LoopsKeep, PruneKeeps, SettleKeeps, DropKeeps, ClaimRowKeeps, ClaimLinkKeeps DEF Handle
<1>2. ASSUME NEW p \in Procs, NEW u \in Users, Request(p, u) PROVE Basics'
  BY <1>2, RequestKeeps
<1>3. ASSUME NEW a \in Accounts, Purge(a) PROVE Basics'
  BY <1>3, PurgeKeeps
<1>4. CASE UNCHANGED accountVars
  BY <1>4 DEF accountVars, Basics, AccountsTypeOK, Placed, Rows, Minted, Solo
<1> QED
  BY <1>1, <1>2, <1>3, <1>4 DEF AccountsNext

(* The basics hold.                                                          *)
LEMMA BasicsHold == AccountsSpec => []Basics
  BY BasicsInit, BasicsStep, PTL DEF AccountsSpec

(* All variables keep their types.                                           *)
THEOREM AccountTypesKept == AccountsSpec => []AccountsTypeOK
<1>1. Basics => AccountsTypeOK
  BY DEF Basics
<1> QED
  BY <1>1, BasicsHold, PTL

-----------------------------------------------------------------------------
(* What a handler of user w leaves alone *)

Frame(p, w) ==
    /\ \A v \in Users \ {w} : sub'[v] = sub[v]
    /\ \A q \in Procs \ {p} : task'[q] = task[q]
    /\ \A a \in Accounts : link'[a] = link[a] \/ (link[a] \in {None, w} /\ link'[a] \in {None, w})
    /\ \A a \in Accounts : vendor[a].state = "gone" => vendor'[a].state = "gone"
    /\ vendorName' = vendorName /\ tangled' = tangled

(* A catch block touches the row of its own user.                            *)
LEMMA ThrowFrame ==
    ASSUME NEW p \in Procs, Throw(p), sub \in [Users -> Row], task \in [Procs -> Task]
    PROVE  /\ \A v \in Users \ {task[p].user} : sub'[v] = sub[v]
           /\ \A q \in Procs \ {p} : task'[q] = task[q]
  BY DEF Throw, Done

(* A round leaves links alone and brings no account back.                    *)
LEMMA RoundFrame ==
    ASSUME Basics, NEW p \in Procs, NEW loop, NEW states \in SUBSET {"on", "off"}, NEW after \in {"on", "off", "gone"},
           Round(p, loop, states, after), loop \in {"deprovision", "disable", "enable"}
    PROVE  Frame(p, task[p].user)
<1>1. /\ sub \in [Users -> Row] /\ task \in [Procs -> Task] /\ task[p].left \in SUBSET Accounts
      /\ UNCHANGED <<vendorName, link, tangled>>
  BY DEF Basics, AccountsTypeOK, Task, Round
<1>2. PICK a \in task[p].left :
          \/ /\ IF vendor[a].state \in states
                THEN vendor' = SetState(a, after)
                ELSE UNCHANGED vendor
             /\ task' = [task EXCEPT ![p] = AfterRound(p, a)]
             /\ UNCHANGED sub
          \/ /\ Throw(p)
             /\ UNCHANGED vendor
  BY DEF Round
<1>3. \A b \in Accounts : vendor[b].state = "gone" => vendor'[b].state = "gone"
  <2>1. CASE vendor[a].state \in states /\ vendor' = SetState(a, after)
    <3>1. AccountsTypeOK /\ a \in Accounts /\ after # "free" /\ vendor[a].state # "gone"
      BY <1>1, <2>1 DEF Basics
    <3>2. \A b \in Accounts \ {a} : vendor'[b] = vendor[b]
      BY <2>1, <3>1, StateSet
    <3> QED
      BY <3>1, <3>2
  <2>2. CASE vendor' = vendor
    BY <2>2
  <2> QED
    BY <1>2, <2>1, <2>2
<1>4. /\ \A v \in Users \ {task[p].user} : sub'[v] = sub[v]
      /\ \A q \in Procs \ {p} : task'[q] = task[q]
  <2>1. CASE task' = [task EXCEPT ![p] = AfterRound(p, a)] /\ UNCHANGED sub
    BY <1>1, <2>1
  <2>2. CASE Throw(p)
    BY <1>1, <2>2, ThrowFrame
  <2> QED
    BY <1>2, <2>1, <2>2
<1> QED
  BY <1>1, <1>3, <1>4 DEF Frame

(* Every handler touches what belongs to its own user, or to nobody.         *)
LEMMA HandlerFrame ==
    ASSUME Basics, NEW p \in Procs, Handle(p)
    PROVE  Frame(p, task[p].user) /\ task[p] # Idle /\ task[p].user \in Users
<1> DEFINE u == task[p].user
<1>0. /\ sub \in [Users -> Row] /\ task \in [Procs -> Task] /\ vendor \in [Accounts -> VendorAccount]
      /\ link \in [Accounts -> Users \cup {None}]
  BY DEF Basics, AccountsTypeOK
<1>1. ASSUME Upsert(p) PROVE Frame(p, u)
  BY <1>0, <1>1 DEF Upsert, Done, Frame
<1>2. ASSUME Create(p) PROVE Frame(p, u)
  <2>1. UNCHANGED <<vendorName, link, tangled>>
    BY <1>2 DEF Create
  <2>2. \A b \in Accounts : vendor[b].state = "gone" => vendor'[b].state = "gone"
    <3>1. CASE task[p].account # None /\ Present(task[p].account) /\ vendor' = SetState(task[p].account, "on")
      <4>1. task[p].account \in Accounts
        BY <1>0, <3>1 DEF Task
      <4>2. \A b \in Accounts \ {task[p].account} : vendor'[b] = vendor[b]
        BY <3>1, <4>1, StateSet DEF Basics
      <4> QED
        BY <3>1, <4>2 DEF Present
    <3>2. ASSUME NEW a \in Accounts, vendor[a].state = "free",
                 vendor' = [vendor EXCEPT ![a] = [state |-> "on", name |-> task[p].name]]
          PROVE  \A b \in Accounts : vendor[b].state = "gone" => vendor'[b].state = "gone"
      BY <1>0, <3>2
    <3>3. CASE UNCHANGED vendor
      BY <3>3
    <3> QED
      BY <1>2, <3>1, <3>2, <3>3 DEF Create
  <2>3. /\ \A v \in Users \ {u} : sub'[v] = sub[v]
        /\ \A q \in Procs \ {p} : task'[q] = task[q]
    <3>1. CASE Throw(p)
      BY <1>0, <3>1, ThrowFrame
    <3>2. CASE ~Throw(p)
      BY <1>0, <1>2, <3>2 DEF Create, Goto
    <3> QED
      BY <3>1, <3>2
  <2> QED
    BY <2>1, <2>2, <2>3 DEF Frame
<1>3. ASSUME Link(p) PROVE Frame(p, u)
  <2>1. UNCHANGED <<vendorName, vendor, tangled>>
    BY <1>3 DEF Link
  <2>2. CASE Throw(p) /\ UNCHANGED link
    BY <1>0, <2>1, <2>2, ThrowFrame DEF Frame
  <2>3. CASE CanLink(p) /\ UNCHANGED sub /\ (Goto(p, "activate") \/ Done(p))
             /\ \E first \in Linked(u) : link' = [link EXCEPT ![first] = None, ![task[p].account] = u]
    BY <1>0, <2>1, <2>3 DEF Frame, CanLink, Goto, Done, Linked
  <2>4. CASE CanLink(p) /\ UNCHANGED sub /\ (Goto(p, "activate") \/ Done(p))
             /\ link' = [link EXCEPT ![task[p].account] = u]
    BY <1>0, <2>1, <2>4 DEF Frame, CanLink, Goto, Done
  <2> QED
    BY <1>3, <2>2, <2>3, <2>4 DEF Link
<1>4. ASSUME Activate(p) PROVE Frame(p, u)
  BY <1>0, <1>4, ThrowFrame DEF Activate, Done, Frame
<1>5. ASSUME Unlink(p) PROVE Frame(p, u)
  BY <1>0, <1>5 DEF Unlink, Done, Frame
<1>6. ASSUME Mark(p) PROVE Frame(p, u)
  BY <1>0, <1>6, ThrowFrame DEF Mark, Frame
<1>7. ASSUME BuildContext(p) PROVE Frame(p, u)
  BY <1>0, <1>7 DEF BuildContext, Frame
<1>8. ASSUME Deprovision(p) \/ DisableAccounts(p) \/ EnableAccounts(p) PROVE Frame(p, u)
  <2>1. StateAfterDelete \in {"on", "off", "gone"}
    BY DEF StateAfterDelete
  <2> QED
    BY <1>8, <2>1, RoundFrame DEF Deprovision, DisableAccounts, EnableAccounts
<1>9. ASSUME Prune(p) PROVE Frame(p, u)
  <2>1. UNCHANGED <<vendorName, vendor, tangled>>
    BY <1>9 DEF Prune
  <2>2. /\ \A v \in Users \ {u} : sub'[v] = sub[v]
        /\ \A q \in Procs \ {p} : task'[q] = task[q]
    BY <1>0, <1>9, ThrowFrame DEF Prune
  <2>3. \A a \in Accounts : link'[a] = link[a] \/ (link[a] \in {None, u} /\ link'[a] \in {None, u})
    BY <1>0, <1>9 DEF Prune
  <2> QED
    BY <2>1, <2>2, <2>3 DEF Frame
<1>10. ASSUME Settle(p) PROVE Frame(p, u)
  BY <1>0, <1>10 DEF Settle, Done, Frame
<1>11. ASSUME Drop(p) PROVE Frame(p, u)
  BY <1>0, <1>11 DEF Drop, Done, Frame
<1>12. ASSUME ClaimRow(p) PROVE Frame(p, u)
  BY <1>0, <1>12 DEF ClaimRow, Done, Frame
<1>13. ASSUME ClaimLink(p) PROVE Frame(p, u)
  BY <1>0, <1>13 DEF ClaimLink, Done, Frame, CanClaim
<1>14. task[p].pc # "idle"
  BY DEF Handle, At, Upsert, Create, Link, Activate, Unlink, Mark, BuildContext, Deprovision,
         DisableAccounts, EnableAccounts, Round, Prune, Settle, Drop, ClaimRow, ClaimLink
<1>15. task[p] # Idle /\ task[p].user \in Users
  BY <1>14, BusyTask
<1> QED
  BY <1>1, <1>2, <1>3, <1>4, <1>5, <1>6, <1>7, <1>8, <1>9, <1>10, <1>11, <1>12, <1>13, <1>15 DEF Handle

(* Two listeners may find the same account unlinked: none takes it from the  *)
(* other (NeverChangesHands).                                                *)
THEOREM AccountsChangeNoHands == AccountsSpec => NeverChangesHands
<1>1. ASSUME Basics, [AccountsNext]_accountVars, NEW a \in Accounts, link[a] # None
      PROVE  link'[a] \in {link[a], None}
  <2>1. ASSUME NEW p \in Procs, Handle(p)
        PROVE  link'[a] \in {link[a], None}
    BY <1>1, <2>1, HandlerFrame DEF Frame
  <2>2. ASSUME NEW p \in Procs, NEW u \in Users, Request(p, u)
        PROVE  link' = link
    BY <2>2, RequestStarts DEF Begin
  <2> QED
    BY <1>1, <2>1, <2>2 DEF AccountsNext, Purge, accountVars
<1>2. Basics /\ [AccountsNext]_accountVars
      => [\A a \in Accounts : link[a] # None => link'[a] \in {link[a], None}]_accountVars
  BY <1>1
<1> QED
  BY <1>2, BasicsHold, PTL DEF AccountsSpec, NeverChangesHands

-----------------------------------------------------------------------------
(* The last account of a subscription *)

(* Deleting an account leaves another one, unless operations overlapped.     *)
Spare ==
    \A p \in Procs :
        task[p].kind = "remove" /\ task[p].user \notin tangled
        => Linked(task[p].user) \ {task[p].account} # {}

(* A handler that is not done stays what it is.                              *)
LEMMA KindStays ==
    ASSUME Basics, NEW p \in Procs, Handle(p)
    PROVE  \/ task'[p] = Idle
           \/ /\ task'[p].kind = task[p].kind /\ task'[p].user = task[p].user
              /\ task'[p].row = task[p].row \/ Upsert(p) \/ ClaimRow(p)
<1> DEFINE Same == task'[p].kind = task[p].kind /\ task'[p].user = task[p].user
           Goal == task'[p] = Idle \/ (Same /\ task'[p].row = task[p].row)
<1>0. task \in [Procs -> Task] /\ task[p] \in Task
  BY DEF Basics, AccountsTypeOK
<1>1. Done(p) \/ Throw(p) => Goal
  BY <1>0 DEF Done, Throw
<1>2. task[p].pc \in {"deprovision", "disable", "prune", "enable"}
      /\ (\E a \in task[p].left : task' = [task EXCEPT ![p] = AfterRound(p, a)]) => Goal
  BY <1>0, RoundTask
<1>3. (\E pc \in Pcs : Goto(p, pc)) => Goal
  BY <1>0 DEF Goto, Task
<1>4. (\E pc, row : task' = [task EXCEPT ![p].pc = pc, ![p].row = row]) => Same
  BY <1>0 DEF Task
<1>5. (\E pc, left : task' = [task EXCEPT ![p].left = left, ![p].pc = pc]) => Goal
  BY <1>0 DEF Task
<1>6. (\E pc, a, n : task' = [task EXCEPT ![p].pc = pc, ![p].account = a, ![p].name = n]) => Goal
  BY <1>0 DEF Task
<1>7. "link" \in Pcs /\ "activate" \in Pcs
  BY DEF Pcs
<1> HIDE DEF Goal, Same
<1>8. Upsert(p) \/ ClaimRow(p) => Goal \/ Same
  BY <1>1, <1>4 DEF Upsert, ClaimRow
<1>9. ASSUME Create(p) PROVE Goal
  <2>1. \/ Goto(p, "link") \/ Throw(p)
        \/ \E a : task' = [task EXCEPT ![p].pc = "link", ![p].account = a, ![p].name = None]
    BY <1>9 DEF Create
  <2> QED
    BY <2>1, <1>1, <1>3, <1>6, <1>7
<1>10. Link(p) => Goal
  BY <1>1, <1>3, <1>7 DEF Link
<1>11. Mark(p) \/ BuildContext(p) => Goal
  BY <1>1, <1>5 DEF Mark, BuildContext
<1>12. Deprovision(p) \/ DisableAccounts(p) \/ EnableAccounts(p) \/ Prune(p) => Goal
  BY <1>1, <1>2 DEF Deprovision, DisableAccounts, EnableAccounts, Prune, Round, At
<1>13. Activate(p) \/ Unlink(p) \/ Settle(p) \/ Drop(p) \/ ClaimLink(p) => Goal
  BY <1>1 DEF Activate, Unlink, Settle, Drop, ClaimLink
<1>14. Goal \/ (Same /\ (Upsert(p) \/ ClaimRow(p)))
  BY <1>8, <1>9, <1>10, <1>11, <1>12, <1>13 DEF Handle
<1> QED
  BY <1>14 DEF Goal, Same

(* Every step keeps another account beside the one that is deleted.          *)
LEMMA SpareStep ==
    ASSUME Basics, Spare, [AccountsNext]_accountVars
    PROVE  Spare'
<1>0. /\ task \in [Procs -> Task] /\ AccountsTypeOK /\ Solo
      /\ None \notin Users
  BY AccountsConstants DEF Basics, AccountsTypeOK
<1>1. ASSUME NEW p \in Procs, Handle(p) PROVE Spare'
  <2> DEFINE w == task[p].user
  <2>1. Frame(p, w) /\ w \in Users
    BY <1>1, HandlerFrame
  <2> SUFFICES ASSUME NEW q \in Procs, task'[q].kind = "remove", task'[q].user \notin tangled'
               PROVE  {b \in Accounts : link'[b] = task'[q].user} \ {task'[q].account} # {}
    BY DEF Spare, Linked
  <2>2. CASE q # p
    <3>1. task'[q] = task[q] /\ tangled' = tangled
      BY <2>1, <2>2 DEF Frame
    <3>2. task[q] # Idle
      BY <3>1, IdleType
    <3>3. task[q].user # w /\ task[q].user \in Users
      BY <1>0, <2>1, <2>2, <3>1, <3>2, BusyTask DEF Solo
    <3>4. \A b \in Accounts : link[b] = task[q].user => link'[b] = task[q].user
      BY <1>0, <2>1, <3>3 DEF Frame
    <3> QED
      BY <3>1, <3>4 DEF Spare, Linked
  <2>3. CASE q = p
    <3>1. task[p].kind = "remove" /\ task'[p].user = w
      BY <1>1, <2>3, KindStays, IdleType
    <3>2. task[p].pc \in {"deprovision", "unlink"}
      BY <3>1, IdleType, BusyTask DEF TaskOK
    <3>3. Deprovision(p) \/ Unlink(p)
      BY <1>1, <3>2 DEF Handle, At, Upsert, Create, Link, Activate, Mark, BuildContext,
         DisableAccounts, EnableAccounts, Round, Prune, Settle, Drop, ClaimRow, ClaimLink
    <3>4. ~Done(p) /\ ~Throw(p)
      BY <1>0, <2>3, IdleType DEF Done, Throw
    <3>5. Deprovision(p) /\ link' = link
      BY <3>3, <3>4 DEF Unlink, Deprovision, Round
    <3>6. PICK a \in task[p].left : task' = [task EXCEPT ![p] = AfterRound(p, a)]
      BY <3>4, <3>5 DEF Deprovision, Round
    <3>7. task[p].pc = "deprovision"
      BY <3>5 DEF Deprovision, Round, At
    <3>8. task'[p].account = task[p].account
      BY <1>0, <3>6, <3>7, RoundTask
    <3> QED
      BY <2>1, <2>3, <3>1, <3>5, <3>8 DEF Spare, Frame, Linked
  <2> QED
    BY <2>2, <2>3
<1>2. ASSUME NEW p \in Procs, NEW u \in Users, Request(p, u) PROVE Spare'
  <2>1. PICK t \in Task : Begin(p, u, t) /\ Starts(u, t)
    BY <1>2, RequestStarts
  <2> DEFINE r == Started(u, t)
  <2>2. /\ \A q \in Procs : task'[q] = IF q = p THEN r ELSE task[q]
        /\ link' = link /\ tangled \subseteq tangled'
    BY <1>0, <2>1 DEF Begin, Started
  <2>3. r.kind = t.kind /\ r.user = u /\ r.account = t.account
    BY <2>1, StartedOK
  <2>4. t.kind = "remove" => Linked(u) \ {t.account} # {}
    <3> SUFFICES ASSUME t.kind = "remove", Linked(u) \ {t.account} = {} PROVE FALSE
      OBVIOUS
    <3>1. Linked(u) = {t.account} /\ Cardinality(Linked(u)) > 1
      BY <2>1 DEF Starts, MoreThanOne
    <3>2. Cardinality({t.account}) = 1
      BY FS_Singleton
    <3> QED
      BY <3>1, <3>2
  <2> HIDE DEF r
  <2> QED
    BY <2>2, <2>3, <2>4 DEF Spare, Linked
<1>3. ASSUME NEW a \in Accounts, Purge(a) PROVE Spare'
  BY <1>3 DEF Purge, Spare, Linked
<1>4. CASE UNCHANGED accountVars
  BY <1>4 DEF accountVars, Spare, Linked
<1> QED
  BY <1>1, <1>2, <1>3, <1>4 DEF AccountsNext

(* Initially no handler deletes an account.                                  *)
LEMMA SpareInit == AccountsInit => Spare
  BY IdleType DEF AccountsInit, Spare

(* What unlinks the last account of a row that stays is enabling, or an      *)
(* overlap.                                                                  *)
LEMMA LastKept ==
    ASSUME Basics, Spare, [AccountsNext]_accountVars, NEW u \in Users,
           Linked(u) # {}, Linked(u)' = {}, sub[u].id # 0, sub'[u].id = sub[u].id
    PROVE  u \in tangled \/ \E p \in Procs : task[p].kind = "enable" /\ task[p].user = u
<1>0. /\ task \in [Procs -> Task] /\ sub \in [Users -> Row] /\ link \in [Accounts -> Users \cup {None}]
      /\ None \notin Users
  BY AccountsConstants DEF Basics, AccountsTypeOK
<1>1. PICK b \in Accounts : link[b] = u /\ link'[b] # u
  BY DEF Linked
<1>2. PICK p \in Procs : Handle(p)
  <2>1. ASSUME NEW p \in Procs, NEW v \in Users, Request(p, v) PROVE link' = link
    BY <2>1, RequestStarts DEF Begin
  <2> QED
    BY <1>1, <2>1 DEF AccountsNext, Purge, accountVars
<1>3. task[p].user = u /\ task[p] # Idle
  BY <1>0, <1>1, <1>2, HandlerFrame DEF Frame
<1>4. Link(p) \/ Unlink(p) \/ Prune(p) \/ Drop(p) \/ ClaimLink(p)
  BY <1>1, <1>2 DEF Handle, Upsert, Create, Activate, Mark, BuildContext, Deprovision,
     DisableAccounts, EnableAccounts, Round, Settle, ClaimRow
<1>5. CASE Link(p)
  <2>1. task[p].account \in Accounts /\ task[p].pc = "link"
    BY <1>3, <1>5, BusyTask DEF Link, At, TaskOK
  <2>2. link' # link
    BY <1>1
  <2>3. link'[task[p].account] = u
    BY <1>0, <1>3, <1>5, <2>1, <2>2 DEF Link
  <2> QED
    BY <2>1, <2>3 DEF Linked
<1>6. CASE Unlink(p)
  <2>1. task[p].kind = "remove"
    BY <1>3, <1>6, BusyTask DEF Unlink, At, TaskOK
  <2>2. \A c \in Accounts \ {task[p].account} : link'[c] = link[c]
    BY <1>0, <1>6 DEF Unlink
  <2> QED
    BY <1>3, <2>1, <2>2 DEF Spare, Linked
<1>7. CASE Prune(p)
  <2>1. task[p].kind = "enable"
    BY <1>3, <1>7, BusyTask DEF Prune, At, TaskOK
  <2> QED
    BY <1>3, <2>1
<1>8. CASE Drop(p)
  BY <1>0, <1>3, <1>8 DEF Drop, NoRow
<1>9. CASE ClaimLink(p)
  BY <1>0, <1>1, <1>3, <1>9 DEF ClaimLink
<1> QED
  BY <1>4, <1>5, <1>6, <1>7, <1>8, <1>9

(* There is another account beside the one that is deleted.                  *)
LEMMA SpareHolds == AccountsSpec => [](Basics /\ Spare)
<1>1. Basics /\ Spare /\ [AccountsNext]_accountVars => Spare'
  BY SpareStep
<1> QED
  BY <1>1, SpareInit, BasicsHold, PTL DEF AccountsSpec

(* Deleting one account of a subscription never takes the last of them, as   *)
(* long as operations of its user do not overlap (LastAccountKept).          *)
THEOREM LastAccountStays == AccountsSpec => LastAccountKept
<1> DEFINE Last ==
      \A u \in Users :
          (Linked(u) # {} /\ Linked(u)' = {} /\ sub[u].id # 0 /\ sub'[u].id = sub[u].id)
          => \/ u \in tangled
             \/ \E p \in Procs : task[p].kind = "enable" /\ task[p].user = u
<1>1. Basics /\ Spare /\ [AccountsNext]_accountVars => [Last]_accountVars
  BY LastKept
<1> QED
  BY <1>1, SpareHolds, PTL DEF AccountsSpec, LastAccountKept

-----------------------------------------------------------------------------
(* The cap *)

(* Handlers that may still give the row of u one account more than they      *)
(* counted: addAccount, and the listener that has created the row.           *)
Growing(u) ==
    {p \in Procs : /\ task[p].user = u /\ task[p].row = sub[u].id
                   /\ task[p].kind = "add" \/ task[p].pc = "claimLink"}

CapInv ==
    \A u \in Users :
        Cardinality(Linked(u)) + Cardinality(Growing(u)) < Cap + Cardinality(Procs)

(* A subset is no larger.                                                    *)
LEMMA SubsetSize ==
    ASSUME NEW S, NEW T, IsFiniteSet(T), S \subseteq T
    PROVE  IsFiniteSet(S) /\ Cardinality(S) \in Nat /\ Cardinality(T) \in Nat /\ Cardinality(S) <= Cardinality(T)
<1>1. S \in SUBSET T
  OBVIOUS
<1> QED
  BY <1>1, FS_Subset, FS_CardinalityType

(* One element more.                                                         *)
LEMMA PlusOneSize ==
    ASSUME NEW S, NEW T, NEW x, IsFiniteSet(T), S \subseteq T \cup {x}
    PROVE  Cardinality(S) \in Nat /\ Cardinality(T) \in Nat /\ Cardinality(S) <= Cardinality(T) + 1
<1>1. IsFiniteSet(T \cup {x}) /\ Cardinality(T \cup {x}) <= Cardinality(T) + 1 /\ Cardinality(T) \in Nat
  <2>1. IsFiniteSet(T \cup {x}) /\ Cardinality(T \cup {x}) = IF x \in T THEN Cardinality(T) ELSE Cardinality(T) + 1
    BY FS_AddElement
  <2> QED
    BY <2>1, FS_CardinalityType
<1> QED
  BY <1>1, SubsetSize

(* One element less.                                                         *)
LEMMA MinusOneSize ==
    ASSUME NEW S, NEW T, NEW x \in T, IsFiniteSet(T), S \subseteq T \ {x}
    PROVE  Cardinality(S) \in Nat /\ Cardinality(T) \in Nat /\ Cardinality(S) <= Cardinality(T) - 1
<1>1. IsFiniteSet(T \ {x}) /\ Cardinality(T \ {x}) = Cardinality(T) - 1
  BY FS_RemoveElement
<1> QED
  BY <1>1, SubsetSize, FS_CardinalityType

(* Sets of processes and of accounts can be counted.                         *)
LEMMA SizesFinite ==
    /\ IsFiniteSet(Procs) /\ IsFiniteSet(Accounts) /\ Cardinality(Procs) \in Nat
    /\ \A S \in SUBSET Procs : IsFiniteSet(S) /\ Cardinality(S) \in Nat
    /\ \A S \in SUBSET Accounts : IsFiniteSet(S) /\ Cardinality(S) \in Nat
    /\ Procs # {} => Cardinality(Procs) # 0
    /\ Cardinality({}) = 0
    /\ Cap \in Nat /\ Cap # 0
<1>1. /\ IsFiniteSet(Procs) /\ IsFiniteSet(Accounts) /\ Cap \in Nat /\ Cap # 0
  BY AccountsConstants
<1>2. Cardinality(Procs) \in Nat /\ (Procs # {} => Cardinality(Procs) # 0) /\ Cardinality({}) = 0
  BY <1>1, FS_CardinalityType, FS_EmptySet
<1>3. /\ \A S \in SUBSET Procs : IsFiniteSet(S) /\ Cardinality(S) \in Nat
      /\ \A S \in SUBSET Accounts : IsFiniteSet(S) /\ Cardinality(S) \in Nat
  BY <1>1, SubsetSize
<1> QED
  BY <1>1, <1>2, <1>3

(* How a step may change the accounts L and the growing handlers G of a row: *)
(* both shrink, a growing handler spends its turn, a row is new or gone, a   *)
(* row without accounts gets its first, or one account replaces another.     *)
LEMMA CapKept ==
    ASSUME NEW L \in SUBSET Accounts, NEW M \in SUBSET Accounts,
           NEW G \in SUBSET Procs, NEW H \in SUBSET Procs, NEW p \in Procs, NEW a,
           Cardinality(L) + Cardinality(G) < Cap + Cardinality(Procs),
           \/ M \subseteq L /\ H \subseteq G
           \/ p \in G /\ H \subseteq G \ {p} /\ M \subseteq L \cup {a}
           \/ M = {} /\ H \subseteq {p}
           \/ L = {} /\ M \subseteq {a} /\ H \subseteq Procs \ {p}
           \/ H \subseteq G /\ \E b \in L : M \subseteq (L \ {b}) \cup {a}
    PROVE  Cardinality(M) + Cardinality(H) < Cap + Cardinality(Procs)
<1>1. /\ Cardinality(L) \in Nat /\ Cardinality(M) \in Nat /\ Cardinality(G) \in Nat /\ Cardinality(H) \in Nat
      /\ IsFiniteSet(L) /\ IsFiniteSet(G) /\ Cardinality(Procs) \in Nat /\ Cap \in Nat /\ Cap # 0
      /\ Cardinality(Procs) # 0 /\ Cardinality({}) = 0 /\ IsFiniteSet(Procs)
  BY SizesFinite
<1>2. CASE M \subseteq L /\ H \subseteq G
  <2>1. Cardinality(M) <= Cardinality(L) /\ Cardinality(H) <= Cardinality(G)
    BY <1>1, <1>2, SubsetSize
  <2> QED
    BY <1>1, <2>1
<1>3. CASE p \in G /\ H \subseteq G \ {p} /\ M \subseteq L \cup {a}
  <2>1. Cardinality(M) <= Cardinality(L) + 1 /\ Cardinality(H) <= Cardinality(G) - 1
    BY <1>1, <1>3, PlusOneSize, MinusOneSize
  <2> QED
    BY <1>1, <2>1
<1>4. CASE M = {} /\ H \subseteq {p}
  <2>1. H \subseteq {} \cup {p} /\ IsFiniteSet({})
    BY <1>4, FS_EmptySet
  <2>2. Cardinality(H) <= 0 + 1
    BY <1>1, <2>1, PlusOneSize
  <2> QED
    BY <1>1, <1>4, <2>2
<1>5. CASE L = {} /\ M \subseteq {a} /\ H \subseteq Procs \ {p}
  <2>1. M \subseteq L \cup {a}
    BY <1>5
  <2>2. Cardinality(M) <= Cardinality(L) + 1 /\ Cardinality(H) <= Cardinality(Procs) - 1
    BY <1>1, <1>5, <2>1, PlusOneSize, MinusOneSize
  <2> QED
    BY <1>1, <1>5, <2>2
<1>6. CASE H \subseteq G /\ \E b \in L : M \subseteq (L \ {b}) \cup {a}
  <2>1. PICK b \in L : M \subseteq (L \ {b}) \cup {a}
    BY <1>6
  <2>2. Cardinality(L \ {b}) <= Cardinality(L) - 1 /\ IsFiniteSet(L \ {b}) /\ Cardinality(L \ {b}) \in Nat
    BY <1>1, MinusOneSize, SubsetSize
  <2>3. Cardinality(M) <= Cardinality(L \ {b}) + 1 /\ Cardinality(H) <= Cardinality(G)
    BY <1>1, <1>6, <2>1, <2>2, PlusOneSize, SubsetSize
  <2> QED
    BY <1>1, <2>2, <2>3
<1> QED
  BY <1>2, <1>3, <1>4, <1>5, <1>6

(* The id of a row stays until it is created anew or dropped.                *)
LEMMA IdStays ==
    ASSUME Basics, NEW p \in Procs, Handle(p), ~Upsert(p), ~ClaimRow(p), ~Drop(p), NEW u \in Users
    PROVE  sub'[u].id = sub[u].id
<1>0. sub \in [Users -> Row] /\ sub[u] \in Row /\ task[p].user \in Users
  BY HandlerFrame DEF Basics, AccountsTypeOK
<1>1. CASE sub' = sub
  BY <1>1
<1>2. CASE Throw(p)
  BY <1>0, <1>2 DEF Throw, Row
<1>3. CASE \E s : sub' = [sub EXCEPT ![task[p].user].status = s]
  BY <1>0, <1>3 DEF Row
<1> DEFINE Goal == sub'[u].id = sub[u].id
<1> HIDE DEF Goal
<1>4. Create(p) \/ Link(p) \/ Unlink(p) \/ BuildContext(p) \/ Prune(p) \/ ClaimLink(p) => Goal
  BY <1>1, <1>2 DEF Create, Link, Unlink, BuildContext, Prune, ClaimLink, Goal
<1>5. Deprovision(p) \/ DisableAccounts(p) \/ EnableAccounts(p) => Goal
  BY <1>1, <1>2 DEF Deprovision, DisableAccounts, EnableAccounts, Round, Goal
<1>6. Activate(p) \/ Mark(p) \/ Settle(p) => Goal
  BY <1>1, <1>2, <1>3 DEF Activate, Mark, Settle, Goal
<1>7. Goal
  BY <1>4, <1>5, <1>6 DEF Handle
<1> QED
  BY <1>7 DEF Goal

(* Where links may appear.                                                   *)
LEMMA LinksShrink ==
    ASSUME Basics, NEW p \in Procs, Handle(p), ~Link(p), ~ClaimLink(p), NEW a \in Accounts
    PROVE  link'[a] \in {link[a], None}
<1>0. link \in [Accounts -> Users \cup {None}]
  BY DEF Basics, AccountsTypeOK
<1>1. Unlink(p) \/ Prune(p) \/ Drop(p) => link'[a] \in {link[a], None}
  BY <1>0 DEF Unlink, Prune, Drop
<1>2. ~(Unlink(p) \/ Prune(p) \/ Drop(p)) => link' = link
  BY DEF Handle, Upsert, Create, Activate, Mark, BuildContext, Deprovision,
     DisableAccounts, EnableAccounts, Round, Settle, ClaimRow
<1> QED
  BY <1>1, <1>2

(* An account more is a handler less that may add one.                       *)
LEMMA CapHandler ==
    ASSUME Basics, CapInv, NEW p \in Procs, Handle(p), NEW u \in Users
    PROVE  Cardinality(Linked(u))' + Cardinality(Growing(u))' < Cap + Cardinality(Procs)
<1> DEFINE w == task[p].user
           a == task[p].account
           L == Linked(u)
           M == {b \in Accounts : link'[b] = u}
           G == Growing(u)
           H == {q \in Procs : /\ task'[q].user = u /\ task'[q].row = sub'[u].id
                               /\ task'[q].kind = "add" \/ task'[q].pc = "claimLink"}
<1>0. /\ link \in [Accounts -> Users \cup {None}] /\ task \in [Procs -> Task] /\ sub \in [Users -> Row]
      /\ None \notin Users /\ sub'[u].id \in Nat
      /\ \A q \in Procs : TaskOK(task[q]) /\ TaskOK(task'[q])
  BY BasicsStep, AccountsConstants DEF Basics, Placed, AccountsTypeOK, AccountsNext, Row
<1>1. Frame(p, w) /\ task[p] # Idle /\ w \in Users
  BY HandlerFrame
<1>2. \A q \in Procs \ {p} : task'[q] = task[q]
  BY <1>1 DEF Frame
<1>3. /\ L \in SUBSET Accounts /\ M \in SUBSET Accounts /\ G \in SUBSET Procs /\ H \in SUBSET Procs
      /\ Cardinality(L) + Cardinality(G) < Cap + Cardinality(Procs)
      /\ Cardinality(Linked(u))' = Cardinality(M) /\ Cardinality(Growing(u))' = Cardinality(H)
  BY DEF Linked, Growing, CapInv
<1> DEFINE Shrinks == M \subseteq L /\ H \subseteq G
           Spends == p \in G /\ H \subseteq G \ {p} /\ M \subseteq L \cup {a}
           Renews == M = {} /\ H \subseteq {p}
           Starts1 == L = {} /\ M \subseteq {a} /\ H \subseteq Procs \ {p}
           Replaces == H \subseteq G /\ \E b \in L : M \subseteq (L \ {b}) \cup {a}
<1>4. CASE u # w
  <2>1. /\ sub'[u] = sub[u] /\ \A b \in Accounts : link'[b] = u => link[b] = u
    BY <1>0, <1>1, <1>4 DEF Frame
  <2>2. task'[p].user # u
    BY <1>0, <1>4, KindStays, IdleType
  <2>3. Shrinks
    BY <1>2, <2>1, <2>2 DEF Linked, Growing
  <2> HIDE DEF M, H, G, L
  <2> QED
    BY <1>3, <2>3, CapKept
<1>5. ASSUME u = w, task'[p] = Idle, sub'[u].id = sub[u].id
      PROVE  H \subseteq G \ {p}
  BY <1>0, <1>2, <1>5, IdleType DEF Growing
<1>6. ASSUME u = w, ~Upsert(p), ~ClaimRow(p), ~Drop(p), ~Link(p), ~ClaimLink(p)
      PROVE  Shrinks
  <2>1. sub'[u].id = sub[u].id /\ \A b \in Accounts : link'[b] = u => link[b] = u
    BY <1>0, <1>6, IdStays, LinksShrink
  <2>2. task'[p] # Idle => /\ task'[p].kind = task[p].kind /\ task'[p].user = u
                           /\ task'[p].row = task[p].row
    BY <1>6, KindStays
  <2>3. task[p].kind # "invite"
    <3> SUFFICES ASSUME task[p].kind = "invite" PROVE FALSE
      OBVIOUS
    <3>1. task[p].pc \in {"claimRow", "claimLink"}
      BY <1>0, <1>1 DEF TaskOK
    <3> QED
      BY <1>6, <3>1 DEF Handle, At, Upsert, Create, Link, Activate, Unlink, Mark, BuildContext,
         Deprovision, DisableAccounts, EnableAccounts, Round, Prune, Settle, Drop
  <2>4. task'[p] # Idle => task'[p].pc # "claimLink"
    BY <1>0, <2>2, <2>3 DEF TaskOK
  <2>5. p \in H => p \in G
    <3> SUFFICES ASSUME p \in H PROVE p \in G
      OBVIOUS
    <3>1. task'[p].user = u /\ task'[p].row = sub[u].id /\ task'[p] # Idle
      BY <1>0, <2>1, IdleType
    <3>2. task'[p].kind = "add"
      BY <2>4, <3>1
    <3> QED
      BY <1>6, <2>2, <3>1, <3>2 DEF Growing
  <2> QED
    BY <1>2, <2>1, <2>5 DEF Linked, Growing
<1>7. ASSUME u = w, Upsert(p) \/ ClaimRow(p), task'[p] = Idle
      PROVE  Shrinks
  <2>1. task'[p].pc \notin {"create", "claimLink"} /\ task[p] \in Task
    BY <1>7, IdleType DEF Basics, AccountsTypeOK
  <2>2. sub' = sub
    BY <1>0, <1>7, <2>1 DEF Upsert, ClaimRow, Task
  <2> QED
    BY <1>5, <1>7, <2>2, LinksShrink, <1>0 DEF Linked, Upsert, ClaimRow
<1>8. ASSUME u = w, Upsert(p), task'[p] # Idle, Exists(u)
      PROVE  Shrinks
  <2>1. link' = link /\ sub'[u].id = sub[u].id /\ task'[p].kind = task[p].kind /\ task'[p].pc = "create"
    BY <1>0, <1>8 DEF Upsert, Row, Task, Done
  <2>2. task[p].kind = "subscribe"
    BY <1>0, <1>1, <1>8 DEF TaskOK, Upsert, At
  <2> QED
    BY <1>2, <2>1, <2>2 DEF Linked, Growing
<1>9. ASSUME u = w, Upsert(p) \/ ClaimRow(p), task'[p] # Idle, ~Exists(u)
      PROVE  Renews
  <2>1. link' = link /\ L = {}
    BY <1>0, <1>9 DEF Basics, Rows, Exists, Linked, Upsert, ClaimRow
  <2>2. \E id \in 1..MaxRows : FreshId(id) /\ sub'[u].id = id
    <3>1. ~Done(p)
      BY <1>0, <1>9 DEF Done
    <3>2. \E id \in 1..MaxRows : \E s : FreshId(id) /\ sub' = [sub EXCEPT ![u] = [id |-> id, status |-> s]]
      BY <1>9, <3>1 DEF Upsert, ClaimRow
    <3> QED
      BY <1>0, <3>2
  <2>3. \A q \in Procs \ {p} : task'[q].row # sub'[u].id
    BY <1>2, <2>2 DEF FreshId
  <2> QED
    BY <2>1, <2>3 DEF Linked
<1>10. ASSUME u = w, Drop(p)
       PROVE  Renews
  <2>1. sub'[u].id = 0 /\ task'[p] = Idle
    BY <1>0, <1>10 DEF Drop, Done, NoRow
  <2>2. M = {}
    BY <1>0, <1>10 DEF Drop
  <2>3. H = {}
    BY <1>0, <2>1, IdleType DEF TaskOK
  <2> QED
    BY <2>2, <2>3
<1>11. ASSUME u = w, ClaimLink(p)
       PROVE  Shrinks \/ Spends
  <2>1. /\ task'[p] = Idle /\ sub' = sub /\ task[p].pc = "claimLink"
        /\ link' = IF CanClaim(p) THEN [link EXCEPT ![a] = w] ELSE link
    BY <1>0, <1>11 DEF ClaimLink, Done, At
  <2>2. H \subseteq G \ {p}
    BY <1>5, <1>11, <2>1
  <2>3. CASE CanClaim(p)
    <3>1. p \in G
      BY <1>11, <2>1, <2>3 DEF CanClaim, RowStands, Growing
    <3> QED
      BY <1>0, <2>1, <2>2, <2>3, <3>1 DEF Linked
  <2>4. CASE ~CanClaim(p)
    BY <2>1, <2>2, <2>4 DEF Linked
  <2> QED
    BY <2>3, <2>4
<1>12. ASSUME u = w, Link(p)
       PROVE  Shrinks \/ Spends \/ Starts1 \/ Replaces
  <2>1. /\ task[p].pc = "link" /\ a \in Accounts /\ sub'[u].id = sub[u].id
        /\ task[p].kind = "subscribe" \/ (task[p].kind = "add")
    <3>1. task[p].pc = "link"
      BY <1>12 DEF Link, At
    <3>2. ~Upsert(p) /\ ~ClaimRow(p) /\ ~Drop(p)
      BY <3>1 DEF Upsert, ClaimRow, Drop, At
    <3> QED
      BY <1>0, <1>1, <3>1, <3>2, IdStays DEF TaskOK
  <2>2. CASE Throw(p) /\ UNCHANGED link
    <3>1. task'[p] = Idle
      BY <1>0, <2>2 DEF Throw, Done
    <3> QED
      BY <1>5, <1>12, <2>1, <2>2, <3>1 DEF Linked
  <2>3. CASE CanLink(p) /\ task[p].kind = "add" /\ Done(p) /\ link' = [link EXCEPT ![a] = u]
    <3>1. p \in G /\ task'[p] = Idle
      BY <1>0, <1>12, <2>3 DEF CanLink, RowStands, Growing, Done
    <3>2. H \subseteq G \ {p}
      BY <1>5, <1>12, <2>1, <3>1
    <3> QED
      BY <1>0, <2>3, <3>1, <3>2 DEF Linked
  <2>4. ASSUME Goto(p, "activate"), task[p].kind = "subscribe"
        PROVE  H \subseteq G /\ p \notin H
    <3>1. task'[p].kind = "subscribe" /\ task'[p].pc = "activate"
      BY <1>0, <2>4 DEF Goto, Task
    <3> QED
      BY <1>2, <2>1, <3>1 DEF Growing
  <2>5. CASE Goto(p, "activate") /\ task[p].kind = "subscribe" /\ Linked(u) = {} /\ link' = [link EXCEPT ![a] = u]
    BY <1>0, <2>1, <2>4, <2>5 DEF Linked
  <2>6. ASSUME NEW b \in Linked(u), Goto(p, "activate"), task[p].kind = "subscribe",
               link' = [link EXCEPT ![b] = None, ![a] = u]
        PROVE  Replaces
    <3>1. M \subseteq (L \ {b}) \cup {a}
      BY <1>0, <2>1, <2>6 DEF Linked
    <3> QED
      BY <2>4, <2>6, <3>1
  <2> HIDE DEF M, H, G, L
  <2> QED
    BY <1>12, <2>1, <2>2, <2>3, <2>5, <2>6 DEF Link
<1>13. CASE u = w
  <2> HIDE DEF M, H, G, L
  <2> HIDE DEF Shrinks, Spends, Renews, Starts1, Replaces
  <2>1. ClaimRow(p) /\ Exists(w) => task'[p] = Idle
    BY <1>0 DEF ClaimRow, Done
  <2>2. Shrinks \/ Spends \/ Renews \/ Starts1 \/ Replaces
    <3>1. CASE Upsert(p) \/ ClaimRow(p)
      BY <1>7, <1>8, <1>9, <1>13, <2>1, <3>1
    <3>2. CASE ~Upsert(p) /\ ~ClaimRow(p)
      BY <1>6, <1>10, <1>11, <1>12, <1>13, <3>2
    <3> QED
      BY <3>1, <3>2
  <2> HIDE DEF a, w
  <2>3. CASE Shrinks
    BY <1>3, <2>3, CapKept, ZenonT(60) DEF Shrinks
  <2>4. CASE Spends
    BY <1>3, <2>4, CapKept, ZenonT(60) DEF Spends
  <2>5. CASE Renews
    BY <1>3, <2>5, CapKept, ZenonT(60) DEF Renews
  <2>6. CASE Starts1
    BY <1>3, <2>6, CapKept, ZenonT(60) DEF Starts1
  <2>7. CASE Replaces
    BY <1>3, <2>7, CapKept, ZenonT(60) DEF Replaces
  <2> QED
    BY <2>2, <2>3, <2>4, <2>5, <2>6, <2>7
<1> QED
  BY <1>4, <1>13

(* addAccount starts below the cap, and no more of them than there are       *)
(* processes.                                                                *)
LEMMA CapRequest ==
    ASSUME Basics, CapInv, NEW p \in Procs, NEW v \in Users, Request(p, v), NEW u \in Users
    PROVE  Cardinality(Linked(u))' + Cardinality(Growing(u))' < Cap + Cardinality(Procs)
<1>1. PICK t \in Task : Begin(p, v, t) /\ Starts(v, t)
  BY RequestStarts
<1> DEFINE r == Started(v, t)
           L == Linked(u)
           G == Growing(u)
           H == {q \in Procs : /\ task'[q].user = u /\ task'[q].row = sub[u].id
                               /\ task'[q].kind = "add" \/ task'[q].pc = "claimLink"}
<1>2. /\ task \in [Procs -> Task] /\ \A q \in Procs : task'[q] = IF q = p THEN r ELSE task[q]
      /\ link' = link /\ sub' = sub
  BY <1>1 DEF Begin, Started, Basics, AccountsTypeOK
<1>3. r.kind = t.kind /\ r.pc = t.pc /\ r.user = v
  BY <1>1, StartedOK
<1>4. /\ L \in SUBSET Accounts /\ G \in SUBSET Procs /\ H \in SUBSET Procs
      /\ Cardinality(L) + Cardinality(G) < Cap + Cardinality(Procs)
      /\ Cardinality(Linked(u))' = Cardinality(L) /\ Cardinality(Growing(u))' = Cardinality(H)
  BY <1>2 DEF Linked, Growing, CapInv
<1>5. /\ Cardinality(L) \in Nat /\ Cardinality(G) \in Nat /\ Cardinality(H) \in Nat /\ IsFiniteSet(G)
      /\ Cardinality(Procs) \in Nat /\ IsFiniteSet(Procs) /\ Cap \in Nat
  BY <1>4, SizesFinite
<1>6. CASE r.kind = "add" /\ u = v
  <2>1. Cardinality(L) < Cap
    BY <1>1, <1>3, <1>6 DEF Starts, BelowCap
  <2>2. Cardinality(H) <= Cardinality(Procs)
    BY <1>5, SubsetSize
  <2> HIDE DEF L, G, H
  <2> QED
    BY <1>4, <1>5, <2>1, <2>2
<1>7. CASE ~(r.kind = "add" /\ u = v)
  <2>1. t.pc # "claimLink"
    BY <1>1 DEF Starts
  <2> HIDE DEF r
  <2>2. H \subseteq G
    BY <1>2, <1>3, <1>7, <2>1 DEF Growing
  <2>3. Cardinality(H) <= Cardinality(G)
    BY <1>5, <2>2, SubsetSize
  <2> HIDE DEF L, G, H
  <2> QED
    BY <1>4, <1>5, <2>3
<1> QED
  BY <1>6, <1>7

(* Every step keeps the bound.                                               *)
LEMMA CapStep ==
    ASSUME Basics, CapInv, [AccountsNext]_accountVars
    PROVE  CapInv'
<1> SUFFICES ASSUME NEW u \in Users
             PROVE  Cardinality(Linked(u))' + Cardinality(Growing(u))' < Cap + Cardinality(Procs)
  BY DEF CapInv
<1>1. ASSUME NEW p \in Procs, Handle(p)
      PROVE  Cardinality(Linked(u))' + Cardinality(Growing(u))' < Cap + Cardinality(Procs)
  BY <1>1, CapHandler
<1>2. ASSUME NEW p \in Procs, NEW v \in Users, Request(p, v)
      PROVE  Cardinality(Linked(u))' + Cardinality(Growing(u))' < Cap + Cardinality(Procs)
  BY <1>2, CapRequest
<1>3. CASE UNCHANGED <<link, sub, task>>
  BY <1>3 DEF CapInv, Linked, Growing
<1> QED
  BY <1>1, <1>2, <1>3 DEF AccountsNext, Purge, accountVars

(* Initially nothing is linked.                                              *)
LEMMA CapInit == AccountsInit => CapInv
<1> SUFFICES ASSUME AccountsInit, NEW u \in Users
             PROVE  Cardinality(Linked(u)) + Cardinality(Growing(u)) < Cap + Cardinality(Procs)
  BY DEF CapInv
<1>1. Linked(u) = {} /\ Growing(u) = {}
  BY IdleType, AccountsConstants DEF AccountsInit, Linked, Growing
<1> QED
  BY <1>1, SizesFinite

(* Requests that overlap exceed the cap of a subscription by no more than    *)
(* one account for each beyond the first (CapOvershootBounded).              *)
THEOREM OvershootIsBounded == AccountsSpec => []CapOvershootBounded
<1>1. ASSUME CapInv PROVE CapOvershootBounded
  <2> SUFFICES ASSUME NEW u \in Users
               PROVE  Cardinality(Linked(u)) + Cardinality(Adding(u)) < Cap + Cardinality(Procs)
    BY DEF CapOvershootBounded
  <2>1. Adding(u) \subseteq Growing(u) /\ Growing(u) \in SUBSET Procs /\ Linked(u) \in SUBSET Accounts
    BY DEF Adding, Growing, Linked
  <2>2. /\ Cardinality(Adding(u)) <= Cardinality(Growing(u)) /\ Cardinality(Adding(u)) \in Nat
        /\ Cardinality(Growing(u)) \in Nat /\ Cardinality(Linked(u)) \in Nat
        /\ Cardinality(Procs) \in Nat /\ Cap \in Nat
    BY <2>1, SizesFinite, SubsetSize
  <2>3. Cardinality(Linked(u)) + Cardinality(Growing(u)) < Cap + Cardinality(Procs)
    BY <1>1 DEF CapInv
  <2> QED
    BY <2>2, <2>3
<1>2. Basics /\ CapInv /\ [AccountsNext]_accountVars => CapInv'
  BY CapStep
<1>3. CapInv => CapOvershootBounded
  BY <1>1
<1> QED
  BY <1>2, <1>3, CapInit, BasicsHold, PTL DEF AccountsSpec

-----------------------------------------------------------------------------
(* While no operations overlapped *)

Off(a) == vendor[a].state # "on"

Gone(a) == vendor[a].state = "gone"

(* Accounts that a handler has yet to switch off or to delete.               *)
Ahead(t) ==
    IF t.pc = "mark" THEN t.context ELSE IF t.pc \in {"disable", "deprovision"} THEN t.left ELSE {}

(* What a handler with locals t relies on from one await to the next, if it  *)
(* is the only one of its user.                                              *)
Works(t) ==
    LET u == t.user IN
    /\ t.kind = "subscribe" =>
          /\ t.pc \in {"upsert", "create"} /\ t.account # None => t.account \in Linked(u)
          /\ t.pc # "activate" => t.account \in Linked(u) \/ \A b \in Linked(u) : Gone(b)
          /\ t.pc = "activate" => t.account \in Linked(u)
          /\ t.pc # "upsert" => sub[u].status = "provisioning"
    /\ t.kind = "add" =>
          /\ sub[u].status = "active"
          /\ t.pc = "create" => t.account = None
    /\ t.kind = "remove" =>
          /\ t.account \in Linked(u)
          /\ t.pc = "deprovision" => t.left = {t.account}
          /\ t.pc = "unlink" /\ t.left = {} => Off(t.account)
    /\ t.kind = "cancel" /\ t.pc \in {"mark", "context"} => sub[u].id = t.row /\ t.row # 0
    /\ t.kind = "disable" \/ (t.kind \in {"cancel", "retry"} /\ t.pc \in {"deprovision", "drop"}) =>
          \A b \in Linked(u) : Off(b) \/ b \in Ahead(t)
    /\ t.kind = "enable" =>
          /\ \A b \in t.context \cup t.left : b \in Linked(u) \/ Gone(b)
          /\ t.pc # "mark" => sub[u].status = "enabling"
    /\ t.pc = "claimLink" => sub[u].status = "active"

SwitchedOff(u) == sub[u].status = "disabled" => \A b \in Linked(u) : Off(b)

(* Account a is off, somebody's, given up, or at hand for p to link it.      *)
Safe(p, a) ==
    \/ Off(a) \/ link[a] # None \/ a \in lost
    \/ task[p].account = a /\ task[p].kind \in {"subscribe", "add"}

Orderly ==
    tangled = {} =>
        /\ \A p \in Procs : Works(task[p])
        /\ \A u \in Users : SwitchedOff(u)
        /\ NoStrayAccount

(* A handler that is not at work relies on nothing.                          *)
LEMMA IdleWorks == Works(Idle)
  BY IdleType DEF Works, Ahead

(* What the next lemmas show of handler p, working for u.                    *)
Leaves(p, u) ==
    /\ Works(task[p])
    /\ SwitchedOff(u)

(* What the next lemmas need of the basics.                                  *)
LEMMA Ready ==
    ASSUME Basics, NEW p \in Procs, NEW u \in Users, u = task[p].user, Leaves(p, u)
    PROVE  /\ task \in [Procs -> Task] /\ sub \in [Users -> Row] /\ vendor \in [Accounts -> VendorAccount]
           /\ link \in [Accounts -> Users \cup {None}]
           /\ task[p] \in Task /\ sub[u] \in Row /\ TaskOK(task[p]) /\ task[p] # Idle
           /\ None \notin Users /\ None \notin Accounts
           /\ Works(task[p]) /\ SwitchedOff(u)
  BY IdleType, AccountsConstants DEF Basics, AccountsTypeOK, Leaves, Placed

(* The account to reuse, or that all linked ones are gone, is known from     *)
(* validate().                                                               *)
LEMMA UpsertLeaves ==
    ASSUME Basics, NEW p \in Procs, Upsert(p), NEW u \in Users, u = task[p].user, Leaves(p, u)
    PROVE  Leaves(p, u)' /\ \A a \in Accounts : Safe(p, a) => Safe(p, a)'
<1>0. /\ task \in [Procs -> Task] /\ sub \in [Users -> Row]
      /\ task[p] \in Task /\ sub[u] \in Row /\ TaskOK(task[p]) /\ task[p] # Idle
      /\ None \notin Users /\ None \notin Accounts
      /\ Works(task[p]) /\ SwitchedOff(u)
  BY Ready
<1>1. task[p].pc = "upsert" /\ task[p].kind = "subscribe" /\ UNCHANGED <<vendor, link, lost>>
  BY <1>0, IdleType DEF Upsert, At, TaskOK
<1>2. CASE task'[p] = Idle /\ sub' = sub
  <2>1. Leaves(p, u)'
    BY <1>0, <1>1, <1>2, IdleType DEF Leaves, Works, Ahead, SwitchedOff, Linked, Off
  <2>2. \A a \in Accounts : Safe(p, a) => Safe(p, a)'
    BY <1>0, <1>1, <1>2 DEF Works, Safe, Linked, Off
  <2> QED
    BY <2>1, <2>2
<1>3. CASE \E row : task' = [task EXCEPT ![p].pc = "create", ![p].row = row] /\ sub'[u].status = "provisioning"
  <2>1. /\ task'[p].kind = "subscribe" /\ task'[p].pc = "create" /\ task'[p].user = u
        /\ task'[p].account = task[p].account
    BY <1>0, <1>1, <1>3 DEF Task
  <2>2. Leaves(p, u)'
    BY <1>0, <1>1, <1>3, <2>1 DEF Leaves, Works, SwitchedOff, Linked, Gone
  <2>3. \A a \in Accounts : Safe(p, a) => Safe(p, a)'
    BY <1>0, <1>1, <2>1 DEF Safe, Off
  <2> QED
    BY <2>2, <2>3
<1>4. CASE Done(p) /\ UNCHANGED sub
  BY <1>0, <1>2, <1>4 DEF Done
<1>5. CASE \E row : /\ sub' = [sub EXCEPT ![u].status = "provisioning"]
                     /\ task' = [task EXCEPT ![p].pc = "create", ![p].row = row]
  <2>1. sub'[u].status = "provisioning"
    BY <1>0, <1>5 DEF Row
  <2>2. \E row : task' = [task EXCEPT ![p].pc = "create", ![p].row = row]
    BY <1>5
  <2> QED
    BY <1>3, <2>1, <2>2
<1>6. CASE \E id, row : /\ sub' = [sub EXCEPT ![u] = [id |-> id, status |-> "provisioning"]]
                         /\ task' = [task EXCEPT ![p].pc = "create", ![p].row = row]
  <2>1. sub'[u].status = "provisioning"
    BY <1>0, <1>6
  <2>2. \E row : task' = [task EXCEPT ![p].pc = "create", ![p].row = row]
    BY <1>6
  <2> QED
    BY <1>3, <2>1, <2>2
<1>7. \/ Done(p) /\ UNCHANGED sub
      \/ \E row : /\ sub' = [sub EXCEPT ![u].status = "provisioning"]
                  /\ task' = [task EXCEPT ![p].pc = "create", ![p].row = row]
      \/ \E id, row : /\ sub' = [sub EXCEPT ![u] = [id |-> id, status |-> "provisioning"]]
                      /\ task' = [task EXCEPT ![p].pc = "create", ![p].row = row]
  BY DEF Upsert
<1> QED
  BY <1>4, <1>5, <1>6, <1>7

(* A handler that gives up leaves its account linked or off, or has said so. *)
LEMMA ThrowLeaves ==
    ASSUME Basics, NEW p \in Procs, Throw(p), NEW u \in Users, u = task[p].user,
           UNCHANGED <<vendor, link>>, sub[u].status # "disabled" \/ SwitchedOff(u)
    PROVE  Leaves(p, u)' /\ task'[p] = Idle
<1>0. task \in [Procs -> Task] /\ task[p] # Idle
  BY IdleType, AccountsConstants DEF Basics, AccountsTypeOK
<1>1. task'[p] = Idle
  BY <1>0 DEF Throw, Done
<1>2. sub'[u].status \in {sub[u].status, "failedProvisioning", "failedCancellation"}
  <2>1. CASE tangled' = tangled /\ link' = link
    BY <1>0, <2>1, ThrowKeeps
  <2>2. sub \in [Users -> Row]
    BY DEF Basics, AccountsTypeOK
  <2>3. StatusAfterThrow(task[p].kind) \in {"none", "failedProvisioning", "failedCancellation"}
    BY DEF StatusAfterThrow
  <2> QED
    BY <2>2, <2>3 DEF Throw, Row
<1>3. SwitchedOff(u)'
  BY <1>2 DEF SwitchedOff, Linked, Off
<1>4. Works(task[p])'
  BY <1>1, IdleType DEF Works, Ahead
<1> QED
  BY <1>1, <1>3, <1>4 DEF Leaves

(* The account that comes up is linked already, or at hand to be linked or   *)
(* given up.                                                                 *)
LEMMA CreateLeaves ==
    ASSUME Basics, NEW p \in Procs, Create(p), NEW u \in Users, u = task[p].user, Leaves(p, u)
    PROVE  Leaves(p, u)' /\ \A a \in Accounts : Safe(p, a) => Safe(p, a)'
<1> DEFINE reused == task[p].account
<1>0. /\ task \in [Procs -> Task] /\ sub \in [Users -> Row] /\ vendor \in [Accounts -> VendorAccount]
      /\ task[p] \in Task /\ sub[u] \in Row /\ TaskOK(task[p]) /\ task[p] # Idle
      /\ None \notin Users /\ None \notin Accounts
      /\ Works(task[p]) /\ SwitchedOff(u)
  BY Ready
<1>1. /\ task[p].pc = "create" /\ UNCHANGED link
      /\ task[p].kind \in {"subscribe", "add"}
  BY <1>0 DEF Create, At, TaskOK
<1>2. /\ reused # None => task[p].kind = "subscribe" /\ reused \in Linked(u)
      /\ reused = None /\ task[p].kind = "subscribe" => \A b \in Linked(u) : Gone(b)
      /\ task[p].kind = "subscribe" => sub[u].status = "provisioning"
      /\ task[p].kind = "add" => sub[u].status = "active"
  BY <1>0, <1>1 DEF Works, Linked
<1>3. CASE reused # None /\ vendor' = SetState(reused, "on") /\ Goto(p, "link") /\ UNCHANGED <<sub, lost>>
  <2>1. task'[p].kind = "subscribe" /\ task'[p].pc = "link" /\ task'[p].user = u /\ task'[p].account = reused
    BY <1>0, <1>2, <1>3 DEF Goto, Task
  <2>2. Leaves(p, u)'
    BY <1>1, <1>2, <1>3, <2>1 DEF Leaves, Works, SwitchedOff, Linked
  <2>3. reused \in Accounts /\ link[reused] = u
    BY <1>2, <1>3 DEF Linked
  <2>4. \A a \in Accounts \ {reused} : vendor'[a] = vendor[a]
    BY <1>3, <2>3, StateSet DEF Basics
  <2>5. \A a \in Accounts : Safe(p, a) => Safe(p, a)'
    BY <1>0, <1>1, <1>2, <1>3, <2>1, <2>3, <2>4 DEF Safe, Off
  <2> QED
    BY <2>2, <2>5
<1>4. ASSUME reused = None, NEW a \in Accounts, vendor[a].state = "free",
             vendor' = [vendor EXCEPT ![a] = [state |-> "on", name |-> task[p].name]]
      PROVE  /\ link[a] = None
             /\ \A b \in Accounts \ {a} : vendor'[b] = vendor[b]
             /\ \A b \in Linked(u) : vendor'[b] = vendor[b]
  <2>1. link[a] = None
    BY <1>4 DEF Basics, Minted
  <2> QED
    BY <1>0, <1>4, <2>1 DEF Linked
<1>5. ASSUME reused = None, NEW a \in Accounts, vendor[a].state = "free",
             vendor' = [vendor EXCEPT ![a] = [state |-> "on", name |-> task[p].name]],
             task' = [task EXCEPT ![p].pc = "link", ![p].account = a, ![p].name = None],
             UNCHANGED <<sub, lost>>
      PROVE  Leaves(p, u)' /\ \A b \in Accounts : Safe(p, b) => Safe(p, b)'
  <2>1. /\ task'[p].kind = task[p].kind /\ task'[p].pc = "link" /\ task'[p].user = u
        /\ task'[p].account = a
    BY <1>0, <1>5 DEF Task
  <2>2. Works(task[p])'
    <3>1. \A b \in Accounts : link'[b] = u /\ task[p].kind = "subscribe" => vendor'[b].state = "gone"
      BY <1>1, <1>2, <1>4, <1>5 DEF Gone, Linked
    <3>2. sub'[u].status = sub[u].status
      BY <1>5
    <3> QED
      BY <1>1, <1>2, <2>1, <3>1, <3>2 DEF Works, Linked, Gone
  <2>3. SwitchedOff(u)'
    BY <1>1, <1>2, <1>5 DEF SwitchedOff
  <2>4. \A b \in Accounts : Safe(p, b) => Safe(p, b)'
    BY <1>0, <1>1, <1>4, <1>5, <2>1 DEF Safe, Off
  <2> QED
    BY <2>2, <2>3, <2>4 DEF Leaves
<1>6. ASSUME reused = None, NEW a \in Accounts, vendor[a].state = "free",
             vendor' = [vendor EXCEPT ![a] = [state |-> "on", name |-> task[p].name]],
             Throw(p), lost' = lost \cup {a}
      PROVE  Leaves(p, u)' /\ \A b \in Accounts : Safe(p, b) => Safe(p, b)'
  <2>1. task'[p] = Idle
    BY <1>0, <1>6 DEF Throw, Done
  <2>2. sub'[u].status # "disabled"
    <3>1. StatusAfterThrow(task[p].kind) # "disabled"
      BY DEF StatusAfterThrow
    <3> QED
      BY <1>0, <1>1, <1>2, <1>6, <3>1 DEF Throw, Row
  <2>3. Leaves(p, u)'
    BY <2>1, <2>2, IdleType DEF Leaves, Works, Ahead, SwitchedOff
  <2>4. \A b \in Accounts : Safe(p, b) => Safe(p, b)'
    BY <1>0, <1>1, <1>4, <1>6 DEF Safe, Off
  <2> QED
    BY <2>3, <2>4
<1>7. CASE Throw(p) /\ UNCHANGED <<vendor, lost>>
  <2>1. Leaves(p, u)' /\ task'[p] = Idle
    BY <1>0, <1>1, <1>7, ThrowLeaves
  <2>2. \A b \in Accounts : Safe(p, b) => Safe(p, b)'
    BY <1>0, <1>1, <1>2, <1>7 DEF Safe, Off, Linked
  <2> QED
    BY <2>1, <2>2
<1> DEFINE Goal == Leaves(p, u)' /\ \A b \in Accounts : Safe(p, b) => Safe(p, b)'
<1>8. Goal
  <2> HIDE DEF Goal
  <2> QED
    BY <1>3, <1>5, <1>6, <1>7 DEF Create, Goal
<1> QED
  BY <1>8

(* The first account is replaced only if it is gone or the very same.        *)
LEMMA LinkLeaves ==
    ASSUME Basics, NEW p \in Procs, Link(p), NEW u \in Users, u = task[p].user, Leaves(p, u)
    PROVE  Leaves(p, u)' /\ \A a \in Accounts : Safe(p, a) => Safe(p, a)'
<1> DEFINE c == task[p].account
<1>0. /\ task \in [Procs -> Task] /\ sub \in [Users -> Row] /\ link \in [Accounts -> Users \cup {None}]
      /\ task[p] \in Task /\ sub[u] \in Row /\ TaskOK(task[p]) /\ task[p] # Idle
      /\ None \notin Users /\ None \notin Accounts
      /\ Works(task[p]) /\ SwitchedOff(u)
  BY Ready
<1>1. /\ task[p].pc = "link" /\ UNCHANGED vendor /\ c \in Accounts
      /\ task[p].kind \in {"subscribe", "add"}
  BY <1>0 DEF Link, At, TaskOK
<1>2. /\ task[p].kind = "subscribe" =>
            /\ sub[u].status = "provisioning"
            /\ c \in Linked(u) \/ \A b \in Linked(u) : Off(b)
      /\ task[p].kind = "add" => sub[u].status = "active"
  BY <1>0, <1>1 DEF Works, Off, Gone
<1>3. ASSUME UNCHANGED <<sub, lost>>, link'[c] = u,
             \A b \in Accounts : link'[b] # link[b] => b = c \/ Off(b),
             task'[p] = Idle \/ (Goto(p, "activate") /\ task[p].kind = "subscribe")
      PROVE  Leaves(p, u)' /\ \A b \in Accounts : Safe(p, b) => Safe(p, b)'
  <2>1. \A b \in Accounts : Safe(p, b) => Safe(p, b)'
    BY <1>0, <1>1, <1>3 DEF Safe, Off
  <2>2. SwitchedOff(u)'
    BY <1>1, <1>2, <1>3 DEF SwitchedOff
  <2>3. CASE task'[p] = Idle
    BY <2>1, <2>2, <2>3, IdleType DEF Leaves, Works, Ahead
  <2>4. CASE Goto(p, "activate") /\ task[p].kind = "subscribe"
    <3>1. task'[p].kind = "subscribe" /\ task'[p].pc = "activate" /\ task'[p].user = u /\ task'[p].account = c
      BY <1>0, <2>4 DEF Goto, Task
    <3>2. Works(task[p])'
      BY <1>1, <1>2, <1>3, <2>4, <3>1 DEF Works, Linked
    <3> QED
      BY <2>1, <2>2, <3>2 DEF Leaves
  <2> QED
    BY <1>3, <2>3, <2>4
<1>4. ASSUME UNCHANGED <<sub, lost>>, NEW first \in Linked(u), task[p].kind = "subscribe",
             c \in Linked(u) => first = c,
             link' = [link EXCEPT ![first] = None, ![c] = u], Goto(p, "activate")
      PROVE  Leaves(p, u)' /\ \A b \in Accounts : Safe(p, b) => Safe(p, b)'
  <2>1. link'[c] = u /\ \A b \in Accounts : link'[b] # link[b] => b = c \/ b = first
    BY <1>0, <1>1, <1>4
  <2>2. first = c \/ Off(first)
    BY <1>2, <1>4
  <2> QED
    BY <1>3, <1>4, <2>1, <2>2
<1>5. ASSUME UNCHANGED <<sub, lost>>, link' = [link EXCEPT ![c] = u],
             task'[p] = Idle \/ (Goto(p, "activate") /\ task[p].kind = "subscribe")
      PROVE  Leaves(p, u)' /\ \A b \in Accounts : Safe(p, b) => Safe(p, b)'
  <2>1. link'[c] = u /\ \A b \in Accounts : link'[b] # link[b] => b = c
    BY <1>0, <1>1, <1>5
  <2> QED
    BY <1>3, <1>5, <2>1
<1>6. CASE Throw(p) /\ lost' = lost \cup {c} /\ UNCHANGED link
  <2>1. Leaves(p, u)'
    BY <1>0, <1>1, <1>6, ThrowLeaves
  <2>2. \A b \in Accounts : Safe(p, b) => Safe(p, b)'
    BY <1>0, <1>1, <1>6 DEF Safe, Off
  <2> QED
    BY <2>1, <2>2
<1>7. Done(p) => task'[p] = Idle
  BY <1>0 DEF Done
<1> DEFINE Goal == Leaves(p, u)' /\ \A b \in Accounts : Safe(p, b) => Safe(p, b)'
<1>8. Goal
  <2> HIDE DEF Goal
  <2>1. CASE Throw(p) /\ lost' = lost \cup {c} /\ UNCHANGED link
    BY <1>6, <2>1 DEF Goal
  <2>2. CASE /\ task[p].kind = "subscribe"
             /\ \E first \in Linked(u) :
                   /\ c \in Linked(u) => first = c
                   /\ link' = [link EXCEPT ![first] = None, ![c] = u]
             /\ Goto(p, "activate") /\ UNCHANGED <<sub, lost>>
    BY <1>4, <2>2 DEF Goal
  <2>3. CASE /\ link' = [link EXCEPT ![c] = u] /\ UNCHANGED <<sub, lost>>
             /\ IF task[p].kind = "add" THEN Done(p) ELSE Goto(p, "activate")
    BY <1>1, <1>5, <1>7, <2>3 DEF Goal
  <2> QED
    BY <2>1, <2>2, <2>3 DEF Link
<1> QED
  BY <1>8

(* The account at hand is linked by now.                                     *)
LEMMA ActivateLeaves ==
    ASSUME Basics, NEW p \in Procs, Activate(p), NEW u \in Users, u = task[p].user, Leaves(p, u)
    PROVE  Leaves(p, u)' /\ \A a \in Accounts : Safe(p, a) => Safe(p, a)'
<1>0. /\ task \in [Procs -> Task] /\ sub \in [Users -> Row]
      /\ sub[u] \in Row /\ TaskOK(task[p]) /\ task[p] # Idle
      /\ None \notin Users /\ None \notin Accounts
      /\ Works(task[p]) /\ SwitchedOff(u)
  BY Ready
<1>1. /\ task[p].pc = "activate" /\ task[p].kind = "subscribe" /\ UNCHANGED <<vendor, link, lost>>
  BY <1>0 DEF Activate, At, TaskOK
<1>2. task[p].account \in Accounts /\ link[task[p].account] = u
  BY <1>0, <1>1 DEF Works, Linked
<1>3. \A a \in Accounts : Safe(p, a) => Safe(p, a)'
  BY <1>0, <1>1, <1>2 DEF Safe, Off
<1>4. CASE sub' = [sub EXCEPT ![u].status = "active"] /\ Done(p)
  <2>1. task'[p] = Idle /\ sub'[u].status = "active"
    BY <1>0, <1>4 DEF Done, Row
  <2> QED
    BY <1>3, <2>1, IdleType DEF Leaves, Works, Ahead, SwitchedOff
<1>5. CASE Throw(p)
  <2>1. Leaves(p, u)'
    BY <1>0, <1>1, <1>5, ThrowLeaves
  <2> QED
    BY <1>3, <2>1
<1> QED
  BY <1>4, <1>5 DEF Activate

(* The account was deleted at the vendor before, or is unlinked on purpose.  *)
LEMMA UnlinkLeaves ==
    ASSUME Basics, NEW p \in Procs, Unlink(p), NEW u \in Users, u = task[p].user, Leaves(p, u)
    PROVE  Leaves(p, u)' /\ \A a \in Accounts : Safe(p, a) => Safe(p, a)'
<1> DEFINE c == task[p].account
<1>0. /\ task \in [Procs -> Task] /\ link \in [Accounts -> Users \cup {None}]
      /\ TaskOK(task[p]) /\ task[p] # Idle
      /\ None \notin Users /\ None \notin Accounts
      /\ Works(task[p]) /\ SwitchedOff(u)
  BY Ready
<1>1. /\ task[p].pc = "unlink" /\ task[p].kind = "remove" /\ UNCHANGED <<vendor, sub>>
      /\ task'[p] = Idle
      /\ link' = IF link[c] = u THEN [link EXCEPT ![c] = None] ELSE link
      /\ lost' = IF task[p].left # {} THEN lost \cup {c} ELSE lost
  BY <1>0 DEF Unlink, At, TaskOK, Done
<1>2. c \in Accounts /\ (Off(c) \/ c \in lost')
  BY <1>0, <1>1 DEF Works, Linked
<1>3. \A a \in Accounts : link'[a] \in {link[a], None} /\ (a # c => link'[a] = link[a])
  BY <1>0, <1>1, <1>2
<1>4. \A a \in Accounts : Safe(p, a) => Safe(p, a)'
  BY <1>0, <1>1, <1>2, <1>3 DEF Safe, Off
<1>5. SwitchedOff(u)'
  BY <1>0, <1>1, <1>3 DEF SwitchedOff, Linked, Off
<1> QED
  BY <1>1, <1>4, <1>5, IdleType DEF Leaves, Works, Ahead

(* The accounts of the context are all that are linked.                      *)
LEMMA MarkLeaves ==
    ASSUME Basics, NEW p \in Procs, Mark(p), NEW u \in Users, u = task[p].user, Leaves(p, u)
    PROVE  Leaves(p, u)' /\ \A a \in Accounts : Safe(p, a) => Safe(p, a)'
<1> DEFINE kind == task[p].kind
           pc == IF kind = "cancel" THEN "context" ELSE EnterLoops(kind, task[p].context)
<1>0. /\ task \in [Procs -> Task] /\ sub \in [Users -> Row] /\ task[p] \in Task
      /\ sub[u] \in Row /\ TaskOK(task[p]) /\ task[p] # Idle
      /\ None \notin Users /\ None \notin Accounts
      /\ Works(task[p]) /\ SwitchedOff(u)
  BY Ready
<1>1. task[p].pc = "mark" /\ kind \in {"cancel", "disable", "enable"} /\ UNCHANGED <<vendor, link, lost>>
  BY <1>0 DEF Mark, At, TaskOK
<1>2. CASE Throw(p)
  <2>1. Leaves(p, u)'
    BY <1>0, <1>1, <1>2, ThrowLeaves
  <2>2. \A a \in Accounts : Safe(p, a) => Safe(p, a)'
    BY <1>0, <1>1 DEF Safe, Off
  <2> QED
    BY <2>1, <2>2
<1>3. ASSUME sub' = [sub EXCEPT ![u].status = TransitionalStatus(kind)],
             task' = [task EXCEPT ![p].left = task[p].context, ![p].pc = pc]
      PROVE  Leaves(p, u)' /\ \A a \in Accounts : Safe(p, a) => Safe(p, a)'
  <2>1. sub'[u].status = TransitionalStatus(kind) /\ sub'[u].id = sub[u].id
    BY <1>0, <1>3 DEF Row
  <2>2. /\ TransitionalStatus(kind) # "disabled"
        /\ kind = "enable" => TransitionalStatus(kind) = "enabling"
    BY DEF TransitionalStatus
  <2>3. /\ kind = "cancel" => pc = "context"
        /\ kind = "disable" => pc = IF task[p].context = {} THEN "settle" ELSE "disable"
        /\ kind = "enable" => pc \in {"prune", "settle"}
    BY <1>1 DEF EnterLoops, AfterLoops, FirstLoop
  <2> HIDE DEF pc
  <2>4. /\ task'[p].kind = kind /\ task'[p].user = u /\ task'[p].row = task[p].row /\ task'[p].pc = pc
        /\ task'[p].left = task[p].context /\ task'[p].context = task[p].context
        /\ task'[p].account = task[p].account
    BY <1>0, <1>3 DEF Task
  <2>5. CASE kind = "cancel"
    <3>1. sub'[u].id = task'[p].row /\ task'[p].row # 0
      BY <1>0, <1>1, <2>1, <2>4, <2>5 DEF Works
    <3> QED
      BY <1>1, <2>1, <2>2, <2>3, <2>4, <2>5, <3>1 DEF Leaves, Works, SwitchedOff, Safe, Off
  <2>6. CASE kind = "disable"
    <3>1. \A b \in Accounts : link[b] = u => vendor[b].state # "on" \/ b \in task[p].context
      BY <1>0, <1>1, <2>6 DEF Works, Ahead, Linked, Off
    <3>2. \A b \in Accounts : link'[b] = u => vendor'[b].state # "on" \/ b \in Ahead(task[p])'
      BY <1>1, <2>3, <2>4, <2>6, <3>1 DEF Ahead
    <3>3. Works(task[p])'
      BY <2>3, <2>4, <2>6, <3>2 DEF Works, Linked, Off
    <3>4. SwitchedOff(u)'
      BY <2>1, <2>2 DEF SwitchedOff
    <3>5. \A a \in Accounts : Safe(p, a) => Safe(p, a)'
      BY <1>1, <2>6 DEF Safe, Off
    <3> QED
      BY <3>3, <3>4, <3>5 DEF Leaves
  <2>7. CASE kind = "enable"
    <3>1. \A b \in task[p].context : (b \in Accounts /\ link[b] = u) \/ vendor[b].state = "gone"
      BY <1>0, <1>1, <2>7 DEF Works, Linked, Gone
    <3>2. Works(task[p])'
      BY <1>1, <2>1, <2>2, <2>3, <2>4, <2>7, <3>1 DEF Works, Linked, Gone
    <3>3. SwitchedOff(u)'
      BY <2>1, <2>2 DEF SwitchedOff
    <3>4. \A a \in Accounts : Safe(p, a) => Safe(p, a)'
      BY <1>1, <2>7 DEF Safe, Off
    <3> QED
      BY <3>2, <3>3, <3>4 DEF Leaves
  <2> QED
    BY <1>1, <2>5, <2>6, <2>7
<1> QED
  BY <1>2, <1>3 DEF Mark

(* The row stands, so that the context has all accounts that are linked.     *)
LEMMA BuildContextLeaves ==
    ASSUME Basics, NEW p \in Procs, BuildContext(p), NEW u \in Users, u = task[p].user, Leaves(p, u)
    PROVE  Leaves(p, u)' /\ \A a \in Accounts : Safe(p, a) => Safe(p, a)'
<1>0. /\ task \in [Procs -> Task] /\ task[p] \in Task /\ TaskOK(task[p]) /\ task[p] # Idle
      /\ Works(task[p]) /\ SwitchedOff(u)
  BY Ready
<1>1. task[p].pc = "context" /\ task[p].kind = "cancel" /\ UNCHANGED <<vendor, link, sub, lost>>
  BY <1>0 DEF BuildContext, At, TaskOK
<1>2. RowStands(p)
  BY <1>0, <1>1 DEF Works, RowStands
<1>3. task' = [task EXCEPT ![p].left = Linked(u), ![p].pc = EnterLoops("cancel", Linked(u))]
  BY <1>1, <1>2 DEF BuildContext
<1>4. EnterLoops("cancel", Linked(u)) = IF Linked(u) = {} THEN "drop" ELSE "deprovision"
  BY DEF EnterLoops, AfterLoops, FirstLoop
<1>5. /\ task'[p].kind = "cancel" /\ task'[p].user = u /\ task'[p].left = Linked(u)
      /\ task'[p].pc = IF Linked(u) = {} THEN "drop" ELSE "deprovision"
  BY <1>0, <1>1, <1>3, <1>4 DEF Task
<1>6. Linked(u)' = Linked(u)
  BY <1>1 DEF Linked
<1>7. \A b \in Linked(u)' : b \in Ahead(task[p])'
  BY <1>5, <1>6 DEF Ahead
<1>8. Works(task[p])'
  BY <1>5, <1>7 DEF Works
<1>9. SwitchedOff(u)'
  BY <1>0, <1>1, <1>6 DEF SwitchedOff, Off
<1>10. \A a \in Accounts : Safe(p, a) => Safe(p, a)'
  BY <1>1 DEF Safe, Off
<1> QED
  BY <1>8, <1>9, <1>10 DEF Leaves

(* The loops that delete and disable.                                        *)
LEMMA OffRoundLeaves ==
    ASSUME Basics, NEW p \in Procs, Deprovision(p) \/ DisableAccounts(p),
           NEW u \in Users, u = task[p].user, Leaves(p, u)
    PROVE  Leaves(p, u)' /\ \A a \in Accounts : Safe(p, a) => Safe(p, a)'
<1>0. /\ task \in [Procs -> Task] /\ sub \in [Users -> Row] /\ task[p] \in Task
      /\ TaskOK(task[p]) /\ task[p] # Idle
      /\ None \notin Users /\ None \notin Accounts
      /\ Works(task[p]) /\ SwitchedOff(u)
  BY Ready
<1>1. /\ UNCHANGED <<link, lost>>
      /\ \/ task[p].kind \in {"remove", "cancel", "retry"} /\ task[p].pc = "deprovision"
         \/ task[p].kind = "disable" /\ task[p].pc = "disable"
  BY <1>0 DEF Deprovision, DisableAccounts, Round, At, TaskOK
<1>2. ASSUME NEW a \in task[p].left, NEW states \in {{"on"}, {"on", "off"}}, NEW after \in {"off", "gone"},
             IF vendor[a].state \in states THEN vendor' = SetState(a, after) ELSE UNCHANGED vendor,
             task' = [task EXCEPT ![p] = AfterRound(p, a)], UNCHANGED sub
      PROVE  Leaves(p, u)' /\ \A b \in Accounts : Safe(p, b) => Safe(p, b)'
  <2>0. a \in Accounts
    BY <1>0 DEF Task
  <2>1. Off(a)' /\ \A b \in Accounts : Off(b) => Off(b)'
    <3>1. CASE vendor' = SetState(a, after)
      BY <2>0, <3>1, StateSet DEF Basics, Off
    <3>2. CASE vendor' = vendor /\ vendor[a].state \notin states
      BY <3>2 DEF Off
    <3> QED
      BY <1>2, <3>1, <3>2
  <2>2. task'[p] = AfterRound(p, a)
    BY <1>0, <1>2
  <2>3. /\ task'[p].kind = task[p].kind /\ task'[p].user = u /\ task'[p].account = task[p].account
        /\ \/ task'[p].pc = task[p].pc /\ task'[p].left = task[p].left \ {a} /\ task'[p].left # {}
           \/ /\ task[p].left \ {a} = {}
              /\ task'[p].pc = AfterLoops(task[p].kind) /\ task'[p].left = {}
    BY <1>1, <2>2, RoundTask
  <2>4. AfterLoops(task[p].kind) = IF task[p].kind = "remove" THEN "unlink"
                                   ELSE IF task[p].kind = "disable" THEN "settle" ELSE "drop"
    BY <1>1 DEF AfterLoops
  <2>5. \A b \in Accounts : Safe(p, b) => Safe(p, b)'
    BY <1>1, <2>1 DEF Safe
  <2>6. SwitchedOff(u)'
    BY <1>0, <1>1, <1>2, <2>1 DEF SwitchedOff, Linked
  <2>7. CASE task[p].kind = "remove"
    <3>1. /\ task[p].left = {task[p].account} /\ task[p].account \in Accounts
          /\ link[task[p].account] = u
      BY <1>0, <1>1, <2>7 DEF Works, Linked
    <3>2. /\ task'[p].pc = "unlink" /\ task'[p].left = {} /\ a = task'[p].account
      BY <2>3, <2>4, <2>7, <3>1
    <3>3. vendor'[task'[p].account].state # "on" /\ link'[task'[p].account] = u /\ task'[p].account \in Accounts
      BY <1>1, <2>0, <2>1, <2>3, <3>1, <3>2 DEF Off
    <3>4. Works(task[p])'
      BY <2>3, <2>7, <3>2, <3>3 DEF Works, Linked, Off
    <3> QED
      BY <2>5, <2>6, <3>4 DEF Leaves
  <2>8. CASE task[p].kind # "remove"
    <3>1. \A b \in Accounts : link[b] = u => vendor[b].state # "on" \/ b \in task[p].left
      BY <1>0, <1>1, <2>8 DEF Works, Ahead, Linked, Off
    <3>2. \A b \in Accounts : link'[b] = u => vendor'[b].state # "on" \/ b \in Ahead(task[p])'
      BY <1>1, <2>1, <2>3, <3>1 DEF Ahead, Off
    <3>3. /\ task'[p].kind \in {"cancel", "retry"} => task'[p].pc \in {"deprovision", "drop"}
          /\ task'[p].kind \in {"cancel", "retry", "disable"}
          /\ task'[p].pc # "claimLink"
      BY <1>1, <2>3, <2>4, <2>8
    <3>4. Works(task[p])'
      BY <2>3, <3>2, <3>3 DEF Works, Linked, Off
    <3> QED
      BY <2>5, <2>6, <3>4 DEF Leaves
  <2> QED
    BY <2>7, <2>8
<1>3. CASE Throw(p) /\ UNCHANGED vendor
  <2>1. Leaves(p, u)'
    BY <1>0, <1>1, <1>3, ThrowLeaves
  <2>2. \A b \in Accounts : Safe(p, b) => Safe(p, b)'
    BY <1>1, <1>3 DEF Safe, Off
  <2> QED
    BY <2>1, <2>2
<1> DEFINE Goal == Leaves(p, u)' /\ \A b \in Accounts : Safe(p, b) => Safe(p, b)'
<1>4. StateAfterDelete \in {"off", "gone"}
  BY DEF StateAfterDelete
<1>5. Goal
  <2> HIDE DEF Goal
  <2>1. ASSUME Deprovision(p) PROVE Goal
    BY <1>2, <1>3, <1>4, <2>1 DEF Deprovision, Round, Goal
  <2>2. ASSUME DisableAccounts(p) PROVE Goal
    BY <1>2, <1>3, <2>2 DEF DisableAccounts, Round, Goal
  <2> QED
    BY <2>1, <2>2
<1> QED
  BY <1>5

(* The loop that enables: what it switches on is linked to its user.         *)
LEMMA EnableLeaves ==
    ASSUME Basics, NEW p \in Procs, EnableAccounts(p), NEW u \in Users, u = task[p].user, Leaves(p, u)
    PROVE  Leaves(p, u)' /\ \A a \in Accounts : Safe(p, a) => Safe(p, a)'
<1>0. /\ task \in [Procs -> Task] /\ sub \in [Users -> Row] /\ task[p] \in Task
      /\ TaskOK(task[p]) /\ task[p] # Idle
      /\ None \notin Users /\ None \notin Accounts
      /\ Works(task[p]) /\ SwitchedOff(u)
  BY Ready
<1>1. UNCHANGED <<link, lost>> /\ task[p].kind = "enable" /\ task[p].pc = "enable"
  BY <1>0 DEF EnableAccounts, Round, At, TaskOK
<1>2. /\ sub[u].status = "enabling"
      /\ \A b \in task[p].context \cup task[p].left :
            (b \in Accounts /\ link[b] = u) \/ vendor[b].state = "gone"
  BY <1>0, <1>1 DEF Works, Linked, Gone
<1>3. ASSUME NEW a \in task[p].left,
             IF vendor[a].state \in {"off"} THEN vendor' = SetState(a, "on") ELSE UNCHANGED vendor,
             task' = [task EXCEPT ![p] = AfterRound(p, a)], UNCHANGED sub
      PROVE  Leaves(p, u)' /\ \A b \in Accounts : Safe(p, b) => Safe(p, b)'
  <2>0. a \in Accounts /\ task[p].left \cup task[p].context \subseteq Accounts
    BY <1>0 DEF Task
  <2>1. /\ \A b \in Accounts : vendor[b].state = "gone" => vendor'[b].state = "gone"
        /\ \A b \in Accounts : link[b] # u => vendor'[b] = vendor[b]
    <3>1. CASE vendor[a].state = "off" /\ vendor' = SetState(a, "on")
      <4>1. link[a] = u
        BY <1>2, <3>1
      <4> QED
        BY <2>0, <3>1, <4>1, StateSet, ZenonT(60) DEF Basics
    <3>2. CASE vendor' = vendor
      BY <3>2
    <3> QED
      BY <1>3, <3>1, <3>2
  <2>2. task'[p] = AfterRound(p, a)
    BY <1>0, <1>3
  <2>3. /\ task'[p].kind = "enable" /\ task'[p].user = u
        /\ task'[p].left \subseteq task[p].left
        /\ task'[p].context \subseteq task[p].context
        /\ task'[p].pc # "mark" /\ task'[p].pc # "claimLink"
    <3>1. AfterLoops("enable") = "settle"
      BY DEF AfterLoops
    <3> QED
      BY <1>1, <2>2, <3>1, RoundTask
  <2>4. \A b \in task'[p].context \cup task'[p].left :
            (b \in Accounts /\ link'[b] = u) \/ vendor'[b].state = "gone"
    BY <1>1, <1>2, <2>0, <2>1, <2>3
  <2>5. Works(task[p])'
    BY <1>2, <1>3, <2>3, <2>4 DEF Works, Linked, Gone
  <2>6. SwitchedOff(u)'
    BY <1>2, <1>3 DEF SwitchedOff
  <2>7. \A b \in Accounts : Safe(p, b) => Safe(p, b)'
    BY <1>0, <1>1, <2>1 DEF Safe, Off
  <2> QED
    BY <2>5, <2>6, <2>7 DEF Leaves
<1>4. CASE Throw(p) /\ UNCHANGED vendor
  <2>1. Leaves(p, u)'
    BY <1>0, <1>1, <1>4, ThrowLeaves
  <2>2. \A b \in Accounts : Safe(p, b) => Safe(p, b)'
    BY <1>1, <1>4 DEF Safe, Off
  <2> QED
    BY <2>1, <2>2
<1> DEFINE Goal == Leaves(p, u)' /\ \A b \in Accounts : Safe(p, b) => Safe(p, b)'
<1>5. Goal
  <2> HIDE DEF Goal
  <2> QED
    BY <1>3, <1>4 DEF EnableAccounts, Round, Goal
<1> QED
  BY <1>5

(* What enabling drops is gone.                                              *)
LEMMA PruneLeaves ==
    ASSUME Basics, NEW p \in Procs, Prune(p), NEW u \in Users, u = task[p].user, Leaves(p, u)
    PROVE  Leaves(p, u)' /\ \A a \in Accounts : Safe(p, a) => Safe(p, a)'
<1>0. /\ task \in [Procs -> Task] /\ link \in [Accounts -> Users \cup {None}] /\ task[p] \in Task
      /\ vendor \in [Accounts -> VendorAccount]
      /\ TaskOK(task[p]) /\ task[p] # Idle
      /\ None \notin Users /\ None \notin Accounts
      /\ Works(task[p]) /\ SwitchedOff(u)
  BY Ready
<1>1. UNCHANGED <<vendor, lost>> /\ task[p].kind = "enable" /\ task[p].pc = "prune"
  BY <1>0 DEF Prune, At, TaskOK
<1>2. /\ sub[u].status = "enabling"
      /\ \A b \in task[p].context \cup task[p].left :
            (b \in Accounts /\ link[b] = u) \/ vendor[b].state = "gone"
  BY <1>0, <1>1 DEF Works, Linked, Gone
<1>3. ASSUME NEW a \in task[p].left, Present(a) \/ link[a] = u,
             link' = IF Present(a) THEN link ELSE [link EXCEPT ![a] = None],
             task' = [task EXCEPT ![p] = AfterRound(p, a)], UNCHANGED sub
      PROVE  Leaves(p, u)' /\ \A b \in Accounts : Safe(p, b) => Safe(p, b)'
  <2>0. a \in Accounts /\ task[p].left \cup task[p].context \subseteq Accounts
    BY <1>0 DEF Task
  <2>1. ~Present(a) => vendor[a].state = "gone"
    BY <1>0, <1>3, <2>0 DEF Present, VendorAccount, Basics, Minted
  <2>2. \A b \in Accounts : link'[b] = link[b] \/ (link'[b] = None /\ vendor[b].state = "gone")
    BY <1>0, <1>3, <2>0, <2>1
  <2>3. task'[p] = AfterRound(p, a)
    BY <1>0, <1>3
  <2>4. /\ task'[p].kind = "enable" /\ task'[p].user = u
        /\ task'[p].left \subseteq task[p].left \cup task[p].context
        /\ task'[p].context \subseteq task[p].context
        /\ task'[p].pc # "mark" /\ task'[p].pc # "claimLink"
    BY <1>1, <2>3, RoundTask
  <2>5. \A b \in task'[p].context \cup task'[p].left :
            (b \in Accounts /\ link'[b] = u) \/ vendor'[b].state = "gone"
    BY <1>1, <1>2, <2>0, <2>2, <2>4
  <2>6. Works(task[p])'
    BY <1>2, <1>3, <2>4, <2>5 DEF Works, Linked, Gone
  <2>7. SwitchedOff(u)'
    BY <1>2, <1>3 DEF SwitchedOff
  <2>8. \A b \in Accounts : Safe(p, b) => Safe(p, b)'
    BY <1>0, <1>1, <2>2 DEF Safe, Off
  <2> QED
    BY <2>6, <2>7, <2>8 DEF Leaves
<1>4. CASE Throw(p) /\ UNCHANGED link
  <2>1. Leaves(p, u)'
    BY <1>0, <1>1, <1>4, ThrowLeaves
  <2>2. \A b \in Accounts : Safe(p, b) => Safe(p, b)'
    BY <1>1, <1>4 DEF Safe, Off
  <2> QED
    BY <2>1, <2>2
<1> DEFINE Goal == Leaves(p, u)' /\ \A b \in Accounts : Safe(p, b) => Safe(p, b)'
<1>5. Goal
  <2> HIDE DEF Goal
  <2> QED
    BY <1>3, <1>4 DEF Prune, Goal
<1> QED
  BY <1>5

(* After its loop disabling has no account ahead: all linked ones are off.   *)
LEMMA SettleLeaves ==
    ASSUME Basics, NEW p \in Procs, Settle(p), NEW u \in Users, u = task[p].user, Leaves(p, u)
    PROVE  Leaves(p, u)' /\ \A a \in Accounts : Safe(p, a) => Safe(p, a)'
<1>0. /\ task \in [Procs -> Task] /\ sub \in [Users -> Row] /\ sub[u] \in Row
      /\ TaskOK(task[p]) /\ task[p] # Idle
      /\ Works(task[p]) /\ SwitchedOff(u)
  BY Ready
<1>1. /\ UNCHANGED <<vendor, link, lost>> /\ task[p].kind \in {"disable", "enable"}
      /\ task[p].pc = "settle" /\ task'[p] = Idle
  BY <1>0 DEF Settle, At, TaskOK, Done
<1>2. task[p].kind = "disable" => \A b \in Linked(u) : Off(b)
  BY <1>0, <1>1 DEF Works, Ahead
<1>3. task[p].kind = "enable" => sub'[u].status = "active" \/ sub' = sub
  BY <1>0 DEF Settle, Row
<1>4. SwitchedOff(u)'
  BY <1>0, <1>1, <1>2, <1>3 DEF SwitchedOff, Linked, Off
<1>5. \A a \in Accounts : Safe(p, a) => Safe(p, a)'
  BY <1>1 DEF Safe, Off
<1> QED
  BY <1>1, <1>4, <1>5, IdleType DEF Leaves, Works, Ahead

(* After its loop cancelling has no account ahead: no linked one works.      *)
LEMMA DropLeaves ==
    ASSUME Basics, NEW p \in Procs, Drop(p), NEW u \in Users, u = task[p].user, Leaves(p, u)
    PROVE  Leaves(p, u)' /\ \A a \in Accounts : Safe(p, a) => Safe(p, a)'
<1>0. /\ task \in [Procs -> Task] /\ link \in [Accounts -> Users \cup {None}]
      /\ TaskOK(task[p]) /\ task[p] # Idle /\ None \notin Users
      /\ Works(task[p])
  BY Ready
<1>1. /\ UNCHANGED <<vendor, lost>> /\ task[p].kind \in {"cancel", "retry"}
      /\ task[p].pc = "drop" /\ task'[p] = Idle
      /\ link' = [a \in Accounts |-> IF link[a] = u THEN None ELSE link[a]]
  BY <1>0 DEF Drop, At, TaskOK, Done
<1>2. \A b \in Linked(u) : Off(b)
  BY <1>0, <1>1 DEF Works, Ahead
<1>3. \A b \in Accounts : link'[b] # u /\ (link[b] # u => link'[b] = link[b])
  BY <1>0, <1>1
<1>4. SwitchedOff(u)'
  BY <1>3 DEF SwitchedOff, Linked
<1>5. \A a \in Accounts : Safe(p, a) => Safe(p, a)'
  BY <1>0, <1>1, <1>2, <1>3 DEF Safe, Off, Linked
<1> QED
  BY <1>1, <1>4, <1>5, IdleType DEF Leaves, Works, Ahead

(* The row of the listener is active, never disabled.                        *)
LEMMA ClaimRowLeaves ==
    ASSUME Basics, NEW p \in Procs, ClaimRow(p), NEW u \in Users, u = task[p].user, Leaves(p, u)
    PROVE  Leaves(p, u)' /\ \A a \in Accounts : Safe(p, a) => Safe(p, a)'
<1>0. /\ task \in [Procs -> Task] /\ task[p] \in Task /\ sub \in [Users -> Row]
      /\ TaskOK(task[p]) /\ task[p] # Idle
      /\ Works(task[p]) /\ SwitchedOff(u)
  BY Ready
<1>1. UNCHANGED <<vendor, link, lost>> /\ task[p].kind = "invite" /\ task[p].pc = "claimRow"
  BY <1>0 DEF ClaimRow, At, TaskOK
<1>2. \A a \in Accounts : Safe(p, a) => Safe(p, a)'
  BY <1>1 DEF Safe, Off
<1>3. ASSUME NEW id \in 1..MaxRows,
             sub' = [sub EXCEPT ![u] = [id |-> id, status |-> "active"]],
             task' = [task EXCEPT ![p].pc = "claimLink", ![p].row = id]
      PROVE  Leaves(p, u)'
  <2>1. /\ task'[p].kind = "invite" /\ task'[p].pc = "claimLink" /\ task'[p].user = u
        /\ sub'[u].status = "active"
    BY <1>0, <1>1, <1>3 DEF Task
  <2> QED
    BY <2>1 DEF Leaves, Works, SwitchedOff
<1>4. CASE Done(p) /\ UNCHANGED sub
  <2>1. task'[p] = Idle
    BY <1>0, <1>4 DEF Done
  <2>2. SwitchedOff(u)'
    BY <1>0, <1>1, <1>4 DEF SwitchedOff, Linked, Off
  <2>3. Works(task[p])'
    BY <2>1, IdleType DEF Works, Ahead
  <2> QED
    BY <1>2, <2>2, <2>3 DEF Leaves
<1> DEFINE Goal == Leaves(p, u)'
<1>5. Goal
  <2> HIDE DEF Goal
  <2> QED
    BY <1>3, <1>4 DEF ClaimRow, Goal
<1> QED
  BY <1>2, <1>5

(* The listener links to the active row it has created.                      *)
LEMMA ClaimLinkLeaves ==
    ASSUME Basics, NEW p \in Procs, ClaimLink(p), NEW u \in Users, u = task[p].user, Leaves(p, u)
    PROVE  Leaves(p, u)' /\ \A a \in Accounts : Safe(p, a) => Safe(p, a)'
<1>0. /\ task \in [Procs -> Task] /\ link \in [Accounts -> Users \cup {None}]
      /\ TaskOK(task[p]) /\ task[p] # Idle /\ None \notin Users
      /\ Works(task[p])
  BY Ready
<1>1. /\ UNCHANGED <<vendor, sub, lost>> /\ task[p].kind = "invite" /\ task[p].pc = "claimLink"
      /\ task'[p] = Idle
  BY <1>0 DEF ClaimLink, At, TaskOK, Done
<1>2. SwitchedOff(u)'
  BY <1>0, <1>1 DEF SwitchedOff, Works
<1>3. \A a \in Accounts : link[a] # None => link'[a] # None
  BY <1>0 DEF ClaimLink
<1>4. \A a \in Accounts : Safe(p, a) => Safe(p, a)'
  BY <1>1, <1>3 DEF Safe, Off
<1> QED
  BY <1>1, <1>2, <1>4, IdleType DEF Leaves, Works, Ahead

(* The lemmas above for every step of a handler.                             *)
LEMMA HandlerLeaves ==
    ASSUME Basics, NEW p \in Procs, Handle(p), NEW u \in Users, u = task[p].user, Leaves(p, u)
    PROVE  Leaves(p, u)' /\ \A a \in Accounts : Safe(p, a) => Safe(p, a)'
<1> DEFINE Goal == Leaves(p, u)' /\ \A a \in Accounts : Safe(p, a) => Safe(p, a)'
<1>1. /\ Upsert(p) \/ Create(p) \/ Link(p) \/ Activate(p) \/ Unlink(p) => Goal
      /\ Mark(p) \/ BuildContext(p) \/ Deprovision(p) \/ DisableAccounts(p) \/ EnableAccounts(p) => Goal
  BY UpsertLeaves, CreateLeaves, LinkLeaves, ActivateLeaves, UnlinkLeaves, MarkLeaves, BuildContextLeaves,
     OffRoundLeaves, EnableLeaves
<1>2. Prune(p) \/ Settle(p) \/ Drop(p) \/ ClaimRow(p) \/ ClaimLink(p) => Goal
  BY PruneLeaves, SettleLeaves, DropLeaves, ClaimRowLeaves, ClaimLinkLeaves
<1> HIDE DEF Goal
<1>3. Goal
  BY <1>1, <1>2 DEF Handle
<1> QED
  BY <1>3 DEF Goal

(* A handler switches no account on that is linked to another user.          *)
LEMMA SwitchesOnItsOwn ==
    ASSUME Basics, NEW p \in Procs, Handle(p), Works(task[p]), NEW b \in Accounts, Off(b), ~Off(b)'
    PROVE  link[b] \in {None, task[p].user}
<1> DEFINE w == task[p].user
           Goal == link[b] \in {None, w}
<1>0. /\ task[p] \in Task /\ TaskOK(task[p]) /\ vendor \in [Accounts -> VendorAccount]
      /\ None \notin Accounts /\ None \notin Users
  BY AccountsConstants DEF Basics, AccountsTypeOK, Placed
<1>1. vendor' # vendor
  BY DEF Off
<1>2. ASSUME Create(p) PROVE Goal
  <2>1. task[p].pc = "create" /\ task[p].kind \in {"subscribe", "add"}
    BY <1>0, <1>2, IdleType DEF Create, At, TaskOK
  <2>2. CASE task[p].account # None /\ vendor' = SetState(task[p].account, "on")
    <3>1. task[p].account \in Accounts /\ link[task[p].account] = w
      BY <2>1, <2>2 DEF Works, Linked
    <3>2. b = task[p].account
      BY <2>2, <3>1, StateSet DEF Basics, Off
    <3> QED
      BY <3>1, <3>2
  <2>3. ASSUME NEW a \in Accounts, vendor[a].state = "free",
               vendor' = [vendor EXCEPT ![a] = [state |-> "on", name |-> task[p].name]]
        PROVE  Goal
    <3>1. b = a
      BY <1>0, <2>3 DEF Off
    <3> QED
      BY <2>3, <3>1 DEF Basics, Minted
  <2> HIDE DEF Goal
  <2> QED
    BY <1>1, <1>2, <2>2, <2>3 DEF Create
<1>3. ASSUME EnableAccounts(p) PROVE Goal
  <2>1. task[p].pc = "enable" /\ task[p].kind = "enable"
    BY <1>0, <1>3, IdleType DEF EnableAccounts, Round, At, TaskOK
  <2>2. PICK a \in task[p].left : vendor[a].state = "off" /\ vendor' = SetState(a, "on")
    BY <1>1, <1>3 DEF EnableAccounts, Round
  <2>3. a \in Accounts
    BY <1>0 DEF Task
  <2>4. link[a] = w
    BY <2>1, <2>2, <2>3 DEF Works, Linked, Gone
  <2>5. b = a
    BY <2>2, <2>3, StateSet DEF Basics, Off
  <2> QED
    BY <2>4, <2>5
<1>4. ASSUME NEW loop, NEW states, NEW after \in {"off", "gone"}, Round(p, loop, states, after)
      PROVE  Goal
  <2>1. PICK a \in task[p].left : vendor' = SetState(a, after)
    BY <1>1, <1>4 DEF Round
  <2>2. a \in Accounts
    BY <1>0 DEF Task
  <2>3. Off(b)'
    BY <2>1, <2>2, StateSet DEF Basics, Off
  <2> QED
    BY <2>3
<1>5. StateAfterDelete \in {"off", "gone"}
  BY DEF StateAfterDelete
<1>6. ASSUME Deprovision(p) \/ DisableAccounts(p) PROVE Goal
  BY <1>4, <1>5, <1>6 DEF Deprovision, DisableAccounts
<1>7. Goal
  <2> HIDE DEF Goal
  <2> QED
    BY <1>1, <1>2, <1>3, <1>6 DEF Handle, Upsert, Link, Activate, Unlink, Mark, BuildContext, Prune,
       Settle, Drop, ClaimRow, ClaimLink
<1> QED
  BY <1>7

(* What a handler relies on outlasts the steps of others.                    *)
LEMMA WorksStays ==
    ASSUME Basics, NEW q \in Procs, NEW v \in Users, task[q].user = v, task'[q] = task[q],
           Works(task[q]), sub'[v] = sub[v],
           \A a \in Accounts : link'[a] = v <=> link[a] = v,
           \A a \in Accounts : link[a] = v /\ vendor[a].state # "on" => vendor'[a].state # "on",
           \A a \in Accounts : vendor[a].state = "gone" => vendor'[a].state = "gone"
    PROVE  Works(task[q])'
<1>1. task[q] \in Task
  BY DEF Basics, AccountsTypeOK
<1>2. Linked(v)' = Linked(v)
  BY DEF Linked
<1>3. \A b \in Linked(v) : (Off(b) => Off(b)') /\ (Gone(b) => Gone(b)')
  BY DEF Linked, Off, Gone
<1>4. \A b \in task[q].context \cup task[q].left : Gone(b) => Gone(b)'
  BY <1>1 DEF Task, Gone
<1>5. Ahead(task[q])' = Ahead(task[q])
  BY DEF Ahead
<1> QED
  BY <1>2, <1>3, <1>4, <1>5 DEF Works

(* A handler keeps order for its own user, and leaves other users alone.     *)
LEMMA HandlerOrderly ==
    ASSUME Basics, Orderly, NEW p \in Procs, Handle(p)
    PROVE  Orderly'
<1> SUFFICES ASSUME tangled' = {}
             PROVE  /\ (\A q \in Procs : Works(task[q]))'
                    /\ (\A u \in Users : SwitchedOff(u))'
                    /\ NoStrayAccount'
  BY DEF Orderly
<1>0. PICK w \in Users : w = task[p].user
  BY HandlerFrame
<1>1. Frame(p, w) /\ task[p] # Idle /\ tangled = {}
  BY <1>0, HandlerFrame DEF Frame
<1>2. /\ \A q \in Procs : Works(task[q])
      /\ \A u \in Users : SwitchedOff(u)
      /\ NoStrayAccount
  BY <1>1 DEF Orderly
<1>3. Leaves(p, w)
  BY <1>2 DEF Leaves
<1>4. Leaves(p, w)' /\ \A a \in Accounts : Safe(p, a) => Safe(p, a)'
  BY <1>0, <1>3, HandlerLeaves
<1>5. \A b \in Accounts : Off(b) /\ ~Off(b)' => link[b] \in {None, w}
  BY <1>0, <1>2, SwitchesOnItsOwn
<1>6. ASSUME NEW v \in Users \ {w}
      PROVE  /\ sub'[v] = sub[v]
             /\ \A a \in Accounts : link'[a] = v <=> link[a] = v
             /\ \A a \in Accounts : link[a] = v /\ vendor[a].state # "on" => vendor'[a].state # "on"
             /\ \A a \in Accounts : vendor[a].state = "gone" => vendor'[a].state = "gone"
  BY <1>1, <1>5, AccountsConstants DEF Frame, Off
<1>7. ASSUME NEW q \in Procs \ {p}
      PROVE  Works(task[q])' /\ task'[q] = task[q]
  <2>1. task'[q] = task[q]
    BY <1>1 DEF Frame
  <2>2. TaskOK(task[q]) /\ (task[q] # Idle => task[q].user \in Users)
    BY DEF Basics, Placed, TaskOK
  <2>3. CASE task[q] = Idle
    BY <2>1, <2>3, IdleType DEF Works, Ahead
  <2>4. CASE task[q] # Idle
    <3>1. PICK v \in Users \ {w} : v = task[q].user
      BY <1>0, <1>1, <2>2, <2>4, AccountsConstants DEF Basics, Solo
    <3>2. Works(task[q])
      BY <1>2
    <3>3. Works(task[q])'
      BY <1>6, <2>1, <3>1, <3>2, WorksStays
    <3> QED
      BY <2>1, <3>3
  <2> QED
    BY <2>1, <2>3, <2>4
<1>8. ASSUME NEW q \in Procs PROVE Works(task[q])'
  BY <1>4, <1>7 DEF Leaves
<1>9. ASSUME NEW v \in Users PROVE SwitchedOff(v)'
  <2>1. CASE v = w
    BY <1>4, <2>1 DEF Leaves
  <2>2. CASE v # w
    <3>1. SwitchedOff(v)
      BY <1>2
    <3> QED
      BY <1>6, <2>2, <3>1 DEF SwitchedOff, Linked, Off
  <2> QED
    BY <2>1, <2>2
<1>10. NoStrayAccount'
  <2> SUFFICES ASSUME NEW a \in Accounts \ Existing, vendor'[a].state = "on", link'[a] = None
               PROVE  a \in lost' \/ \E q \in Procs : task'[q].account = a /\ task'[q].kind \in {"subscribe", "add"}
    BY DEF NoStrayAccount
  <2>1. Safe(p, a) \/ \E q \in Procs \ {p} : task[q].account = a /\ task[q].kind \in {"subscribe", "add"}
    BY <1>1, <1>2 DEF NoStrayAccount, Safe, Off
  <2>2. CASE Safe(p, a)
    BY <1>4, <2>2 DEF Safe, Off
  <2>3. CASE \E q \in Procs \ {p} : task[q].account = a /\ task[q].kind \in {"subscribe", "add"}
    BY <1>7, <2>3
  <2> QED
    BY <2>1, <2>2, <2>3
<1> QED
  BY <1>8, <1>9, <1>10

(* A request that overlaps with none has read all that its handler relies    *)
(* on.                                                                       *)
LEMMA RequestOrderly ==
    ASSUME Basics, Orderly, NEW p \in Procs, NEW u \in Users, Request(p, u)
    PROVE  Orderly'
<1> SUFFICES ASSUME tangled' = {}
             PROVE  /\ (\A q \in Procs : Works(task[q]))'
                    /\ (\A v \in Users : SwitchedOff(v))'
                    /\ NoStrayAccount'
  BY DEF Orderly
<1>1. PICK t \in Task : Begin(p, u, t) /\ Starts(u, t)
  BY RequestStarts
<1> DEFINE r == Started(u, t)
<1>2. /\ task' = [task EXCEPT ![p] = r] /\ task[p].pc = "idle"
      /\ UNCHANGED <<vendorName, vendor, link, sub, lost>>
      /\ tangled = {}
  BY <1>1 DEF Begin, At, Started
<1>3. /\ r.pc = t.pc /\ r.kind = t.kind /\ r.user = u /\ r.row = sub[u].id
      /\ r.account = t.account /\ r.context = t.context /\ r.left = t.left
  BY <1>1, StartedOK
<1> HIDE DEF r
<1>4. /\ \A q \in Procs : Works(task[q])
      /\ \A v \in Users : SwitchedOff(v)
      /\ NoStrayAccount
  BY <1>2 DEF Orderly
<1>5. task'[p] = r /\ task[p] = Idle /\ \A q \in Procs \ {p} : task'[q] = task[q]
  BY <1>2, BusyTask DEF Basics, AccountsTypeOK
<1>6. Linked(u)' = Linked(u) /\ \A b \in Accounts : Off(b)' = Off(b) /\ Gone(b)' = Gone(b)
  BY <1>2 DEF Linked, Off, Gone
<1>7. (\A b \in Linked(u) : ~Present(b)) => \A b \in Linked(u) : Gone(b)
  BY AccountsConstants DEF Basics, AccountsTypeOK, VendorAccount, Minted, Linked, Present, Gone
<1>8. sub[u].status = "active" => sub[u].id # 0
  BY DEF Basics, Rows
<1>9. Works(task[p])'
  <2>1. \A b \in Linked(u) : b \in Accounts
    BY DEF Linked
  <2> QED
    BY <1>1, <1>2, <1>3, <1>5, <1>6, <1>7, <1>8, <2>1, AccountsConstants DEF Starts, Works, Ahead
<1>10. ASSUME NEW q \in Procs \ {p} PROVE Works(task[q])'
  BY <1>2, <1>4, <1>5 DEF Works, Linked, Off, Gone, Ahead
<1>11. ASSUME NEW v \in Users PROVE SwitchedOff(v)'
  BY <1>2, <1>4 DEF SwitchedOff, Linked, Off
<1>12. NoStrayAccount'
  BY <1>2, <1>4, <1>5, IdleType DEF NoStrayAccount
<1> QED
  BY <1>9, <1>10, <1>11, <1>12

(* What Immich removes was off, and stays off.                               *)
LEMMA PurgeOrderly ==
    ASSUME Basics, Orderly, NEW a \in Accounts, Purge(a)
    PROVE  Orderly'
<1> SUFFICES ASSUME tangled' = {}
             PROVE  /\ (\A q \in Procs : Works(task[q]))'
                    /\ (\A u \in Users : SwitchedOff(u))'
                    /\ NoStrayAccount'
  BY DEF Orderly
<1>1. /\ vendor' = SetState(a, "gone") /\ vendor[a].state = "off"
      /\ UNCHANGED <<link, sub, task, lost>> /\ tangled = {}
  BY DEF Purge
<1>2. /\ \A q \in Procs : Works(task[q])
      /\ \A u \in Users : SwitchedOff(u)
      /\ NoStrayAccount
  BY <1>1 DEF Orderly
<1>3. \A b \in Accounts : vendor'[b].state = vendor[b].state \/ vendor'[b].state = "gone"
  BY <1>1, StateSet DEF Basics
<1>4. \A b \in Accounts : Off(b) => Off(b)'
  BY <1>3 DEF Off
<1>5. ASSUME NEW q \in Procs PROVE Works(task[q])'
  <2>1. CASE task[q] = Idle
    BY <1>1, <2>1, IdleType DEF Works, Ahead
  <2>2. CASE task[q] # Idle
    <3>1. PICK v \in Users : v = task[q].user
      BY <2>2 DEF Basics, Placed, TaskOK
    <3>2. Works(task[q])
      BY <1>2
    <3>3. /\ \A b \in Accounts : link[b] = v /\ vendor[b].state # "on" => vendor'[b].state # "on"
          /\ \A b \in Accounts : vendor[b].state = "gone" => vendor'[b].state = "gone"
      BY <1>3
    <3> QED
      BY <1>1, <3>1, <3>2, <3>3, WorksStays
  <2> QED
    BY <2>1, <2>2
<1>6. ASSUME NEW u \in Users PROVE SwitchedOff(u)'
  BY <1>1, <1>2, <1>4 DEF SwitchedOff, Linked
<1>7. NoStrayAccount'
  BY <1>1, <1>2, <1>4 DEF NoStrayAccount, Off
<1> QED
  BY <1>5, <1>6, <1>7

(* Initially no account of HomeGate's is in use and nothing is disabled.     *)
LEMMA OrderlyInit == AccountsInit => Orderly
<1> SUFFICES ASSUME AccountsInit PROVE Orderly
  OBVIOUS
<1>1. /\ task = [p \in Procs |-> Idle] /\ link = [a \in Accounts |-> None] /\ sub = [u \in Users |-> NoRow]
      /\ \A a \in Accounts \ Existing : vendor[a].state = "free"
  BY DEF AccountsInit
<1>2. \A p \in Procs : Works(task[p])
  BY <1>1, IdleType DEF Works, Ahead
<1>3. \A u \in Users : SwitchedOff(u)
  BY <1>1 DEF SwitchedOff, NoRow
<1>4. NoStrayAccount
  BY <1>1 DEF NoStrayAccount
<1> QED
  BY <1>2, <1>3, <1>4 DEF Orderly

(* Every step keeps order.                                                   *)
LEMMA OrderlyStep == Basics /\ Orderly /\ [AccountsNext]_accountVars => Orderly'
<1> SUFFICES ASSUME Basics, Orderly, [AccountsNext]_accountVars PROVE Orderly'
  OBVIOUS
<1>1. ASSUME NEW p \in Procs, Handle(p) PROVE Orderly'
  BY <1>1, HandlerOrderly
<1>2. ASSUME NEW p \in Procs, NEW u \in Users, Request(p, u) PROVE Orderly'
  BY <1>2, RequestOrderly
<1>3. ASSUME NEW a \in Accounts, Purge(a) PROVE Orderly'
  BY <1>3, PurgeOrderly
<1>4. CASE UNCHANGED accountVars
  BY <1>4 DEF accountVars, Orderly, Works, SwitchedOff, NoStrayAccount, Linked, Off, Gone, Ahead
<1> QED
  BY <1>1, <1>2, <1>3, <1>4 DEF AccountsNext

(* There is order while no operations of one user overlapped.                *)
LEMMA OrderlyHolds == AccountsSpec => []Orderly
  BY BasicsHold, OrderlyInit, OrderlyStep, PTL DEF AccountsSpec

(* A subscription that says disabled has no working account, whichever calls *)
(* of the vendor failed, unless two operations of one user overlapped.       *)
THEOREM DisabledStaysOff == AccountsSpec => []DisabledIsOff
<1>1. Orderly => DisabledIsOff
  BY DEF Orderly, SwitchedOff, DisabledIsOff, Off
<1> QED
  BY <1>1, OrderlyHolds, PTL

(* No account that HomeGate made works for nobody, with the exceptions that  *)
(* the property names.                                                       *)
THEOREM NoAccountStrays == AccountsSpec => []NoStrayAccount
<1>1. Orderly => NoStrayAccount
  BY DEF Orderly, NoStrayAccount
<1> QED
  BY <1>1, OrderlyHolds, PTL
=============================================================================
