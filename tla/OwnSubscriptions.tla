--------------------------- MODULE OwnSubscriptions ---------------------------
(***************************************************************************)
(* The page on which a user manages their own subscriptions.               *)
(*                                                                         *)
(* The dialog of one subscription has two tabs.  Auto-renew and            *)
(* unsubscribe share one "saving" flag, which outlives the dialog; the     *)
(* panel of accounts has a flag of its own that is lost whenever the panel *)
(* is taken down, so that requests for one row can overlap.  A             *)
(* cancellation reloads all rows, the other requests patch one.            *)
(*                                                                         *)
(* A handler is one step here; SubscriptionLifecycle has its parts.  The   *)
(* reset of a password changes no row and is left out.  One visit, during  *)
(* which nobody else acts.                                                 *)
(***************************************************************************)
EXTENDS Integers

CONSTANTS
    Mine,       \* the user's subscriptions that have a dialog
    Included,   \* those derived from them, to REFERENCED services
    ComesWith,  \* ComesWith[d]: the subscription that d derives from
    WithAccounts,   \* those of Mine to MANAGED services
    NotOne,
    AccountCap, \* accountCap of every row
    Deeds,      \* requests of the page that may be in flight together
    Reloads     \* loads that may be in flight together

ASSUME OwnSubscriptionsConstants ==
    /\ WithAccounts \subseteq Mine /\ Included \cap Mine = {} /\ ComesWith \in [Included -> Mine]
    /\ NotOne \notin Mine \cup Deeds /\ AccountCap \in Nat \ {0}

VARIABLES
    mine,       \* mine[s]: the row in the database
    cards,      \* cards[s]: the row on the page
    present,     \* ~isLoading: the first load has ended
    reload,     \* reload[f]: a run of load()
    managingId, \* the subscription whose dialog is open
    tab,        \* the tab of the dialog
    adding,     \* the request the mounted panel of accounts waits for
    deed,       \* deed[q]: a request of the dialog
    astray      \* history: rows the page may rightly show as they were

ownVars == <<mine, cards, present, reload, managingId, tab, adding, deed, astray>>

Cards == Mine \cup Included

MyRow == [status : {"active", "disabled", "failed", "none"}, autoRenew : BOOLEAN, accounts : 0..AccountCap]

NoneLeft == [status |-> "none", autoRenew |-> FALSE, accounts |-> 0]

Reload == [pc : {"idle", "asked", "read"}, rows : [Cards -> MyRow]]

NoReload == [pc |-> "idle", rows |-> [s \in Cards |-> NoneLeft]]

(* row: the subscription at the click, as the request's closure holds it.    *)
Deed == [pc : {"idle", "out", "ok", "error"}, op : {"none", "autoRenew", "cancel", "addAccount"},
         sub : Mine \cup {NotOne}, row : MyRow, answer : MyRow]

NoDeed == [pc |-> "idle", op |-> "none", sub |-> NotOne, row |-> NoneLeft, answer |-> NoneLeft]

OwnInit ==
    /\ mine \in [Cards -> MyRow]
    /\ \A s \in Cards : mine[s].status = "none" => mine[s] = NoneLeft
    /\ \A d \in Included : mine[ComesWith[d]] = NoneLeft => mine[d] = NoneLeft
    /\ cards = [s \in Cards |-> NoneLeft]
    /\ present = FALSE
    /\ \E f \in Reloads : reload = [g \in Reloads |-> IF g = f THEN [NoReload EXCEPT !.pc = "asked"] ELSE NoReload]
    /\ managingId = NotOne
    /\ tab = "subscription"
    /\ adding = NotOne
    /\ deed = [q \in Deeds |-> NoDeed]
    /\ astray = {}

IncludedWith(s) == {d \in Included : ComesWith[d] = s}

DeedsFor(s) == {q \in Deeds : deed[q].pc # "idle" /\ deed[q].sub = s}

-----------------------------------------------------------------------------
(* useAccountPage *)

ReadMine(f) ==
    /\ reload[f].pc = "asked"
    /\ reload' = [reload EXCEPT ![f] = [pc |-> "read", rows |-> mine]]
    /\ UNCHANGED <<mine, cards, present, managingId, tab, adding, deed, astray>>

(* The dialog goes with its row, and the state of its tabs with it.          *)
ShowMine(f) ==
    /\ reload[f].pc = "read"
    /\ cards' = reload[f].rows
    /\ present' = TRUE
    /\ reload' = [reload EXCEPT ![f] = NoReload]
    /\ IF managingId # NotOne /\ cards'[managingId] = NoneLeft
       THEN tab' = "subscription" /\ adding' = NotOne
       ELSE UNCHANGED <<tab, adding>>
    /\ UNCHANGED <<mine, managingId, deed, astray>>

(* A load that fails, or one of services beside it, leaves what is shown:    *)
(* after a cancellation the row stays on the page.                           *)
ReloadFails(f) ==
    /\ reload[f].pc # "idle"
    /\ present' = TRUE
    /\ reload' = [reload EXCEPT ![f] = NoReload]
    /\ astray' = IF present THEN astray \cup {s \in Cards : mine[s] = NoneLeft} ELSE Cards
    /\ UNCHANGED <<mine, cards, managingId, tab, adding, deed>>

-----------------------------------------------------------------------------
(* The page and its dialog *)

(* The dialog is derived from the rows: open while managingId has one.       *)
Managing == managingId # NotOne /\ cards[managingId] # NoneLeft

Manage(s) ==
    /\ present /\ cards[s] # NoneLeft
    /\ ~Managing
    /\ managingId' = s
    /\ UNCHANGED <<mine, cards, present, reload, tab, adding, deed, astray>>

(* A tab that is not shown is taken down, and its state with it.             *)
ChooseTab(t) ==
    /\ Managing /\ managingId \in WithAccounts
    /\ t # tab
    /\ tab' = t
    /\ adding' = NotOne
    /\ UNCHANGED <<mine, cards, present, reload, managingId, deed, astray>>

CloseDialog ==
    /\ Managing
    /\ managingId' = NotOne
    /\ tab' = "subscription"
    /\ adding' = NotOne
    /\ UNCHANGED <<mine, cards, present, reload, deed, astray>>

(* isSaving of the dialog, which is never taken down: it may belong to the   *)
(* request of a subscription managed before.                                 *)
IsSaving == \E q \in Deeds : deed[q].op \in {"autoRenew", "cancel"}

Issue(q, op) ==
    LET s == managingId IN
    /\ deed[q] = NoDeed
    /\ deed' = [deed EXCEPT ![q] = [pc |-> "out", op |-> op, sub |-> s, row |-> cards[s], answer |-> NoneLeft]]
    /\ astray' = IF DeedsFor(s) = {} THEN astray ELSE astray \cup {s}

ToggleOrCancel(q, op) ==
    /\ Managing /\ tab = "subscription"
    /\ ~IsSaving
    /\ op \in {"autoRenew", "cancel"}
    /\ Issue(q, op)
    /\ UNCHANGED <<mine, cards, present, reload, managingId, tab, adding>>

AddAccount(q) ==
    /\ Managing /\ tab = "accounts"
    /\ cards[managingId].accounts < AccountCap
    /\ adding = NotOne
    /\ Issue(q, "addAccount")
    /\ adding' = q
    /\ UNCHANGED <<mine, cards, present, reload, managingId, tab>>

-----------------------------------------------------------------------------
(* SubscriptionService: setAutoRenew, delete and addAccount *)

Allows(q) ==
    LET row == mine[deed[q].sub] IN
    /\ row # NoneLeft
    /\ deed[q].op = "cancel" => row.status = "active"
    /\ deed[q].op = "addAccount" => (row.status = "active" /\ row.accounts < AccountCap)

Performed(q) ==
    LET row == mine[deed[q].sub] IN
    CASE deed[q].op = "autoRenew" -> [row EXCEPT !.autoRenew = ~deed[q].row.autoRenew]
      [] deed[q].op = "addAccount" -> [row EXCEPT !.accounts = @ + 1]
      [] deed[q].op = "cancel" -> NoneLeft

(* The rows that a request changes: foreign keys remove the derived ones.    *)
Touched(q) ==
    {deed[q].sub} \cup (IF deed[q].op = "cancel" THEN IncludedWith(deed[q].sub) ELSE {})

(* A load that has read the rows by now will show the row as it was.         *)
OutOfDate == \E f \in Reloads : reload[f].pc = "read"

Perform(q) ==
    /\ deed[q].pc = "out"
    /\ Allows(q)
    /\ mine' = [s \in Cards |-> IF s = deed[q].sub THEN Performed(q)
                               ELSE IF s \in Touched(q) THEN NoneLeft ELSE mine[s]]
    /\ astray' = IF OutOfDate THEN astray \cup Touched(q) ELSE astray
    /\ deed' = [deed EXCEPT ![q].pc = "ok", ![q].answer = Performed(q)]
    /\ UNCHANGED <<cards, present, reload, managingId, tab, adding>>

(* Refused, or thrown before anything was stored.                            *)
Reject(q) ==
    /\ deed[q].pc = "out"
    /\ deed' = [deed EXCEPT ![q].pc = "error"]
    /\ UNCHANGED <<mine, cards, present, reload, managingId, tab, adding, astray>>

(* The vendor refuses to delete an account, or an answer is lost.            *)
BreakOff(q) ==
    LET s == deed[q].sub IN
    /\ \/ /\ deed[q].pc = "out" /\ deed[q].op = "cancel" /\ Allows(q)
          /\ mine' = [mine EXCEPT ![s].status = "failed"]
       \/ deed[q].pc = "ok" /\ UNCHANGED mine
    /\ astray' = astray \cup Touched(q)
    /\ deed' = [deed EXCEPT ![q].pc = "error"]
    /\ UNCHANGED <<cards, present, reload, managingId, tab, adding>>

-----------------------------------------------------------------------------
(* The rest of the dialog's and the panel's handlers *)

(* Mutant: what was shown at the click overrides the answer.                 *)
ShownFirst(q, row) ==
    IF deed[q].op = "autoRenew" THEN [row EXCEPT !.autoRenew = deed[q].answer.autoRenew] ELSE deed[q].row

(* patchSubscription: one field, or the whole row of the answer.             *)
PatchedCard(q, row) ==
    IF deed[q].op = "autoRenew" THEN [row EXCEPT !.autoRenew = deed[q].answer.autoRenew] ELSE deed[q].answer

(* A cancellation closes the dialog that is open by now.                     *)
Acknowledge(q) ==
    LET s == deed[q].sub
        done == deed[q].pc = "ok"
        cancelled == done /\ deed[q].op = "cancel"
    IN
    /\ deed[q].pc \in {"ok", "error"}
    /\ cards' = IF done /\ ~cancelled /\ cards[s] # NoneLeft THEN [cards EXCEPT ![s] = PatchedCard(q, @)] ELSE cards
    /\ IF cancelled
       THEN \E f \in Reloads : reload[f] = NoReload /\ reload' = [reload EXCEPT ![f].pc = "asked"]
       ELSE UNCHANGED reload
    /\ managingId' = IF cancelled THEN NotOne ELSE managingId
    /\ tab' = IF cancelled THEN "subscription" ELSE tab
    /\ adding' = IF cancelled \/ adding = q THEN NotOne ELSE adding
    /\ deed' = [deed EXCEPT ![q] = NoDeed]
    /\ UNCHANGED <<mine, present, astray>>

OwnNext ==
    \/ \E f \in Reloads : ReadMine(f) \/ ShowMine(f) \/ ReloadFails(f)
    \/ \E s \in Mine : Manage(s)
    \/ \E t \in {"subscription", "accounts"} : ChooseTab(t)
    \/ CloseDialog
    \/ \E q \in Deeds, op \in {"autoRenew", "cancel"} : ToggleOrCancel(q, op)
    \/ \E q \in Deeds : AddAccount(q) \/ Perform(q) \/ Reject(q) \/ BreakOff(q) \/ Acknowledge(q)

OwnSpec == OwnInit /\ [][OwnNext]_ownVars

-----------------------------------------------------------------------------
(* Types of all variables.                                                   *)
OwnTypeOK ==
    /\ mine \in [Cards -> MyRow] /\ cards \in [Cards -> MyRow]
    /\ present \in BOOLEAN
    /\ reload \in [Reloads -> Reload]
    /\ managingId \in Mine \cup {NotOne}
    /\ tab \in {"subscription", "accounts"}
    /\ adding \in Deeds \cup {NotOne}
    /\ deed \in [Deeds -> Deed]
    /\ astray \subseteq Cards

(* Once nothing is in flight for a row or its source, and no load is, the    *)
(* page shows the row as it is stored, however the requests of other rows    *)
(* and the reloads overlapped: included access goes from the page with its   *)
(* source.  Excused are rows for which two requests overlapped, one failed   *)
(* half-way or a load was overtaken (useAccountPage 19-56,                   *)
(* ManageSubscriptionDialog 38-69, SubscriptionAccountsPanel 126-151).       *)
CardsAreCurrent ==
    (present /\ \A f \in Reloads : reload[f] = NoReload) =>
        /\ \A s \in Mine : (s \notin astray /\ DeedsFor(s) = {}) => cards[s] = mine[s]
        /\ \A d \in Included : (d \notin astray /\ DeedsFor(ComesWith[d]) = {}) => cards[d] = mine[d]

=============================================================================
