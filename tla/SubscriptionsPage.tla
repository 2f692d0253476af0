--------------------------- MODULE SubscriptionsPage ---------------------------
(***************************************************************************)
(* The administrator's page of subscriptions.                              *)
(*                                                                         *)
(* The page loads all rows once and patches the row it acted on.  Disable  *)
(* and cancel go through a dialog that allows one request at a time;       *)
(* enable, renew and auto-renew do not, so that requests for several rows, *)
(* and for one row once its buttons are free again, overlap.               *)
(*                                                                         *)
(* A handler is one step here; SubscriptionLifecycle and                   *)
(* SubscriptionCascade have its parts.  One visit by one administrator,    *)
(* during which nobody else acts and no subscription runs out.             *)
(***************************************************************************)
EXTENDS Integers

CONSTANTS
    Owned,      \* subscriptions to MANAGED services
    Derived,    \* subscriptions to REFERENCED services
    SourceOf,   \* SourceOf[d]: the subscription that d derives from
    NoSub,
    MaxPeriods, \* bound: no subscription runs for longer, in periods of 30 days
    Calls,      \* requests of the page that may be in flight together
    Faults      \* whether requests, vendors and cascades may fail

ASSUME SubscriptionsPageConstants ==
    /\ SourceOf \in [Derived -> Owned] /\ Owned \cap Derived = {} /\ NoSub \notin Owned \cup Derived
    /\ MaxPeriods \in Nat \ {0} /\ Faults \in BOOLEAN

VARIABLES
    subscription,   \* subscription[s]: the row in the database
    denied,     \* derived subscriptions whose user has a DENY policy for the service
    listed,      \* the load of useSubscriptionsPage: its progress and the rows
    pendingSub, \* pendingId: the row whose buttons are disabled
    dialog,     \* the dialog that is open: operation, row, and the box for DENY
    call,       \* call[q]: a request of useSubscriptionsTable
    strayed     \* history: rows that changed without an answer that says so

subscriptionsPageVars == <<subscription, denied, listed, pendingSub, dialog, call, strayed>>

Subs == Owned \cup Derived

(* until: the periods left; 0 when the subscription has run out.             *)
SubRow == [status : {"active", "disabled", "failed", "expired", "gone"}, until : 0..MaxPeriods,
           autoRenew : BOOLEAN]

Gone == [status |-> "gone", until |-> 0, autoRenew |-> FALSE]

Requestable == {"enable", "disable", "autoRenew", "renew", "cancel"}

Dialog == [op : {"none", "disable", "cancel"}, sub : Subs \cup {NoSub}, deny : BOOLEAN]

NoDialog == [op |-> "none", sub |-> NoSub, deny |-> FALSE]

(* value: what auto-renew is set to; answer: the row of the answer.          *)
Call == [pc : {"idle", "out", "ok", "error"}, op : Requestable \cup {"none"}, sub : Subs \cup {NoSub},
         value : BOOLEAN, deny : BOOLEAN, answer : SubRow]

NoCall == [pc |-> "idle", op |-> "none", sub |-> NoSub, value |-> FALSE, deny |-> FALSE, answer |-> Gone]

DerivedFrom(s) == {d \in Derived : SourceOf[d] = s /\ subscription[d] # Gone}

SubscriptionsPageInit ==
    /\ subscription \in [Subs -> SubRow]
    /\ \A s \in Subs : subscription[s].status = "gone" <=> subscription[s] = Gone
    /\ \A d \in Derived : subscription[SourceOf[d]] = Gone => subscription[d] = Gone
    /\ denied = {}
    /\ listed = [pc |-> "asked", rows |-> subscription]
    /\ pendingSub = NoSub
    /\ dialog = NoDialog
    /\ call = [q \in Calls |-> NoCall]
    /\ strayed = {}

CallsFor(s) == {q \in Calls : call[q].pc # "idle" /\ call[q].sub = s}

-----------------------------------------------------------------------------
(* useSubscriptionsPage *)

ReadSubscriptions ==
    /\ listed.pc = "asked"
    /\ listed' = [pc |-> "read", rows |-> subscription]
    /\ UNCHANGED <<subscription, denied, pendingSub, dialog, call, strayed>>

ShowSubscriptions ==
    /\ listed.pc = "read"
    /\ \E pc \in {"shown", "failed"} : listed' = [listed EXCEPT !.pc = pc]
    /\ UNCHANGED <<subscription, denied, pendingSub, dialog, call, strayed>>

-----------------------------------------------------------------------------
(* SubscriptionsTable *)

ButtonsFree(s) ==
    /\ listed.pc = "shown" /\ listed.rows[s] # Gone
    /\ pendingSub # s

(* Enable and disable are one button.                                        *)
HasButton(s, op) ==
    CASE op = "enable" -> listed.rows[s].status = "disabled"
      [] op = "disable" -> listed.rows[s].status # "disabled"
      [] OTHER -> TRUE

(* With two requests for a row the answers may come in the other order.      *)
SendCall(op, s, value, deny) ==
    /\ \E q \in Calls :
          /\ call[q] = NoCall
          /\ call' = [call EXCEPT ![q] = [pc |-> "out", op |-> op, sub |-> s, value |-> value,
                                          deny |-> deny, answer |-> Gone]]
    /\ strayed' = IF CallsFor(s) = {} THEN strayed ELSE strayed \cup {s}
    /\ pendingSub' = s

Press(s, op) ==
    /\ dialog = NoDialog
    /\ ButtonsFree(s) /\ HasButton(s, op)
    /\ op \in {"enable", "autoRenew", "renew"}
    /\ SendCall(op, s, ~listed.rows[s].autoRenew, FALSE)
    /\ UNCHANGED <<subscription, denied, listed, dialog>>

OpenConfirmation(s, op) ==
    /\ dialog = NoDialog
    /\ ButtonsFree(s) /\ HasButton(s, op)
    /\ op \in {"disable", "cancel"}
    /\ dialog' = [op |-> op, sub |-> s, deny |-> FALSE]
    /\ UNCHANGED <<subscription, denied, listed, pendingSub, call, strayed>>

(* The box is there for REFERENCED services alone.                           *)
CheckDeny ==
    /\ dialog.op = "cancel" /\ dialog.sub \in Derived
    /\ dialog' = [dialog EXCEPT !.deny = ~@]
    /\ UNCHANGED <<subscription, denied, listed, pendingSub, call, strayed>>

CloseConfirmation ==
    /\ dialog # NoDialog
    /\ dialog' = NoDialog
    /\ UNCHANGED <<subscription, denied, listed, pendingSub, call, strayed>>

(* isConfirming: the request of a dialog is under way, whatever is open now. *)
Confirming == \E q \in Calls : call[q].op \in {"disable", "cancel"}

RunPendingAction ==
    /\ dialog # NoDialog
    /\ ~Confirming
    /\ SendCall(dialog.op, dialog.sub, FALSE, dialog.deny)
    /\ UNCHANGED <<subscription, denied, listed, dialog>>

-----------------------------------------------------------------------------
(* SubscriptionService: update, renew and delete *)

InForce(row) == row.status = "active" /\ row.until > 0

Permits(op, s) ==
    /\ subscription[s] # Gone
    /\ CASE op = "disable" -> InForce(subscription[s])
         [] op = "enable" -> subscription[s].status = "disabled"
         [] op = "cancel" -> s \notin Derived /\ InForce(subscription[s])
         [] OTHER -> TRUE

Sooner(a, b) == IF a <= b THEN a ELSE b

(* The row that is asked about, and those derived from it.                   *)
Applied(op, s, value) ==
    LET old == subscription[s]
        new == CASE op = "disable" -> [old EXCEPT !.status = "disabled"]
                 [] op = "enable" -> [old EXCEPT !.status = "active"]
                 [] op = "renew" -> [old EXCEPT !.until = old.until + 1]
                 [] op = "autoRenew" -> [old EXCEPT !.autoRenew = value]
                 [] op = "cancel" -> Gone
        follow(row) ==
            CASE op = "disable" -> [row EXCEPT !.status = "disabled"]
              [] op = "enable" -> [row EXCEPT !.status = "active", !.until = Sooner(@, new.until)]
              [] op = "renew" -> [row EXCEPT !.until = Sooner(@, new.until)]
              [] op = "autoRenew" -> row
              [] op = "cancel" -> Gone
    IN  [r \in Subs |-> IF r = s THEN new ELSE IF r \in DerivedFrom(s) THEN follow(subscription[r])
                                                                     ELSE subscription[r]]

(* Nothing tells the page of the derived rows.                               *)
Serve(q) ==
    LET s == call[q].sub IN
    /\ call[q].pc = "out"
    /\ Permits(call[q].op, s)
    /\ call[q].op = "renew" => subscription[s].until < MaxPeriods
    /\ subscription' = Applied(call[q].op, s, call[q].value)
    /\ strayed' = strayed \cup {d \in Derived : subscription'[d] # subscription[d] /\ d # s}
    /\ call' = [call EXCEPT ![q].pc = "ok", ![q].answer = subscription'[s]]
    /\ UNCHANGED <<denied, listed, pendingSub, dialog>>

Refuse(q) ==
    /\ call[q].pc = "out"
    /\ Faults \/ ~Permits(call[q].op, call[q].sub)
    /\ call' = [call EXCEPT ![q].pc = "error"]
    /\ UNCHANGED <<subscription, denied, listed, pendingSub, dialog, strayed>>

(* A vendor or a cascade fails: the row is marked failed, and the cascade    *)
(* may have changed derived rows; or the answer alone is lost.               *)
ServeFails(q) ==
    LET s == call[q].sub IN
    /\ Faults
    /\ \/ /\ call[q].pc = "out" /\ Permits(call[q].op, s) /\ call[q].op \in {"disable", "enable", "cancel"}
          /\ \E followed \in BOOLEAN :
                subscription' = [IF followed /\ call[q].op # "cancel" THEN Applied(call[q].op, s, FALSE)
                                                                     ELSE subscription
                                    EXCEPT ![s] = [subscription[s] EXCEPT !.status = "failed"]]
       \/ call[q].pc = "ok" /\ UNCHANGED subscription
    /\ strayed' = strayed \cup {s} \cup DerivedFrom(s)
    /\ call' = [call EXCEPT ![q].pc = "error"]
    /\ UNCHANGED <<denied, listed, pendingSub, dialog>>

-----------------------------------------------------------------------------
(* The rest of useSubscriptionsTable, and of the dialog *)

(* Mutant: the row is patched whatever the answer. *)
WhateverTheAnswer(q) == call[q].pc \in {"ok", "error"}

Confirmed(q) == call[q].pc = "ok"

RowAfter(q, row) ==
    CASE call[q].op \in {"enable", "disable"} -> [row EXCEPT !.status = call[q].answer.status]
      [] call[q].op = "autoRenew" -> [row EXCEPT !.autoRenew = call[q].value]
      [] call[q].op = "renew" -> [row EXCEPT !.until = call[q].answer.until, !.status = call[q].answer.status]
      [] call[q].op = "cancel" -> Gone

(* policyService.set() comes after the cancellation has succeeded.           *)
Denies(q) == call[q].deny /\ call[q].pc = "ok"

(* A row that has been removed is not patched; a dialog's request closes the *)
(* dialog that is open by now.                                               *)
Settle(q) ==
    LET s == call[q].sub IN
    /\ call[q].pc \in {"ok", "error"}
    /\ listed' = IF Confirmed(q) /\ listed.rows[s] # Gone
                THEN [listed EXCEPT !.rows[s] = RowAfter(q, @)] ELSE listed
    /\ denied' = IF Denies(q) THEN denied \cup {s} ELSE denied
    /\ pendingSub' = NoSub
    /\ dialog' = IF call[q].op \in {"disable", "cancel"} THEN NoDialog ELSE dialog
    /\ call' = [call EXCEPT ![q] = NoCall]
    /\ UNCHANGED <<subscription, strayed>>

SubscriptionsPageNext ==
    \/ ReadSubscriptions \/ ShowSubscriptions
    \/ CheckDeny \/ CloseConfirmation \/ RunPendingAction
    \/ \E s \in Subs, op \in Requestable : Press(s, op) \/ OpenConfirmation(s, op)
    \/ \E q \in Calls : Serve(q) \/ Refuse(q) \/ ServeFails(q) \/ Settle(q)

SubscriptionsPageSpec == SubscriptionsPageInit /\ [][SubscriptionsPageNext]_subscriptionsPageVars

-----------------------------------------------------------------------------
(* Types of all variables.                                                   *)
SubscriptionsPageTypeOK ==
    /\ subscription \in [Subs -> SubRow]
    /\ denied \subseteq Derived
    /\ listed \in [pc : {"asked", "read", "shown", "failed"}, rows : [Subs -> SubRow]]
    /\ pendingSub \in Subs \cup {NoSub}
    /\ dialog \in Dialog
    /\ call \in [Calls -> Call]
    /\ strayed \subseteq Subs

(* A row without requests under way shows the subscription as it is stored,  *)
(* unless a request for its source changed it, a request failed half-way or  *)
(* lost its answer, or two requests for it crossed (useSubscriptionsTable    *)
(* 17-98).                                                                   *)
RowsFollowAnswers ==
    listed.pc = "shown" =>
        \A s \in Subs : (s \notin strayed /\ CallsFor(s) = {}) => listed.rows[s] = subscription[s]

(* A cancellation with the box "Also add a persistent DENY policy so the     *)
(* next source renewal does not recreate it" ends with that policy           *)
(* (SubscriptionsTable 348-358, useSubscriptionsTable 80-86).                    *)
DenyIsAdded ==
    [][\A q \in Calls : (call[q].deny /\ call[q].pc # "idle" /\ call'[q].pc = "idle") =>
           call[q].sub \in denied']_subscriptionsPageVars

=============================================================================
