------------------------------ MODULE MCDashboard ------------------------------
(***************************************************************************)
(* The pages of the dashboard.  They share no state, so one of them is     *)
(* open and the others rest; part says which one.                          *)
(***************************************************************************)
EXTENDS UsersPage, AccessEditor, LogsPage, InvitesPage, ServicesPage, SubscriptionsPage, OwnSubscriptions, TLC

CONSTANTS p1, p2, u1, u2, l1, l2, i1, i2, e1, g1, g2, o1, d1,
    MaxSent     \* bound on the requests of a page (one more on the page of own subscriptions)

DerivesFromO1 == [d \in Derived |-> o1]

ComesWithO1 == [d \in Included |-> o1]

VARIABLES part, unsent

dashboardVars == <<part, unsent, usersPageVars, editorVars, logsVars, invitesVars,
                   servicesPageVars, subscriptionsPageVars, ownVars>>

(* Processes are p1 and p2, users u1 and u2, on every page. *)
Interchangeable ==
    Permutations(Sends \cup Loads \cup Requests \cup Lists \cup Changers \cup Calls \cup Deeds \cup Reloads) \cup Permutations(Members \cup Subjects)

Active == [status |-> "ACTIVE", isAdmin |-> FALSE]

ActiveRow == [status |-> "active", autoRenew |-> TRUE, accounts |-> 1]

IncludedRow == [status |-> "active", autoRenew |-> FALSE, accounts |-> 0]

(* A page that rests is in one of its initial states. *)
Init ==
    /\ part \in {"users", "editor", "logs", "invites", "services", "subscriptions", "own"}
    /\ unsent = (IF part = "own" THEN MaxSent + 1 ELSE MaxSent)
    /\ UsersPageInit
    /\ part = "users" \/ \A u \in Members : account[u] = Active
    /\ EditorInit
    /\ part = "editor" \/ (defaultAllowed /\ \A u \in Subjects : policy[u] = NoPolicy)
    /\ LogsInit
    /\ part = "logs" \/ written = 0
    /\ level = [e \in 1..MaxEntries |-> IF e = 2 THEN l2 ELSE l1]
    /\ latest = p1
    /\ InvitesPageInit
    /\ {i \in Invites : rowOf[i] # NoInviteRow} = (IF part = "invites" THEN {i1} ELSE {})
    /\ ServicesPageInit
    /\ service[e1].slug = g1
    /\ \A e \in Entries : Stands(e) => (service[e].enabled /\ service[e].slug \in {g1, g2} /\ service[e].imageUrl = NoUrl)
    /\ part = "services" \/ \A e \in Entries \ {e1} : ~Stands(e)
    /\ SubscriptionsPageInit
    /\ \A s \in Subs : subscription[s] # Gone =>
          (part = "subscriptions" /\ subscription[s].status \in {"active", "disabled"} /\ subscription[s].autoRenew)
    /\ \A d \in Derived : subscription[d] \in {Gone, subscription[SourceOf[d]]}
    /\ OwnInit
    /\ \A s \in Mine : IF part = "own" THEN mine[s] = ActiveRow ELSE mine[s] = NoneLeft
    /\ \A d \in Included : mine[d] \in {IncludedRow, NoneLeft}
    /\ reload[p1] # NoReload

(* Nothing new is started on a page once what it shows is excused. *)
Page ==
    /\ part = "users"
    /\ UsersPageNext
    /\ (crossed # {} \/ miscounted) => pendingAction' \in {pendingAction, NoAction}

EditPage ==
    /\ part = "editor"
    /\ EditorNext
    /\ tangled => (save' = save \/ save.pc # "idle")

LogPage ==
    /\ part = "logs"
    /\ LogsNext
    /\ ~mixed
    /\ filters'.logLevel # l2

(* Drafts of one e-mail or none, without rights; MaxSent requests in all. *)
NewRequest == \E q \in Requests : asked[q].pc = "idle" /\ asked'[q].pc = "sent"

InvitePage ==
    /\ part = "invites"
    /\ InvitesPageNext
    /\ unsent' = unsent - (IF NewRequest THEN 1 ELSE 0)
    /\ unsent' >= 0
    /\ ~editDraft'.isAdmin /\ (\A q \in Requests : ~asked'[q].draft.isAdmin)
    /\ (editDraft.open /\ editDraft'.open) => editDraft'.email = editDraft.email
    /\ (moved \/ outdated \/ unsent = 0) => (~NewRequest /\ editDraft' \in {editDraft, NoDraft})

NewChange == \E q \in Changers : ~InFlight(q) /\ change'[q].pc # "idle"

ServicePage ==
    /\ part = "services"
    /\ ServicesPageNext
    /\ unsent' = unsent - (IF NewChange THEN 1 ELSE 0)
    /\ unsent' >= 0
    /\ (unclear \/ unsent = 0) =>
          (~NewChange /\ editingService' \in {editingService, NoSlug} /\ deletingService' \in {deletingService, NoSlug})

NewCall == \E q \in Calls : call[q] = NoCall /\ call'[q] # NoCall

SubscriptionPage ==
    /\ part = "subscriptions"
    /\ SubscriptionsPageNext
    /\ unsent' = unsent - (IF NewCall THEN 1 ELSE 0)
    /\ unsent' >= 0
    /\ strayed = Subs => (~NewCall /\ dialog' \in {dialog, NoDialog})

NewDeed == \E q \in Deeds : deed[q] = NoDeed /\ deed'[q] # NoDeed

OwnPage ==
    /\ part = "own"
    /\ OwnNext
    /\ unsent' = unsent - (IF NewDeed THEN 1 ELSE 0)
    /\ unsent' >= 0
    /\ (astray = Mine \/ unsent = 0) => (~NewDeed /\ managingId' \in {managingId, NotOne})

Next ==
    \/ Page /\ UNCHANGED <<part, unsent, editorVars, logsVars, invitesVars, servicesPageVars, subscriptionsPageVars, ownVars>>
    \/ EditPage /\ UNCHANGED <<part, unsent, usersPageVars, logsVars, invitesVars, servicesPageVars, subscriptionsPageVars, ownVars>>
    \/ LogPage /\ UNCHANGED <<part, unsent, usersPageVars, editorVars, invitesVars, servicesPageVars, subscriptionsPageVars, ownVars>>
    \/ InvitePage /\ UNCHANGED <<part, usersPageVars, editorVars, logsVars, servicesPageVars, subscriptionsPageVars, ownVars>>
    \/ ServicePage /\ UNCHANGED <<part, usersPageVars, editorVars, logsVars, invitesVars, subscriptionsPageVars, ownVars>>
    \/ SubscriptionPage /\ UNCHANGED <<part, usersPageVars, editorVars, logsVars, invitesVars, servicesPageVars, ownVars>>
    \/ OwnPage /\ UNCHANGED <<part, usersPageVars, editorVars, logsVars, invitesVars, servicesPageVars, subscriptionsPageVars>>

Spec == Init /\ [][Next]_dashboardVars

(* Types of all variables, of the page that is open and of those that rest. *)
DashboardTypeOK ==
    /\ UsersPageTypeOK /\ EditorTypeOK /\ LogsTypeOK
    /\ InvitesPageTypeOK /\ ServicesPageTypeOK /\ SubscriptionsPageTypeOK /\ OwnTypeOK

=============================================================================
