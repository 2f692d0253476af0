------------------------------ MODULE InvitesPage ------------------------------
(***************************************************************************)
(* The administrator's page of invites: the generator of links, and the    *)
(* table in which invites are edited, duplicated and deleted.              *)
(*                                                                         *)
(* There is one draft and no busy flag: a save that is under way keeps     *)
(* nobody from saving again or from opening another draft, and each answer *)
(* closes the draft that is open by then and loads the list again.  A load *)
(* hides the table, until the first of several loads has come back.        *)
(*                                                                         *)
(* A request is handled in one step; InviteRedemption opens the handlers,  *)
(* expiry included.  Names that differ in case alone are one name.         *)
(***************************************************************************)
EXTENDS Integers, FiniteSets

CONSTANTS
    Invites,    \* ids of invites, never used twice
    Emails,     \* e-mail addresses
    ServiceNames,
    NoInvite, NoEmail, NoName,
    Requests,   \* requests of the page that may be in flight together
    Lists       \* loads of the list that may be in flight together

ASSUME InvitesPageConstants ==
    NoInvite \notin Invites /\ NoEmail \notin Emails /\ NoName \notin ServiceNames

VARIABLES
    rowOf,          \* rowOf[i]: the row of invite i
    invites,        \* what the page shows for each of them
    loadingInvites, \* TRUE while the table is hidden
    editDraft,      \* the draft, at most one
    generatedLink,  \* the invite whose link the generator shows
    asked,          \* asked[q]: request q
    loads,          \* loads[l]: load l of the list
    latest,         \* the load that was asked for last
    outdated,       \* history: the load asked for last failed, or another came after it
    moved           \* history: rows changed without a load to follow

invitesVars == <<rowOf, invites, loadingInvites, editDraft, generatedLink, asked, loads, latest, outdated,
                 moved>>

AnyEmail == Emails \cup {NoEmail}

InviteRow == [state : {"unused", "pending", "used", "revoked", "deleted"}, email : AnyEmail,
              isAdmin : BOOLEAN]

NoInviteRow == [state |-> "unused", email |-> NoEmail, isAdmin |-> FALSE]

Draft == [id : Invites \cup {NoInvite}, open : BOOLEAN, isNew : BOOLEAN, email : AnyEmail,
          revoked : BOOLEAN, isAdmin : BOOLEAN]

NoDraft == [id |-> NoInvite, open |-> FALSE, isNew |-> FALSE, email |-> NoEmail,
            revoked |-> FALSE, isAdmin |-> FALSE]

(* A row of the generator's form; named: a username or an id is filled in.   *)
LinkedAccount == [serviceName : ServiceNames \cup {NoName}, named : BOOLEAN, email : AnyEmail]

Forms == [email : AnyEmail, accounts : UNION {[1..n -> LinkedAccount] : n \in 0..2}]

Asked == [pc : {"idle", "sent", "answered", "failed"}, kind : {"none", "generate", "save", "delete"},
          draft : Draft, acceptable : BOOLEAN, created : Invites \cup {NoInvite}]

NothingAsked == [pc |-> "idle", kind |-> "none", draft |-> NoDraft, acceptable |-> TRUE, created |-> NoInvite]

(* Mutant: revoked invites are left out of the list. *)
PendingOnly(rows) ==
    [i \in Invites |-> IF rows[i].state \in {"deleted", "revoked"} THEN NoInviteRow ELSE rows[i]]

(* listInvites, over invites that fit on one page.                           *)
Listed(rows) ==
    [i \in Invites |-> IF rows[i].state = "deleted" THEN NoInviteRow ELSE rows[i]]

ListLoad == [pc : {"idle", "asked", "read"}, data : [Invites -> InviteRow]]

NoListLoad == [pc |-> "idle", data |-> [i \in Invites |-> NoInviteRow]]

InvitesPageInit ==
    /\ rowOf \in [Invites -> {NoInviteRow, [NoInviteRow EXCEPT !.state = "pending"]}]
    /\ invites = NoListLoad.data
    /\ loadingInvites = TRUE
    /\ editDraft = NoDraft
    /\ generatedLink = NoInvite
    /\ asked = [q \in Requests |-> NothingAsked]
    /\ latest \in Lists
    /\ loads = [l \in Lists |-> IF l = latest THEN [NoListLoad EXCEPT !.pc = "asked"] ELSE NoListLoad]
    /\ outdated = FALSE
    /\ moved = FALSE

-----------------------------------------------------------------------------
(* useInviteList *)

(* load(): part of the answers below.                                        *)
Refresh ==
    \E l \in Lists :
        /\ loads[l].pc = "idle"
        /\ loads' = [loads EXCEPT ![l].pc = "asked"]
        /\ latest' = l
        /\ outdated' = FALSE
        /\ loadingInvites' = TRUE

ReadList(l) ==
    /\ loads[l].pc = "asked"
    /\ loads' = [loads EXCEPT ![l] = [pc |-> "read", data |-> Listed(rowOf)]]
    /\ moved' = (moved /\ l # latest)
    /\ UNCHANGED <<rowOf, invites, loadingInvites, editDraft, generatedLink, asked, latest, outdated>>

(* The first load that comes back shows the table again.                     *)
ShowList(l) ==
    /\ loads[l].pc = "read"
    /\ invites' = loads[l].data
    /\ loadingInvites' = FALSE
    /\ outdated' = (outdated \/ (l # latest /\ loads[latest].pc = "idle"))
    /\ loads' = [loads EXCEPT ![l] = NoListLoad]
    /\ UNCHANGED <<rowOf, editDraft, generatedLink, asked, latest, moved>>

ListFails(l) ==
    /\ loads[l].pc # "idle"
    /\ loadingInvites' = FALSE
    /\ outdated' = (outdated \/ l = latest)
    /\ loads' = [loads EXCEPT ![l] = NoListLoad]
    /\ UNCHANGED <<rowOf, invites, editDraft, generatedLink, asked, latest, moved>>

-----------------------------------------------------------------------------
(* useInviteTable: buttons of a row that is shown *)

Visible(i) == ~loadingInvites /\ invites[i].state # "unused"

Edits(draft) ==
    /\ editDraft' = draft
    /\ UNCHANGED <<rowOf, invites, loadingInvites, generatedLink, asked, loads, latest, outdated, moved>>

StartEdit(i) ==
    /\ Visible(i) /\ editDraft.id # i
    /\ Edits([id |-> i, open |-> TRUE, isNew |-> FALSE, email |-> invites[i].email,
              revoked |-> invites[i].state = "revoked", isAdmin |-> invites[i].isAdmin])

DuplicateInvite(i) ==
    /\ Visible(i) /\ editDraft.id # i
    /\ Edits([id |-> NoInvite, open |-> TRUE, isNew |-> TRUE, email |-> invites[i].email,
              revoked |-> FALSE, isAdmin |-> invites[i].isAdmin])

UpdateDraft ==
    /\ ~loadingInvites /\ editDraft.open
    /\ \/ \E e \in AnyEmail : Edits([editDraft EXCEPT !.email = e])
       \/ \E a \in BOOLEAN : Edits([editDraft EXCEPT !.isAdmin = a])
       \/ ~editDraft.isNew /\ Edits([editDraft EXCEPT !.revoked = TRUE])

DiscardEdit == ~loadingInvites /\ editDraft.open /\ Edits(NoDraft)

Send(kind, draft, acceptable) ==
    /\ \E q \in Requests :
          /\ asked[q].pc = "idle"
          /\ asked' = [asked EXCEPT ![q] = [pc |-> "sent", kind |-> kind, draft |-> draft, acceptable |-> acceptable,
                                            created |-> NoInvite]]
    /\ UNCHANGED <<rowOf, invites, loadingInvites, editDraft, generatedLink, loads, latest, outdated, moved>>

(* What is sent of a draft: no empty e-mail, and nothing of the rights of a  *)
(* new invite.                                                               *)
Sent(draft) == IF draft.isNew THEN [draft EXCEPT !.isAdmin = FALSE] ELSE draft

SaveEdit == ~loadingInvites /\ editDraft.open /\ Send("save", Sent(editDraft), TRUE)

DeleteShown(i) ==
    /\ Visible(i) /\ editDraft.id # i
    /\ Send("delete", [NoDraft EXCEPT !.id = i], TRUE)

-----------------------------------------------------------------------------
(* useInviteGenerator *)

(* The rows that are sent: those for which a service is chosen.              *)
Given(form) == {j \in DOMAIN form.accounts : form.accounts[j].serviceName # NoName}

(* Mutant: the services are not compared. *)
ValidateEach(form) ==
    \A j \in Given(form) :
        LET a == form.accounts[j] IN
        /\ a.named \/ a.email # NoEmail
        /\ a.email \in {NoEmail, form.email}

(* validate()                                                                *)
Validate(form) ==
    \A j \in Given(form) :
        LET a == form.accounts[j] IN
        /\ \A k \in Given(form) \ {j} : form.accounts[k].serviceName # a.serviceName
        /\ a.named \/ a.email # NoEmail
        /\ a.email \in {NoEmail, form.email}

ValidForms == {form \in Forms : Validate(form)}

(* AtLeastOneField, validateUniqueServices, and validateAccountEmails, which *)
(* looks at the first e-mail alone.                                          *)
Acceptable(form) ==
    LET mailed == {j \in Given(form) : form.accounts[j].email # NoEmail} IN
    /\ \A j \in Given(form) : form.accounts[j].named \/ form.accounts[j].email # NoEmail
    /\ \A j, k \in Given(form) : form.accounts[j].serviceName = form.accounts[k].serviceName => j = k
    /\ \A j \in mailed : (\A k \in mailed : j <= k) => form.accounts[j].email = form.email

Submitted == {[email |-> form.email, acceptable |-> Acceptable(form)] : form \in ValidForms}

(* The button rests while isGenerating, and does nothing with a form that is *)
(* not valid.                                                                *)
Generate ==
    /\ \A q \in Requests : asked[q].kind # "generate"
    /\ \E sent \in Submitted, isAdmin \in BOOLEAN :
          Send("generate", [NoDraft EXCEPT !.isNew = TRUE, !.email = sent.email, !.isAdmin = isAdmin],
               sent.acceptable)

-----------------------------------------------------------------------------
(* InviteService *)

(* createToken(): a pending invite for the same e-mail is superseded.        *)
Created(i, draft) ==
    [j \in Invites |->
        IF j = i THEN [state |-> "pending", email |-> draft.email, isAdmin |-> draft.isAdmin]
        ELSE IF draft.email # NoEmail /\ rowOf[j].state = "pending" /\ rowOf[j].email = draft.email
        THEN [rowOf[j] EXCEPT !.state = "revoked"]
        ELSE rowOf[j]]

(* updateInvite(): an e-mail that is not sent stays.                         *)
Updated(draft) ==
    [rowOf EXCEPT ![draft.id] =
        [state |-> IF draft.revoked THEN "revoked" ELSE "pending",
         email |-> IF draft.email = NoEmail THEN @.email ELSE draft.email,
         isAdmin |-> draft.isAdmin]]

(* Of the answer the page keeps the link alone, and of a save not even that. *)
AnswerWith(q, created) ==
    asked' = [asked EXCEPT ![q].pc = "answered", ![q].draft = NoDraft, ![q].created = created]

HandleRequest(q) ==
    LET draft == asked[q].draft IN
    /\ asked[q].pc = "sent"
    /\ \/ /\ draft.isNew /\ asked[q].acceptable
          /\ \E i \in Invites :
                /\ rowOf[i].state = "unused"
                /\ rowOf' = Created(i, draft)
                /\ AnswerWith(q, IF asked[q].kind = "generate" THEN i ELSE NoInvite)
       \/ /\ asked[q].kind = "save" /\ ~draft.isNew /\ rowOf[draft.id].state = "pending"
          /\ rowOf' = Updated(draft)
          /\ AnswerWith(q, NoInvite)
       \/ /\ asked[q].kind = "delete" /\ rowOf[draft.id].state # "deleted"
          /\ rowOf' = [rowOf EXCEPT ![draft.id] = [NoInviteRow EXCEPT !.state = "deleted"]]
          /\ AnswerWith(q, NoInvite)
       \/ /\ asked' = [asked EXCEPT ![q].pc = "failed", ![q].draft = NoDraft]
          /\ UNCHANGED rowOf
    /\ UNCHANGED <<invites, loadingInvites, editDraft, generatedLink, loads, latest, outdated, moved>>

(* Mutant: the list is left as it is. *)
NoRefresh == UNCHANGED <<loads, latest, outdated, loadingInvites>>

(* What follows a request that succeeded.                                    *)
AfterSuccess == Refresh

Succeeds(q) ==
    /\ asked[q].pc = "answered"
    /\ AfterSuccess
    /\ editDraft' = IF asked[q].kind = "save" THEN NoDraft ELSE editDraft
    /\ generatedLink' = IF asked[q].kind = "generate" THEN asked[q].created ELSE generatedLink
    /\ asked' = [asked EXCEPT ![q] = NothingAsked]
    /\ UNCHANGED <<rowOf, invites, moved>>

(* The request was refused, or its answer is lost.                           *)
Fails(q) ==
    /\ asked[q].pc \in {"answered", "failed"}
    /\ asked' = [asked EXCEPT ![q] = NothingAsked]
    /\ moved' = (moved \/ asked[q].pc = "answered")
    /\ UNCHANGED <<rowOf, invites, loadingInvites, editDraft, generatedLink, loads, latest, outdated>>

(* A sign-up redeems an invite, or locks it.                                 *)
Redeem(i) ==
    /\ rowOf[i].state = "pending"
    /\ \E state \in {"used", "revoked"} : rowOf' = [rowOf EXCEPT ![i].state = state]
    /\ moved' = TRUE
    /\ UNCHANGED <<invites, loadingInvites, editDraft, generatedLink, asked, loads, latest, outdated>>

InvitesPageNext ==
    \/ UpdateDraft \/ DiscardEdit \/ SaveEdit \/ Generate
    \/ \E i \in Invites : StartEdit(i) \/ DuplicateInvite(i) \/ DeleteShown(i) \/ Redeem(i)
    \/ \E q \in Requests : HandleRequest(q) \/ Succeeds(q) \/ Fails(q)
    \/ \E l \in Lists : ReadList(l) \/ ShowList(l) \/ ListFails(l)

InvitesPageSpec == InvitesPageInit /\ [][InvitesPageNext]_invitesVars

-----------------------------------------------------------------------------
(* Types of all variables.                                                   *)
InvitesPageTypeOK ==
    /\ rowOf \in [Invites -> InviteRow] /\ invites \in [Invites -> InviteRow]
    /\ editDraft \in Draft
    /\ generatedLink \in Invites \cup {NoInvite}
    /\ asked \in [Requests -> Asked]
    /\ loads \in [Lists -> ListLoad] /\ latest \in Lists
    /\ {loadingInvites, outdated, moved} \subseteq BOOLEAN

(* When nothing is on its way the page shows the invites as they are stored, *)
(* however saves, deletions, generated links and loads overlapped.  Excepted *)
(* are changes by sign-ups or behind a lost answer since the last load, and  *)
(* a last load that failed or was overtaken (useInviteTable 46-110).         *)
ListIsCurrent ==
    ((\A q \in Requests : asked[q].pc = "idle") /\ (\A l \in Lists : loads[l].pc = "idle")
        /\ ~outdated /\ ~moved) =>
        invites = Listed(rowOf)

(* A form that the page lets through is not refused for what it says         *)
(* (useInviteGenerator 47-92, invite.service 261-284).                       *)
FormsAgree == \A q \in Requests : asked[q].acceptable

(* What was saved is what the draft showed.  Does not hold: the rights of a  *)
(* new invite and an e-mail that was cleared are not sent.                   *)
SavedAsShown ==
    [][\A q \in Requests :
        (asked[q].pc = "idle" /\ asked'[q].kind = "save") =>
            /\ asked'[q].draft.isAdmin = editDraft.isAdmin
            /\ (editDraft.email = NoEmail /\ ~editDraft.isNew) =>
                  invites[editDraft.id].email = NoEmail]_invitesVars

(* The page keeps the link of every invite that it creates.  Does not hold:  *)
(* a duplicate supersedes the invite that it was made from, and nobody ever  *)
(* sees its link (useInviteTable 50-56).                                     *)
LinksAreKept ==
    [][\A i \in Invites :
        (rowOf[i].state = "unused" /\ rowOf'[i].state = "pending") =>
            \E q \in Requests : asked'[q].created = i]_invitesVars

=============================================================================
