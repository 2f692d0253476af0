----------------------------- MODULE AccessEditor -----------------------------
(***************************************************************************)
(* The administrator's page of policies: which user may use a service, and *)
(* with how many accounts.                                                 *)
(*                                                                         *)
(* Selecting a user starts a load that nothing cancels, and what arrives   *)
(* is shown whoever is selected by then.  Editing the number of accounts   *)
(* sends the policy that is shown along with it.                           *)
(*                                                                         *)
(* One administrator and one service; the rows of other services are       *)
(* edited in the same way.  What a policy does to subscriptions is in      *)
(* SubscriptionCascade and SubscriptionLifecycle.                          *)
(***************************************************************************)
EXTENDS Integers

CONSTANTS
    Subjects,   \* the users that can be selected
    NoSubject,  \* no user
    Loads,      \* loads that may be in flight together
    MaxCap      \* bound on the numbers of accounts that are typed

ASSUME AccessEditorConstants == MaxCap \in Nat \ {0} /\ NoSubject \notin Subjects

VARIABLES
    defaultAllowed, \* of the service
    policy,     \* policy[u]: effect and number of accounts in the database
    selectedUserId,
    shown,      \* the policy in the state of the hook
    isLoading,
    draftCap,   \* the number being typed, 0 for none
    choice,     \* the dialog that is open: an effect and a number of accounts
    listing,    \* listing[k]: user and answer of a load
    save,       \* the request that pendingServiceId stands for
    tangled     \* history: what is shown may be another user's, or an older one

editorVars == <<defaultAllowed, policy, selectedUserId, shown, isLoading, draftCap, choice,
                listing, save, tangled>>

Effects == {"ALLOW", "DENY", "DEFAULT"}

Policy == {p \in [effect : Effects, cap : 1..MaxCap] : p.effect = "DEFAULT" => p.cap = 1}

NoPolicy == [effect |-> "DEFAULT", cap |-> 1]

NoChoice == [effect |-> "none", cap |-> 1]

LoadState == [pc : {"idle", "asked", "read"}, user : Subjects \cup {NoSubject}, answer : Policy]

NoLoad == [pc |-> "idle", user |-> NoSubject, answer |-> NoPolicy]

SaveState == [pc : {"idle", "out", "ok", "error"}, kind : {"none", "cap", "policy"},
              user : Subjects \cup {NoSubject}, value : Policy, trusted : BOOLEAN]

NoSave == [pc |-> "idle", kind |-> "none", user |-> NoSubject, value |-> NoPolicy, trusted |-> FALSE]

(* Nobody is selected before the list of users has arrived.                  *)
EditorInit ==
    /\ defaultAllowed \in BOOLEAN
    /\ policy \in [Subjects -> Policy]
    /\ selectedUserId = NoSubject
    /\ shown = NoPolicy
    /\ isLoading = TRUE
    /\ draftCap = 0
    /\ choice = NoChoice
    /\ listing = [k \in Loads |-> NoLoad]
    /\ save = NoSave
    /\ tangled = FALSE

Effective(p) == IF p.effect = "DEFAULT" THEN (IF defaultAllowed THEN "ALLOW" ELSE "DENY") ELSE p.effect

LoadsInFlight == {k \in Loads : listing[k].pc # "idle"}

Saving == save.pc # "idle"

-----------------------------------------------------------------------------
(* The effects on users and on selectedUserId *)

(* The first user is selected by the page.  What was typed for the user      *)
(* before is dropped; the policies are not.                                  *)
Select(u, k) ==
    /\ u # selectedUserId
    /\ choice = NoChoice
    /\ listing[k].pc = "idle"
    /\ selectedUserId' = u
    /\ draftCap' = 0
    /\ isLoading' = TRUE
    /\ listing' = [listing EXCEPT ![k] = [NoLoad EXCEPT !.pc = "asked", !.user = u]]
    /\ tangled' = (LoadsInFlight # {} \/ Saving)
    /\ UNCHANGED <<defaultAllowed, policy, shown, choice, save>>

ListPolicies(k) ==
    /\ listing[k].pc = "asked"
    /\ listing' = [listing EXCEPT ![k].pc = "read", ![k].answer = policy[listing[k].user]]
    /\ UNCHANGED <<defaultAllowed, policy, selectedUserId, shown, isLoading, draftCap, choice, save, tangled>>

ShowPolicies(k) ==
    /\ listing[k].pc = "read"
    /\ shown' = listing[k].answer
    /\ isLoading' = FALSE
    /\ listing' = [listing EXCEPT ![k] = NoLoad]
    /\ UNCHANGED <<defaultAllowed, policy, selectedUserId, draftCap, choice, save, tangled>>

(* The policies of the user selected before stay.                            *)
LoadFails(k) ==
    /\ listing[k].pc # "idle"
    /\ isLoading' = FALSE
    /\ listing' = [listing EXCEPT ![k] = NoLoad]
    /\ tangled' = TRUE
    /\ UNCHANGED <<defaultAllowed, policy, selectedUserId, shown, draftCap, choice, save>>

-----------------------------------------------------------------------------
(* updateCap, applyPolicy *)

Start(kind, value) ==
    save' = [pc |-> "out", kind |-> kind, user |-> selectedUserId, value |-> value,
             trusted |-> ~tangled /\ LoadsInFlight = {}]

(* Mutant: the number can be typed whatever the access. *)
AlwaysEditable == ~isLoading /\ ~Saving /\ choice = NoChoice

Editable == ~isLoading /\ ~Saving /\ choice = NoChoice /\ Effective(shown) # "DENY"

TypeCap(n) ==
    /\ Editable
    /\ draftCap' = n
    /\ UNCHANGED <<defaultAllowed, policy, selectedUserId, shown, isLoading, choice, listing, save, tangled>>

(* An edit on top of the default stores an explicit ALLOW.                   *)
UpdateCap ==
    /\ Editable
    /\ draftCap # 0
    /\ Start("cap", [effect |-> IF shown.effect = "DEFAULT" THEN "ALLOW" ELSE shown.effect, cap |-> draftCap])
    /\ UNCHANGED <<defaultAllowed, policy, selectedUserId, shown, isLoading, draftCap, choice, listing, tangled>>

ChoosePolicy(effect) ==
    /\ ~isLoading /\ ~Saving
    /\ choice = NoChoice
    /\ effect # shown.effect
    /\ choice' = [effect |-> effect, cap |-> IF draftCap # 0 THEN draftCap ELSE shown.cap]
    /\ UNCHANGED <<defaultAllowed, policy, selectedUserId, shown, isLoading, draftCap, listing, save, tangled>>

CancelChoice ==
    /\ choice # NoChoice
    /\ choice' = NoChoice
    /\ UNCHANGED <<defaultAllowed, policy, selectedUserId, shown, isLoading, draftCap, listing, save, tangled>>

(* The dialog can be closed while it waits for the request: it is closed     *)
(* here at once.                                                             *)
ConfirmChoice ==
    /\ choice # NoChoice
    /\ Start("policy", IF choice.effect = "DEFAULT" THEN NoPolicy ELSE choice)
    /\ choice' = NoChoice
    /\ UNCHANGED <<defaultAllowed, policy, selectedUserId, shown, isLoading, draftCap, listing, tangled>>

(* setPolicy stores the policy and then changes subscriptions, which may     *)
(* fail; deletePolicy fails when there is none.                              *)
HandleSave(done, pc) ==
    LET removesNothing == save.value.effect = "DEFAULT" /\ policy[save.user].effect = "DEFAULT" IN
    /\ save.pc = "out"
    /\ pc = "ok" => done
    /\ done => ~removesNothing
    /\ policy' = IF done THEN [policy EXCEPT ![save.user] = save.value] ELSE policy
    /\ save' = [save EXCEPT !.pc = pc]
    /\ tangled' = (tangled \/ (done /\ pc = "error"))
    /\ UNCHANGED <<defaultAllowed, selectedUserId, shown, isLoading, draftCap, choice, listing>>

(* Mutant: the number of accounts survives the removal of the policy. *)
KeptAfter(value) == [effect |-> value.effect, cap |-> IF value.effect = "DEFAULT" THEN shown.cap ELSE value.cap]

ShownAfter(value) == value

SettleSave ==
    /\ save.pc \in {"ok", "error"}
    /\ shown' = IF save.pc = "ok" THEN ShownAfter(save.value) ELSE shown
    /\ draftCap' = IF save.kind = "policy" THEN draftCap ELSE IF save.pc = "ok" THEN 0 ELSE shown.cap
    /\ save' = NoSave
    /\ UNCHANGED <<defaultAllowed, policy, selectedUserId, isLoading, choice, listing, tangled>>

EditorNext ==
    \/ UpdateCap \/ CancelChoice \/ ConfirmChoice \/ SettleSave
    \/ \E k \in Loads : ListPolicies(k) \/ ShowPolicies(k) \/ LoadFails(k)
                        \/ \E u \in Subjects : Select(u, k)
    \/ \E n \in 1..MaxCap : TypeCap(n)
    \/ \E effect \in Effects : ChoosePolicy(effect)
    \/ \E done \in BOOLEAN, pc \in {"ok", "error"} : HandleSave(done, pc)

EditorSpec == EditorInit /\ [][EditorNext]_editorVars

-----------------------------------------------------------------------------
(* Types of all variables.                                                   *)
EditorTypeOK ==
    /\ defaultAllowed \in BOOLEAN /\ isLoading \in BOOLEAN /\ tangled \in BOOLEAN
    /\ policy \in [Subjects -> Policy] /\ shown \in Policy
    /\ selectedUserId \in Subjects \cup {NoSubject}
    /\ draftCap \in 0..MaxCap
    /\ choice \in [effect : Effects \cup {"none"}, cap : 1..MaxCap]
    /\ listing \in [Loads -> LoadState] /\ save \in SaveState

(* When nothing is in flight the page shows the stored policy of the user it *)
(* names, unless a user was selected while something was in flight, or a     *)
(* load or a half-done save failed (useUserServiceAccess 47-70).             *)
EditorShowsStored ==
    (selectedUserId # NoSubject /\ LoadsInFlight = {} /\ ~Saving /\ ~tangled) => shown = policy[selectedUserId]

(* A number of accounts may be changed "when access is allowed": saving one  *)
(* neither grants nor withdraws access, although it writes the effect too    *)
(* (useUserServiceAccess 118-130, UserServiceAccess 193-196).                *)
CapLeavesAccess ==
    [][(save.kind = "cap" /\ save.trusted) =>
          \A u \in Subjects : Effective(policy'[u]) = Effective(policy[u])]_editorVars

=============================================================================
