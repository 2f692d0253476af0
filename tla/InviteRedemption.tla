-------------------------- MODULE InviteRedemption --------------------------
(***************************************************************************)
(* The invite lifecycle and the sign-up that redeems an invite.            *)
(*                                                                         *)
(* The server is one Node process: handlers interleave at every await, so  *)
(* each action below is the code between two awaits of one handler (one    *)
(* database statement and the checks that follow it).  A sign-up is        *)
(* AuthController.join, then the OAuth callback, which runs                *)
(* AuthService.completeSignUp.  An admin request is InviteService          *)
(* createToken, updateInvite or deleteInvite.                              *)
(*                                                                         *)
(* A user row is created by exactly one sign-up attempt, so an attempt     *)
(* doubles as the id of the user it creates.                               *)
(***************************************************************************)
EXTENDS Integers, FiniteSets

CONSTANTS
    Invites,        \* ids an invite row may be given (uuids, never reused)
    Attempts,       \* sign-up attempts, and the ids of the users they create
    AdminOps,       \* concurrent admin requests on the invite routes
    Emails,         \* email addresses
    Patches,        \* bodies of PATCH /invites/:id that are explored
    None,           \* SQL null
    Keep,           \* a field that a PATCH body leaves out
    MAX_INVITE_FAILED_ATTEMPTS,
    InviteDays,     \* lifetimes an admin may ask for (expiresInDays)
    SignUpWindow,   \* SIGNUP_COMPLETION_WINDOW_MINUTES
    MaxTime,        \* bound: the clock stops here
    MaxMismatches,  \* bound: value at which failedAttempts stops growing
    Faults          \* TRUE when an await may reject or the server may restart

RevokedReasons == {"ADMIN", "AUTO_FAILED_ATTEMPTS", "AUTO_SUPERSEDED"}

PatchBodies ==
    [email : Emails \cup {None, Keep}, expiresAt : Nat \cup {Keep}, revoked : BOOLEAN]

ASSUME InviteConstants ==
    /\ MAX_INVITE_FAILED_ATTEMPTS \in Nat \ {0}
    /\ InviteDays \subseteq Nat
    /\ SignUpWindow \in Nat
    /\ MaxTime \in Nat
    /\ MaxMismatches \in Nat
    /\ Faults \in BOOLEAN
    /\ Patches \subseteq PatchBodies
    /\ None \notin Emails /\ Keep \notin Emails /\ None # Keep
    /\ None \notin Attempts /\ None \notin Invites /\ None \notin RevokedReasons
    /\ Keep \notin Nat

VARIABLES
    now,        \* the database and server clock
    row,        \* row[i]: "unused" id, "live" row or "deleted" row of invites
    invite,     \* invite[i]: the columns of the row
    user,       \* user[a]: the email of the user row that attempt a created, or None
    identity,   \* users that have an OAuth identity row
    attempt,    \* attempt[a]: the sign-up handler's program counter and locals
    op          \* op[o]: the admin handler's program counter and locals

vars == <<now, row, invite, user, identity, attempt, op>>

InviteRow ==
    [email : Emails \cup {None}, expiresAt : Nat, createdAt : Nat,
     usedAt : BOOLEAN, usedBy : Attempts \cup {None},
     revokedReason : RevokedReasons \cup {None}, failedAttempts : Nat]

AttemptPcs ==
    {"idle", "joined", "mismatch", "lockout", "validated", "creating",
     "linking", "claiming", "done", "failed"}

Attempt ==
    [pc : AttemptPcs, invite : Invites \cup {None}, window : Nat,
     email : Emails \cup {None}, bound : Emails \cup {None}]

OpPcs == {"idle", "findPending", "supersede", "insert", "patch"}

Op == [pc : OpPcs, email : Emails \cup {None}, days : InviteDays \cup {0},
       target : Invites \cup {None}, body : Patches \cup {None}]

IdleAttempt == [pc |-> "idle", invite |-> None, window |-> 0, email |-> None, bound |-> None]

IdleOp == [pc |-> "idle", email |-> None, days |-> 0, target |-> None, body |-> None]

BlankRow == [email |-> None, expiresAt |-> 0, createdAt |-> 0, usedAt |-> FALSE,
             usedBy |-> None, revokedReason |-> None, failedAttempts |-> 0]

-----------------------------------------------------------------------------
(* Reads of the two tables. *)

Revoked(i) == invite[i].revokedReason # None

UserExists(e) == \E a \in Attempts : user[a] = e

(* validateToken's checks before the email: found, not revoked, not used,   *)
(* and not expired (an invite that expires this instant still passes).      *)
Redeemable(i) ==
    /\ row[i] = "live"
    /\ ~Revoked(i)
    /\ ~invite[i].usedAt
    /\ ~(invite[i].expiresAt < now)

(* Mutants of the where clause: one condition forgotten. *)
PendingIgnoringUse(i) ==
    row[i] = "live" /\ ~Revoked(i) /\ invite[i].expiresAt > now

PendingIgnoringRevocation(i) ==
    row[i] = "live" /\ ~invite[i].usedAt /\ invite[i].expiresAt > now

(* The where clause of findActivePendingByEmail and of claim, which unlike  *)
(* validateToken reject an invite that expires this instant.                *)
Pending(i) ==
    /\ row[i] = "live"
    /\ ~Revoked(i)
    /\ ~invite[i].usedAt
    /\ invite[i].expiresAt > now

Init ==
    /\ now = 0
    /\ row = [i \in Invites |-> "unused"]
    /\ invite = [i \in Invites |-> BlankRow]
    /\ user = [a \in Attempts |-> None]
    /\ identity = {}
    /\ attempt = [a \in Attempts |-> IdleAttempt]
    /\ op = [o \in AdminOps |-> IdleOp]

-----------------------------------------------------------------------------
(* Sign-up: /join, then the OAuth callback. *)

At(a, pc) == attempt[a].pc = pc

Goto(a, pc) == attempt' = [attempt EXCEPT ![a].pc = pc]

(* The handler throws.  Before a user row exists the visitor may simply      *)
(* start over; afterwards the attempt is over and its user row stays.        *)
Abandon(a) == attempt' = [attempt EXCEPT ![a] = IdleAttempt]

(* beginSignUp: validateToken(token) without an email, then the check that   *)
(* a bound email has no account.  The session keeps the token and a window.  *)
Join(a, i) ==
    /\ At(a, "idle")
    /\ Redeemable(i)
    /\ invite[i].email # None => ~UserExists(invite[i].email)
    /\ attempt' = [attempt EXCEPT ![a] =
                     [IdleAttempt EXCEPT !.pc = "joined", !.invite = i, !.window = now + SignUpWindow]]
    /\ UNCHANGED <<now, row, invite, user, identity, op>>

(* Mutant: the recipient is not compared. *)
AnyEmailMatches(i, e) == TRUE

EmailMatches(i, e) == invite[i].email = None \/ invite[i].email = e

(* handleOAuthRedirect and the read of completeSignUp's validateToken(token, *)
(* email): the visitor returns with the profile of email e.                  *)
Callback(a, e) ==
    LET i == attempt[a].invite
        inTime == ~(attempt[a].window < now)
        matches == EmailMatches(i, e)
    IN
    /\ At(a, "joined")
    /\ IF inTime /\ Redeemable(i)
       THEN attempt' = [attempt EXCEPT ![a].pc = IF matches THEN "validated" ELSE "mismatch",
                                       ![a].email = e,
                                       ![a].window = 0,
                                       ![a].bound = IF matches THEN invite[i].email ELSE None]
       ELSE Abandon(a)
    /\ UNCHANGED <<now, row, invite, user, identity, op>>

(* Mutant of the limit: off by one. *)
LimitPassed(count) == count > MAX_INVITE_FAILED_ATTEMPTS

LimitReached(count) == count >= MAX_INVITE_FAILED_ATTEMPTS

(* incrementFailedAttempts: an atomic increment that returns the new value,  *)
(* on which the handler decides to revoke.  A row deleted meanwhile throws.  *)
CountMismatch(a) ==
    LET i == attempt[a].invite
        count == invite[i].failedAttempts + 1
    IN
    /\ At(a, "mismatch")
    /\ \/ /\ row[i] = "live"
          /\ invite[i].failedAttempts < MaxMismatches
          /\ invite' = [invite EXCEPT ![i].failedAttempts = count]
          /\ IF LimitReached(count) THEN Goto(a, "lockout") ELSE Abandon(a)
       \/ /\ row[i] # "live"
          /\ Abandon(a)
          /\ UNCHANGED invite
    /\ UNCHANGED <<now, row, user, identity, op>>

(* repository.revoke: update by id, with no condition on the row's state.    *)
RevokeRow(i, reason) ==
    invite' = IF row[i] = "live" THEN [invite EXCEPT ![i].revokedReason = reason] ELSE invite

AutoRevoke(a) ==
    /\ At(a, "lockout")
    /\ RevokeRow(attempt[a].invite, "AUTO_FAILED_ATTEMPTS")
    /\ Abandon(a)
    /\ UNCHANGED <<now, row, user, identity, op>>

(* resolveOAuthProvider and the existing-account check of completeSignUp.    *)
CheckExisting(a) ==
    /\ At(a, "validated")
    /\ IF UserExists(attempt[a].email) THEN Abandon(a) ELSE Goto(a, "creating")
    /\ UNCHANGED <<now, row, invite, user, identity, op>>

(* createUser: the invite's own email, when it has one, overrides the        *)
(* profile's.  users.email is unique: an insert that collides throws.        *)
CreateUser(a) ==
    LET e == IF attempt[a].bound # None THEN attempt[a].bound ELSE attempt[a].email
    IN
    /\ At(a, "creating")
    /\ \/ /\ ~UserExists(e)
          /\ user' = [user EXCEPT ![a] = e]
          /\ attempt' = [attempt EXCEPT ![a].pc = "linking", ![a].bound = None]
       \/ /\ UserExists(e)
          /\ Abandon(a)
          /\ UNCHANGED user
    /\ UNCHANGED <<now, row, invite, identity, op>>

(* CreateUserOAuthIdentity: a foreign key on the user row.                   *)
LinkIdentity(a) ==
    /\ At(a, "linking")
    /\ \/ /\ user[a] # None
          /\ identity' = identity \cup {a}
          /\ Goto(a, "claiming")
       \/ /\ user[a] = None
          /\ Goto(a, "failed")
          /\ UNCHANGED identity
    /\ UNCHANGED <<now, row, invite, user, op>>

(* claimToken: one conditional update.  Zero rows, or a user row that was    *)
(* deleted meanwhile (foreign key), makes the sign-up fail.                  *)
Claim(a) ==
    LET i == attempt[a].invite
    IN
    /\ At(a, "claiming")
    /\ \/ /\ Pending(i)
          /\ user[a] # None
          /\ invite' = [invite EXCEPT ![i].usedAt = TRUE, ![i].usedBy = a]
          /\ Goto(a, "done")
       \/ /\ ~(Pending(i) /\ user[a] # None)
          /\ Goto(a, "failed")
          /\ UNCHANGED invite
    /\ UNCHANGED <<now, row, user, identity, op>>

(* An await of the handler rejects, or the server restarts under it.         *)
Fail(a) ==
    /\ Faults
    /\ \/ /\ attempt[a].pc \in {"mismatch", "lockout", "validated", "creating"}
          /\ Abandon(a)
       \/ /\ attempt[a].pc \in {"linking", "claiming"}
          /\ Goto(a, "failed")
    /\ UNCHANGED <<now, row, invite, user, identity, op>>

-----------------------------------------------------------------------------
(* Admin requests. *)

OpAt(o, pc) == op[o].pc = pc

OpDone(o) == op' = [op EXCEPT ![o] = IdleOp]

(* createToken(email, days): a bound invite first looks for an account       *)
(* (every account has left PENDING: createUser stores ACTIVE).               *)
CreateToken(o, e, days) ==
    /\ OpAt(o, "idle")
    /\ e # None => ~UserExists(e)
    /\ op' = [op EXCEPT ![o] = [IdleOp EXCEPT !.pc = IF e = None THEN "insert" ELSE "findPending",
                                              !.email = e, !.days = days]]
    /\ UNCHANGED <<now, row, invite, user, identity, attempt>>

(* findActivePendingByEmail: the newest pending invite for the email.        *)
FindPending(o) ==
    LET candidates == {i \in Invites : Pending(i) /\ invite[i].email = op[o].email}
        newest == {i \in candidates : \A j \in candidates : invite[j].createdAt <= invite[i].createdAt}
    IN
    /\ OpAt(o, "findPending")
    /\ \/ /\ candidates = {}
          /\ op' = [op EXCEPT ![o].pc = "insert"]
       \/ \E i \in newest : op' = [op EXCEPT ![o].pc = "supersede", ![o].target = i]
    /\ UNCHANGED <<now, row, invite, user, identity, attempt>>

(* The revoke of supersedePendingInvite; it throws when the row is gone.     *)
Supersede(o) ==
    /\ OpAt(o, "supersede")
    /\ RevokeRow(op[o].target, "AUTO_SUPERSEDED")
    /\ IF row[op[o].target] = "live"
       THEN op' = [op EXCEPT ![o].pc = "insert", ![o].target = None]
       ELSE OpDone(o)
    /\ UNCHANGED <<now, row, user, identity, attempt>>

InsertInvite(o, i) ==
    /\ OpAt(o, "insert")
    /\ row[i] = "unused"
    /\ row' = [row EXCEPT ![i] = "live"]
    /\ invite' = [invite EXCEPT ![i] = [BlankRow EXCEPT !.email = op[o].email,
                                                        !.expiresAt = now + op[o].days,
                                                        !.createdAt = now]]
    /\ OpDone(o)
    /\ UNCHANGED <<now, user, identity, attempt>>

(* updateInvite, first await: the row is read and must be neither used nor   *)
(* revoked; an expired one may be updated.                                   *)
ReadForUpdate(o, i, body) ==
    /\ OpAt(o, "idle")
    /\ row[i] = "live"
    /\ ~invite[i].usedAt
    /\ ~Revoked(i)
    /\ op' = [op EXCEPT ![o] = [IdleOp EXCEPT !.pc = "patch", !.target = i, !.body = body]]
    /\ UNCHANGED <<now, row, invite, user, identity, attempt>>

(* Mutant of the update: a field that the body leaves out is written too.    *)
PatchWritingMissingFields(r, body) ==
    [r EXCEPT !.email = body.email, !.expiresAt = body.expiresAt,
              !.revokedReason = IF body.revoked THEN "ADMIN" ELSE @]

(* Mutant of the update: the revoked flag of the body is written as it is,   *)
(* so that a body without it lifts a revocation.                             *)
PatchOverwritingRevocation(r, body) ==
    [r EXCEPT !.email = IF body.email = Keep THEN @ ELSE body.email,
              !.expiresAt = IF body.expiresAt = Keep THEN @ ELSE body.expiresAt,
              !.revokedReason = IF body.revoked THEN "ADMIN" ELSE None]

(* updateInvite, second await: the fields of the body, and only those, are   *)
(* written by id.  The write throws when the row is gone.                    *)
PatchedRow(r, body) ==
    [r EXCEPT !.email = IF body.email = Keep THEN @ ELSE body.email,
              !.expiresAt = IF body.expiresAt = Keep THEN @ ELSE body.expiresAt,
              !.revokedReason = IF body.revoked THEN "ADMIN" ELSE @]

WriteUpdate(o) ==
    LET i == op[o].target
    IN
    /\ OpAt(o, "patch")
    /\ invite' = IF row[i] = "live" THEN [invite EXCEPT ![i] = PatchedRow(@, op[o].body)] ELSE invite
    /\ OpDone(o)
    /\ UNCHANGED <<now, row, user, identity, attempt>>

(* deleteInvite: any row, used ones too.                                     *)
DeleteInvite(i) ==
    /\ row[i] = "live"
    /\ row' = [row EXCEPT ![i] = "deleted"]
    /\ invite' = [invite EXCEPT ![i] = BlankRow]
    /\ UNCHANGED <<now, user, identity, attempt, op>>

FailOp(o) ==
    /\ Faults
    /\ ~OpAt(o, "idle")
    /\ OpDone(o)
    /\ UNCHANGED <<now, row, invite, user, identity, attempt>>

(* hardDeleteUser and purgeDeletedUsers: identities go with the row and      *)
(* invites.used_by_user_id is set to null, while used_at stays.              *)
DeleteUser(a) ==
    /\ user[a] # None
    /\ user' = [user EXCEPT ![a] = None]
    /\ identity' = identity \ {a}
    /\ invite' = [i \in Invites |->
                    [invite[i] EXCEPT !.usedBy = IF @ = a THEN None ELSE @]]
    /\ UNCHANGED <<now, row, attempt, op>>

Tick ==
    /\ now < MaxTime
    /\ now' = now + 1
    /\ UNCHANGED <<row, invite, user, identity, attempt, op>>

-----------------------------------------------------------------------------

SignUpStep(a) ==
    \/ CountMismatch(a)
    \/ AutoRevoke(a)
    \/ CheckExisting(a)
    \/ CreateUser(a)
    \/ LinkIdentity(a)
    \/ Claim(a)

SignUp(a) ==
    \/ \E i \in Invites : Join(a, i)
    \/ \E e \in Emails : Callback(a, e)
    \/ SignUpStep(a)
    \/ Fail(a)

AdminStep(o) ==
    \/ FindPending(o)
    \/ Supersede(o)
    \/ \E i \in Invites : InsertInvite(o, i)
    \/ WriteUpdate(o)

Admin(o) ==
    \/ \E e \in Emails \cup {None}, days \in InviteDays : CreateToken(o, e, days)
    \/ \E i \in Invites, body \in Patches : ReadForUpdate(o, i, body)
    \/ AdminStep(o)
    \/ FailOp(o)

Next ==
    \/ \E a \in Attempts : SignUp(a)
    \/ \E o \in AdminOps : Admin(o)
    \/ \E i \in Invites : DeleteInvite(i)
    \/ \E a \in Attempts : DeleteUser(a)
    \/ Tick

Spec == Init /\ [][Next]_vars

(* A started handler runs to its end: Node always resumes a settled await.   *)
FairSpec ==
    /\ Spec
    /\ \A a \in Attempts : WF_vars(SignUpStep(a))
    /\ \A o \in AdminOps : WF_vars(AdminStep(o))

-----------------------------------------------------------------------------
(* What the module promises. *)

TypeOK ==
    /\ now \in Nat
    /\ row \in [Invites -> {"unused", "live", "deleted"}]
    /\ invite \in [Invites -> InviteRow]
    /\ user \in [Attempts -> Emails \cup {None}]
    /\ identity \subseteq Attempts
    /\ attempt \in [Attempts -> Attempt]
    /\ op \in [AdminOps -> Op]

(* No double spend: however many sign-ups validate one invite before any of  *)
(* them claims it, at most one of them completes (claim's conditional        *)
(* update), even if the invite, or the user that won, is deleted afterwards. *)
SingleRedemption ==
    \A a, b \in Attempts :
        At(a, "done") /\ At(b, "done") /\ attempt[a].invite = attempt[b].invite => a = b

(* A completed sign-up whose user and invite rows both still exist is the    *)
(* one that the invite's audit columns name.                                 *)
RedemptionRecorded ==
    \A a \in Attempts :
        At(a, "done") /\ user[a] # None /\ row[attempt[a].invite] = "live"
            => invite[attempt[a].invite].usedBy = a

(* A user is linked to the profile that signed up: the email of the created  *)
(* row is the profile's, although the invite's email overrides it.           *)
AccountHasProfileEmail ==
    \A a \in Attempts : user[a] # None => user[a] = attempt[a].email

(* Revocation wins: an invite that is revoked before it is claimed is never  *)
(* redeemed later, whatever in-flight sign-up had already validated it.      *)
RevokedNeverRedeemed ==
    [][\A i \in Invites : Revoked(i) /\ ~invite[i].usedAt => ~invite'[i].usedAt]_vars

(* used_at and revoked_at are never cleared, although updateInvite, the      *)
(* lock-out and the supersede all write a row they read earlier.             *)
MarksNeverCleared ==
    [][\A i \in Invites :
          row'[i] = "live" =>
              /\ invite[i].usedAt => invite'[i].usedAt
              /\ Revoked(i) => Revoked(i)']_vars

(* When no await fails, an invite that reaches the limit of wrong-recipient  *)
(* redemptions ends up revoked, unless it is deleted first.                  *)
LockoutTakesEffect ==
    \A i \in Invites :
        (row[i] = "live" /\ invite[i].failedAttempts >= MAX_INVITE_FAILED_ATTEMPTS)
            ~> (row[i] = "deleted" \/ Revoked(i))

(* The whole detailed system implements the ledger.                          *)
Winners == [i \in Invites |-> {a \in Attempts : At(a, "done") /\ attempt[a].invite = i}]

Ledger == INSTANCE InviteLedger WITH winners <- Winners

(* Every behaviour of the handlers is a behaviour of the ledger: an invite   *)
(* is spent by one sign-up and no later step, deletion included, undoes it.  *)
SpendsLikeALedger == Ledger!Spec

-----------------------------------------------------------------------------
(* What the documentation says of the same code; see the findings. *)

(* invites.md: "A Used invite is never revoked afterwards". *)
UsedNeverRevoked ==
    [][\A i \in Invites :
          invite[i].usedAt /\ ~Revoked(i) => ~Revoked(i)']_vars

(* invites.md: "at most one active (Pending) invite per email". *)
OnePendingPerEmail ==
    \A i, j \in Invites :
        Pending(i) /\ Pending(j) /\ invite[i].email = invite[j].email /\ invite[i].email # None
            => i = j

(* invites.md: "There is no path back to Pending". *)
NoPathBackToPending ==
    [][\A i \in Invites : row[i] = "live" /\ ~Pending(i) => ~Pending(i)']_vars

(* auth-session.md: "Account creation is only ever reachable through a       *)
(* valid, unexpired, unrevoked invite token": an account whose sign-up has   *)
(* ended consumed an invite.                                                 *)
AccountsComeFromInvites ==
    \A a \in Attempts : user[a] # None => ~At(a, "failed")

(* invites.md: "a failed sign-up leaves the invite reusable": no finished    *)
(* attempt leaves behind the account that bars the bound email from retrying. *)
FailedSignUpLeavesInviteReusable ==
    \A i \in Invites, a \in Attempts :
        At(a, "failed") /\ attempt[a].invite = i /\ Pending(i) /\ invite[i].email # None
            => user[a] # invite[i].email

(* invites.md: "Redemption additionally requires that the redeeming          *)
(* account's email matches the bound email".                                 *)
RedeemedByBoundEmail ==
    [][\A i \in Invites :
          ~invite[i].usedAt /\ invite'[i].usedAt /\ invite'[i].email # None
              => user'[invite'[i].usedBy] = invite'[i].email]_vars

=============================================================================
