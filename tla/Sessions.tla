------------------------------- MODULE Sessions -------------------------------
(***************************************************************************)
(* Sign-in, the session store and what administrators do to sessions and   *)
(* users.                                                                  *)
(*                                                                         *)
(* Every request loads its session from the store, passes AuthGuard, runs  *)
(* its handler and, at the end, stores the session again if the request    *)
(* has changed it, or else touches it.  All of these are separate awaits,  *)
(* so that a request may store a session that was revoked while it ran.    *)
(* Express-session is external: its order of load, save and touch is taken *)
(* from the options in main.ts and from the methods that                   *)
(* PrismaSessionStore gives it.                                            *)
(*                                                                         *)
(* Anonymous sessions, which carry a CSRF token and the OAuth transaction, *)
(* are left out: they belong to no user.                                   *)
(***************************************************************************)
EXTENDS Integers, FiniteSets

CONSTANTS
    Requests,   \* requests that may be in flight together
    People,     \* users
    Admins,     \* users who are administrators in the beginning
    Sids,       \* session ids; one that nobody holds may be minted again
    Nobody,     \* no user, no session
    MaxLimit,   \* bound: largest maxPerUser
    Doing,      \* Doing[u]: requests of user u that are explored
    Promoted    \* users whose admin flag is changed

ASSUME SessionConstants ==
    /\ Admins \subseteq People
    /\ Nobody \notin People /\ Nobody \notin Sids
    /\ MaxLimit \in Nat \ {0}
    /\ IsFiniteSet(Requests) /\ Requests # {} /\ IsFiniteSet(Sids)

VARIABLES
    user,       \* user[u]: status and admin flag of the row of u
    session,    \* session[s]: the stored session s
    older,      \* older[s]: stored sessions created before s
    limit,      \* maxPerUser
    provider,   \* TRUE when the OAuth provider is enabled
    request,    \* request[r]: program counter and locals of request r
    most,       \* history: largest maxPerUser so far
    unenforced  \* history: an eviction failed, or a session that was deleted is stored again

sessionVars == <<user, session, older, limit, provider, request, most, unenforced>>

UserStatuses == {"active", "disabled", "deleted", "absent"}

AllKinds == {"login", "browse", "signOut", "revoke", "revokeAll", "remove",
             "setEnabled", "setAdmin", "setLimit", "setProvider"}

AdminKinds == {"revoke", "revokeAll", "setEnabled", "setAdmin", "setLimit", "setProvider"}

RequestPcs == {"idle", "resolve", "enforce", "evict", "regenerate", "guard", "act", "drop",
               "dropSessions", "dropStatus", "grant", "dropProvider", "destroy", "end", "store"}

(* authProviderId is the column of that name, not the claim in the data.     *)
Session == [user : People \cup {Nobody}, admin : BOOLEAN, expired : BOOLEAN,
            authProviderId : {"null", "google"}]

NoSession == [user |-> Nobody, admin |-> FALSE, expired |-> FALSE, authProviderId |-> "null"]

(* sid, user, admin: the session the request works with, and its claims;     *)
(* found: what set() found in the store; doomed: sessions that the request   *)
(* is about to delete; target: the user it works on.                         *)
RequestState == [pc : RequestPcs, kind : AllKinds \cup {"none"}, sid : Sids \cup {Nobody},
                 user : People \cup {Nobody}, admin : BOOLEAN, found : BOOLEAN,
                 doomed : SUBSET Sids, target : People \cup {Nobody}]

Quiet == [pc |-> "idle", kind |-> "none", sid |-> Nobody, user |-> Nobody, admin |-> FALSE,
          found |-> FALSE, doomed |-> {}, target |-> Nobody]

-----------------------------------------------------------------------------

Stored(s) == session[s].user # Nobody

(* findByUserId, without the expired ones. *)
ActiveSessions(u) == {s \in Sids : session[s].user = u /\ ~session[s].expired}

Awaits(r, pc) == request[r].pc = pc

Step(r, pc) == request' = [request EXCEPT ![r].pc = pc]

Finish(r) == request' = [request EXCEPT ![r] = Quiet]

(* deleteMany *)
DeleteSessions(gone) ==
    /\ session' = [s \in Sids |-> IF s \in gone THEN NoSession ELSE session[s]]
    /\ older' = [s \in Sids |-> IF s \in gone THEN {} ELSE older[s] \ gone]

KeepSessions == UNCHANGED <<session, older>>

KeepSettings == UNCHANGED <<limit, provider, most>>

(* Every administrator may be signed in. *)
SessionInit ==
    /\ user = [u \in People |-> [status |-> "active", admin |-> u \in Admins]]
    /\ \E sidOf \in [Admins -> Sids] :
          session = [s \in Sids |->
                        IF \E a \in Admins : sidOf[a] = s
                        THEN [NoSession EXCEPT !.user = CHOOSE a \in Admins : sidOf[a] = s,
                                               !.admin = TRUE]
                        ELSE NoSession]
    /\ older = [s \in Sids |-> {}]
    /\ limit \in 1..MaxLimit
    /\ provider = TRUE
    /\ request = [r \in Requests |-> Quiet]
    /\ most = limit
    /\ unenforced = FALSE

-----------------------------------------------------------------------------
(* Sign-in *)

(* authorize() reads the user first.  The browser may hold a session still.  *)
Authorize(r, u, old) ==
    /\ Awaits(r, "idle")
    /\ "login" \in Doing[u]
    /\ user[u].status = "active"
    /\ old = Nobody \/ (old \in Sids /\ Stored(old) /\ ~session[old].expired)
    /\ request' = [request EXCEPT ![r] = [Quiet EXCEPT !.pc = "resolve", !.kind = "login",
                         !.sid = old, !.user = u, !.admin = user[u].admin]]
    /\ KeepSessions /\ KeepSettings
    /\ UNCHANGED <<user, unenforced>>

(* resolveOAuthProvider() *)
Resolve(r) ==
    /\ Awaits(r, "resolve")
    /\ IF provider THEN Step(r, "enforce") ELSE Finish(r)
    /\ KeepSessions /\ KeepSettings
    /\ UNCHANGED <<user, unenforced>>

(* Mutant: room is made for the session that is about to be created, no more. *)
OldestOver(active) ==
    {s \in active : Cardinality(older[s] \cap active) < Cardinality(active) - limit}

(* active.slice(0, evictCount), sorted by creation                           *)
Evicted(active) ==
    {s \in active : Cardinality(older[s] \cap active) < Cardinality(active) - (limit - 1)}

(* enforceLimitForUser(); a failure is logged and the login goes on.         *)
Enforce(r) ==
    LET evicted == Evicted(ActiveSessions(request[r].user)) IN
    /\ Awaits(r, "enforce")
    /\ \/ /\ request' = [request EXCEPT ![r].doomed = evicted,
                                        ![r].pc = IF evicted = {} THEN "regenerate" ELSE "evict"]
          /\ UNCHANGED unenforced
       \/ /\ Step(r, "regenerate")
          /\ unenforced' = TRUE
    /\ KeepSessions /\ KeepSettings
    /\ UNCHANGED user

(* One delete after the other, the oldest first.                             *)
Evict(r) ==
    LET doomed == request[r].doomed IN
    /\ Awaits(r, "evict")
    /\ \/ /\ \E s \in doomed :
                /\ older[s] \cap doomed = {}
                /\ DeleteSessions({s})
                /\ request' = [request EXCEPT ![r].doomed = doomed \ {s},
                                 ![r].pc = IF doomed = {s} THEN "regenerate" ELSE "evict"]
          /\ UNCHANGED unenforced
       \/ /\ request' = [request EXCEPT ![r].doomed = {}, ![r].pc = "regenerate"]
          /\ unenforced' = TRUE
          /\ KeepSessions
    /\ KeepSettings
    /\ UNCHANGED user

Minted(s) == ~Stored(s) /\ \A q \in Requests : request[q].sid # s /\ s \notin request[q].doomed

(* regenerate() destroys the old session; save() will not find the new one.  *)
Regenerate(r) ==
    /\ Awaits(r, "regenerate")
    /\ DeleteSessions({request[r].sid} \cap Sids)
    /\ \E s \in Sids :
          /\ Minted(s)
          /\ request' = [request EXCEPT ![r].sid = s, ![r].found = FALSE, ![r].pc = "store"]
    /\ KeepSettings
    /\ UNCHANGED <<user, unenforced>>

-----------------------------------------------------------------------------
(* A request of a signed-in user *)

(* PrismaSessionStore.get *)
Arrive(r, s, kind) ==
    /\ Awaits(r, "idle")
    /\ Stored(s)
    /\ ~session[s].expired
    /\ kind \in Doing[session[s].user] \ {"login"}
    /\ request' = [request EXCEPT ![r] = [Quiet EXCEPT !.pc = "guard", !.kind = kind, !.sid = s,
                         !.user = session[s].user, !.admin = session[s].admin]]
    /\ KeepSessions /\ KeepSettings
    /\ UNCHANGED <<user, unenforced>>

(* canActivate(): the user is read again; an admin route needs an admin.     *)
MayEnter(r) ==
    /\ user[request[r].user].status = "active"
    /\ request[r].kind \in AdminKinds => user[request[r].user].admin

AfterGuard(kind) ==
    CASE kind = "browse" -> "end"
      [] kind = "signOut" -> "destroy"
      [] OTHER -> "act"

Guard(r) ==
    /\ Awaits(r, "guard")
    /\ Step(r, IF MayEnter(r) THEN AfterGuard(request[r].kind)
               ELSE IF user[request[r].user].status # "active" THEN "destroy" ELSE "end")
    /\ KeepSessions /\ KeepSettings
    /\ UNCHANGED <<user, unenforced>>

(* A destroyed session is not stored at the end of its request.              *)
Destroy(r) ==
    /\ Awaits(r, "destroy")
    /\ DeleteSessions({request[r].sid})
    /\ Finish(r)
    /\ KeepSettings
    /\ UNCHANGED <<user, unenforced>>

(* The end of a request: touch, which updates a row if there is one, or the  *)
(* first half of set.                                                        *)
End(r) ==
    LET s == request[r].sid IN
    /\ Awaits(r, "end")
    /\ \/ /\ session' = IF Stored(s) THEN [session EXCEPT ![s].expired = FALSE] ELSE session
          /\ Finish(r)
       \/ /\ request' = [request EXCEPT ![r].found = Stored(s), ![r].pc = "store"]
          /\ UNCHANGED session
    /\ KeepSettings
    /\ UNCHANGED <<older, user, unenforced>>

(* Mutant: no foreign key from sessions to users. *)
InsertedUnchecked(r) ==
    [user |-> request[r].user, admin |-> request[r].admin, expired |-> FALSE,
     authProviderId |-> "null"]

(* The row that set() inserts: nobody fills the column authProviderId.  The  *)
(* foreign key refuses a user who is gone.                                   *)
Inserted(r) ==
    IF user[request[r].user].status = "absent" THEN NoSession
    ELSE [user |-> request[r].user, admin |-> request[r].admin, expired |-> FALSE,
          authProviderId |-> "null"]

(* The second half of set: update throws if the row is gone, create if there *)
(* is one.                                                                   *)
Store(r) ==
    LET s == request[r].sid IN
    /\ Awaits(r, "store")
    /\ \/ /\ request[r].found /\ Stored(s)
          /\ session' = [session EXCEPT ![s].expired = FALSE]
          /\ UNCHANGED <<older, unenforced>>
       \/ /\ ~request[r].found /\ ~Stored(s)
          /\ unenforced' = (unenforced \/ request[r].kind # "login")
          /\ session' = [session EXCEPT ![s] = Inserted(r)]
          /\ older' = [older EXCEPT ![s] = IF Inserted(r) = NoSession THEN {}
                                           ELSE {o \in Sids : Stored(o)}]
       \/ /\ request[r].found # Stored(s)
          /\ KeepSessions
          /\ UNCHANGED unenforced
    /\ Finish(r)
    /\ KeepSettings
    /\ UNCHANGED user

-----------------------------------------------------------------------------
(* Handlers *)

Acts(r, kind) == Awaits(r, "act") /\ request[r].kind = kind

(* revoke(): find, then delete by sid.                                       *)
RevokeFind(r) ==
    /\ Acts(r, "revoke")
    /\ \E s \in Sids :
          IF Stored(s) THEN request' = [request EXCEPT ![r].doomed = {s}, ![r].pc = "drop"]
          ELSE Step(r, "end")
    /\ KeepSessions /\ KeepSettings
    /\ UNCHANGED <<user, unenforced>>

RevokeDelete(r) ==
    /\ Awaits(r, "drop")
    /\ DeleteSessions(request[r].doomed)
    /\ request' = [request EXCEPT ![r].doomed = {}, ![r].pc = "end"]
    /\ KeepSettings
    /\ UNCHANGED <<user, unenforced>>

RevokeAll(r) ==
    /\ Acts(r, "revokeAll")
    /\ DeleteSessions(Sids)
    /\ Step(r, "destroy")
    /\ KeepSettings
    /\ UNCHANGED <<user, unenforced>>

(* The foreign key deletes the sessions with their user. *)
SessionsOf(u) == {s \in Sids : session[s].user = u}

(* deleteUser() goes by the claim in the session.  An administrator may      *)
(* delete another user for good, everybody himself softly.                   *)
RemoveUser(r, t, hard) ==
    LET self == t = request[r].user
        admin == request[r].admin
        forbidden == (hard /\ admin /\ self) \/ (~admin /\ ~self)
    IN
    /\ Acts(r, "remove")
    /\ \/ /\ hard /\ admin /\ ~self
          /\ user' = [user EXCEPT ![t] = [status |-> "absent", admin |-> FALSE]]
          /\ DeleteSessions(SessionsOf(t))
          /\ Step(r, "end")
       \/ /\ ~(hard /\ admin) /\ (self \/ admin)
          /\ request' = [request EXCEPT ![r].target = t, ![r].pc = "dropSessions"]
          /\ KeepSessions
          /\ UNCHANGED user
       \/ /\ forbidden
          /\ Step(r, "end")
          /\ KeepSessions
          /\ UNCHANGED user
    /\ KeepSettings
    /\ UNCHANGED unenforced

(* softDeleteUser(): subscriptions first, then the sessions, then the user.  *)
RemoveSessions(r) ==
    /\ Awaits(r, "dropSessions")
    /\ DeleteSessions(SessionsOf(request[r].target))
    /\ Step(r, "dropStatus")
    /\ KeepSettings
    /\ UNCHANGED <<user, unenforced>>

SoftDelete(r) ==
    LET t == request[r].target IN
    /\ Awaits(r, "dropStatus")
    /\ user' = IF user[t].status = "absent" THEN user ELSE [user EXCEPT ![t].status = "deleted"]
    /\ request' = [request EXCEPT ![r].target = Nobody, ![r].pc = "end"]
    /\ KeepSessions /\ KeepSettings
    /\ UNCHANGED unenforced

(* setEnabled() writes a deleted user's status too; nobody disables himself. *)
SetEnabled(r, t, enabled) ==
    /\ Acts(r, "setEnabled")
    /\ user' = IF t = request[r].user \/ user[t].status = "absent" THEN user
               ELSE [user EXCEPT ![t].status = IF enabled THEN "active" ELSE "disabled"]
    /\ Step(r, "end")
    /\ KeepSessions /\ KeepSettings
    /\ UNCHANGED unenforced

(* setUserAdmin(): granting reads the user first, revoking writes at once.   *)
SetAdmin(r, t, admin) ==
    /\ Acts(r, "setAdmin")
    /\ t \in Promoted
    /\ IF admin
       THEN /\ IF user[t].status = "active"
               THEN request' = [request EXCEPT ![r].target = t, ![r].pc = "grant"]
               ELSE Step(r, "end")
            /\ UNCHANGED user
       ELSE /\ user' = [user EXCEPT ![t].admin = FALSE]
            /\ Step(r, "end")
    /\ KeepSessions /\ KeepSettings
    /\ UNCHANGED unenforced

Grant(r) ==
    LET t == request[r].target IN
    /\ Awaits(r, "grant")
    /\ user' = IF user[t].status = "absent" THEN user ELSE [user EXCEPT ![t].admin = TRUE]
    /\ request' = [request EXCEPT ![r].target = Nobody, ![r].pc = "end"]
    /\ KeepSessions /\ KeepSettings
    /\ UNCHANGED unenforced

(* The validation of UpdateSessionConfigDto. *)
ValidLimit(n) == n >= 1

(* updateConfig() *)
SetLimit(r, n) ==
    /\ Acts(r, "setLimit")
    /\ ValidLimit(n)
    /\ limit' = n
    /\ most' = IF n > most THEN n ELSE most
    /\ Step(r, "end")
    /\ KeepSessions
    /\ UNCHANGED <<user, provider, unenforced>>

SetProvider(r, enabled) ==
    /\ Acts(r, "setProvider")
    /\ provider' = enabled
    /\ Step(r, IF enabled THEN "end" ELSE "dropProvider")
    /\ KeepSessions
    /\ UNCHANGED <<user, limit, most, unenforced>>

(* deleteByProviderId(): rows with that value in the column.                 *)
DropProviderSessions(r) ==
    /\ Awaits(r, "dropProvider")
    /\ DeleteSessions({s \in Sids : Stored(s) /\ session[s].authProviderId = "google"})
    /\ Step(r, "end")
    /\ KeepSettings
    /\ UNCHANGED <<user, unenforced>>

-----------------------------------------------------------------------------
(* Time, and the task that purges expired sessions *)

Expire(s) ==
    /\ Stored(s)
    /\ ~session[s].expired
    /\ session' = [session EXCEPT ![s].expired = TRUE]
    /\ KeepSettings
    /\ UNCHANGED <<older, user, request, unenforced>>

PurgeExpired ==
    /\ \E s \in Sids : session[s].expired
    /\ DeleteSessions({s \in Sids : session[s].expired})
    /\ KeepSettings
    /\ UNCHANGED <<user, request, unenforced>>

Serve(r) ==
    \/ Resolve(r) \/ Enforce(r) \/ Evict(r) \/ Regenerate(r)
    \/ Guard(r) \/ Destroy(r) \/ End(r) \/ Store(r)
    \/ RevokeFind(r) \/ RevokeDelete(r) \/ RevokeAll(r)
    \/ RemoveSessions(r) \/ SoftDelete(r) \/ Grant(r) \/ DropProviderSessions(r)
    \/ \E t \in People, on \in BOOLEAN :
          RemoveUser(r, t, on) \/ SetEnabled(r, t, on) \/ SetAdmin(r, t, on)
    \/ \E n \in 0..MaxLimit : SetLimit(r, n)
    \/ \E on \in BOOLEAN : SetProvider(r, on)

SessionNext ==
    \/ \E r \in Requests :
          \/ Serve(r)
          \/ \E u \in People, old \in Sids \cup {Nobody} : Authorize(r, u, old)
          \/ \E s \in Sids, kind \in AllKinds : Arrive(r, s, kind)
    \/ \E s \in Sids : Expire(s)
    \/ PurgeExpired

SessionSpec == SessionInit /\ [][SessionNext]_sessionVars

-----------------------------------------------------------------------------
(* Types of all variables; an order of creation among the stored sessions.   *)
SessionTypeOK ==
    /\ user \in [People -> [status : UserStatuses, admin : BOOLEAN]]
    /\ session \in [Sids -> Session]
    /\ older \in [Sids -> SUBSET Sids]
    /\ limit \in 1..MaxLimit /\ most \in 1..MaxLimit
    /\ provider \in BOOLEAN /\ unenforced \in BOOLEAN
    /\ request \in [Requests -> RequestState]

(* Logins of u that have made room and not stored their session yet.         *)
SigningIn(u) ==
    {r \in Requests : /\ request[r].kind = "login" /\ request[r].user = u
                      /\ request[r].pc \in {"regenerate", "store"}}

(* enforceLimitForUser (session.service 97-115) lists, deletes one by one    *)
(* and leaves the new session to a later await; meanwhile other logins do    *)
(* the same and requests store sessions that were revoked or revive expired  *)
(* ones.  The excess does not build up: a user has no more working sessions  *)
(* than maxPerUser and one more for each other request in flight.            *)
SessionLimit ==
    ~unenforced =>
        \A u \in People :
            Cardinality(ActiveSessions(u)) + Cardinality(SigningIn(u)) < most + Cardinality(Requests)

(* A login or a request that outlives its user stores no session for a user  *)
(* who was deleted for good, and those that were stored went with the user.  *)
SessionsHaveUsers == \A s \in Sids : Stored(s) => user[session[s].user].status # "absent"

(* What disable() logs and its test expects: with the provider disabled and  *)
(* no login or request in flight, no session of that provider is left.       *)
(* Every session comes from the one provider of this model.                  *)
ProviderSessionsGone ==
    ~provider /\ (\A r \in Requests : request[r].pc = "idle") => \A s \in Sids : ~Stored(s)

=============================================================================
