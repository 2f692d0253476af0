---------------------------- MODULE ServiceCatalog ----------------------------
(***************************************************************************)
(* The catalog of services that administrators edit, and the rows that     *)
(* mirror the subscriptions to a MANAGED service on the REFERENCED ones    *)
(* that draw on it.                                                        *)
(*                                                                         *)
(* Two handlers write mirrored rows.  A sign-up that is activated writes   *)
(* one for every enabled service (onActivated); a service that is created  *)
(* writes one for every active user (onReferencedServiceCreated).  Neither *)
(* knows of the other, both loop over a list they read once, and services  *)
(* and users may go meanwhile.  SubscriptionCascade follows the contents   *)
(* of one mirrored row; this module, which rows there are.                 *)
(*                                                                         *)
(* An action is the code between two awaits that touch the database.       *)
(* Names, slugs, urls and images are left out, and so are NONE services,   *)
(* which have no rows of this kind.                                        *)
(***************************************************************************)
EXTENDS Integers, FiniteSets

CONSTANTS
    Handlers,   \* requests that may be in flight together
    Users,      \* users
    Services,   \* ids of REFERENCED services, never used twice
    NoUser,     \* no user
    NoService,  \* no service
    MaxRows     \* bound: source rows with an id of their own

ASSUME CatalogConstants ==
    /\ NoUser \notin Users /\ NoService \notin Services
    /\ MaxRows \in Nat

VARIABLES
    open,       \* TRUE when the MANAGED service is enabled
    service,    \* service[r]: the row of the REFERENCED service r
    source,     \* source[u]: id and status of the subscription of u to the MANAGED service
    mirror,     \* mirror[u][r]: id of the source row that the row of u on r derives from, or 0
    invited,    \* services that an invite names
    handler,    \* handler[h]: program counter and locals of handler h
    missed      \* history: pairs of user and service that were passed over

catalogVars == <<open, service, source, mirror, invited, handler, missed>>

Pairs == Users \X Services

SourceStatuses == {"none", "provisioning", "active", "disabled", "cancelling", "failed"}

NoSource == [id |-> 0, status |-> "none"]

Kinds == {"none", "subscribe", "create", "delete"}

Pcs == {"idle", "upsert", "activate", "readServices", "readSources", "find", "write",
        "deleteRows", "deleteService"}

(* One round of a loop: the pair and the id of the source row.               *)
Item == [user : Users, service : Services, id : Nat]

(* row: id of the source row of a sign-up; left: rounds to go; found: the    *)
(* pair at hand had a row when it was looked up.                             *)
Handler == [pc : Pcs, kind : Kinds, user : Users \cup {NoUser}, row : Nat,
            service : Services \cup {NoService}, left : SUBSET Item, now : SUBSET Item,
            found : BOOLEAN]

Idle == [pc |-> "idle", kind |-> "none", user |-> NoUser, row |-> 0,
         service |-> NoService, left |-> {}, now |-> {}, found |-> FALSE]

At(h, pc) == handler[h].pc = pc

Goto(h, pc) == handler' = [handler EXCEPT ![h].pc = pc]

Done(h) == handler' = [handler EXCEPT ![h] = Idle]

InCatalog(r) == service[r] \in {"enabled", "disabled"}

CatalogInit ==
    /\ open \in BOOLEAN
    /\ service = [r \in Services |-> "unused"]
    /\ source = [u \in Users |-> NoSource]
    /\ mirror = [u \in Users |-> [r \in Services |-> 0]]
    /\ invited = {}
    /\ handler = [h \in Handlers |-> Idle]
    /\ missed = {}

-----------------------------------------------------------------------------
(* The catch block of subscribe leaves a failed row, if there is one.  A     *)
(* creation reports the error and leaves the rest of its users without a row.*)
PairsOf(items) == {<<i.user, i.service>> : i \in items}

(* Mutant: the operation that failed is stored for the status. *)
FailedOperation == "provisioning_failed"

(* What markSubscriptionFailed writes. *)
FailedStatus == "failed"

Throw(h) ==
    LET u == handler[h].user IN
    /\ source' = IF handler[h].kind = "subscribe" /\ source[u].id # 0
                 THEN [source EXCEPT ![u].status = FailedStatus] ELSE source
    /\ missed' = IF handler[h].kind = "create"
                 THEN missed \cup PairsOf(handler[h].left \cup handler[h].now) ELSE missed
    /\ Done(h)

(* The server stops, or what the catch block does fails as well: the rows    *)
(* that handler h had still to write are never written.                      *)
Abandon(h) ==
    LET users == IF handler[h].kind = "subscribe" THEN {handler[h].user} ELSE Users
        services == IF handler[h].kind = "subscribe" THEN Services ELSE {handler[h].service}
    IN
    /\ ~At(h, "idle")
    /\ missed' = missed \cup
          {p \in users \X services : /\ source[p[1]].status \in {"active", "disabled"}
                                    /\ InCatalog(p[2])
                                    /\ mirror[p[1]][p[2]] = 0}
    /\ Done(h)
    /\ UNCHANGED <<open, service, source, mirror, invited>>

-----------------------------------------------------------------------------
(* subscribe, onActivated *)

SubscribeRead(h, u) ==
    /\ At(h, "idle")
    /\ open
    /\ source[u].status \in {"none", "failed"}
    /\ handler' = [handler EXCEPT ![h] = [Idle EXCEPT !.kind = "subscribe", !.pc = "upsert",
                                             !.user = u, !.row = source[u].id]]
    /\ UNCHANGED <<open, service, source, mirror, invited, missed>>

(* An id that nothing refers to any more (a uuid in the code).               *)
FreshId(id) ==
    /\ \A u \in Users : source[u].id # id
    /\ \A h \in Handlers : handler[h].row # id /\ \A i \in handler[h].left \cup handler[h].now : i.id # id

(* upsertProvisioning: what it throws is not caught.                         *)
Upsert(h) ==
    LET u == handler[h].user
        fresh == handler[h].row = 0
        exists == source[u].id # 0
    IN
    /\ At(h, "upsert")
    /\ \/ /\ ~fresh /\ exists
          /\ source' = [source EXCEPT ![u].status = "provisioning"]
          /\ handler' = [handler EXCEPT ![h].pc = "activate", ![h].row = source[u].id]
       \/ /\ fresh /\ ~exists
          /\ \E id \in 1..MaxRows :
                /\ FreshId(id) /\ \A lower \in 1..(id - 1) : ~FreshId(lower)
                /\ source' = [source EXCEPT ![u] = [id |-> id, status |-> "provisioning"]]
                /\ handler' = [handler EXCEPT ![h].pc = "activate", ![h].row = id]
       \/ /\ fresh = exists
          /\ Done(h)
          /\ UNCHANGED source
    /\ UNCHANGED <<open, service, mirror, invited, missed>>

(* Provisioning at the vendor may fail.  The cascade goes by the row that    *)
(* the activation returns.                                                   *)
Activate(h) ==
    LET u == handler[h].user IN
    /\ At(h, "activate")
    /\ \/ /\ source[u].id # 0
          /\ source' = [source EXCEPT ![u].status = "active"]
          /\ handler' = [handler EXCEPT ![h].pc = "readServices", ![h].row = source[u].id]
          /\ UNCHANGED missed
       \/ Throw(h)
    /\ UNCHANGED <<open, service, mirror, invited>>

(* The enabled services that draw on the MANAGED one.                        *)
Referencing == {r \in Services : service[r] = "enabled"}

(* Starts a loop over items, or ends the handler. *)
Loop(h, items) ==
    handler' = [handler EXCEPT ![h] = IF items = {} THEN Idle
                                      ELSE [handler[h] EXCEPT !.pc = "find", !.left = items,
                                                              !.now = {}, !.found = FALSE]]

ReadServices(h) ==
    LET u == handler[h].user
        passed == {r \in Services : InCatalog(r) /\ service[r] # "enabled" /\ mirror[u][r] = 0}
    IN
    /\ At(h, "readServices")
    /\ Loop(h, [user : {u}, service : Referencing, id : {handler[h].row}])
    /\ missed' = missed \cup ({u} \X passed)
    /\ UNCHANGED <<open, service, source, mirror, invited>>

-----------------------------------------------------------------------------
(* Both loops: look the row up, then update it or create it *)

Find(h) ==
    /\ At(h, "find")
    /\ \E i \in handler[h].left :
          handler' = [handler EXCEPT ![h].pc = "write", ![h].left = @ \ {i}, ![h].now = {i},
                                     ![h].found = (mirror[i.user][i.service] # 0)]
    /\ UNCHANGED <<open, service, source, mirror, invited, missed>>

(* An update needs the row and a create that there is none (the unique key); *)
(* foreign keys need the service and the source row.                         *)
Accepted(h, i) ==
    /\ handler[h].found = (mirror[i.user][i.service] # 0)
    /\ InCatalog(i.service)
    /\ source[i.user].id = i.id

(* A write may fail for reasons of its own, too.                             *)
Write(h) ==
    \E i \in handler[h].now :
        /\ At(h, "write")
        /\ \/ /\ Accepted(h, i)
              /\ mirror' = [mirror EXCEPT ![i.user][i.service] = i.id]
              /\ missed' = missed \ {<<i.user, i.service>>}
              /\ Loop(h, handler[h].left)
              /\ UNCHANGED source
           \/ /\ Throw(h)
              /\ UNCHANGED mirror
        /\ UNCHANGED <<open, service, invited>>

-----------------------------------------------------------------------------
(* ServiceManagementService *)

(* Slug and name are free and the source is MANAGED; then the row is there.  *)
Create(h, r, enabled) ==
    /\ At(h, "idle")
    /\ service[r] = "unused"
    /\ service' = [service EXCEPT ![r] = IF enabled THEN "enabled" ELSE "disabled"]
    /\ handler' = [handler EXCEPT ![h] = [Idle EXCEPT !.kind = "create", !.pc = "readSources",
                                             !.service = r]]
    /\ UNCHANGED <<open, source, mirror, invited, missed>>

(* Mutant: the first page alone. *)
FirstActiveUser ==
    LET active == {u \in Users : source[u].status = "active"} IN
    IF active = {} THEN {} ELSE {CHOOSE u \in active : TRUE}

(* findMany({ serviceId, status: active }, MAX_SAFE_INTEGER)                 *)
ActiveUsers == {u \in Users : source[u].status = "active"}

(* A user who is disabled now is passed over: enabling mirrors no new rows.  *)
ReadSources(h) ==
    LET r == handler[h].service
        passed == {u \in Users : source[u].status = "disabled" /\ mirror[u][r] = 0}
    IN
    /\ At(h, "readSources")
    /\ Loop(h, {[user |-> u, service |-> r, id |-> source[u].id] : u \in ActiveUsers})
    /\ missed' = missed \cup (passed \X {r})
    /\ UNCHANGED <<open, service, source, mirror, invited>>

(* delete(): findBySlug *)
DeleteRead(h, r) ==
    /\ At(h, "idle")
    /\ InCatalog(r)
    /\ handler' = [handler EXCEPT ![h] = [Idle EXCEPT !.kind = "delete", !.pc = "deleteRows",
                                             !.service = r]]
    /\ UNCHANGED <<open, service, source, mirror, invited, missed>>

(* deleteByServiceId(): the rows go before the service does.                 *)
DeleteRows(h) ==
    LET r == handler[h].service IN
    /\ At(h, "deleteRows")
    /\ missed' = missed \cup ({u \in Users : mirror[u][r] # 0} \X {r})
    /\ mirror' = [u \in Users |-> [mirror[u] EXCEPT ![r] = 0]]
    /\ Goto(h, "deleteService")
    /\ UNCHANGED <<open, service, source, invited>>

(* NO ACTION foreign keys from subscriptions and invites refuse the rest.    *)
Deletable(r) == r \notin invited /\ \A u \in Users : mirror[u][r] = 0

DeleteService(h) ==
    LET r == handler[h].service IN
    /\ At(h, "deleteService")
    /\ service' = IF Deletable(r) THEN [service EXCEPT ![r] = "deleted"] ELSE service
    /\ Done(h)
    /\ UNCHANGED <<open, source, mirror, invited, missed>>

(* setEnabled(): a flag of a REFERENCED service; the registry sets that of a *)
(* MANAGED one.                                                              *)
SetServiceEnabled(r, enabled) ==
    /\ InCatalog(r)
    /\ service' = [service EXCEPT ![r] = IF enabled THEN "enabled" ELSE "disabled"]
    /\ UNCHANGED <<open, source, mirror, invited, handler, missed>>

SetOpen ==
    /\ open' = ~open
    /\ UNCHANGED <<service, source, mirror, invited, handler, missed>>

(* An invite that names r is created, or deleted.                            *)
Invite(r) ==
    /\ r \notin invited /\ InCatalog(r)
    /\ invited' = invited \cup {r}
    /\ UNCHANGED <<open, service, source, mirror, handler, missed>>

DeleteInvite(r) ==
    /\ r \in invited
    /\ invited' = invited \ {r}
    /\ UNCHANGED <<open, service, source, mirror, handler, missed>>

-----------------------------------------------------------------------------
(* What SubscriptionLifecycle has in detail: the source row is disabled,     *)
(* enabled, cancelled.  Deleting it deletes the rows that derive from it.    *)

SourceMoves(u, before, after) ==
    /\ source[u].status = before
    /\ source' = [source EXCEPT ![u].status = after]
    /\ UNCHANGED <<open, service, mirror, invited, handler, missed>>

Leave(u) ==
    /\ source[u].status = "cancelling"
    /\ source' = [source EXCEPT ![u] = NoSource]
    /\ mirror' = [mirror EXCEPT ![u] = [r \in Services |-> IF @[r] = source[u].id THEN 0 ELSE @[r]]]
    /\ UNCHANGED <<open, service, invited, handler, missed>>

CatalogNext ==
    \/ \E h \in Handlers :
          \/ Abandon(h) \/ Upsert(h) \/ Activate(h) \/ ReadServices(h) \/ ReadSources(h)
          \/ Find(h) \/ Write(h) \/ DeleteRows(h) \/ DeleteService(h)
          \/ \E u \in Users : SubscribeRead(h, u)
          \/ \E r \in Services : DeleteRead(h, r) \/ (\E on \in BOOLEAN : Create(h, r, on))
    \/ \E r \in Services : Invite(r) \/ DeleteInvite(r) \/ (\E on \in BOOLEAN : SetServiceEnabled(r, on))
    \/ SetOpen
    \/ \E u \in Users :
          \/ SourceMoves(u, "active", "disabled") \/ SourceMoves(u, "disabled", "active")
          \/ SourceMoves(u, "active", "cancelling") \/ Leave(u)

CatalogSpec == CatalogInit /\ [][CatalogNext]_catalogVars

-----------------------------------------------------------------------------
(* Types of all variables.                                                   *)
CatalogTypeOK ==
    /\ open \in BOOLEAN
    /\ service \in [Services -> {"unused", "enabled", "disabled", "deleted"}]
    /\ source \in [Users -> [id : Nat, status : SourceStatuses]]
    /\ mirror \in [Users -> [Services -> Nat]]
    /\ invited \subseteq Services
    /\ handler \in [Handlers -> Handler]
    /\ missed \subseteq Pairs

(* Somebody is at work on the row of u on r.                                 *)
AtWork(u, r) ==
    \E h \in Handlers :
        \/ handler[h].kind = "subscribe" /\ handler[h].user = u
        \/ handler[h].kind = "create" /\ handler[h].service = r

(* No user falls between the two writers: an active user has a row on every  *)
(* service, unless a handler is still at work on it or the pair was passed   *)
(* over: the service or the subscription was disabled when it was looked at, *)
(* a creation stopped at an error, or a deletion stopped halfway.           *)
MirrorComplete ==
    \A u \in Users, r \in Services :
        source[u].status = "active" /\ InCatalog(r)
        => mirror[u][r] # 0 \/ AtWork(u, r) \/ <<u, r>> \in missed

=============================================================================
