-------------------------- MODULE ForwardAuthCache --------------------------
(***************************************************************************)
(* ForwardAuthService beside the handlers of SubscriptionCascade: requests *)
(* of one user to the REFERENCED service, whose access follows from the    *)
(* policy, the derived row and the source row, and the in-memory cache of  *)
(* the last verdict.                                                       *)
(***************************************************************************)
EXTENDS SubscriptionCascade

CONSTANTS
    Requests,       \* forward-auth requests that may be in flight together
    TTL             \* CACHE_TTL_MS

ASSUME CacheConstants == TTL \in Nat \ {0}

VARIABLES
    cache,      \* the entry of this user and service, or EmptyCache
    req,        \* req[r]: the evaluation of request r
    held        \* history: the last time each condition of access was met

cacheVars == <<cache, req>>

authVars == <<now, row, used, allowed, pending, proc, cache, req, held>>

Conditions == {"policy", "own", "source"}

(* began, a history field, is when the evaluation behind the verdict began.  *)
Entry == [present : BOOLEAN, allowed : BOOLEAN, cachedAt : Nat, began : Nat]

EmptyCache == [present |-> FALSE, allowed |-> FALSE, cachedAt |-> 0, began |-> 0]

(* permitted, own and src are what the evaluation has read; entitled is what *)
(* resolveEffectiveEntitlement found of the row itself.                      *)
Request == [pc : {"idle", "policy", "own", "source", "store"}, began : Nat, permitted : BOOLEAN,
            own : Row, entitled : BOOLEAN, src : Row]

IdleRequest == [pc |-> "idle", began |-> 0, permitted |-> FALSE, own |-> NoRow,
                entitled |-> FALSE, src |-> NoRow]

AuthInit ==
    /\ CascadeInit
    /\ cache = EmptyCache
    /\ req = [r \in Requests |-> IdleRequest]
    /\ held = [c \in Conditions |-> 0]

-----------------------------------------------------------------------------

(* Mutant: the entry answers at the very moment it runs out. *)
FreshAtLimit == cache.present /\ now - cache.cachedAt <= TTL

(* isAuthorized answers from the cache.                                      *)
Fresh == cache.present /\ now - cache.cachedAt < TTL

RequestAt(r, pc) == req[r].pc = pc

BeginEvaluation(r) ==
    /\ RequestAt(r, "idle")
    /\ ~Fresh
    /\ req' = [req EXCEPT ![r] = [IdleRequest EXCEPT !.pc = "policy", !.began = now]]
    /\ UNCHANGED cache

ReadPolicy(r) ==
    /\ RequestAt(r, "policy")
    /\ req' = [req EXCEPT ![r].permitted = allowed, ![r].pc = "own"]
    /\ UNCHANGED cache

ReadOwnRow(r) ==
    /\ RequestAt(r, "own")
    /\ req[r].permitted
    /\ req' = [req EXCEPT ![r].own = row["derived"], ![r].pc = "source"]
    /\ UNCHANGED cache

(* The row's own status and expiry are tested before the source is read.     *)
ReadSourceRow(r) ==
    LET own == req[r].own
    IN
    /\ RequestAt(r, "source")
    /\ IsRow(own)
    /\ req' = [req EXCEPT ![r].entitled = CurrentlyActive(own),
                          ![r].src = IF row["source"].id = own.id THEN row["source"] ELSE NoRow,
                          ![r].pc = "store"]
    /\ UNCHANGED cache

(* What evaluateAccess returns from where it stands; the earlier returns are *)
(* a denial by policy and the lack of a row.                                 *)
Verdict(r) == req[r].pc = "store" /\ req[r].entitled /\ CurrentlyActive(req[r].src)

Returns(r) ==
    \/ RequestAt(r, "own") /\ ~req[r].permitted
    \/ RequestAt(r, "source") /\ ~IsRow(req[r].own)
    \/ RequestAt(r, "store")

Store(r) ==
    /\ Returns(r)
    /\ cache' = [present |-> TRUE, allowed |-> Verdict(r), cachedAt |-> now, began |-> req[r].began]
    /\ req' = [req EXCEPT ![r] = IdleRequest]

EvaluationRejects(r) ==
    /\ "await" \in Failures
    /\ ~RequestAt(r, "idle")
    /\ req' = [req EXCEPT ![r] = IdleRequest]
    /\ UNCHANGED cache

AuthStep ==
    /\ \E r \in Requests :
          \/ BeginEvaluation(r) \/ ReadPolicy(r) \/ ReadOwnRow(r) \/ ReadSourceRow(r)
          \/ Store(r) \/ EvaluationRejects(r)
    /\ UNCHANGED cascadeVars

HandleInvalidation ==
    /\ Deliver
    /\ cache' = EmptyCache
    /\ UNCHANGED req

ServerRestart ==
    /\ Restart
    /\ cache' = EmptyCache
    /\ req' = [r \in Requests |-> IdleRequest]

-----------------------------------------------------------------------------

(* The conditions on which access to the service rests.                      *)
Holds(c) ==
    CASE c = "policy" -> allowed
      [] c = "own" -> CurrentlyActive(row["derived"])
      [] c = "source" -> CurrentlyActive(row["source"])

Remember == held' = [c \in Conditions |-> IF Holds(c)' THEN now' ELSE held[c]]

AuthNext ==
    /\ \/ CascadeStep /\ UNCHANGED cacheVars
       \/ Tick /\ UNCHANGED cacheVars
       \/ AuthStep
       \/ HandleInvalidation
       \/ ServerRestart
    /\ Remember

AuthSpec == AuthInit /\ [][AuthNext]_authVars

-----------------------------------------------------------------------------

AuthTypeOK ==
    /\ CascadeTypeOK
    /\ cache \in Entry
    /\ req \in [Requests -> Request]
    /\ held \in [Conditions -> Nat]

Granted == Fresh /\ cache.allowed

(* A grant is never older than the cache allows: each of the three           *)
(* conditions was met less than the TTL ago, not counting the time that the  *)
(* evaluation took; whatever is cancelled, disabled, expired or denied       *)
(* without an event being emitted stays reachable no longer than that.       *)
GrantsAreRecent ==
    Granted => \A c \in Conditions : now - held[c] < TTL + (cache.cachedAt - cache.began)

(* handleInvalidation "clears cache entries for the user": once the event of *)
(* a policy change is delivered, nothing answers from before the change.     *)
DenialTakesEffect ==
    Granted /\ ~pending /\ (\A p \in Procs : ~At(p, "announcePolicy")) => allowed

=============================================================================
