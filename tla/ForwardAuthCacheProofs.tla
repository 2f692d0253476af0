----------------------- MODULE ForwardAuthCacheProofs -----------------------
(***************************************************************************)
(* How old a cached grant can be, for any number of requests, handlers and *)
(* rows and any lifetime of the entries.                                   *)
(***************************************************************************)
EXTENDS ForwardAuthCache, SubscriptionCascadeProofs

-----------------------------------------------------------------------------
(* The inductive invariant. *)

(* The history is up to date: what is met now was last met now.              *)
History == \A c \in Conditions : held[c] <= now /\ (Holds(c) => held[c] = now)

(* What an evaluation has read so far was true since it began.               *)
Flight(r) ==
    LET q == req[r]
    IN
    /\ q.began <= now
    /\ q.pc \in {"own", "source", "store"} /\ q.permitted => held["policy"] >= q.began
    /\ q.pc \in {"source", "store"} => q.permitted
    /\ q.pc = "source" /\ CurrentlyActive(q.own) => held["own"] >= q.began
    /\ q.pc = "store" /\ q.entitled => held["own"] >= q.began
    /\ q.pc = "store" /\ CurrentlyActive(q.src) => held["source"] >= q.began

InFlight == \A r \in Requests : Flight(r)

(* A grant was earned after its evaluation began.                            *)
Earned ==
    /\ cache.began <= cache.cachedAt /\ cache.cachedAt <= now
    /\ cache.allowed => \A c \in Conditions : held[c] >= cache.began

AuthInv ==
    /\ IndInv
    /\ AuthTypeOK
    /\ History
    /\ InFlight
    /\ Earned

-----------------------------------------------------------------------------

(* The empty entry and the idle request are well typed. *)
LEMMA Constants1 ==
    /\ IdleRequest \in Request /\ EmptyCache \in Entry
    /\ "policy" \in Conditions /\ "own" \in Conditions /\ "source" \in Conditions
  BY Constants0 DEF IdleRequest, Request, EmptyCache, Entry, Conditions

(* The clock moves forward, and with it the history.                         *)
LEMMA HistoryStep ==
    ASSUME AuthInv, AuthNext, now' \in Nat, now' >= now
    PROVE  /\ held' \in [Conditions -> Nat] /\ History'
           /\ \A c \in Conditions : held'[c] >= held[c]
  <1>1. now \in Nat /\ \A c \in Conditions : held[c] \in Nat /\ held[c] <= now
    BY DEF AuthInv, AuthTypeOK, CascadeTypeOK, History
  <1>2. held' = [c \in Conditions |-> IF Holds(c)' THEN now' ELSE held[c]]
    BY DEF AuthNext, Remember
  <1>3. \A c \in Conditions : held'[c] \in Nat /\ held'[c] >= held[c] /\ held'[c] <= now'
    BY <1>1, <1>2
  <1>4. held' \in [Conditions -> Nat]
    BY <1>2, <1>3
  <1>5. History'
    BY <1>2, <1>3 DEF History
  <1> QED BY <1>3, <1>4, <1>5

(* A request that does not move keeps what it has.                           *)
LEMMA FlightKept ==
    ASSUME AuthInv, NEW r \in Requests, req'[r] = req[r], now' \in Nat, now' >= now,
           held' \in [Conditions -> Nat], \A c \in Conditions : held'[c] >= held[c]
    PROVE  Flight(r)'
  <1>1. /\ now \in Nat /\ req[r] \in Request /\ Flight(r)
        /\ \A c \in Conditions : held[c] \in Nat /\ held'[c] \in Nat
    BY DEF AuthInv, AuthTypeOK, CascadeTypeOK, InFlight
  <1>2. req[r].began \in Nat /\ req[r].own.expiresAt \in Nat /\ req[r].src.expiresAt \in Nat
    BY <1>1 DEF Request, Row
  <1> QED BY <1>1, <1>2, Constants1 DEF Flight, CurrentlyActive

(* A cached grant stays earned.                                              *)
LEMMA EarnedKept ==
    ASSUME AuthInv, UNCHANGED cache, now' \in Nat, now' >= now,
           held' \in [Conditions -> Nat], \A c \in Conditions : held'[c] >= held[c]
    PROVE  Earned'
  <1>1. now \in Nat /\ cache \in Entry /\ Earned /\ \A c \in Conditions : held[c] \in Nat /\ held'[c] \in Nat
    BY DEF AuthInv, AuthTypeOK, CascadeTypeOK
  <1>2. cache.began \in Nat /\ cache.cachedAt \in Nat
    BY <1>1 DEF Entry
  <1> QED BY <1>1, <1>2 DEF Earned

(* Handlers, the clock and the delivery of an event.                         *)
LEMMA CascadePreserves ==
    ASSUME AuthInv, AuthNext,
           \/ (CascadeStep \/ Tick) /\ UNCHANGED cacheVars
           \/ HandleInvalidation
           \/ ServerRestart
    PROVE  AuthInv'
  <1>1. IndInv'
    BY StepPreserves, SurroundingsPreserve DEF AuthInv, HandleInvalidation, ServerRestart
  <1>2. now \in Nat /\ now' \in Nat
    BY <1>1 DEF AuthInv, IndInv, CascadeTypeOK
  <1>3. now' = now \/ now' = now + 1
    <2>1. CASE CascadeStep
      BY ZenonT(40), <2>1 DEF CascadeStep, SubscribeRead, CancelRead, ProcessRead, SuspendRead, DisableRead, EnableRead,
         RetryRead, RenewRead, Announce, FindExisting, FindDerived, NextRow, AnnouncePolicy, ReadSource,
         SetPolicy, UpsertProvisioning, Activate, Derive, RemoveRow, MarkTransition, Settle, Extend,
         Propagate, AwaitRejects, SetAutoRenew
    <2>2. CASE Tick
      BY <2>2 DEF Tick
    <2>3. CASE HandleInvalidation
      BY <2>3 DEF HandleInvalidation, Deliver
    <2>4. CASE ServerRestart
      BY <2>4 DEF ServerRestart, Restart
    <2> QED BY <2>1, <2>2, <2>3, <2>4
  <1>4. now' >= now
    BY <1>2, <1>3
  <1>5. /\ held' \in [Conditions -> Nat] /\ History'
        /\ \A c \in Conditions : held'[c] >= held[c]
    BY <1>2, <1>4, HistoryStep
  <1>6. (req' = req \/ req' = [r \in Requests |-> IdleRequest]) /\ (cache' = cache \/ cache' = EmptyCache)
    BY DEF cacheVars, HandleInvalidation, ServerRestart
  <1>7. cache' \in Entry /\ req' \in [Requests -> Request]
    BY <1>6, Constants1 DEF AuthInv, AuthTypeOK
  <1>8. InFlight'
    <2> SUFFICES ASSUME NEW r \in Requests PROVE Flight(r)'
      BY DEF InFlight
    <2>1. CASE req' = req
      BY <1>2, <1>4, <1>5, <2>1, FlightKept
    <2>2. CASE req'[r] = IdleRequest
      BY <1>2, <2>2 DEF Flight, IdleRequest
    <2> QED BY <1>6, <2>1, <2>2
  <1>9. Earned'
    <2>1. CASE cache' = cache
      BY <1>2, <1>4, <1>5, <2>1, EarnedKept
    <2>2. CASE cache' = EmptyCache
      BY <1>2, <2>2 DEF Earned, EmptyCache
    <2> QED BY <1>6, <2>1, <2>2
  <1> QED BY <1>1, <1>5, <1>7, <1>8, <1>9 DEF AuthInv, AuthTypeOK, IndInv

(* A request moves to well-typed locals that are worth what they should.     *)
LEMMA RequestStep ==
    ASSUME AuthInv, NEW r \in Requests, NEW q \in Request, req' = [req EXCEPT ![r] = q],
           UNCHANGED now, held' \in [Conditions -> Nat], \A c \in Conditions : held'[c] >= held[c],
           Flight(r)'
    PROVE  req' \in [Requests -> Request] /\ InFlight'
  <1>1. req \in [Requests -> Request] /\ now \in Nat
    BY DEF AuthInv, AuthTypeOK, CascadeTypeOK
  <1>2. req' \in [Requests -> Request]
    BY <1>1
  <1>3. ASSUME NEW s \in Requests, s # r PROVE Flight(s)'
    <2>1. req'[s] = req[s]
      BY <1>1, <1>3
    <2> QED BY <1>1, <2>1, FlightKept
  <1> QED BY <1>2, <1>3 DEF InFlight

(* The steps of an evaluation.                                               *)
LEMMA AuthStepPreserves ==
    ASSUME AuthInv, AuthNext, AuthStep
    PROVE  AuthInv'
  <1>1. UNCHANGED cascadeVars /\ UNCHANGED now /\ UNCHANGED row /\ UNCHANGED allowed
    BY DEF AuthStep, cascadeVars
  <1>2. IndInv'
    BY <1>1, SurroundingsPreserve DEF AuthInv
  <1>3. now \in Nat /\ now' \in Nat /\ now' = now
    BY <1>1, <1>2 DEF IndInv, CascadeTypeOK
  <1>4. /\ held' \in [Conditions -> Nat] /\ History'
        /\ \A c \in Conditions : held'[c] >= held[c]
    BY <1>3, HistoryStep
  <1>5. /\ cache \in Entry /\ req \in [Requests -> Request] /\ Earned
        /\ row["source"] \in Row /\ row["derived"] \in Row /\ allowed \in BOOLEAN
        /\ \A c \in Conditions : held[c] \in Nat /\ held'[c] \in Nat /\ (Holds(c) => held[c] = now)
    BY <1>4, Names DEF AuthInv, AuthTypeOK, CascadeTypeOK, History
  <1>6. ASSUME NEW r \in Requests, NEW q \in Request, req' = [req EXCEPT ![r] = q], UNCHANGED cache, Flight(r)'
        PROVE  AuthInv'
    <2>1. req' \in [Requests -> Request] /\ InFlight'
      BY <1>3, <1>4, <1>6, RequestStep
    <2>2. Earned'
      BY <1>3, <1>4, <1>6, EarnedKept
    <2> QED BY <1>2, <1>4, <1>5, <1>6, <2>1, <2>2 DEF AuthInv, AuthTypeOK, IndInv
  <1>7. ASSUME NEW r \in Requests PROVE req[r] \in Request /\ Flight(r) /\ req[r].began \in Nat
    BY <1>5 DEF AuthInv, InFlight, Request
  <1>8. ASSUME NEW r \in Requests, BeginEvaluation(r) PROVE AuthInv'
    <2> DEFINE q == [IdleRequest EXCEPT !.pc = "policy", !.began = now]
    <2>1. q \in Request /\ q.pc = "policy" /\ q.began = now
      BY <1>3, Constants1 DEF Request
    <2>2. req' = [req EXCEPT ![r] = q] /\ UNCHANGED cache
      BY <1>8 DEF BeginEvaluation
    <2> HIDE DEF q
    <2>3. req'[r] = q
      BY <1>5, <2>2
    <2>4. Flight(r)'
      BY <1>3, <2>1, <2>3 DEF Flight
    <2> QED BY <1>6, <2>1, <2>2, <2>4
  <1>9. ASSUME NEW r \in Requests, ReadPolicy(r) PROVE AuthInv'
    <2> DEFINE q == [req[r] EXCEPT !.permitted = allowed, !.pc = "own"]
    <2>1. q \in Request /\ q.pc = "own" /\ q.permitted = allowed /\ q.began = req[r].began
      BY <1>5, <1>7 DEF Request
    <2>2. req' = [req EXCEPT ![r] = q] /\ UNCHANGED cache
      BY <1>5, <1>9 DEF ReadPolicy
    <2> HIDE DEF q
    <2>3. req'[r] = q
      BY <1>5, <2>2
    <2>4. allowed => held["policy"] = now
      BY <1>5, Constants1 DEF Holds
    <2>5. Flight(r)'
      BY <1>3, <1>4, <1>5, <1>7, <2>1, <2>3, <2>4, Constants1 DEF Flight
    <2> QED BY <1>6, <2>1, <2>2, <2>5
  <1>10. ASSUME NEW r \in Requests, ReadOwnRow(r) PROVE AuthInv'
    <2> DEFINE q == [req[r] EXCEPT !.own = row["derived"], !.pc = "source"]
    <2>1. /\ q \in Request /\ q.pc = "source" /\ q.own = row["derived"]
          /\ q.permitted = req[r].permitted /\ q.began = req[r].began
      BY <1>5, <1>7 DEF Request
    <2>2. req' = [req EXCEPT ![r] = q] /\ UNCHANGED cache /\ req[r].pc = "own" /\ req[r].permitted
      BY <1>5, <1>10 DEF ReadOwnRow, RequestAt
    <2> HIDE DEF q
    <2>3. req'[r] = q
      BY <1>5, <2>2
    <2>4. CurrentlyActive(row["derived"]) => held["own"] = now
      BY <1>5, Constants1 DEF Holds
    <2>5. held["policy"] >= req[r].began /\ req[r].began <= now
      BY <1>7, <2>2 DEF Flight
    <2>6. /\ held'["policy"] >= q.began /\ q.began <= now'
          /\ q.own.status = "active" /\ q.own.expiresAt > now' => held'["own"] >= q.began
      BY <1>3, <1>4, <1>5, <1>7, <2>1, <2>4, <2>5, Constants1 DEF CurrentlyActive
    <2>7. Flight(r)'
      BY <2>1, <2>2, <2>3, <2>6 DEF Flight, CurrentlyActive
    <2> QED BY <1>6, <2>1, <2>2, <2>7
  <1>11. ASSUME NEW r \in Requests, ReadSourceRow(r) PROVE AuthInv'
    <2> DEFINE own == req[r].own
               src == IF row["source"].id = own.id THEN row["source"] ELSE NoRow
               q == [req[r] EXCEPT !.entitled = CurrentlyActive(own), !.src = src, !.pc = "store"]
    <2>1. src \in Row /\ CurrentlyActive(own) \in BOOLEAN
      BY <1>5, Constants0 DEF CurrentlyActive
    <2>2. req' = [req EXCEPT ![r] = q] /\ UNCHANGED cache /\ req[r].pc = "source"
      BY <1>5, <1>11 DEF ReadSourceRow, RequestAt
    <2>3. CurrentlyActive(src) => held["source"] = now
      BY <1>5, Constants1 DEF Holds, CurrentlyActive, NoRow
    <2> HIDE DEF src
    <2>4. /\ q \in Request /\ q.pc = "store" /\ q.entitled = CurrentlyActive(own) /\ q.src = src
          /\ q.permitted = req[r].permitted /\ q.began = req[r].began
      BY <1>7, <2>1 DEF Request
    <2> HIDE DEF q
    <2>5. req'[r] = q
      BY <1>5, <2>2
    <2>6. /\ req[r].began <= now /\ req[r].permitted /\ held["policy"] >= req[r].began
          /\ CurrentlyActive(own) => held["own"] >= req[r].began
      BY <1>7, <2>2 DEF Flight
    <2>7. src.status = "active" /\ src.expiresAt > now => held["source"] = now
      BY <2>3 DEF CurrentlyActive
    <2> HIDE DEF own
    <2>9. /\ held'["policy"] >= q.began /\ q.began <= now' /\ q.permitted
          /\ q.entitled => held'["own"] >= q.began
      BY <1>3, <1>4, <1>5, <1>7, <2>4, <2>6, Constants1
    <2>10. q.src.status = "active" /\ q.src.expiresAt > now' => held'["source"] >= q.began
      BY <1>3, <1>4, <1>5, <1>7, <2>4, <2>6, <2>7, Constants1
    <2>8. Flight(r)'
      BY <2>4, <2>5, <2>9, <2>10 DEF Flight, CurrentlyActive
    <2> QED BY <1>6, <2>2, <2>4, <2>8
  <1>12. ASSUME NEW r \in Requests, EvaluationRejects(r) PROVE AuthInv'
    <2>1. req' = [req EXCEPT ![r] = IdleRequest] /\ UNCHANGED cache
      BY <1>12 DEF EvaluationRejects
    <2>2. Flight(r)'
      BY <1>3, <1>5, <2>1 DEF Flight, IdleRequest
    <2> QED BY <1>6, <2>1, <2>2, Constants1
  <1>13. ASSUME NEW r \in Requests, Store(r) PROVE AuthInv'
    <2>1. /\ req' = [req EXCEPT ![r] = IdleRequest]
          /\ cache' = [present |-> TRUE, allowed |-> Verdict(r), cachedAt |-> now, began |-> req[r].began]
      BY <1>13 DEF Store
    <2>2. Verdict(r) \in BOOLEAN
      BY <1>7 DEF Verdict, Request, CurrentlyActive
    <2>3. cache' \in Entry
      BY <1>3, <1>7, <2>1, <2>2 DEF Entry
    <2>4. Flight(r)'
      BY <1>3, <1>5, <2>1 DEF Flight, IdleRequest
    <2>5. req' \in [Requests -> Request] /\ InFlight'
      BY <1>3, <1>4, <2>1, <2>4, Constants1, RequestStep
    <2>6. Verdict(r) => \A c \in Conditions : held[c] >= req[r].began
      BY <1>7 DEF Verdict, Flight, Conditions
    <2>7. req[r].began <= now
      BY <1>7 DEF Flight
    <2>8. /\ cache'.allowed = Verdict(r) /\ cache'.began = req[r].began /\ cache'.cachedAt = now
      BY <2>1
    <2>9. Earned'
      BY <1>3, <1>4, <1>5, <1>7, <2>6, <2>7, <2>8 DEF Earned
    <2> QED BY <1>2, <1>4, <2>3, <2>5, <2>9 DEF AuthInv, AuthTypeOK, IndInv
  <1> QED BY <1>8, <1>9, <1>10, <1>11, <1>12, <1>13 DEF AuthStep

(* Nothing happens.                                                          *)
LEMMA AuthStutters == ASSUME AuthInv, UNCHANGED authVars PROVE AuthInv'
  <1>1. UNCHANGED cascadeVars /\ UNCHANGED <<now, row, allowed, cache, req, held>>
    BY DEF authVars, cascadeVars
  <1>2. IndInv'
    BY <1>1, SurroundingsPreserve DEF AuthInv
  <1>3. History'
    BY <1>1 DEF AuthInv, History, Holds, CurrentlyActive
  <1>4. InFlight'
    BY <1>1 DEF AuthInv, InFlight, Flight, CurrentlyActive
  <1>5. Earned'
    BY <1>1 DEF AuthInv, Earned
  <1>6. AuthTypeOK'
    BY <1>1, <1>2 DEF AuthInv, AuthTypeOK, IndInv
  <1> QED BY <1>2, <1>3, <1>4, <1>5, <1>6 DEF AuthInv

(* An empty cache, idle requests and the clock at its start.                 *)
LEMMA AuthInitEstablishes == AuthInit => AuthInv
  <1> SUFFICES ASSUME AuthInit PROVE AuthInv
    OBVIOUS
  <1>1. /\ now = 0 /\ cache = EmptyCache /\ req = [r \in Requests |-> IdleRequest]
        /\ held = [c \in Conditions |-> 0]
    BY DEF AuthInit, CascadeInit
  <1>2. IndInv
    BY InitEstablishes DEF AuthInit
  <1>3. AuthTypeOK
    BY <1>1, <1>2, Constants1 DEF AuthTypeOK, IndInv
  <1>4. History
    BY <1>1 DEF History
  <1>5. InFlight
    BY <1>1 DEF InFlight, Flight, IdleRequest
  <1>6. Earned
    BY <1>1 DEF Earned, EmptyCache
  <1> QED BY <1>2, <1>3, <1>4, <1>5, <1>6 DEF AuthInv

(* The invariant holds of every behaviour.                                   *)
LEMMA AuthInductive == AuthSpec => []AuthInv
  <1>1. AuthInit => AuthInv
    BY AuthInitEstablishes
  <1>2. AuthInv /\ [AuthNext]_authVars => AuthInv'
    BY CascadePreserves, AuthStepPreserves, AuthStutters DEF AuthNext
  <1> QED BY <1>1, <1>2, PTL DEF AuthSpec

-----------------------------------------------------------------------------
(* The theorems. *)

(* Rows, handlers, requests and the cache keep their types.                  *)
THEOREM AuthTypeCorrect == AuthSpec => []AuthTypeOK
  <1>1. AuthInv => AuthTypeOK
    BY DEF AuthInv
  <1> QED BY <1>1, AuthInductive, PTL

(* Whatever handlers and evaluations interleave, and whichever of them emit  *)
(* no event, a grant that the cache serves rests on a policy, a derived row  *)
(* and a source row that all stood less than the lifetime of an entry ago,   *)
(* not counting the time of the evaluation.                                  *)
THEOREM GrantsStayRecent == AuthSpec => []GrantsAreRecent
  <1>1. AuthInv => GrantsAreRecent
    <2> SUFFICES ASSUME AuthInv, Granted, NEW c \in Conditions
                 PROVE  now - held[c] < TTL + (cache.cachedAt - cache.began)
      BY DEF GrantsAreRecent
    <2>1. /\ now \in Nat /\ held[c] \in Nat /\ cache.cachedAt \in Nat /\ cache.began \in Nat
      BY DEF AuthInv, AuthTypeOK, CascadeTypeOK, Entry
    <2>2. held[c] >= cache.began /\ now - cache.cachedAt < TTL
      BY DEF AuthInv, Earned, Granted, Fresh
    <2> QED BY <2>1, <2>2, CacheConstants
  <1> QED BY <1>1, AuthInductive, PTL

=============================================================================
