-------------------------- MODULE AdministrationProofs --------------------------
(***************************************************************************)
(* The tasks, the catalog of services and the image library, for any       *)
(* number of tasks, updates, users, services, requests, names and any      *)
(* limit.                                                                  *)
(*                                                                         *)
(* Tasks: JobsFollowSettings speaks of a server at rest.  The invariant    *)
(* says what holds before that: while the server starts, and between the   *)
(* awaits of an update that no other one overlaps.                         *)
(*                                                                         *)
(* Catalog: MirrorComplete speaks of a catalog at rest.  The invariant     *)
(* says which handler a row that is wanted and not there is still before,  *)
(* at each of its awaits.                                                  *)
(*                                                                         *)
(* Images: what the check of a request found still holds when it acts,     *)
(* because the chain lets no other one act in between.                     *)
(***************************************************************************)
EXTENDS MCAdministration, FiniteSetTheorems, TLAPS

-----------------------------------------------------------------------------
(* The tasks *)

Follows(t) ==
    /\ (job[t].state = "active") = stored[t].enabled
    /\ job[t].state = "active" => job[t].cron = stored[t].cron

NoneUpdating == \A p \in Updates : ~InFlight(p)

(* startAll has stored settings for every task before anybody reads them.   *)
Complete == server # "down" => stored \in [Tasks -> Config]

WhileDown == server = "down" => (NoneUpdating /\ ~raced /\ manual = {} /\ job = [t \in Tasks |-> NoJob])

(* What is left to start has no job yet, and the rest is as it is stored.   *)
WhileBooting == server = "booting" =>
    /\ NoneUpdating /\ ~raced /\ manual = {}
    /\ boot.config = stored
    /\ \A t \in Tasks : (t \in boot.left => job[t] = NoJob) /\ (t \notin boot.left => Follows(t))

(* An update alone carries what is stored but for its own task, and the job *)
(* of that task alone lags behind, until it is applied.                     *)
Alone ==
    /\ \A p, q \in Updates : (InFlight(p) /\ InFlight(q)) => p = q
    /\ \A p \in Updates :
          /\ update[p].pc = "set" => \A t \in Tasks \ {update[p].task} : update[p].config[t] = stored[t]
          /\ update[p].pc = "apply" => update[p].config = stored
    /\ \A t \in Tasks \ manual :
          Follows(t) \/ \E p \in Updates : update[p].pc = "apply" /\ update[p].task = t

WhileUp == (server = "up" /\ ~raced) => Alone

SchedulerInv == SchedulerTypeOK /\ Complete /\ WhileDown /\ WhileBooting /\ WhileUp

-----------------------------------------------------------------------------
(* A patch of a valid configuration is a valid configuration.                *)
LEMMA PatchedType ==
    ASSUME NEW config \in Config, NEW patch \in Patches
    PROVE  Patched(config, patch) \in Config
<1>1. patch \in Patch
  BY SchedulerConstants
<1>2. OneOf(patch.enabled, config.enabled) \in BOOLEAN
  BY <1>1 DEF Patch, OneOf, Config
<1>3. OneOf(patch.cron, config.cron) \in Crons
  BY <1>1 DEF Patch, OneOf, Config
<1> QED
  BY <1>2, <1>3 DEF Patched, Config

(* The constants have the types of the variables they initialise.            *)
LEMMA DefaultsType == Default \in Config /\ NoUpdate \in Update /\ NoJob \in Job
  BY SchedulerConstants DEF Default, Config, NoUpdate, Update, Defaults, NoJob, Job, JobStates

(* What get() returns, and that it is what is stored once nothing is missing. *)
LEMMA SettingsType ==
    ASSUME SchedulerTypeOK
    PROVE  /\ Settings \in [Tasks -> Config]
           /\ stored \in [Tasks -> Config] => Settings = stored
<1>1. Missing \notin Config
  BY SchedulerConstants DEF Missing, Config
<1>2. Settings \in [Tasks -> Config]
  BY DefaultsType DEF Settings, SchedulerTypeOK
<1>3. ASSUME stored \in [Tasks -> Config] PROVE Settings = stored
  <2>1. \A t \in Tasks : stored[t] # Missing
    BY <1>1, <1>3
  <2> QED
    BY <2>1, <1>3 DEF Settings
<1> QED
  BY <1>2, <1>3

(* applyConfig: a job runs exactly when its task is enabled, on its          *)
(* schedule.                                                                 *)
LEMMA AppliedType ==
    ASSUME NEW old \in Job, NEW config \in Config
    PROVE  /\ Applied(old, config) \in Job
           /\ (Applied(old, config).state = "active") = config.enabled
           /\ Applied(old, config).state = "active" => Applied(old, config).cron = config.cron
  BY DEF Job, JobStates, Config, Applied

-----------------------------------------------------------------------------
(* Initially the server is down and nothing is in flight.                    *)
LEMMA SchedulerInitHolds == SchedulerInit => SchedulerInv
<1> SUFFICES ASSUME SchedulerInit PROVE SchedulerInv
  OBVIOUS
<1>1. SchedulerTypeOK
  BY DefaultsType DEF SchedulerInit, SchedulerTypeOK, NoBoot, Defaults
<1> QED
  BY <1>1 DEF SchedulerInit, SchedulerInv, Complete, WhileDown, WhileBooting, WhileUp, NoneUpdating, InFlight, NoUpdate

(* startAll reads the settings before the first task is started.             *)
LEMMA StartAllKeeps == SchedulerInv /\ StartAll => SchedulerInv'
<1> SUFFICES ASSUME SchedulerInv, StartAll PROVE SchedulerInv'
  OBVIOUS
<1> USE DEF SchedulerInv, StartAll
<1>1. Settings \in [Tasks -> Config]
  BY SettingsType
<1>2. SchedulerTypeOK'
  BY <1>1 DEF SchedulerTypeOK
<1>3. WhileBooting'
  BY DEF WhileDown, WhileBooting, NoneUpdating, InFlight
<1> QED
  BY <1>1, <1>2, <1>3 DEF Complete, WhileDown, WhileUp

(* Starting one task makes its job follow what startAll has read.            *)
LEMMA StartTaskKeeps == ASSUME SchedulerInv, NEW t \in Tasks, StartTask(t) PROVE SchedulerInv'
<1> USE DEF SchedulerInv, StartTask
<1>1. boot.config[t] \in Config /\ stored \in [Tasks -> Config]
  BY DEF SchedulerTypeOK, Complete
<1>2. job' \in [Tasks -> Job] /\ boot' \in [left : SUBSET Tasks, config : [Tasks -> Config]]
  BY <1>1 DEF SchedulerTypeOK, Job, JobStates, Config
<1>3. SchedulerTypeOK'
  BY <1>2 DEF SchedulerTypeOK
<1>4. boot'.config = boot.config /\ boot'.left = boot.left \ {t}
  BY DEF SchedulerTypeOK
<1>5. Follows(t)'
  BY <1>1 DEF WhileBooting, Follows, NoJob, SchedulerTypeOK, Config
<1>6. \A u \in Tasks \ {t} : job'[u] = job[u]
  BY DEF SchedulerTypeOK
<1>7. WhileBooting'
  BY <1>4, <1>5, <1>6 DEF WhileBooting, NoneUpdating, InFlight, Follows
<1> QED
  BY <1>1, <1>3, <1>7 DEF Complete, WhileDown, WhileUp

(* The server listens once every task was started: all jobs follow.          *)
LEMMA ListenKeeps == SchedulerInv /\ Listen => SchedulerInv'
<1> SUFFICES ASSUME SchedulerInv, Listen PROVE SchedulerInv'
  OBVIOUS
<1> USE DEF SchedulerInv, Listen
<1>1. SchedulerTypeOK'
  BY DefaultsType DEF SchedulerTypeOK, NoBoot, Defaults
<1>2. WhileUp'
  BY DEF WhileBooting, WhileUp, Alone, NoneUpdating, InFlight, Follows
<1> QED
  BY <1>1, <1>2 DEF Complete, WhileDown, WhileBooting

(* A stop takes the jobs with it, and leaves no request in flight.           *)
LEMMA StopKeeps == SchedulerInv /\ Stop => SchedulerInv'
<1> SUFFICES ASSUME SchedulerInv, Stop PROVE SchedulerInv'
  OBVIOUS
<1> USE DEF SchedulerInv, Stop
<1>1. SchedulerTypeOK'
  BY DefaultsType DEF SchedulerTypeOK, NoBoot, Defaults
<1>2. WhileDown'
  BY DEF WhileDown, NoneUpdating, InFlight, NoUpdate
<1> QED
  BY <1>1, <1>2 DEF Complete, WhileBooting, WhileUp

(* Starting or stopping a job by hand excuses its task from following.       *)
LEMMA StartStopKeeps ==
    ASSUME SchedulerInv, NEW t \in Tasks, NEW state \in {"active", "stopped"}, StartStop(t, state) PROVE SchedulerInv'
<1> USE DEF SchedulerInv, StartStop
<1>1. job' \in [Tasks -> Job]
  BY DEF SchedulerTypeOK, Job, JobStates
<1>2. SchedulerTypeOK'
  BY <1>1 DEF SchedulerTypeOK
<1>3. \A u \in Tasks \ manual' : u \in Tasks \ manual /\ job'[u] = job[u]
  BY DEF SchedulerTypeOK
<1>4. WhileUp'
  BY <1>3 DEF WhileUp, Alone, InFlight, Follows
<1> QED
  BY <1>2, <1>4 DEF Complete, WhileDown, WhileBooting

(* An update that finds no other in flight is alone; else the server has     *)
(* raced.                                                                    *)
LEMMA UpdateReadKeeps ==
    ASSUME SchedulerInv, NEW p \in Updates, NEW patch \in Patches, UpdateRead(p, patch) PROVE SchedulerInv'
<1> USE DEF SchedulerInv, UpdateRead
<1> DEFINE t == patch.task
           config == [Settings EXCEPT ![t] = Patched(Settings[t], patch)]
<1>1. t \in Tasks
  BY SchedulerConstants DEF Patch
<1>2. Settings = stored /\ Settings \in [Tasks -> Config]
  BY SettingsType DEF Complete
<1>3. config \in [Tasks -> Config] /\ \A u \in Tasks \ {t} : config[u] = stored[u]
  <2>1. Patched(Settings[t], patch) \in Config
    BY <1>1, <1>2, PatchedType
  <2> QED
    BY <2>1, <1>2
<1>4. update'[p] = [pc |-> "set", task |-> t, config |-> config] /\ \A q \in Updates \ {p} : update'[q] = update[q]
  BY DEF SchedulerTypeOK
<1> HIDE DEF config, t
<1>5. update' \in [Updates -> Update]
  BY <1>1, <1>3, <1>4 DEF SchedulerTypeOK, Update
<1>6. SchedulerTypeOK'
  BY <1>5 DEF SchedulerTypeOK
<1>7. ASSUME ~raced' PROVE Alone'
  <2>1. ~raced /\ \A q \in Updates : update[q].pc = "idle"
    BY <1>7 DEF InFlight
  <2>2. \A q \in Updates \ {p} : update'[q].pc = "idle"
    BY <2>1, <1>4
  <2>3. update'[p].pc = "set" /\ update'[p].task = t /\ update'[p].config = config
    BY <1>4
  <2>4. \A u \in Tasks \ manual : Follows(u)
    BY <2>1 DEF WhileUp, Alone
  <2> QED
    BY <1>3, <2>2, <2>3, <2>4 DEF Alone, InFlight, Follows
<1> QED
  BY <1>6, <1>7 DEF Complete, WhileDown, WhileBooting, WhileUp

(* An update that is alone stores what was stored, but for its task.         *)
LEMMA UpdateSetKeeps == ASSUME SchedulerInv, NEW p \in Updates, UpdateSet(p) PROVE SchedulerInv'
<1> USE DEF SchedulerInv, UpdateSet
<1>1. server = "up"
  BY DEF SchedulerTypeOK, WhileDown, WhileBooting, NoneUpdating, InFlight
<1>2. CASE stored' = update[p].config /\ update' = [update EXCEPT ![p].pc = "apply"]
  <2>1. update[p] \in Update
    BY DEF SchedulerTypeOK
  <2>2. stored' \in [Tasks -> Config] /\ update' \in [Updates -> Update]
    BY <1>2, <2>1 DEF Update, SchedulerTypeOK
  <2>3. update'[p] = [update[p] EXCEPT !.pc = "apply"] /\ \A q \in Updates \ {p} : update'[q] = update[q]
    BY <1>2 DEF SchedulerTypeOK
  <2>4. update'[p].pc = "apply" /\ update'[p].task = update[p].task /\ update'[p].config = stored'
    BY <1>2, <2>1, <2>3 DEF Update
  <2>5. ASSUME ~raced' PROVE Alone'
    <3>1. Alone /\ InFlight(p)
      BY <1>1, <2>5 DEF WhileUp, InFlight
    <3>2. \A q \in Updates \ {p} : update[q].pc = "idle"
      BY <3>1 DEF Alone, InFlight
    <3>3. \A u \in Tasks \ {update[p].task} : stored'[u] = stored[u]
      BY <1>2, <3>1 DEF Alone
    <3>4. ASSUME NEW u \in Tasks \ manual, u # update[p].task PROVE Follows(u)'
      BY <3>1, <3>2, <3>3, <3>4 DEF Alone, Follows
    <3>5. \A q \in Updates \ {p} : update'[q].pc = "idle"
      BY <2>3, <3>2
    <3>6. \A u \in Tasks \ manual' : Follows(u)' \/ (update'[p].pc = "apply" /\ update'[p].task = u)
      BY <2>4, <3>4
    <3> HIDE DEF UpdateSet, SchedulerInv
    <3> QED
      BY <2>4, <3>5, <3>6 DEF Alone, InFlight
  <2> QED
    BY <1>1, <2>2, <2>5 DEF SchedulerTypeOK, Complete, WhileDown, WhileBooting, WhileUp
<1>3. CASE update' = [update EXCEPT ![p] = NoUpdate] /\ UNCHANGED stored
  <2>1. update' \in [Updates -> Update]
    BY <1>3, DefaultsType DEF SchedulerTypeOK
  <2>2. update'[p].pc = "idle" /\ \A q \in Updates \ {p} : update'[q] = update[q]
    BY <1>3 DEF SchedulerTypeOK, NoUpdate
  <2>3. ASSUME ~raced' PROVE Alone'
    <3>1. Alone
      BY <1>1, <2>3 DEF WhileUp
    <3> QED
      BY <1>3, <2>2, <3>1 DEF Alone, InFlight, Follows
  <2> QED
    BY <1>1, <1>3, <2>1, <2>3 DEF SchedulerTypeOK, Complete, WhileDown, WhileBooting, WhileUp
<1> QED
  BY <1>2, <1>3

(* Applying what is stored makes the job of the updated task follow again.   *)
LEMMA ApplyKeeps == ASSUME SchedulerInv, NEW p \in Updates, Apply(p) PROVE SchedulerInv'
<1> USE DEF SchedulerInv, Apply
<1> DEFINE t == update[p].task
<1>1. server = "up"
  BY DEF SchedulerTypeOK, WhileDown, WhileBooting, NoneUpdating, InFlight
<1>2. update[p] \in Update /\ update' \in [Updates -> Update]
  BY DefaultsType DEF SchedulerTypeOK
<1>3. update'[p].pc = "idle" /\ \A q \in Updates \ {p} : update'[q] = update[q]
  BY DEF SchedulerTypeOK, NoUpdate
<1>4. t \in Tasks => /\ Applied(job[t], update[p].config[t]) \in Job
                     /\ (Applied(job[t], update[p].config[t]).state = "active") = update[p].config[t].enabled
                     /\ Applied(job[t], update[p].config[t]).state = "active" =>
                           Applied(job[t], update[p].config[t]).cron = update[p].config[t].cron
  <2>1. t \in Tasks => job[t] \in Job /\ update[p].config[t] \in Config
    BY <1>2 DEF SchedulerTypeOK, Update
  <2> HIDE DEF SchedulerInv, Apply, t
  <2> QED
    BY <2>1, AppliedType
<1>5. job' \in [Tasks -> Job] /\ (\A u \in Tasks \ {t} : job'[u] = job[u])
      /\ (t \in Tasks => job'[t] = Applied(job[t], update[p].config[t]))
  <2>1. job \in [Tasks -> Job] /\ job' = [job EXCEPT ![t] = Applied(job[t], update[p].config[t])]
    BY DEF SchedulerTypeOK
  <2> HIDE DEF SchedulerInv, Apply, t
  <2>2. CASE t \in Tasks
    BY <1>4, <2>1, <2>2
  <2>3. CASE t \notin Tasks
    BY <2>1, <2>3
  <2> QED
    BY <2>2, <2>3
<1>6. SchedulerTypeOK'
  BY <1>2, <1>5 DEF SchedulerTypeOK
<1>7. ASSUME ~raced' PROVE Alone'
  <2>1. Alone /\ InFlight(p) /\ update[p].config = stored
    BY <1>1, <1>7 DEF WhileUp, InFlight, Alone
  <2>2. \A q \in Updates \ {p} : update[q].pc = "idle"
    BY <2>1 DEF Alone, InFlight
  <2>3. ASSUME NEW u \in Tasks \ manual' PROVE Follows(u)'
    <3>1. CASE u = t
      BY <1>4, <1>5, <2>1, <3>1 DEF Follows
    <3>2. CASE u # t
      <4>1. u \in Tasks \ manual
        BY <3>2
      <4>2. Follows(u)
        BY <2>1, <2>2, <3>2, <4>1 DEF Alone
      <4> QED
        BY <1>5, <3>2, <4>2 DEF Follows
    <3> QED
      BY <3>1, <3>2
  <2> QED
    BY <1>3, <2>2, <2>3 DEF Alone, InFlight
<1> QED
  BY <1>1, <1>6, <1>7 DEF Complete, WhileDown, WhileBooting, WhileUp

(* Every step of the scheduler keeps the invariant.                          *)
LEMMA SchedulerStepKeeps == SchedulerInv /\ [SchedulerNext]_schedulerVars => SchedulerInv'
<1> SUFFICES ASSUME SchedulerInv, [SchedulerNext]_schedulerVars PROVE SchedulerInv'
  OBVIOUS
<1>1. CASE UNCHANGED schedulerVars
  BY <1>1 DEF schedulerVars, SchedulerInv, SchedulerTypeOK, Complete, WhileDown, WhileBooting, WhileUp, Alone, NoneUpdating,
              InFlight, Follows
<1>2. CASE SchedulerNext
  BY <1>2, StartAllKeeps, ListenKeeps, StopKeeps, StartTaskKeeps, StartStopKeeps, UpdateSetKeeps, ApplyKeeps,
     UpdateReadKeeps DEF SchedulerNext
<1> QED
  BY <1>1, <1>2

(* Settings, jobs and requests keep their types: a stored value that is      *)
(* missing a task is completed before it is used (config.service,            *)
(* systemMetadata.repository).                                               *)
THEOREM SchedulerTypesKept == SchedulerSpec => []SchedulerTypeOK
<1>1. SchedulerInv => SchedulerTypeOK
  BY DEF SchedulerInv
<1> QED
  BY <1>1, SchedulerInitHolds, SchedulerStepKeeps, PTL DEF SchedulerSpec

(* Whatever sequence of updates, failed writes, starts by hand and restarts  *)
(* came before, the jobs of a server at rest are those that the settings ask *)
(* for, as long as no two updates overlapped (scheduler.service 153-215).    *)
THEOREM JobsFollow == SchedulerSpec => []JobsFollowSettings
<1>1. SchedulerInv => JobsFollowSettings
  BY DEF SchedulerInv, WhileUp, Alone, InFlight, Follows, JobsFollowSettings
<1> QED
  BY <1>1, SchedulerInitHolds, SchedulerStepKeeps, PTL DEF SchedulerSpec

-----------------------------------------------------------------------------
(* The catalog of services *)

(* A row has an id from the moment it has a status. *)
RowsHaveIds == \A u \in Users : source[u].status # "none" => source[u].id # 0

(* Where a handler is says what it is about, and its rounds stay with that.  *)
Sound(h) ==
    LET w == handler[h] IN
    /\ w.pc \in {"upsert", "activate", "readServices"} => w.kind = "subscribe"
    /\ w.pc = "readSources" => w.kind = "create"
    /\ w.pc \in {"deleteRows", "deleteService"} => w.kind = "delete"
    /\ w.pc \in {"find", "write"} => w.kind \in {"subscribe", "create"}
    /\ w.kind = "subscribe" => w.user \in Users /\ \A i \in w.left \cup w.now : i.user = w.user
    /\ w.kind \in {"create", "delete"} => w.service \in Services
    /\ w.kind = "create" => \A i \in w.left \cup w.now : i.service = w.service
    /\ w.pc = "find" => w.now = {}
    /\ w.pc = "write" => \A i, j \in w.now : i = j

(* Handler h has the row of u on r still before it. *)
Covers(h, u, r) ==
    \/ At(h, "readServices") /\ handler[h].user = u
    \/ At(h, "readSources") /\ handler[h].service = r
    \/ /\ handler[h].pc \in {"find", "write"}
       /\ \E i \in handler[h].left \cup handler[h].now : i.user = u /\ i.service = r

Wanted(u, r) == source[u].status \in {"active", "disabled"} /\ InCatalog(r)

Accounted(u, r) == mirror[u][r] # 0 \/ <<u, r>> \in missed

(* MirrorComplete for disabled subscriptions as well, which may be enabled   *)
(* again, and with the handlers that are really to write the row.            *)
PairSafe(u, r) == Wanted(u, r) => Accounted(u, r) \/ \E h \in Handlers : Covers(h, u, r)

CatalogInv ==
    /\ CatalogTypeOK
    /\ RowsHaveIds
    /\ \A h \in Handlers : Sound(h)
    /\ \A u \in Users, r \in Services : PairSafe(u, r)

-----------------------------------------------------------------------------
(* The constants have the types of the variables they initialise.            *)
LEMMA IdleType == Idle \in Handler /\ NoSource \in [id : Nat, status : SourceStatuses]
  BY DEF Idle, Handler, NoSource, SourceStatuses, Pcs, Kinds

(* A handler that is not at work holds nothing.                              *)
LEMMA IdleSound ==
    ASSUME NEW h \in Handlers, handler'[h] = Idle
    PROVE  Sound(h)'
  BY CatalogConstants DEF Sound, Idle

(* A step that changes one handler at most keeps what is said of the others. *)
LEMMA OthersSound ==
    ASSUME \A g \in Handlers : Sound(g), NEW h \in Handlers, Sound(h)',
           \A g \in Handlers \ {h} : handler'[g] = handler[g]
    PROVE  \A g \in Handlers : Sound(g)'
<1>1. ASSUME NEW g \in Handlers \ {h} PROVE Sound(g)'
  <2>1. handler'[g] = handler[g] /\ Sound(g)
    OBVIOUS
  <2> QED
    BY <2>1 DEF Sound
<1> QED
  BY <1>1

(* A step of h leaves the pair of a user and a service safe if it wants no   *)
(* more than before, and forgets neither a reader nor an exception.          *)
LEMMA PairKept ==
    ASSUME NEW u \in Users, NEW r \in Services, PairSafe(u, r),
           NEW h \in Handlers, \A g \in Handlers \ {h} : handler'[g] = handler[g],
           Wanted(u, r)' => Wanted(u, r),
           Wanted(u, r)' /\ Accounted(u, r) => Accounted(u, r)',
           Wanted(u, r)' /\ Covers(h, u, r) => Covers(h, u, r)' \/ Accounted(u, r)'
    PROVE  PairSafe(u, r)'
<1> SUFFICES ASSUME Wanted(u, r)', ~Accounted(u, r)' PROVE \E g \in Handlers : Covers(g, u, r)'
  BY DEF PairSafe
<1>1. PICK g \in Handlers : Covers(g, u, r)
  BY DEF PairSafe
<1>2. CASE g = h
  BY <1>1, <1>2
<1>3. CASE g # h
  <2>1. handler'[g] = handler[g]
    BY <1>3
  <2>2. Covers(g, u, r)'
    BY <1>1, <2>1 DEF Covers, At
  <2> QED
    BY <2>2
<1> QED
  BY <1>2, <1>3

(* What the end of a handler leaves.                                         *)
LEMMA DoneType ==
    ASSUME CatalogTypeOK, NEW h \in Handlers, Done(h)
    PROVE  /\ handler' \in [Handlers -> Handler] /\ handler'[h] = Idle
           /\ \A g \in Handlers \ {h} : handler'[g] = handler[g]
           /\ Sound(h)'
<1>1. /\ handler' \in [Handlers -> Handler] /\ handler'[h] = Idle
      /\ \A g \in Handlers \ {h} : handler'[g] = handler[g]
  BY IdleType DEF CatalogTypeOK, Done
<1> QED
  BY <1>1, IdleSound

(* What the loop leaves before a handler: its rounds, all of them.           *)
LEMMA LoopType ==
    ASSUME CatalogTypeOK, NEW h \in Handlers, NEW items \in SUBSET Item, Loop(h, items),
           handler[h].kind \in {"subscribe", "create"},
           handler[h].kind = "subscribe" => handler[h].user \in Users /\ \A i \in items : i.user = handler[h].user,
           handler[h].kind = "create" => handler[h].service \in Services /\ \A i \in items : i.service = handler[h].service
    PROVE  /\ handler' \in [Handlers -> Handler]
           /\ \A g \in Handlers \ {h} : handler'[g] = handler[g]
           /\ Sound(h)'
           /\ \A i \in items : Covers(h, i.user, i.service)'
<1>1. CASE items = {}
  <2>1. Done(h)
    BY <1>1 DEF Loop, Done
  <2> QED
    BY <1>1, <2>1, DoneType
<1>2. CASE items # {}
  <2> DEFINE w == handler[h]
             next == [w EXCEPT !.pc = "find", !.left = items, !.now = {}, !.found = FALSE]
  <2>1. w \in Handler /\ handler' = [handler EXCEPT ![h] = next]
    BY <1>2 DEF Loop, CatalogTypeOK
  <2>2. /\ next \in Handler /\ next.pc = "find" /\ next.left = items /\ next.now = {}
        /\ next.kind = w.kind /\ next.user = w.user /\ next.service = w.service
    BY <2>1 DEF Handler, Pcs
  <2> HIDE DEF next
  <2>3. /\ handler' \in [Handlers -> Handler] /\ handler'[h] = next
        /\ \A g \in Handlers \ {h} : handler'[g] = handler[g]
    BY <2>1, <2>2 DEF CatalogTypeOK
  <2>4. Sound(h)'
    BY <2>2, <2>3 DEF Sound
  <2>5. \A i \in items : Covers(h, i.user, i.service)'
    BY <2>2, <2>3 DEF Covers
  <2> QED
    BY <2>3, <2>4, <2>5
<1> QED
  BY <1>1, <1>2

(* What a catch block leaves.                                                *)
LEMMA ThrowType ==
    ASSUME CatalogTypeOK, RowsHaveIds, NEW h \in Handlers, Sound(h), Throw(h)
    PROVE  /\ source' \in [Users -> [id : Nat, status : SourceStatuses]]
           /\ RowsHaveIds'
           /\ missed' \subseteq Pairs
           /\ handler' \in [Handlers -> Handler]
           /\ \A g \in Handlers \ {h} : handler'[g] = handler[g]
           /\ Sound(h)'
<1>1. handler[h] \in Handler /\ Done(h)
  BY DEF CatalogTypeOK, Throw
<1>2. source' = source \/ (handler[h].user \in Users /\ source[handler[h].user].id # 0
                           /\ source' = [source EXCEPT ![handler[h].user].status = "failed"])
  BY DEF Throw, FailedStatus, Sound
<1>3. source' \in [Users -> [id : Nat, status : SourceStatuses]] /\ RowsHaveIds'
  BY <1>2, ZenonT(60) DEF CatalogTypeOK, RowsHaveIds, SourceStatuses
<1>4. PairsOf(handler[h].left \cup handler[h].now) \subseteq Pairs
  BY <1>1 DEF PairsOf, Pairs, Handler, Item
<1>5. missed' \subseteq Pairs
  BY <1>4 DEF Throw, CatalogTypeOK
<1> QED
  BY <1>1, <1>3, <1>5, DoneType

(* The rows that an error leaves unwritten: those of a sign-up are not       *)
(* wanted any more, those of a creation are passed over.                     *)
LEMMA ThrowPairs ==
    ASSUME CatalogInv, NEW h \in Handlers, Throw(h), UNCHANGED <<service, mirror>>,
           handler[h].pc \in {"activate", "find", "write"},
           NEW u \in Users, NEW r \in Services
    PROVE  PairSafe(u, r)'
<1> DEFINE w == handler[h]
<1>1. /\ CatalogTypeOK /\ RowsHaveIds /\ Sound(h) /\ PairSafe(u, r) /\ w \in Handler
      /\ \A g \in Handlers \ {h} : handler'[g] = handler[g]
  BY ThrowType DEF CatalogInv, CatalogTypeOK
<1>2. w.kind \in {"subscribe", "create"}
  BY <1>1 DEF Sound
<1>3. Wanted(u, r)' => Wanted(u, r)
  BY <1>1 DEF Throw, FailedStatus, Wanted, InCatalog, CatalogTypeOK, Sound
<1>4. Accounted(u, r) => Accounted(u, r)'
  BY DEF Throw, Accounted
<1>5. ASSUME Covers(h, u, r), Wanted(u, r)' PROVE Accounted(u, r)'
  <2>1. PICK i \in w.left \cup w.now : i.user = u /\ i.service = r
    BY <1>5 DEF Covers, At
  <2>2. CASE w.kind = "subscribe"
    <3>1. w.user = u
      BY <1>1, <2>1, <2>2 DEF Sound
    <3>2. source[u].id # 0
      BY <1>1, <1>3, <1>5 DEF RowsHaveIds, Wanted
    <3>3. source'[u].status = "failed"
      BY <1>1, <2>2, <3>1, <3>2 DEF Throw, FailedStatus, CatalogTypeOK
    <3> QED
      BY <1>5, <3>3 DEF Wanted
  <2>3. CASE w.kind = "create"
    <3>1. <<u, r>> \in PairsOf(w.left \cup w.now)
      BY <2>1 DEF PairsOf
    <3> QED
      BY <2>3, <3>1 DEF Throw, Accounted
  <2> QED
    BY <1>2, <2>2, <2>3
<1> HIDE DEF w
<1> QED
  BY <1>1, <1>3, <1>4, <1>5, PairKept

-----------------------------------------------------------------------------
(* Initially nobody subscribes and no handler is at work.                    *)
LEMMA CatalogInitHolds == CatalogInit => CatalogInv
<1> SUFFICES ASSUME CatalogInit PROVE CatalogInv
  OBVIOUS
<1>1. CatalogTypeOK
  BY IdleType DEF CatalogInit, CatalogTypeOK
<1>2. RowsHaveIds
  BY DEF CatalogInit, RowsHaveIds, NoSource
<1>3. \A h \in Handlers : Sound(h)
  BY CatalogConstants DEF CatalogInit, Sound, Idle
<1>4. \A u \in Users, r \in Services : PairSafe(u, r)
  BY DEF CatalogInit, PairSafe, Wanted, NoSource
<1> QED
  BY <1>1, <1>2, <1>3, <1>4 DEF CatalogInv

(* A handler that stops halfway: the rows it may not have written are noted. *)
LEMMA AbandonKeeps == ASSUME CatalogInv, NEW h \in Handlers, Abandon(h) PROVE CatalogInv'
<1> DEFINE w == handler[h]
           users == IF w.kind = "subscribe" THEN {w.user} ELSE Users
           services == IF w.kind = "subscribe" THEN Services ELSE {w.service}
           left == {p \in users \X services : /\ source[p[1]].status \in {"active", "disabled"}
                                              /\ InCatalog(p[2])
                                              /\ mirror[p[1]][p[2]] = 0}
<1>1. CatalogTypeOK /\ RowsHaveIds /\ Sound(h) /\ w \in Handler
  BY DEF CatalogInv, CatalogTypeOK
<1>2. Done(h) /\ missed' = missed \cup left /\ UNCHANGED <<open, service, source, mirror, invited>> /\ w.pc # "idle"
  BY DEF Abandon, At
<1>3. /\ w.kind = "subscribe" => w.user \in Users
      /\ w.kind \in {"create", "delete"} => w.service \in Services
      /\ w.kind \in {"subscribe", "create", "delete"}
  BY <1>1, <1>2 DEF Sound, Handler, Pcs, Kinds
<1>4. left \subseteq Pairs
  BY <1>3 DEF Pairs
<1>5. ASSUME NEW u \in Users, NEW r \in Services PROVE PairSafe(u, r)'
  <2>1. PairSafe(u, r)
    BY DEF CatalogInv
  <2>2. Wanted(u, r)' <=> Wanted(u, r)
    BY <1>2 DEF Wanted, InCatalog
  <2>3. Accounted(u, r) => Accounted(u, r)'
    BY <1>2 DEF Accounted
  <2>4. ASSUME Covers(h, u, r), Wanted(u, r) PROVE Accounted(u, r)'
    <3>1. u \in users /\ r \in services
      BY <1>1, <2>4 DEF Covers, Sound, At
    <3>2. mirror[u][r] = 0 => <<u, r>> \in left
      BY <2>4, <3>1 DEF Wanted
    <3> HIDE DEF left
    <3> QED
      BY <1>2, <3>2 DEF Accounted
  <2> HIDE DEF left
  <2> QED
    BY <1>1, <1>2, <2>1, <2>2, <2>3, <2>4, DoneType, PairKept
<1> HIDE DEF left
<1>6. CatalogTypeOK'
  BY <1>1, <1>2, <1>4, DoneType DEF CatalogTypeOK
<1>7. RowsHaveIds'
  BY <1>1, <1>2 DEF RowsHaveIds
<1>8. \A g \in Handlers : Sound(g)'
  BY <1>1, <1>2, DoneType, OthersSound DEF CatalogInv
<1> QED
  BY <1>5, <1>6, <1>7, <1>8 DEF CatalogInv

(* A request to subscribe starts with the row it has read.                   *)
LEMMA SubscribeReadKeeps ==
    ASSUME CatalogInv, NEW h \in Handlers, NEW u \in Users, SubscribeRead(h, u) PROVE CatalogInv'
<1> DEFINE next == [Idle EXCEPT !.kind = "subscribe", !.pc = "upsert", !.user = u, !.row = source[u].id]
<1>1. CatalogTypeOK /\ handler[h].pc = "idle"
  BY DEF CatalogInv, SubscribeRead, At
<1>2. /\ next \in Handler /\ next.kind = "subscribe" /\ next.pc = "upsert" /\ next.user = u
      /\ next.left = {} /\ next.now = {}
  BY <1>1, IdleType DEF Idle, Handler, Kinds, Pcs, CatalogTypeOK
<1>3. handler' = [handler EXCEPT ![h] = next] /\ UNCHANGED <<open, service, source, mirror, invited, missed>>
  BY DEF SubscribeRead
<1> HIDE DEF next
<1>4. /\ handler' \in [Handlers -> Handler] /\ handler'[h] = next
      /\ \A g \in Handlers \ {h} : handler'[g] = handler[g]
  BY <1>1, <1>2, <1>3 DEF CatalogTypeOK
<1>5. Sound(h)'
  BY <1>2, <1>4 DEF Sound
<1>6. ASSUME NEW v \in Users, NEW r \in Services PROVE PairSafe(v, r)'
  <2>1. ~Covers(h, v, r)
    BY <1>1 DEF Covers, At
  <2>2. PairSafe(v, r) /\ (Wanted(v, r)' <=> Wanted(v, r)) /\ (Accounted(v, r) => Accounted(v, r)')
    BY <1>3 DEF CatalogInv, Wanted, InCatalog, Accounted
  <2> QED
    BY <1>4, <2>1, <2>2, PairKept
<1>7. CatalogTypeOK' /\ RowsHaveIds'
  BY <1>1, <1>3, <1>4 DEF CatalogInv, CatalogTypeOK, RowsHaveIds
<1>8. \A g \in Handlers : Sound(g)'
  BY <1>4, <1>5, OthersSound DEF CatalogInv
<1> QED
  BY <1>6, <1>7, <1>8 DEF CatalogInv

(* The row of the source is being written: nothing is wanted of it yet.      *)
LEMMA UpsertKeeps == ASSUME CatalogInv, NEW h \in Handlers, Upsert(h) PROVE CatalogInv'
<1> DEFINE w == handler[h]
           u == w.user
<1>1. /\ CatalogTypeOK /\ RowsHaveIds /\ Sound(h) /\ w \in Handler /\ w.pc = "upsert" /\ u \in Users
      /\ w.kind = "subscribe" /\ UNCHANGED <<open, service, mirror, invited, missed>>
  BY DEF CatalogInv, CatalogTypeOK, Upsert, Sound, At
<1>2. \A v \in Users, r \in Services : ~Covers(h, v, r) /\ PairSafe(v, r) /\ (Accounted(v, r) => Accounted(v, r)')
  BY <1>1 DEF Covers, At, CatalogInv, Accounted
<1>3. CASE \E id \in Nat \ {0} : /\ source' = [source EXCEPT ![u] = [id |-> id, status |-> "provisioning"]]
                                 /\ handler' = [handler EXCEPT ![h].pc = "activate", ![h].row = id]
  <2>1. PICK id \in Nat \ {0} : /\ source' = [source EXCEPT ![u] = [id |-> id, status |-> "provisioning"]]
                                /\ handler' = [handler EXCEPT ![h].pc = "activate", ![h].row = id]
    BY <1>3
  <2>2. /\ source' \in [Users -> [id : Nat, status : SourceStatuses]]
        /\ source'[u].id # 0 /\ source'[u].status = "provisioning" /\ \A v \in Users \ {u} : source'[v] = source[v]
    BY <1>1, <2>1 DEF CatalogTypeOK, SourceStatuses
  <2>3. /\ handler' \in [Handlers -> Handler]
        /\ \A g \in Handlers \ {h} : handler'[g] = handler[g]
        /\ handler'[h].pc = "activate" /\ handler'[h].kind = w.kind /\ handler'[h].user = w.user
        /\ handler'[h].left = w.left /\ handler'[h].now = w.now
    BY <1>1, <2>1 DEF CatalogTypeOK, Handler, Pcs
  <2> HIDE DEF u
  <2>4. Sound(h)'
    BY <1>1, <2>3 DEF Sound, u
  <2>5. CatalogTypeOK' /\ RowsHaveIds'
    BY <1>1, <2>2, <2>3 DEF CatalogTypeOK, RowsHaveIds
  <2>6. \A v \in Users, r \in Services : Wanted(v, r)' => Wanted(v, r)
    BY <1>1, <2>2 DEF Wanted, InCatalog
  <2>7. \A g \in Handlers : Sound(g)'
    BY <2>3, <2>4, OthersSound DEF CatalogInv
  <2>8. \A v \in Users, r \in Services : PairSafe(v, r)'
    BY <1>2, <2>3, <2>6, PairKept
  <2> QED
    BY <2>5, <2>7, <2>8 DEF CatalogInv
<1>4. CASE Done(h) /\ UNCHANGED source
  <2>1. CatalogTypeOK' /\ RowsHaveIds'
    BY <1>1, <1>4, DoneType DEF CatalogTypeOK, RowsHaveIds
  <2>2. \A v \in Users, r \in Services : Wanted(v, r)' => Wanted(v, r)
    BY <1>1, <1>4 DEF Wanted, InCatalog
  <2>3. \A g \in Handlers : Sound(g)'
    BY <1>1, <1>4, DoneType, OthersSound DEF CatalogInv
  <2>4. \A v \in Users, r \in Services : PairSafe(v, r)'
    BY <1>1, <1>2, <1>4, <2>2, DoneType, PairKept
  <2> QED
    BY <2>1, <2>3, <2>4 DEF CatalogInv
<1>5. CASE /\ source[u].id # 0
           /\ source' = [source EXCEPT ![u].status = "provisioning"]
           /\ handler' = [handler EXCEPT ![h].pc = "activate", ![h].row = source[u].id]
  <2>1. source[u].id \in Nat \ {0} /\ source[u] \in [id : Nat, status : SourceStatuses]
    BY <1>1, <1>5 DEF CatalogTypeOK
  <2>2. [source[u] EXCEPT !.status = "provisioning"] = [id |-> source[u].id, status |-> "provisioning"]
    BY <2>1
  <2>3. source' = [source EXCEPT ![u] = [id |-> source[u].id, status |-> "provisioning"]]
    BY <1>1, <1>5, <2>2 DEF CatalogTypeOK
  <2> QED
    BY <1>3, <1>5, <2>1, <2>3
<1>6. ASSUME NEW id \in 1..MaxRows PROVE id \in Nat \ {0}
  BY CatalogConstants
<1> QED
  BY <1>3, <1>4, <1>5, <1>6 DEF Upsert

(* From here on the rows of all services are wanted, and h is to read them.  *)
LEMMA ActivateKeeps == ASSUME CatalogInv, NEW h \in Handlers, Activate(h) PROVE CatalogInv'
<1> DEFINE w == handler[h]
           u == w.user
<1>1. /\ CatalogTypeOK /\ RowsHaveIds /\ Sound(h) /\ w \in Handler /\ w.pc = "activate" /\ u \in Users
      /\ w.kind = "subscribe" /\ UNCHANGED <<open, service, mirror, invited>>
  BY DEF CatalogInv, CatalogTypeOK, Activate, Sound, At
<1>2. CASE /\ source[u].id # 0
           /\ source' = [source EXCEPT ![u].status = "active"]
           /\ handler' = [handler EXCEPT ![h].pc = "readServices", ![h].row = source[u].id]
           /\ UNCHANGED missed
  <2>1. /\ source' \in [Users -> [id : Nat, status : SourceStatuses]]
        /\ source'[u].id = source[u].id /\ \A v \in Users \ {u} : source'[v] = source[v]
    BY <1>1, <1>2 DEF CatalogTypeOK, SourceStatuses
  <2>2. /\ handler' \in [Handlers -> Handler]
        /\ \A g \in Handlers \ {h} : handler'[g] = handler[g]
        /\ handler'[h].pc = "readServices" /\ handler'[h].kind = w.kind /\ handler'[h].user = w.user
        /\ handler'[h].left = w.left /\ handler'[h].now = w.now
    BY <1>1, <1>2 DEF CatalogTypeOK, Handler, Pcs
  <2>3. Sound(h)'
    BY <1>1, <2>2 DEF Sound
  <2>4. CatalogTypeOK' /\ RowsHaveIds'
    BY <1>1, <1>2, <2>1, <2>2 DEF CatalogTypeOK, RowsHaveIds
  <2>5. \A g \in Handlers : Sound(g)'
    BY <2>2, <2>3, OthersSound DEF CatalogInv
  <2>6. ASSUME NEW v \in Users, NEW r \in Services PROVE PairSafe(v, r)'
    <3>1. CASE v = u
      <4>1. Covers(h, v, r)'
        BY <2>2, <3>1 DEF Covers, At
      <4> QED
        BY <4>1 DEF PairSafe
    <3>2. CASE v # u
      <4>1. ~Covers(h, v, r) /\ PairSafe(v, r) /\ (Accounted(v, r) => Accounted(v, r)')
        BY <1>1, <1>2 DEF Covers, At, CatalogInv, Accounted
      <4>2. Wanted(v, r)' => Wanted(v, r)
        BY <1>1, <2>1, <3>2 DEF Wanted, InCatalog
      <4> QED
        BY <2>2, <4>1, <4>2, PairKept
    <3> QED
      BY <3>1, <3>2
  <2> QED
    BY <2>4, <2>5, <2>6 DEF CatalogInv
<1>3. CASE Throw(h)
  <2>1. CatalogTypeOK' /\ RowsHaveIds'
    BY <1>1, <1>3, ThrowType DEF CatalogTypeOK
  <2>2. \A g \in Handlers : Sound(g)'
    BY <1>1, <1>3, ThrowType, OthersSound DEF CatalogInv
  <2>3. \A v \in Users, r \in Services : PairSafe(v, r)'
    BY <1>1, <1>3, ThrowPairs
  <2> QED
    BY <2>1, <2>2, <2>3 DEF CatalogInv
<1> QED
  BY <1>2, <1>3 DEF Activate

(* h has read the services; a disabled one is passed over, which is noted.   *)
LEMMA ReadServicesKeeps == ASSUME CatalogInv, NEW h \in Handlers, ReadServices(h) PROVE CatalogInv'
<1> DEFINE w == handler[h]
           u == w.user
           passed == {r \in Services : InCatalog(r) /\ service[r] # "enabled" /\ mirror[u][r] = 0}
           items == [user : {u}, service : Referencing, id : {w.row}]
<1>1. /\ CatalogTypeOK /\ RowsHaveIds /\ Sound(h) /\ w \in Handler /\ w.pc = "readServices" /\ u \in Users
      /\ w.kind = "subscribe"
  BY DEF CatalogInv, CatalogTypeOK, ReadServices, Sound, At
<1>2. Loop(h, items) /\ missed' = missed \cup ({u} \X passed) /\ UNCHANGED <<open, service, source, mirror, invited>>
  BY DEF ReadServices
<1>3. items \in SUBSET Item /\ \A i \in items : i.user = u
  BY <1>1 DEF Item, Referencing, Handler
<1>4. {u} \X passed \subseteq Pairs
  BY <1>1 DEF Pairs
<1>5. \A r \in Referencing : \E i \in items : i.user = u /\ i.service = r
  <2>1. \A r \in Referencing : [user |-> u, service |-> r, id |-> w.row] \in items
    OBVIOUS
  <2> QED
    BY <2>1
<1> HIDE DEF items
<1>6. /\ handler' \in [Handlers -> Handler]
      /\ \A g \in Handlers \ {h} : handler'[g] = handler[g]
      /\ Sound(h)'
      /\ \A i \in items : Covers(h, i.user, i.service)'
  BY <1>1, <1>2, <1>3, LoopType
<1>7. ASSUME NEW v \in Users, NEW r \in Services PROVE PairSafe(v, r)'
  <2>1. PairSafe(v, r) /\ (Wanted(v, r)' <=> Wanted(v, r)) /\ (Accounted(v, r) => Accounted(v, r)')
    BY <1>2 DEF CatalogInv, Wanted, InCatalog, Accounted
  <2>2. ASSUME Covers(h, v, r), Wanted(v, r) PROVE Covers(h, v, r)' \/ Accounted(v, r)'
    <3>1. v = u /\ InCatalog(r)
      BY <1>1, <2>2 DEF Covers, At, Wanted
    <3>2. CASE r \in Referencing
      BY <1>5, <1>6, <3>1, <3>2
    <3>3. CASE r \notin Referencing
      <4>1. mirror[u][r] = 0 => <<u, r>> \in {u} \X passed
        BY <3>1, <3>3 DEF Referencing
      <4> QED
        BY <1>2, <3>1, <4>1 DEF Accounted
    <3> QED
      BY <3>2, <3>3
  <2> HIDE DEF passed, u
  <2> QED
    BY <1>6, <2>1, <2>2, PairKept
<1> HIDE DEF passed
<1>8. CatalogTypeOK' /\ RowsHaveIds'
  BY <1>1, <1>2, <1>4, <1>6 DEF CatalogTypeOK, RowsHaveIds
<1>9. \A g \in Handlers : Sound(g)'
  BY <1>6, OthersSound DEF CatalogInv
<1> QED
  BY <1>7, <1>8, <1>9 DEF CatalogInv

(* h looks one row up.                                                       *)
LEMMA FindKeeps == ASSUME CatalogInv, NEW h \in Handlers, Find(h) PROVE CatalogInv'
<1> DEFINE w == handler[h]
<1>1. CatalogTypeOK /\ RowsHaveIds /\ Sound(h) /\ w \in Handler /\ w.pc = "find" /\ w.now = {}
      /\ UNCHANGED <<open, service, source, mirror, invited, missed>>
  BY DEF CatalogInv, CatalogTypeOK, Find, Sound, At
<1>2. PICK i \in w.left :
        handler' = [handler EXCEPT ![h].pc = "write", ![h].left = @ \ {i}, ![h].now = {i},
                                   ![h].found = (mirror[i.user][i.service] # 0)]
  BY DEF Find
<1>3. /\ handler' \in [Handlers -> Handler]
      /\ \A g \in Handlers \ {h} : handler'[g] = handler[g]
      /\ handler'[h].pc = "write" /\ handler'[h].kind = w.kind /\ handler'[h].user = w.user
      /\ handler'[h].service = w.service
      /\ handler'[h].left = w.left \ {i} /\ handler'[h].now = {i}
  BY <1>1, <1>2 DEF CatalogTypeOK, Handler, Pcs
<1>4. Sound(h)'
  BY <1>1, <1>3 DEF Sound
<1>5. ASSUME NEW v \in Users, NEW r \in Services PROVE PairSafe(v, r)'
  <2>1. PairSafe(v, r) /\ (Wanted(v, r)' <=> Wanted(v, r)) /\ (Accounted(v, r) => Accounted(v, r)')
    BY <1>1 DEF CatalogInv, Wanted, InCatalog, Accounted
  <2>2. Covers(h, v, r) => Covers(h, v, r)'
    BY <1>1, <1>3 DEF Covers, At
  <2> QED
    BY <1>3, <2>1, <2>2, PairKept
<1>6. CatalogTypeOK' /\ RowsHaveIds'
  BY <1>1, <1>3 DEF CatalogTypeOK, RowsHaveIds
<1>7. \A g \in Handlers : Sound(g)'
  BY <1>3, <1>4, OthersSound DEF CatalogInv
<1> QED
  BY <1>5, <1>6, <1>7 DEF CatalogInv

(* h writes one row, or ends at an error.                                    *)
LEMMA WriteKeeps == ASSUME CatalogInv, NEW h \in Handlers, Write(h) PROVE CatalogInv'
<1> DEFINE w == handler[h]
<1>1. CatalogTypeOK /\ RowsHaveIds /\ Sound(h) /\ w \in Handler /\ w.pc = "write"
      /\ UNCHANGED <<open, service, invited>>
  BY DEF CatalogInv, CatalogTypeOK, Write, At
<1>2. PICK i \in w.now : \/ /\ Accepted(h, i)
                            /\ mirror' = [mirror EXCEPT ![i.user][i.service] = i.id]
                            /\ missed' = missed \ {<<i.user, i.service>>}
                            /\ Loop(h, w.left)
                            /\ UNCHANGED source
                         \/ Throw(h) /\ UNCHANGED mirror
  BY DEF Write
<1>3. w.left \in SUBSET Item /\ i \in Item /\ i.user \in Users /\ i.service \in Services /\ i.id \in Nat
      /\ w.now = {i} /\ w.kind \in {"subscribe", "create"}
  BY <1>1 DEF Handler, Item, Sound
<1>4. CASE Throw(h) /\ UNCHANGED mirror
  <2>1. CatalogTypeOK' /\ RowsHaveIds'
    BY <1>1, <1>4, ThrowType DEF CatalogTypeOK
  <2>2. \A g \in Handlers : Sound(g)'
    BY <1>1, <1>4, ThrowType, OthersSound DEF CatalogInv
  <2>3. \A v \in Users, r \in Services : PairSafe(v, r)'
    BY <1>1, <1>4, ThrowPairs
  <2> QED
    BY <2>1, <2>2, <2>3 DEF CatalogInv
<1>5. CASE /\ Accepted(h, i)
           /\ mirror' = [mirror EXCEPT ![i.user][i.service] = i.id]
           /\ missed' = missed \ {<<i.user, i.service>>}
           /\ Loop(h, w.left)
           /\ UNCHANGED source
  <2>1. /\ handler' \in [Handlers -> Handler]
        /\ \A g \in Handlers \ {h} : handler'[g] = handler[g]
        /\ Sound(h)'
        /\ \A j \in w.left : Covers(h, j.user, j.service)'
    BY <1>1, <1>3, <1>5, LoopType DEF Sound
  <2>2. /\ mirror' \in [Users -> [Services -> Nat]] /\ mirror'[i.user][i.service] = i.id
        /\ \A v \in Users, r \in Services : <<v, r>> # <<i.user, i.service>> => mirror'[v][r] = mirror[v][r]
    BY <1>1, <1>3, <1>5 DEF CatalogTypeOK
  <2>3. CatalogTypeOK' /\ RowsHaveIds'
    BY <1>1, <1>5, <2>1, <2>2 DEF CatalogTypeOK, RowsHaveIds
  <2>4. \A g \in Handlers : Sound(g)'
    BY <2>1, OthersSound DEF CatalogInv
  <2>5. ASSUME NEW v \in Users, NEW r \in Services PROVE PairSafe(v, r)'
    <3>1. CASE v = i.user /\ r = i.service
      <4>1. Wanted(v, r)' => mirror'[v][r] # 0
        BY <1>1, <1>5, <2>2, <3>1 DEF Wanted, RowsHaveIds, Accepted
      <4> QED
        BY <4>1 DEF PairSafe, Accounted
    <3>2. CASE ~(v = i.user /\ r = i.service)
      <4>1. <<v, r>> # <<i.user, i.service>>
        BY <3>2
      <4>2. PairSafe(v, r) /\ (Wanted(v, r)' <=> Wanted(v, r)) /\ (Accounted(v, r) => Accounted(v, r)')
        BY <1>1, <1>5, <2>2, <4>1 DEF CatalogInv, Wanted, InCatalog, Accounted
      <4>3. ASSUME Covers(h, v, r) PROVE Covers(h, v, r)'
        <5>1. PICK j \in w.left \cup w.now : j.user = v /\ j.service = r
          BY <1>1, <4>3 DEF Covers, At
        <5>2. j \in w.left
          BY <1>3, <3>2, <5>1
        <5> QED
          BY <2>1, <5>1, <5>2
      <4> QED
        BY <2>1, <4>2, <4>3, PairKept
    <3> QED
      BY <3>1, <3>2
  <2> QED
    BY <2>3, <2>4, <2>5 DEF CatalogInv
<1> QED
  BY <1>2, <1>4, <1>5

(* A new service wants rows of all who subscribe; its handler is to write    *)
(* them.                                                                     *)
LEMMA CreateKeeps ==
    ASSUME CatalogInv, NEW h \in Handlers, NEW r \in Services, NEW enabled \in BOOLEAN, Create(h, r, enabled)
    PROVE  CatalogInv'
<1> DEFINE next == [Idle EXCEPT !.kind = "create", !.pc = "readSources", !.service = r]
<1>1. CatalogTypeOK /\ RowsHaveIds /\ handler[h].pc = "idle"
  BY DEF CatalogInv, Create, At
<1>2. /\ next \in Handler /\ next.kind = "create" /\ next.pc = "readSources" /\ next.service = r
      /\ next.left = {} /\ next.now = {}
  BY IdleType DEF Idle, Handler, Kinds, Pcs
<1>3. /\ handler' = [handler EXCEPT ![h] = next] /\ UNCHANGED <<open, source, mirror, invited, missed>>
      /\ service' = [service EXCEPT ![r] = IF enabled THEN "enabled" ELSE "disabled"]
  BY DEF Create
<1> HIDE DEF next
<1>4. /\ handler' \in [Handlers -> Handler] /\ handler'[h] = next
      /\ \A g \in Handlers \ {h} : handler'[g] = handler[g]
  BY <1>1, <1>2, <1>3 DEF CatalogTypeOK
<1>5. Sound(h)'
  BY <1>2, <1>4 DEF Sound
<1>6. ASSUME NEW v \in Users, NEW s \in Services PROVE PairSafe(v, s)'
  <2>1. CASE s = r
    <3>1. Covers(h, v, s)'
      BY <1>2, <1>4, <2>1 DEF Covers, At
    <3> QED
      BY <3>1 DEF PairSafe
  <2>2. CASE s # r
    <3>1. ~Covers(h, v, s) /\ PairSafe(v, s) /\ (Accounted(v, s) => Accounted(v, s)')
      BY <1>1, <1>3 DEF Covers, At, CatalogInv, Accounted
    <3>2. Wanted(v, s)' => Wanted(v, s)
      BY <1>1, <1>3, <2>2 DEF Wanted, InCatalog, CatalogTypeOK
    <3> QED
      BY <1>4, <3>1, <3>2, PairKept
  <2> QED
    BY <2>1, <2>2
<1>7. CatalogTypeOK' /\ RowsHaveIds'
  BY <1>1, <1>3, <1>4 DEF CatalogTypeOK, RowsHaveIds
<1>8. \A g \in Handlers : Sound(g)'
  BY <1>4, <1>5, OthersSound DEF CatalogInv
<1> QED
  BY <1>6, <1>7, <1>8 DEF CatalogInv

(* h has read who subscribes; a disabled user is passed over, which is       *)
(* noted.                                                                    *)
LEMMA ReadSourcesKeeps == ASSUME CatalogInv, NEW h \in Handlers, ReadSources(h) PROVE CatalogInv'
<1> DEFINE w == handler[h]
           r == w.service
           passed == {u \in Users : source[u].status = "disabled" /\ mirror[u][r] = 0}
           items == {[user |-> u, service |-> r, id |-> source[u].id] : u \in ActiveUsers}
<1>1. /\ CatalogTypeOK /\ RowsHaveIds /\ Sound(h) /\ w \in Handler /\ w.pc = "readSources" /\ r \in Services
      /\ w.kind = "create"
  BY DEF CatalogInv, CatalogTypeOK, ReadSources, Sound, At
<1>2. Loop(h, items) /\ missed' = missed \cup (passed \X {r}) /\ UNCHANGED <<open, service, source, mirror, invited>>
  BY DEF ReadSources
<1>3. items \in SUBSET Item /\ \A i \in items : i.service = r
  BY <1>1 DEF Item, ActiveUsers, CatalogTypeOK
<1>4. passed \X {r} \subseteq Pairs
  BY <1>1 DEF Pairs
<1>5. \A u \in ActiveUsers : \E i \in items : i.user = u /\ i.service = r
  <2>1. \A u \in ActiveUsers : [user |-> u, service |-> r, id |-> source[u].id] \in items
    OBVIOUS
  <2> HIDE DEF items, r
  <2> QED
    BY <2>1
<1> HIDE DEF items
<1>6. /\ handler' \in [Handlers -> Handler]
      /\ \A g \in Handlers \ {h} : handler'[g] = handler[g]
      /\ Sound(h)'
      /\ \A i \in items : Covers(h, i.user, i.service)'
  BY <1>1, <1>2, <1>3, LoopType
<1>7. ASSUME NEW v \in Users, NEW s \in Services PROVE PairSafe(v, s)'
  <2>1. PairSafe(v, s) /\ (Wanted(v, s)' <=> Wanted(v, s)) /\ (Accounted(v, s) => Accounted(v, s)')
    BY <1>2 DEF CatalogInv, Wanted, InCatalog, Accounted
  <2>2. ASSUME Covers(h, v, s), Wanted(v, s) PROVE Covers(h, v, s)' \/ Accounted(v, s)'
    <3>1. s = r
      BY <1>1, <2>2 DEF Covers, At
    <3>2. CASE source[v].status = "active"
      BY <1>5, <1>6, <3>1, <3>2 DEF ActiveUsers
    <3>3. CASE source[v].status = "disabled"
      <4>1. mirror[v][r] = 0 => <<v, r>> \in passed \X {r}
        BY <3>3
      <4> QED
        BY <1>2, <3>1, <4>1 DEF Accounted
    <3> QED
      BY <2>2, <3>2, <3>3 DEF Wanted
  <2> HIDE DEF passed, r
  <2> QED
    BY <1>6, <2>1, <2>2, PairKept
<1> HIDE DEF passed
<1>8. CatalogTypeOK' /\ RowsHaveIds'
  BY <1>1, <1>2, <1>4, <1>6 DEF CatalogTypeOK, RowsHaveIds
<1>9. \A g \in Handlers : Sound(g)'
  BY <1>6, OthersSound DEF CatalogInv
<1> QED
  BY <1>7, <1>8, <1>9 DEF CatalogInv

(* Deleting a service starts; its rows are still wanted.                     *)
LEMMA DeleteReadKeeps ==
    ASSUME CatalogInv, NEW h \in Handlers, NEW r \in Services, DeleteRead(h, r) PROVE CatalogInv'
<1> DEFINE next == [Idle EXCEPT !.kind = "delete", !.pc = "deleteRows", !.service = r]
<1>1. CatalogTypeOK /\ RowsHaveIds /\ handler[h].pc = "idle"
  BY DEF CatalogInv, DeleteRead, At
<1>2. /\ next \in Handler /\ next.kind = "delete" /\ next.pc = "deleteRows" /\ next.service = r
      /\ next.left = {} /\ next.now = {}
  BY IdleType DEF Idle, Handler, Kinds, Pcs
<1>3. handler' = [handler EXCEPT ![h] = next] /\ UNCHANGED <<open, service, source, mirror, invited, missed>>
  BY DEF DeleteRead
<1> HIDE DEF next
<1>4. /\ handler' \in [Handlers -> Handler] /\ handler'[h] = next
      /\ \A g \in Handlers \ {h} : handler'[g] = handler[g]
  BY <1>1, <1>2, <1>3 DEF CatalogTypeOK
<1>5. Sound(h)'
  BY <1>2, <1>4 DEF Sound
<1>6. ASSUME NEW v \in Users, NEW s \in Services PROVE PairSafe(v, s)'
  <2>1. ~Covers(h, v, s)
    BY <1>1 DEF Covers, At
  <2>2. PairSafe(v, s) /\ (Wanted(v, s)' <=> Wanted(v, s)) /\ (Accounted(v, s) => Accounted(v, s)')
    BY <1>3 DEF CatalogInv, Wanted, InCatalog, Accounted
  <2> QED
    BY <1>4, <2>1, <2>2, PairKept
<1>7. CatalogTypeOK' /\ RowsHaveIds'
  BY <1>1, <1>3, <1>4 DEF CatalogTypeOK, RowsHaveIds
<1>8. \A g \in Handlers : Sound(g)'
  BY <1>4, <1>5, OthersSound DEF CatalogInv
<1> QED
  BY <1>6, <1>7, <1>8 DEF CatalogInv

(* The rows of a service go before the service does, which is noted.         *)
LEMMA DeleteRowsKeeps == ASSUME CatalogInv, NEW h \in Handlers, DeleteRows(h) PROVE CatalogInv'
<1> DEFINE w == handler[h]
           r == w.service
           had == {u \in Users : mirror[u][r] # 0}
<1>1. /\ CatalogTypeOK /\ RowsHaveIds /\ Sound(h) /\ w \in Handler /\ w.pc = "deleteRows" /\ r \in Services
      /\ w.kind = "delete"
  BY DEF CatalogInv, CatalogTypeOK, DeleteRows, Sound, At
<1>2. /\ missed' = missed \cup (had \X {r})
      /\ mirror' = [u \in Users |-> [mirror[u] EXCEPT ![r] = 0]]
      /\ handler' = [handler EXCEPT ![h].pc = "deleteService"]
      /\ UNCHANGED <<open, service, source, invited>>
  BY DEF DeleteRows, Goto
<1>3. /\ handler' \in [Handlers -> Handler]
      /\ \A g \in Handlers \ {h} : handler'[g] = handler[g]
      /\ handler'[h].pc = "deleteService" /\ handler'[h].kind = "delete" /\ handler'[h].service = r
  BY <1>1, <1>2 DEF CatalogTypeOK, Handler, Pcs
<1>4. Sound(h)'
  BY <1>1, <1>3 DEF Sound
<1>5. had \X {r} \subseteq Pairs
  BY <1>1 DEF Pairs
<1>6. ASSUME NEW v \in Users, NEW s \in Services PROVE PairSafe(v, s)'
  <2>1. ~Covers(h, v, s) /\ PairSafe(v, s) /\ (Wanted(v, s)' <=> Wanted(v, s))
    BY <1>1, <1>2 DEF Covers, At, CatalogInv, Wanted, InCatalog
  <2>2. Accounted(v, s) => Accounted(v, s)'
    <3>1. CASE s = r
      <4>1. mirror[v][r] # 0 => <<v, r>> \in had \X {r}
        OBVIOUS
      <4> QED
        BY <1>2, <3>1, <4>1 DEF Accounted
    <3>2. CASE s # r
      <4>1. mirror'[v][s] = mirror[v][s]
        BY <1>1, <1>2, <3>2 DEF CatalogTypeOK
      <4> QED
        BY <1>2, <4>1 DEF Accounted
    <3> QED
      BY <3>1, <3>2
  <2> HIDE DEF had, r
  <2> QED
    BY <1>3, <2>1, <2>2, PairKept
<1>7. mirror' \in [Users -> [Services -> Nat]]
  BY <1>1, <1>2 DEF CatalogTypeOK
<1> HIDE DEF had
<1>8. CatalogTypeOK' /\ RowsHaveIds'
  BY <1>1, <1>2, <1>3, <1>5, <1>7 DEF CatalogTypeOK, RowsHaveIds
<1>9. \A g \in Handlers : Sound(g)'
  BY <1>3, <1>4, OthersSound DEF CatalogInv
<1> QED
  BY <1>6, <1>8, <1>9 DEF CatalogInv

(* Nothing is wanted of a service that is gone.                              *)
LEMMA DeleteServiceKeeps == ASSUME CatalogInv, NEW h \in Handlers, DeleteService(h) PROVE CatalogInv'
<1> DEFINE r == handler[h].service
<1>1. CatalogTypeOK /\ RowsHaveIds /\ Sound(h) /\ handler[h].pc = "deleteService" /\ Done(h)
      /\ UNCHANGED <<open, source, mirror, invited, missed>>
      /\ (service' = service \/ service' = [service EXCEPT ![r] = "deleted"])
  BY DEF CatalogInv, DeleteService, At
<1>2. service' \in [Services -> {"unused", "enabled", "disabled", "deleted"}]
      /\ \A s \in Services : InCatalog(s)' => InCatalog(s)
  BY <1>1 DEF CatalogTypeOK, InCatalog
<1> HIDE DEF r
<1>3. ASSUME NEW v \in Users, NEW s \in Services PROVE PairSafe(v, s)'
  <2>1. ~Covers(h, v, s) /\ PairSafe(v, s) /\ (Accounted(v, s) => Accounted(v, s)')
    BY <1>1 DEF Covers, At, CatalogInv, Accounted
  <2>2. Wanted(v, s)' => Wanted(v, s)
    BY <1>1, <1>2 DEF Wanted
  <2> QED
    BY <1>1, <2>1, <2>2, DoneType, PairKept
<1>4. CatalogTypeOK' /\ RowsHaveIds'
  BY <1>1, <1>2, DoneType DEF CatalogTypeOK, RowsHaveIds
<1>5. \A g \in Handlers : Sound(g)'
  BY <1>1, DoneType, OthersSound DEF CatalogInv
<1> QED
  BY <1>3, <1>4, <1>5 DEF CatalogInv

(* Steps that touch no handler. *)
LEMMA QuietKeeps ==
    ASSUME CatalogInv, CatalogTypeOK', RowsHaveIds', UNCHANGED handler,
           \A u \in Users, r \in Services : /\ Wanted(u, r)' => Wanted(u, r)
                                            /\ Wanted(u, r)' /\ Accounted(u, r) => Accounted(u, r)'
    PROVE  CatalogInv'
<1>1. \A h \in Handlers : Sound(h)'
  BY DEF CatalogInv, Sound
<1>2. \A u \in Users, r \in Services : PairSafe(u, r)'
  BY DEF CatalogInv, PairSafe, Covers, At
<1> QED
  BY <1>1, <1>2 DEF CatalogInv

(* Disabling, enabling and cancelling the source wants no new row.           *)
LEMMA SourceMovesKeeps ==
    ASSUME CatalogInv, NEW u \in Users, NEW before \in {"active", "disabled"},
           NEW after \in {"active", "disabled", "cancelling"}, SourceMoves(u, before, after)
    PROVE  CatalogInv'
<1>1. CatalogTypeOK /\ RowsHaveIds
  BY DEF CatalogInv
<1>2. /\ source' \in [Users -> [id : Nat, status : SourceStatuses]]
      /\ source'[u].status = after /\ source'[u].id = source[u].id /\ source[u].status = before
      /\ \A v \in Users \ {u} : source'[v] = source[v]
  BY <1>1 DEF CatalogTypeOK, SourceMoves, SourceStatuses
<1>3. UNCHANGED <<open, service, mirror, invited, handler, missed>>
  BY DEF SourceMoves
<1>4. CatalogTypeOK' /\ RowsHaveIds'
  BY <1>1, <1>2, <1>3 DEF CatalogTypeOK, RowsHaveIds
<1>5. \A v \in Users, r \in Services : (Wanted(v, r)' => Wanted(v, r)) /\ (Accounted(v, r) => Accounted(v, r)')
  BY <1>2, <1>3 DEF Wanted, InCatalog, Accounted
<1> QED
  BY <1>3, <1>4, <1>5, QuietKeeps

(* Nothing is wanted of a user who has left.                                 *)
LEMMA LeaveKeeps == ASSUME CatalogInv, NEW u \in Users, Leave(u) PROVE CatalogInv'
<1>1. CatalogTypeOK /\ RowsHaveIds
  BY DEF CatalogInv
<1>2. /\ source' \in [Users -> [id : Nat, status : SourceStatuses]]
      /\ source'[u].status = "none"
      /\ \A v \in Users \ {u} : source'[v] = source[v]
  BY <1>1, IdleType DEF CatalogTypeOK, Leave, NoSource
<1>3. UNCHANGED <<open, service, invited, handler, missed>>
  BY DEF Leave
<1>4. mirror' \in [Users -> [Services -> Nat]] /\ \A v \in Users \ {u} : mirror'[v] = mirror[v]
  BY <1>1 DEF CatalogTypeOK, Leave
<1>5. CatalogTypeOK' /\ RowsHaveIds'
  BY <1>1, <1>2, <1>3, <1>4 DEF CatalogTypeOK, RowsHaveIds
<1>6. \A v \in Users, r \in Services : /\ Wanted(v, r)' => Wanted(v, r)
                                       /\ Wanted(v, r)' /\ Accounted(v, r) => Accounted(v, r)'
  BY <1>2, <1>3, <1>4 DEF Wanted, InCatalog, Accounted
<1> QED
  BY <1>3, <1>5, <1>6, QuietKeeps

(* Invites, the sign-up switch and the flag of a service want no new row.    *)
LEMMA FlagsKeep ==
    ASSUME CatalogInv,
           \/ \E r \in Services : Invite(r) \/ DeleteInvite(r) \/ \E on \in BOOLEAN : SetServiceEnabled(r, on)
           \/ SetOpen
    PROVE  CatalogInv'
<1>1. CatalogTypeOK /\ RowsHaveIds /\ UNCHANGED <<source, mirror, handler, missed>>
  BY DEF CatalogInv, Invite, DeleteInvite, SetServiceEnabled, SetOpen
<1>2. /\ service' \in [Services -> {"unused", "enabled", "disabled", "deleted"}]
      /\ open' \in BOOLEAN /\ invited' \subseteq Services
      /\ \A r \in Services : InCatalog(r)' => InCatalog(r)
  BY <1>1 DEF CatalogTypeOK, InCatalog, Invite, DeleteInvite, SetServiceEnabled, SetOpen
<1>3. CatalogTypeOK' /\ RowsHaveIds'
  BY <1>1, <1>2 DEF CatalogTypeOK, RowsHaveIds
<1>4. \A v \in Users, r \in Services : (Wanted(v, r)' => Wanted(v, r)) /\ (Accounted(v, r) => Accounted(v, r)')
  BY <1>1, <1>2 DEF Wanted, Accounted
<1> QED
  BY <1>1, <1>3, <1>4, QuietKeeps

-----------------------------------------------------------------------------
(* Every step of the catalog keeps the invariant.                            *)
LEMMA CatalogStepKeeps == CatalogInv /\ [CatalogNext]_catalogVars => CatalogInv'
<1> SUFFICES ASSUME CatalogInv, [CatalogNext]_catalogVars PROVE CatalogInv'
  OBVIOUS
<1>1. CASE UNCHANGED catalogVars
  BY <1>1, QuietKeeps DEF catalogVars, CatalogInv, CatalogTypeOK, RowsHaveIds, Wanted, InCatalog, Accounted
<1>2. CASE \E h \in Handlers :
             \/ Abandon(h) \/ Upsert(h) \/ Activate(h) \/ ReadServices(h) \/ ReadSources(h)
             \/ Find(h) \/ Write(h) \/ DeleteRows(h) \/ DeleteService(h)
             \/ \E u \in Users : SubscribeRead(h, u)
             \/ \E r \in Services : DeleteRead(h, r) \/ (\E on \in BOOLEAN : Create(h, r, on))
  BY <1>2, AbandonKeeps, UpsertKeeps, ActivateKeeps, ReadServicesKeeps, ReadSourcesKeeps, FindKeeps, WriteKeeps,
     DeleteRowsKeeps, DeleteServiceKeeps, SubscribeReadKeeps, DeleteReadKeeps, CreateKeeps
<1>3. CASE \E u \in Users : \/ SourceMoves(u, "active", "disabled") \/ SourceMoves(u, "disabled", "active")
                            \/ SourceMoves(u, "active", "cancelling") \/ Leave(u)
  BY <1>3, SourceMovesKeeps, LeaveKeeps
<1> QED
  BY <1>1, <1>2, <1>3, FlagsKeep DEF CatalogNext

(* The invariant of the catalog.                                             *)
LEMMA CatalogInvHolds == CatalogSpec => []CatalogInv
  BY CatalogInitHolds, CatalogStepKeeps, PTL DEF CatalogSpec

(* Rows, handlers and their rounds keep their types. *)
THEOREM CatalogTypesKept == CatalogSpec => []CatalogTypeOK
<1>1. CatalogInv => CatalogTypeOK
  BY DEF CatalogInv
<1> QED
  BY <1>1, CatalogInvHolds, PTL

(* No user falls between the handler that activates a sign-up and the one    *)
(* that creates a service, however many of each run together and wherever    *)
(* they fail or stop (subscriptionCascade, onActivated and                   *)
(* onReferencedServiceCreated).                                              *)
THEOREM MirrorsAreComplete == CatalogSpec => []MirrorComplete
<1>1. ASSUME CatalogInv PROVE MirrorComplete
  <2> SUFFICES ASSUME NEW u \in Users, NEW r \in Services, source[u].status = "active", InCatalog(r),
                      mirror[u][r] = 0, <<u, r>> \notin missed
               PROVE  AtWork(u, r)
    BY DEF MirrorComplete
  <2>1. PICK h \in Handlers : Covers(h, u, r)
    BY <1>1 DEF CatalogInv, PairSafe, Wanted, Accounted
  <2>2. Sound(h)
    BY <1>1 DEF CatalogInv
  <2> QED
    BY <2>1, <2>2 DEF Covers, Sound, AtWork, At
<1> QED
  BY <1>1, CatalogInvHolds, PTL

-----------------------------------------------------------------------------
(* The image library *)

(* The chain and the requests go with the server; the marker is read before  *)
(* the first copy and written after the last.                                *)
ServerPhases ==
    /\ phase # "up" => mutations = <<>>
    /\ phase = "up" => marker
    /\ phase = "seeding" => ~marker

(* Before the marker is there, the library has seeds and no history.         *)
Unseeded == ~marker => deleted = {} /\ files \subseteq Seed

(* What the check of a request found still holds when it acts, for it acts   *)
(* alone: there is room for the upload, and nobody shows what is removed but *)
(* who was given it since.                                                   *)
Working ==
    \A c \in Clients :
        /\ client[c].pc # "idle" => client[c].name \in Names
        /\ client[c].pc \in {"write", "unlink"} => Turn(c)
        /\ client[c].pc = "write" => Cardinality(files) < maxImages
        /\ client[c].pc = "unlink" => \A v \in Shows \ late : image[v] # client[c].name

LibraryInv ==
    /\ LibraryTypeOK
    /\ ServerPhases /\ Unseeded /\ Working
    /\ LibraryBounded /\ DeletedStayDeleted /\ ShownImagesStay

-----------------------------------------------------------------------------
(* A client that asks for nothing is a client.                               *)
LEMMA NoClientType == NoClient \in Client
  BY DEF NoClient, Client

(* The files of the library can be counted.                                  *)
LEMMA FilesFinite ==
    ASSUME LibraryTypeOK
    PROVE  IsFiniteSet(files) /\ Cardinality(files) \in Nat /\ Cardinality(Seed) \in Nat /\ IsFiniteSet(Seed)
<1>1. files \in SUBSET Names /\ Seed \in SUBSET Names
  BY LibraryConstants DEF LibraryTypeOK
<1> QED
  BY <1>1, FS_Subset, FS_CardinalityType, LibraryConstants

(* A request at the head of the chain is the only one that is past its turn. *)
LEMMA HeadAlone ==
    ASSUME LibraryTypeOK, Working, NEW c \in Clients, Turn(c), NEW d \in Clients, d # c
    PROVE  client[d].pc \notin {"write", "unlink"}
  BY DEF Working, Turn

(* A request that settles leaves the chain and nobody else does.             *)
LEMMA SettleType ==
    ASSUME LibraryTypeOK, NEW c \in Clients, Turn(c), Settle(c)
    PROVE  /\ client' \in [Clients -> Client]
           /\ client'[c] = NoClient /\ \A d \in Clients \ {c} : client'[d] = client[d]
           /\ mutations' \in Seq(Clients)
           /\ \A i, j \in 1..Len(mutations') : mutations'[i] = mutations'[j] => i = j
           /\ \A d \in Clients : client'[d] # NoClient <=> \E i \in 1..Len(mutations') : mutations'[i] = d
<1>1. client' = [client EXCEPT ![c] = NoClient] /\ mutations' = Tail(mutations) /\ mutations # <<>>
      /\ mutations \in Seq(Clients) /\ client \in [Clients -> Client] /\ Head(mutations) = c
  BY DEF Settle, Turn, LibraryTypeOK
<1>2. client' \in [Clients -> Client] /\ client'[c] = NoClient /\ \A d \in Clients \ {c} : client'[d] = client[d]
  BY <1>1, NoClientType
<1>3. /\ mutations' \in Seq(Clients) /\ Len(mutations') = Len(mutations) - 1 /\ Len(mutations) \in Nat
      /\ \A i \in 1..Len(mutations') : mutations'[i] = mutations[i + 1]
  BY <1>1
<1>4. mutations[1] = c /\ Len(mutations) >= 1
  BY <1>1
<1>5. \A i, j \in 1..Len(mutations') : mutations'[i] = mutations'[j] => i = j
  <2> SUFFICES ASSUME NEW i \in 1..Len(mutations'), NEW j \in 1..Len(mutations'), mutations'[i] = mutations'[j]
               PROVE  i = j
    OBVIOUS
  <2>1. i + 1 \in 1..Len(mutations) /\ j + 1 \in 1..Len(mutations) /\ mutations[i + 1] = mutations[j + 1]
    BY <1>3
  <2>2. i + 1 = j + 1
    BY <2>1 DEF LibraryTypeOK
  <2> QED
    BY <2>2
<1>6. ASSUME NEW d \in Clients
      PROVE  client'[d] # NoClient <=> \E i \in 1..Len(mutations') : mutations'[i] = d
  <2>1. CASE d = c
    <3>1. ASSUME NEW i \in 1..Len(mutations') PROVE mutations'[i] # c
      <4>1. i + 1 \in 1..Len(mutations) /\ 1 \in 1..Len(mutations) /\ i + 1 # 1
        BY <1>3, <1>4
      <4>2. mutations[i + 1] # mutations[1]
        BY <4>1 DEF LibraryTypeOK
      <4> QED
        BY <1>3, <1>4, <4>2
    <3> QED
      BY <1>2, <2>1, <3>1
  <2>2. CASE d # c
    <3>1. client'[d] = client[d] /\ (client[d] # NoClient <=> \E i \in 1..Len(mutations) : mutations[i] = d)
      BY <1>2, <2>2 DEF LibraryTypeOK
    <3>2. ASSUME NEW i \in 1..Len(mutations), mutations[i] = d PROVE \E k \in 1..Len(mutations') : mutations'[k] = d
      <4>1. i # 1
        BY <1>4, <2>2, <3>2
      <4>2. i - 1 \in 1..Len(mutations') /\ (i - 1) + 1 = i
        BY <1>3, <4>1
      <4> QED
        BY <1>3, <3>2, <4>2
    <3>3. ASSUME NEW i \in 1..Len(mutations'), mutations'[i] = d PROVE \E k \in 1..Len(mutations) : mutations[k] = d
      <4>1. i + 1 \in 1..Len(mutations)
        BY <1>3
      <4> QED
        BY <1>3, <3>3, <4>1
    <3> QED
      BY <3>1, <3>2, <3>3
  <2> QED
    BY <2>1, <2>2
<1> QED
  BY <1>2, <1>3, <1>5, <1>6

(* The fields of a client, one by one.                                       *)
LEMMA ClientFields ==
    ASSUME NEW r \in Client
    PROVE  /\ r.kind \in {"none", "upload", "remove"} /\ r.name \in Names \cup {NoImage}
           /\ r.pc \in {"idle", "list", "write", "unlink"}
  BY DEF Client

-----------------------------------------------------------------------------
(* Initially the server is down and nobody asks.                             *)
LEMMA LibraryInitHolds == LibraryInit => LibraryInv
<1> SUFFICES ASSUME LibraryInit PROVE LibraryInv
  OBVIOUS
<1>1. LibraryTypeOK
  <2>1. /\ mutations \in Seq(Clients) /\ 1..Len(mutations) = {}
        /\ client \in [Clients -> Client] /\ \A c \in Clients : client[c] = NoClient
    BY NoClientType DEF LibraryInit
  <2> QED
    BY <2>1 DEF LibraryInit, LibraryTypeOK
<1>2. Cardinality(files) = 0
  BY FS_EmptySet DEF LibraryInit
<1>3. LibraryBounded
  BY <1>2, LibraryConstants DEF LibraryBounded
<1>4. Working
  BY DEF Working, LibraryInit, NoClient
<1> QED
  BY <1>1, <1>3, <1>4 DEF LibraryInit, LibraryInv, ServerPhases, Unseeded, DeletedStayDeleted, ShownImagesStay

(* Starting and stopping *)

(* onModuleInit lists the seeds only if the marker is missing.               *)
LEMMA InitializeKeeps == LibraryInv /\ Initialize => LibraryInv'
<1> SUFFICES ASSUME LibraryInv, Initialize PROVE LibraryInv'
  OBVIOUS
<1> USE DEF LibraryInv, Initialize
<1>1. LibraryTypeOK'
  BY DEF LibraryTypeOK
<1>2. ServerPhases'
  BY DEF ServerPhases, NeedsSeed, LibraryTypeOK
<1> QED
  BY <1>1, <1>2 DEF Unseeded, Working, Turn, LibraryBounded, DeletedStayDeleted, ShownImagesStay

(* Seeds are copied before the first client is served.                       *)
LEMMA CopySeedKeeps == ASSUME LibraryInv, NEW n \in Names, CopySeed(n) PROVE LibraryInv'
<1> USE DEF LibraryInv, CopySeed
<1>1. n \in Seed /\ ~marker /\ mutations = <<>>
  BY DEF LibraryTypeOK, ServerPhases
<1>2. LibraryTypeOK'
  BY <1>1, LibraryConstants DEF LibraryTypeOK
<1>3. deleted = {} /\ files' \subseteq Seed
  BY <1>1 DEF Unseeded
<1>4. LibraryBounded'
  <2>1. Cardinality(files') <= Cardinality(Seed)
    BY <1>3, FS_Subset, FilesFinite
  <2> QED
    BY <2>1 DEF LibraryBounded
<1>5. Working'
  <2>1. \A c \in Clients : client[c].pc \notin {"write", "unlink"}
    BY <1>1 DEF Working, Turn
  <2> QED
    BY <2>1 DEF Working
<1>6. ShownImagesStay'
  BY DEF ShownImagesStay
<1> QED
  BY <1>1, <1>2, <1>3, <1>4, <1>5, <1>6 DEF ServerPhases, Unseeded, DeletedStayDeleted

(* The marker is written after the last seed.                                *)
LEMMA WriteMarkerKeeps == LibraryInv /\ WriteMarker => LibraryInv'
<1> SUFFICES ASSUME LibraryInv, WriteMarker PROVE LibraryInv'
  OBVIOUS
<1> USE DEF LibraryInv, WriteMarker
<1>1. LibraryTypeOK'
  BY DEF LibraryTypeOK
<1> QED
  BY <1>1 DEF ServerPhases, Unseeded, Working, Turn, LibraryBounded, DeletedStayDeleted, ShownImagesStay

(* A stop drops the requests in flight; what is on disk stays.               *)
LEMMA HaltKeeps == LibraryInv /\ Halt => LibraryInv'
<1> SUFFICES ASSUME LibraryInv, Halt PROVE LibraryInv'
  OBVIOUS
<1> USE DEF LibraryInv, Halt
<1>1. \A c \in Clients : client'[c] = NoClient /\ client'[c].pc = "idle"
  BY DEF NoClient
<1>2. LibraryTypeOK'
  BY <1>1, NoClientType DEF LibraryTypeOK
<1>3. Working'
  BY <1>1 DEF Working
<1> QED
  BY <1>2, <1>3 DEF ServerPhases, Unseeded, LibraryBounded, DeletedStayDeleted, ShownImagesStay

-----------------------------------------------------------------------------
(* Requests *)

(* A client lines up behind the others.                                      *)
LEMMA AskKeeps ==
    ASSUME LibraryInv, NEW c \in Clients, NEW n \in Names, NEW kind \in {"upload", "remove"}, Ask(c, kind, n)
    PROVE  LibraryInv'
<1> USE DEF LibraryInv
<1> DEFINE asked == [pc |-> "list", kind |-> kind, name |-> n]
<1>1. asked \in Client /\ asked # NoClient /\ asked.pc = "list" /\ asked.name = n
  BY DEF Client, NoClient
<1> HIDE DEF asked
<1>2. client' \in [Clients -> Client] /\ client'[c] = asked /\ \A d \in Clients \ {c} : client'[d] = client[d]
  BY <1>1 DEF Ask, LibraryTypeOK, asked
<1>3. /\ mutations' = Append(mutations, c) /\ mutations' \in Seq(Clients) /\ mutations \in Seq(Clients)
      /\ Len(mutations) \in Nat /\ Len(mutations') = Len(mutations) + 1
      /\ mutations'[Len(mutations) + 1] = c
      /\ \A i \in 1..Len(mutations) : mutations'[i] = mutations[i]
  BY DEF Ask, LibraryTypeOK
<1>4. \A i \in 1..Len(mutations) : mutations[i] # c
  BY DEF Ask, LibraryTypeOK
<1>5. \A i, j \in 1..Len(mutations') : mutations'[i] = mutations'[j] => i = j
  <2>1. \A i, j \in 1..Len(mutations) : mutations[i] = mutations[j] => i = j
    BY DEF LibraryTypeOK
  <2>2. \A i \in 1..Len(mutations') : i \in 1..Len(mutations) \/ i = Len(mutations) + 1
    BY <1>3
  <2> QED
    BY <1>3, <1>4, <2>1, <2>2
<1>6. ASSUME NEW d \in Clients
      PROVE  client'[d] # NoClient <=> \E i \in 1..Len(mutations') : mutations'[i] = d
  <2>1. CASE d = c
    BY <1>1, <1>2, <1>3, <2>1
  <2>2. CASE d # c
    <3>1. client'[d] = client[d] /\ (client[d] # NoClient <=> \E i \in 1..Len(mutations) : mutations[i] = d)
      BY <1>2, <2>2 DEF LibraryTypeOK
    <3>2. \A i \in 1..Len(mutations') : mutations'[i] = d => i \in 1..Len(mutations)
      BY <1>3, <2>2
    <3>3. \A i \in 1..Len(mutations) : i \in 1..Len(mutations')
      BY <1>3
    <3> QED
      BY <1>3, <3>1, <3>2, <3>3
  <2> QED
    BY <2>1, <2>2
<1>7. LibraryTypeOK'
  BY <1>2, <1>3, <1>5, <1>6 DEF LibraryTypeOK, Ask
<1>8. \A d \in Clients : Turn(d) => Turn(d)'
  BY <1>3 DEF Turn
<1>9. Working'
  BY <1>1, <1>2, <1>8 DEF Working, Ask
<1> QED
  BY <1>7, <1>9 DEF Ask, ServerPhases, Unseeded, LibraryBounded, DeletedStayDeleted, ShownImagesStay

(* The client whose turn it is counts the files: nobody changes them         *)
(* meanwhile.                                                                *)
LEMMA ListKeeps == ASSUME LibraryInv, NEW c \in Clients, List(c) PROVE LibraryInv'
<1> USE DEF LibraryInv
<1>1. client[c].pc = "list" /\ Turn(c) /\ UNCHANGED <<files, marker, phase, seeds, image, deleted, late>>
  BY DEF List
<1>2. client[c] \in Client /\ client[c].name \in Names /\ client[c] # NoClient
  BY <1>1 DEF LibraryTypeOK, Working, NoClient
<1>3. \A d \in Clients \ {c} : client[d].pc \notin {"write", "unlink"}
  BY <1>1, HeadAlone
<1>4. phase = "up"
  BY <1>1 DEF ServerPhases, Turn
<1>5. CASE /\ client[c].kind = "upload" /\ ~Full
           /\ client' = [client EXCEPT ![c].pc = "write"] /\ UNCHANGED mutations
  <2>1. client' \in [Clients -> Client] /\ (\A d \in Clients \ {c} : client'[d] = client[d])
        /\ client'[c].pc = "write" /\ client'[c].name = client[c].name
    BY <1>2, <1>5 DEF LibraryTypeOK, Client
  <2>2. client'[c] # NoClient
    BY <2>1 DEF NoClient
  <2>3. LibraryTypeOK'
    BY <1>1, <1>2, <1>5, <2>1, <2>2 DEF LibraryTypeOK
  <2>4. Cardinality(files) < maxImages
    BY <1>5, FilesFinite, LibraryConstants DEF Full
  <2>5. Working'
    BY <1>1, <1>2, <1>3, <1>5, <2>1, <2>4 DEF Working, Turn
  <2> QED
    BY <1>1, <1>4, <1>5, <2>3, <2>5 DEF ServerPhases, Unseeded, LibraryBounded, DeletedStayDeleted, ShownImagesStay
<1>6. CASE /\ client[c].kind # "upload" /\ Removable(client[c].name)
           /\ client' = [client EXCEPT ![c].pc = "unlink"] /\ UNCHANGED mutations
  <2>1. client' \in [Clients -> Client] /\ (\A d \in Clients \ {c} : client'[d] = client[d])
        /\ client'[c].pc = "unlink" /\ client'[c].name = client[c].name
    BY <1>2, <1>6 DEF LibraryTypeOK, Client
  <2>2. client'[c] # NoClient
    BY <2>1 DEF NoClient
  <2>3. LibraryTypeOK'
    BY <1>1, <1>2, <1>6, <2>1, <2>2 DEF LibraryTypeOK
  <2>4. \A v \in Shows : image[v] # client[c].name
    BY <1>6 DEF Removable, UsedBy
  <2>5. Working'
    BY <1>1, <1>2, <1>3, <1>6, <2>1, <2>4 DEF Working, Turn
  <2> QED
    BY <1>1, <1>4, <1>6, <2>3, <2>5 DEF ServerPhases, Unseeded, LibraryBounded, DeletedStayDeleted, ShownImagesStay
<1>7. CASE Settle(c)
  <2>1. LibraryTypeOK'
    BY <1>1, <1>7, SettleType DEF LibraryTypeOK
  <2>2. \A d \in Clients : client'[d].pc \notin {"write", "unlink"}
                           /\ (client'[d].pc # "idle" => client'[d].name \in Names)
    BY <1>1, <1>3, <1>7, SettleType DEF NoClient, Working
  <2>3. Working'
    BY <2>2 DEF Working
  <2> QED
    BY <1>1, <1>4, <2>1, <2>3 DEF ServerPhases, Unseeded, LibraryBounded, DeletedStayDeleted, ShownImagesStay
<1> QED
  BY <1>5, <1>6, <1>7 DEF List

(* WriteNew and Unlink *)
LEMMA ActsAlone ==
    ASSUME LibraryInv, NEW c \in Clients, client[c].pc \in {"write", "unlink"}, Settle(c)
    PROVE  /\ phase = "up" /\ marker /\ client[c].name \in Names
           /\ \A d \in Clients : client'[d].pc \notin {"write", "unlink"}
                                 /\ (client'[d].pc # "idle" => client'[d].name \in Names)
<1> USE DEF LibraryInv
<1>1. Turn(c) /\ client[c].name \in Names
  BY DEF Working
<1>2. phase = "up" /\ marker
  BY <1>1 DEF ServerPhases, Turn
<1>3. \A d \in Clients \ {c} : client[d].pc \notin {"write", "unlink"}
  BY <1>1, HeadAlone
<1>4. client'[c].pc = "idle" /\ \A d \in Clients \ {c} : client'[d] = client[d]
  <2>1. client'[c] = NoClient /\ \A d \in Clients \ {c} : client'[d] = client[d]
    BY <1>1, SettleType
  <2> QED
    BY <2>1 DEF NoClient
<1> QED
  BY <1>1, <1>2, <1>3, <1>4 DEF Working

(* An upload that has counted writes one file more, and gives up its turn.   *)
LEMMA WriteNewKeeps == ASSUME LibraryInv, NEW c \in Clients, WriteNew(c) PROVE LibraryInv'
<1> DEFINE n == client[c].name
<1>1. /\ client[c].pc = "write" /\ Settle(c) /\ files' = files \cup {n} /\ deleted' = deleted \ {n}
      /\ UNCHANGED <<marker, phase, seeds, image, late>>
  BY DEF WriteNew
<1>2. LibraryTypeOK /\ ServerPhases /\ Working /\ DeletedStayDeleted /\ ShownImagesStay
  BY DEF LibraryInv
<1>3. /\ phase = "up" /\ marker /\ n \in Names
      /\ \A d \in Clients : client'[d].pc \notin {"write", "unlink"}
                            /\ (client'[d].pc # "idle" => client'[d].name \in Names)
  BY <1>1, ActsAlone
<1>4. Turn(c) /\ Cardinality(files) < maxImages
  BY <1>1, <1>2 DEF Working
<1> HIDE DEF n
<1>5. LibraryTypeOK'
  BY <1>1, <1>2, <1>3, <1>4, SettleType DEF LibraryTypeOK
<1>6. Cardinality(files') <= maxImages
  <2>1. IsFiniteSet(files) /\ Cardinality(files) \in Nat
    BY <1>2, FilesFinite
  <2>2. Cardinality(files \cup {n}) = IF n \in files THEN Cardinality(files) ELSE Cardinality(files) + 1
    BY <2>1, FS_AddElement
  <2> QED
    BY <1>1, <1>4, <2>1, <2>2, LibraryConstants
<1>7. Working'
  BY <1>3 DEF Working
<1>8. DeletedStayDeleted' /\ ShownImagesStay'
  BY <1>1, <1>2 DEF DeletedStayDeleted, ShownImagesStay
<1> QED
  BY <1>1, <1>3, <1>5, <1>6, <1>7, <1>8 DEF LibraryInv, ServerPhases, Unseeded, LibraryBounded

(* A removal takes one file, which no service showed when it was listed.     *)
LEMMA UnlinkKeeps == ASSUME LibraryInv, NEW c \in Clients, Unlink(c) PROVE LibraryInv'
<1> DEFINE n == client[c].name
<1>1. /\ client[c].pc = "unlink" /\ Settle(c) /\ files' = files \ {n} /\ deleted' = deleted \cup {n}
      /\ UNCHANGED <<marker, phase, seeds, image, late>>
  BY DEF Unlink
<1>2. LibraryTypeOK /\ ServerPhases /\ Working /\ LibraryBounded /\ DeletedStayDeleted /\ ShownImagesStay
  BY DEF LibraryInv
<1>3. /\ phase = "up" /\ marker /\ n \in Names
      /\ \A d \in Clients : client'[d].pc \notin {"write", "unlink"}
                            /\ (client'[d].pc # "idle" => client'[d].name \in Names)
  BY <1>1, ActsAlone
<1>4. Turn(c) /\ \A v \in Shows \ late : image[v] # n
  BY <1>1, <1>2 DEF Working
<1> HIDE DEF n
<1>5. LibraryTypeOK'
  BY <1>1, <1>2, <1>3, <1>4, SettleType DEF LibraryTypeOK
<1>6. LibraryBounded'
  <2>1. files' \in SUBSET files
    BY <1>1
  <2>2. Cardinality(files') <= Cardinality(files) /\ Cardinality(files') \in Nat
    BY <1>2, <2>1, FilesFinite, FS_Subset, FS_CardinalityType
  <2> QED
    BY <1>2, <2>2, FilesFinite, LibraryConstants DEF LibraryBounded
<1>7. Working'
  BY <1>3 DEF Working
<1>8. DeletedStayDeleted' /\ ShownImagesStay'
  BY <1>1, <1>2, <1>4 DEF DeletedStayDeleted, ShownImagesStay
<1> QED
  BY <1>1, <1>3, <1>5, <1>6, <1>7, <1>8 DEF LibraryInv, ServerPhases, Unseeded

(* A service may be given an image that is gone or going, which is noted.    *)
LEMMA SetImageKeeps ==
    ASSUME LibraryInv, NEW v \in Shows, NEW n \in Names \cup {NoImage}, SetImage(v, n) PROVE LibraryInv'
<1> DEFINE gone == n # NoImage /\ (n \notin files \/ \E c \in Clients : client[c].pc = "unlink" /\ client[c].name = n)
<1>1. /\ image' = [image EXCEPT ![v] = n] /\ late' = (IF gone THEN late \cup {v} ELSE late \ {v})
      /\ UNCHANGED <<files, marker, phase, seeds, mutations, client, deleted>>
  BY DEF SetImage
<1>2. LibraryTypeOK /\ ServerPhases /\ Unseeded /\ Working /\ LibraryBounded /\ DeletedStayDeleted /\ ShownImagesStay
  BY DEF LibraryInv
<1>3. image'[v] = n /\ \A w \in Shows \ {v} : image'[w] = image[w] /\ (w \in late' <=> w \in late)
  BY <1>1, <1>2 DEF LibraryTypeOK
<1>4. v \in late' <=> gone
  BY <1>1
<1>5. LibraryTypeOK'
  BY <1>1, <1>2 DEF LibraryTypeOK
<1>6. ShownImagesStay'
  BY <1>1, <1>2, <1>3, <1>4 DEF ShownImagesStay
<1>7. ASSUME NEW c \in Clients, client[c].pc = "unlink", NEW w \in Shows \ late' PROVE image'[w] # client[c].name
  <2>1. client[c].name \in Names /\ client[c].name # NoImage
    BY <1>2, <1>7, LibraryConstants DEF Working
  <2>2. CASE w = v
    BY <1>3, <1>4, <1>7, <2>1, <2>2
  <2>3. CASE w # v
    BY <1>2, <1>3, <1>7, <2>3 DEF Working
  <2> QED
    BY <2>2, <2>3
<1>8. Working'
  BY <1>1, <1>2, <1>7 DEF Working, Turn
<1> QED
  BY <1>1, <1>2, <1>5, <1>6, <1>8 DEF LibraryInv, ServerPhases, Unseeded, LibraryBounded, DeletedStayDeleted

-----------------------------------------------------------------------------
(* Every step of the library keeps the invariant.                            *)
LEMMA LibraryStepKeeps == LibraryInv /\ [LibraryNext]_libraryVars => LibraryInv'
<1> SUFFICES ASSUME LibraryInv, [LibraryNext]_libraryVars PROVE LibraryInv'
  OBVIOUS
<1>1. CASE UNCHANGED libraryVars
  BY <1>1 DEF libraryVars, LibraryInv, LibraryTypeOK, ServerPhases, Unseeded, Working, Turn, LibraryBounded,
              DeletedStayDeleted, ShownImagesStay
<1>2. CASE LibraryNext
  BY <1>2, InitializeKeeps, CopySeedKeeps, WriteMarkerKeeps, HaltKeeps, AskKeeps, ListKeeps, WriteNewKeeps,
     UnlinkKeeps, SetImageKeeps DEF LibraryNext
<1> QED
  BY <1>1, <1>2

(* What the three theorems rest on.                                          *)
LEMMA LibraryInvHolds == LibrarySpec => []LibraryInv
  BY LibraryInitHolds, LibraryStepKeeps, PTL DEF LibrarySpec

(* The chain holds each waiting request once and no other, whatever requests *)
(* come, settle or are lost with the server (exclusive, imageLibrary.service).*)
THEOREM LibraryTypesKept == LibrarySpec => []LibraryTypeOK
<1>1. LibraryInv => LibraryTypeOK
  BY DEF LibraryInv
<1> QED
  BY <1>1, LibraryInvHolds, PTL

(* However many uploads wait together and wherever the server stops, the     *)
(* library stays within its limit or its seeds.                              *)
THEOREM LibraryStaysBounded == LibrarySpec => []LibraryBounded
<1>1. LibraryInv => LibraryBounded
  BY DEF LibraryInv
<1> QED
  BY <1>1, LibraryInvHolds, PTL

(* No start of the server brings a removed image back, not even one that     *)
(* takes up a seeding that was cut short.                                    *)
THEOREM DeletedNeverReturn == LibrarySpec => []DeletedStayDeleted
<1>1. LibraryInv => DeletedStayDeleted
  BY DEF LibraryInv
<1> QED
  BY <1>1, LibraryInvHolds, PTL

(* No removal takes an image from a service that shows it, except one that   *)
(* was given the image after the removal had looked.                         *)
THEOREM ShownImagesAreKept == LibrarySpec => []ShownImagesStay
<1>1. LibraryInv => ShownImagesStay
  BY DEF LibraryInv
<1> QED
  BY <1>1, LibraryInvHolds, PTL

-----------------------------------------------------------------------------
(* The three together *)

(* Every part takes a step of its own or rests. *)
LEMMA PartsAreSteps ==
    [Next]_adminVars => /\ [CatalogNext]_catalogVars /\ [SchedulerNext]_schedulerVars
                        /\ [LibraryNext]_libraryVars
  BY DEF Next, Mirrors, Flags, adminVars

(* All variables of the administration keep their types: the parts that move *)
(* and those that rest behave as each does alone.                            *)
THEOREM AdministrationTypesKept == Spec => []AdministrationTypeOK
<1>1. Spec => CatalogSpec /\ SchedulerSpec /\ LibrarySpec
  <2>1. Init => CatalogInit /\ SchedulerInit /\ LibraryInit
    BY DEF Init
  <2> QED
    BY <2>1, PartsAreSteps, PTL DEF Spec, CatalogSpec, SchedulerSpec, LibrarySpec
<1> QED
  BY <1>1, CatalogTypesKept, SchedulerTypesKept, LibraryTypesKept, PTL DEF AdministrationTypeOK

=============================================================================
