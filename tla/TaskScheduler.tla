---------------------------- MODULE TaskScheduler ----------------------------
(***************************************************************************)
(* SchedulerService: the stored settings of the tasks and the cron jobs    *)
(* that follow them.                                                       *)
(*                                                                         *)
(* The settings of all tasks are one value in the table system_metadata.   *)
(* An update reads that value, changes one task in it, writes it back and  *)
(* then applies the new settings to the job of that task.  What a job runs *)
(* is in SubscriptionLifecycle and Sessions; that cron skips a tick while  *)
(* the callback runs is a property of the library and left out.            *)
(***************************************************************************)
EXTENDS Integers, FiniteSets

CONSTANTS
    Updates,    \* updateTask requests that may be in flight together
    Tasks,      \* the tasks that TaskService declares
    Crons,      \* cron expressions
    DefaultCron,\* the expression in config.defaults
    NoTask,     \* no task
    Patches     \* the updates that are explored, see Patch

(* A patch for one task; a field of the DTO is a set with at most one value. *)
Patch == [task : Tasks, enabled : {{}, {TRUE}, {FALSE}}, cron : {{}} \cup {{c} : c \in Crons}]

ASSUME SchedulerConstants ==
    /\ DefaultCron \in Crons /\ "missing" \notin Crons
    /\ NoTask \notin Tasks
    /\ Patches \subseteq Patch

VARIABLES
    stored,     \* stored[t]: settings in the database, or Missing
    job,        \* job[t]: the cron job of t in the registry
    server,     \* "down", "booting" or "up"
    boot,       \* the settings startAll read, the tasks it has still to start
    update,     \* update[p]: locals of an updateTask request
    raced,      \* history: two updates have overlapped since the server started
    manual      \* history: tasks started or stopped by hand since they were last updated

schedulerVars == <<stored, job, server, boot, update, raced, manual>>

Config == [enabled : BOOLEAN, cron : Crons]

Default == [enabled |-> TRUE, cron |-> DefaultCron]

Missing == [enabled |-> FALSE, cron |-> "missing"]

JobStates == {"none", "active", "stopped"}

Job == [state : JobStates, cron : Crons]

NoJob == [state |-> "none", cron |-> DefaultCron]

Defaults == [t \in Tasks |-> Default]

Update == [pc : {"idle", "set", "apply"}, task : Tasks \cup {NoTask}, config : [Tasks -> Config]]

NoUpdate == [pc |-> "idle", task |-> NoTask, config |-> Defaults]

NoBoot == [left |-> {}, config |-> Defaults]

(* get(), syncDefaults(): what is stored, over the defaults.                 *)
Settings == [t \in Tasks |-> IF stored[t] = Missing THEN Default ELSE stored[t]]

(* The database may be empty or written by a version with fewer tasks.       *)
SchedulerInit ==
    /\ stored \in [Tasks -> {Default, Missing}]
    /\ job = [t \in Tasks |-> NoJob]
    /\ server = "down"
    /\ boot = NoBoot
    /\ update = [p \in Updates |-> NoUpdate]
    /\ raced = FALSE
    /\ manual = {}

-----------------------------------------------------------------------------
(* startAll, stopAll *)

(* ensureSystemConfigExists, syncDefaults and the get that follows them.     *)
StartAll ==
    /\ server = "down"
    /\ server' = "booting"
    /\ stored' = Settings
    /\ boot' = [left |-> Tasks, config |-> Settings]
    /\ UNCHANGED <<job, update, raced, manual>>

(* A disabled task gets no job.  With runOnStartup the next task waits for   *)
(* the first run of this one.                                                *)
StartTask(t) ==
    /\ server = "booting"
    /\ t \in boot.left
    /\ job' = IF boot.config[t].enabled
              THEN [job EXCEPT ![t] = [state |-> "active", cron |-> boot.config[t].cron]]
              ELSE job
    /\ boot' = [boot EXCEPT !.left = @ \ {t}]
    /\ UNCHANGED <<stored, server, update, raced, manual>>

(* The server listens once the bootstrap hooks are done.                     *)
Listen ==
    /\ server = "booting"
    /\ boot.left = {}
    /\ server' = "up"
    /\ boot' = NoBoot
    /\ UNCHANGED <<stored, job, update, raced, manual>>

(* stopAll() or a crash: the registry is lost, and so are requests in flight. *)
Stop ==
    /\ server # "down"
    /\ server' = "down"
    /\ job' = [t \in Tasks |-> NoJob]
    /\ boot' = NoBoot
    /\ update' = [p \in Updates |-> NoUpdate]
    /\ raced' = FALSE
    /\ manual' = {}
    /\ UNCHANGED stored

-----------------------------------------------------------------------------
(* updateTask *)

OneOf(given, default) == IF given = {} THEN default ELSE CHOOSE x \in given : TRUE

Patched(config, patch) ==
    [enabled |-> OneOf(patch.enabled, config.enabled), cron |-> OneOf(patch.cron, config.cron)]

InFlight(p) == update[p].pc # "idle"

UpdateRead(p, patch) ==
    LET t == patch.task IN
    /\ server = "up"
    /\ ~InFlight(p)
    /\ update' = [update EXCEPT ![p] =
                     [pc |-> "set", task |-> t,
                      config |-> [Settings EXCEPT ![t] = Patched(Settings[t], patch)]]]
    /\ raced' = (raced \/ \E q \in Updates : InFlight(q))
    /\ UNCHANGED <<stored, job, server, boot, manual>>

(* set() replaces the whole value, or fails.                                 *)
UpdateSet(p) ==
    /\ update[p].pc = "set"
    /\ \/ /\ stored' = update[p].config
          /\ update' = [update EXCEPT ![p].pc = "apply"]
       \/ /\ update' = [update EXCEPT ![p] = NoUpdate]
          /\ UNCHANGED stored
    /\ UNCHANGED <<job, server, boot, raced, manual>>

(* Mutant: a job that was stopped before gets its time, but is not started. *)
AppliedTimeOnly(old, config) ==
    IF old.state = "none"
    THEN [state |-> IF config.enabled THEN "active" ELSE "stopped", cron |-> config.cron]
    ELSE IF config.enabled THEN [old EXCEPT !.cron = config.cron]
    ELSE [old EXCEPT !.state = "stopped"]

(* applyTaskConfig(): a job that was never created is created now; a         *)
(* disabled one is stopped and keeps its time.                               *)
Applied(old, config) ==
    IF old.state = "none"
    THEN [state |-> IF config.enabled THEN "active" ELSE "stopped", cron |-> config.cron]
    ELSE IF config.enabled THEN [state |-> "active", cron |-> config.cron]
    ELSE [old EXCEPT !.state = "stopped"]

Apply(p) ==
    LET t == update[p].task IN
    /\ update[p].pc = "apply"
    /\ job' = [job EXCEPT ![t] = Applied(job[t], update[p].config[t])]
    /\ update' = [update EXCEPT ![p] = NoUpdate]
    /\ manual' = manual \ {t}
    /\ UNCHANGED <<stored, server, boot, raced>>

(* start(), stop(): the job alone, not its settings.                         *)
StartStop(t, state) ==
    /\ server = "up"
    /\ job[t].state \notin {"none", state}
    /\ job' = [job EXCEPT ![t].state = state]
    /\ manual' = manual \cup {t}
    /\ UNCHANGED <<stored, server, boot, update, raced>>

SchedulerNext ==
    \/ StartAll \/ Listen \/ Stop
    \/ \E t \in Tasks : StartTask(t) \/ StartStop(t, "active") \/ StartStop(t, "stopped")
    \/ \E p \in Updates : UpdateSet(p) \/ Apply(p) \/ (\E patch \in Patches : UpdateRead(p, patch))

SchedulerSpec == SchedulerInit /\ [][SchedulerNext]_schedulerVars

-----------------------------------------------------------------------------
(* Types of all variables.                                                   *)
SchedulerTypeOK ==
    /\ stored \in [Tasks -> Config \cup {Missing}]
    /\ job \in [Tasks -> Job]
    /\ server \in {"down", "booting", "up"}
    /\ boot \in [left : SUBSET Tasks, config : [Tasks -> Config]]
    /\ update \in [Updates -> Update]
    /\ raced \in BOOLEAN /\ manual \subseteq Tasks

(* "Admin API changes take effect immediately without restart" (scheduler.md): *)
(* whatever sequence of updates, failed writes, starts by hand and restarts  *)
(* came before, a job is active if and only if its task is enabled, and      *)
(* fires at the stored times.  Updates that overlap are exempt: the later    *)
(* write undoes the earlier one (scheduler.service 163-172).                 *)
JobsFollowSettings ==
    (server = "up" /\ ~raced /\ \A p \in Updates : ~InFlight(p))
    => \A t \in Tasks \ manual :
          /\ (job[t].state = "active") = stored[t].enabled
          /\ job[t].state = "active" => job[t].cron = stored[t].cron

=============================================================================
