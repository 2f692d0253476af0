--------------------- MODULE SubscriptionLifecycleProofs ---------------------
(***************************************************************************)
(* Type correctness of the subscription lifecycle, that no request can be  *)
(* left without a way out, and the cap on automatic renewals, for any      *)
(* number of handlers, accounts and rows.                                  *)
(***************************************************************************)
EXTENDS SubscriptionLifecycle, TLAPS

-----------------------------------------------------------------------------
(* What the helpers that write proc and sub do to their types. *)

(* The idle process and the missing row are well typed. *)
LEMMA Constants0 == IdleProc \in Proc /\ NoRow \in Row /\ NothingSeen \in [Accounts -> AccountStates]
  BY LifecycleConstants
  DEF IdleProc, Proc, NoRow, Row, NothingSeen, AccountStates, Pcs, Kinds, Statuses

(* A handler that starts with well-typed locals is a well-typed process. *)
LEMMA StartType ==
    ASSUME TypeOK, NEW p \in Procs, NEW kind \in Kinds, NEW pc \in Pcs,
           NEW account \in Accounts \cup {None}, NEW goal \in Statuses, NEW until \in Nat,
           Start(p, kind, pc, account, goal, until)
    PROVE  /\ proc' \in [Procs -> Proc]
           /\ proc' = [proc EXCEPT ![p] = proc'[p]]
           /\ proc[p].pc = "idle"
           /\ proc'[p].pc = pc /\ proc'[p].kind = kind /\ proc'[p].goal = goal
           /\ proc'[p].until = until /\ proc'[p].account = account
  <1> DEFINE r == [IdleProc EXCEPT !.kind = kind, !.pc = pc, !.row = sub.id,
                                   !.account = account, !.goal = goal, !.until = until]
  <1>1. sub.id \in Rows \cup {None}
    BY DEF TypeOK, Row
  <1>2. r \in Proc /\ r.pc = pc /\ r.kind = kind /\ r.goal = goal /\ r.until = until /\ r.account = account
    BY <1>1, Constants0 DEF Proc
  <1>3. proc' = [proc EXCEPT ![p] = r] /\ proc[p].pc = "idle"
    BY DEF Start, At
  <1> HIDE DEF r
  <1> QED BY <1>2, <1>3 DEF TypeOK

(* Moving a program counter keeps every other local. *)
LEMMA GotoType ==
    ASSUME TypeOK, NEW p \in Procs, NEW pc \in Pcs, Goto(p, pc)
    PROVE  /\ proc' \in [Procs -> Proc]
           /\ proc' = [proc EXCEPT ![p] = proc'[p]]
           /\ proc'[p].pc = pc /\ proc'[p].kind = proc[p].kind /\ proc'[p].goal = proc[p].goal
           /\ proc'[p].until = proc[p].until
  <1> DEFINE r == [proc[p] EXCEPT !.pc = pc]
  <1>1. proc[p] \in Proc
    BY DEF TypeOK
  <1>2. r \in Proc /\ r.pc = pc /\ r.kind = proc[p].kind /\ r.goal = proc[p].goal /\ r.until = proc[p].until
    BY <1>1 DEF Proc
  <1>3. proc' = [proc EXCEPT ![p] = r]
    BY DEF Goto
  <1> HIDE DEF r
  <1> QED BY <1>2, <1>3 DEF TypeOK

(* A handler that ends is an idle process. *)
LEMMA DoneType ==
    ASSUME TypeOK, NEW p \in Procs, Done(p)
    PROVE  /\ proc' \in [Procs -> Proc]
           /\ proc' = [proc EXCEPT ![p] = proc'[p]]
           /\ proc'[p] = IdleProc
  BY Constants0 DEF TypeOK, Done

(* A handler that throws ends, and its catch block leaves the row failed or  *)
(* as it was.                                                                *)
LEMMA ThrowType ==
    ASSUME TypeOK, NEW p \in Procs, Throw(p)
    PROVE  /\ proc' \in [Procs -> Proc]
           /\ proc' = [proc EXCEPT ![p] = proc'[p]]
           /\ proc'[p] = IdleProc
           /\ sub' \in Row /\ sub'.id = sub.id
           /\ \/ sub' = sub
              \/ sub'.status = "failed" /\ sub'.failedOp # None
           /\ Exists /\ proc[p].kind \in {"subscribe", "cancel", "disable", "enable", "process"}
                /\ proc[p].pc # "upsert"
                => sub'.status = "failed" /\ sub'.failedOp # None
  <1> DEFINE f == CatchOperation(proc[p].kind)
             failed == [sub EXCEPT !.status = "failed", !.failedOp = f]
  <1>1. f \in FailedOperations \cup {None} /\ sub \in Row
    BY DEF TypeOK, CatchOperation, FailedOperations
  <1>2. failed \in Row /\ failed.id = sub.id /\ failed.status = "failed" /\ failed.failedOp = f
    BY <1>1 DEF Row, Statuses
  <1>3. sub' = IF Exists /\ f # None /\ proc[p].pc # "upsert" THEN failed ELSE sub
    BY DEF Throw, RowAfterThrow, At
  <1>4. proc[p].kind \in {"subscribe", "cancel", "disable", "enable", "process"} => f # None
    BY LifecycleConstants DEF CatchOperation, FailedOperations
  <1>5. Done(p)
    BY DEF Throw
  <1>6. /\ proc' \in [Procs -> Proc]
        /\ proc' = [proc EXCEPT ![p] = proc'[p]]
        /\ proc'[p] = IdleProc
    BY <1>5, DoneType
  <1> HIDE DEF f, failed
  <1> QED BY <1>1, <1>2, <1>3, <1>4, <1>6

-----------------------------------------------------------------------------
(* The inductive invariant. *)

Transitional == {"provisioning", "cancelling", "disabling", "enabling"}

Settled == {"active", "disabled", "expired", "cancelled"}

(* What the locals of a handler are worth: its kind fits its program counter *)
(* and the status it will write is a settled one.                            *)
Local(q) ==
    /\ q.pc \in {"upsert", "provision", "link", "activate"} => q.kind = "subscribe"
    /\ q.pc = "mark" => q.kind \in {"cancel", "disable", "enable"}
    /\ q.pc = "context" => q.kind \in {"cancel", "suspend", "process"}
    /\ q.pc \in {"vendorDisable", "settle", "prune", "vendorEnable"} => q.goal \in Settled
    /\ q.pc = "mark" /\ q.kind # "cancel" => q.goal \in Settled
    /\ q.pc = "context" /\ q.kind # "cancel" => q.goal \in Settled
    /\ q.pc \in {"prune", "vendorEnable"} => q.kind \in {"enable", "retry"}
    /\ q.pc \in {"list", "reconcile", "flag", "sweep"} => q.kind \in {"sync", "cleanup"}

Locals == \A p \in Procs : Local(proc[p])

(* A run of processSubscriptions renews from an expiry that has passed.      *)
RenewsOverdue == \A p \in Procs : proc[p].kind = "process" => proc[p].until <= now

NoneHasNoStatus == ~Exists => sub.status = "none"

FailedNamesOperation == sub.status = "failed" => sub.failedOp # None

Owned == sub.status \in Transitional => \E p \in Procs : Resolves(proc[p], sub.status)

IndInv ==
    /\ TypeOK
    /\ Locals
    /\ RenewsOverdue
    /\ NoneHasNoStatus
    /\ FailedNamesOperation
    /\ "crash" \notin Failures => Owned

(* An idle process has nothing to say. *)
LEMMA IdleLocal == Local(IdleProc)
  BY DEF Local, IdleProc

(* A step of one handler preserves the locals of all handlers if it          *)
(* preserves its own.                                                        *)
LEMMA LocalsStep ==
    ASSUME TypeOK, Locals, NEW p \in Procs,
           proc' = [proc EXCEPT ![p] = proc'[p]], Local(proc'[p])
    PROVE  Locals'
  <1> SUFFICES ASSUME NEW q \in Procs PROVE Local(proc'[q])
    BY DEF Locals
  <1>1. CASE q = p
    BY <1>1
  <1>2. CASE q # p
    <2>1. proc'[q] = proc[q] /\ Local(proc[q])
      BY <1>2 DEF TypeOK, Locals
    <2> QED BY <2>1
  <1> QED BY <1>1, <1>2

(* The same of the expiries that runs of processSubscriptions hold.          *)
LEMMA RenewsStep ==
    ASSUME TypeOK, RenewsOverdue, NEW p \in Procs, now' = now,
           proc' = [proc EXCEPT ![p] = proc'[p]],
           proc'[p].kind = "process" => proc'[p].until <= now
    PROVE  RenewsOverdue'
  <1> SUFFICES ASSUME NEW q \in Procs, proc'[q].kind = "process" PROVE proc'[q].until <= now
    BY DEF RenewsOverdue
  <1>1. CASE q = p
    BY <1>1
  <1>2. CASE q # p
    <2>1. proc'[q] = proc[q]
      BY <1>2 DEF TypeOK
    <2> QED BY <2>1 DEF RenewsOverdue
  <1> QED BY <1>1, <1>2

(* A step of handler p keeps every transitional status owned if it writes    *)
(* none that it does not resolve itself, and does not drop one it resolves.  *)
LEMMA OwnedStep ==
    ASSUME TypeOK, Owned, NEW p \in Procs,
           proc' = [proc EXCEPT ![p] = proc'[p]],
           sub'.status \in Transitional =>
              \/ Resolves(proc'[p], sub'.status)
              \/ sub'.status = sub.status /\ ~Resolves(proc[p], sub.status)
    PROVE  Owned'
  <1> SUFFICES ASSUME sub'.status \in Transitional
               PROVE  \E q \in Procs : Resolves(proc'[q], sub'.status)
    BY DEF Owned, Transitional
  <1>1. CASE Resolves(proc'[p], sub'.status)
    BY <1>1
  <1>2. CASE sub'.status = sub.status /\ ~Resolves(proc[p], sub.status)
    <2>1. PICK q \in Procs : Resolves(proc[q], sub.status)
      BY <1>2 DEF Owned
    <2>2. q # p
      BY <2>1, <1>2
    <2>3. proc'[q] = proc[q]
      BY <2>2 DEF TypeOK
    <2> QED BY <2>1, <2>3, <1>2
  <1> QED BY <1>1, <1>2

(* A step of handler p preserves the invariant if it does so for its locals  *)
(* and for the row it leaves.                                                *)
LEMMA HandlerStep ==
    ASSUME IndInv, NEW p \in Procs, now' = now,
           proc' \in [Procs -> Proc], proc' = [proc EXCEPT ![p] = proc'[p]],
           Local(proc'[p]), proc'[p].kind = "process" => proc'[p].until <= now,
           sub' \in Row, used' \subseteq Rows, vendor' \in [Accounts -> AccountStates],
           allowed' \in BOOLEAN, asked' \subseteq Rows \cup {None},
           sub'.id = None => sub'.status = "none",
           sub'.status = "failed" => sub'.failedOp # None,
           sub'.status \in Transitional =>
              \/ Resolves(proc'[p], sub'.status)
              \/ sub'.status = sub.status /\ ~Resolves(proc[p], sub.status)
    PROVE  IndInv'
  <1>0. TypeOK /\ Locals /\ RenewsOverdue
    BY DEF IndInv
  <1>1. TypeOK'
    BY <1>0 DEF TypeOK
  <1>2. Locals'
    BY <1>0, LocalsStep
  <1>3. RenewsOverdue'
    BY <1>0, RenewsStep
  <1>4. NoneHasNoStatus' /\ FailedNamesOperation'
    BY DEF NoneHasNoStatus, FailedNamesOperation, Exists
  <1>5. "crash" \notin Failures => Owned'
    BY <1>0, OwnedStep DEF IndInv
  <1> QED BY <1>1, <1>2, <1>3, <1>4, <1>5 DEF IndInv

(* A handler starts: nothing but its locals changes.                         *)
LEMMA StartStep ==
    ASSUME IndInv, NEW p \in Procs, NEW kind \in Kinds, NEW pc \in Pcs,
           NEW account \in Accounts \cup {None}, NEW goal \in Statuses, NEW until \in Nat,
           Start(p, kind, pc, account, goal, until),
           UNCHANGED <<now, sub, used, vendor, allowed, asked>>,
           \A q \in Proc : q.pc = pc /\ q.kind = kind /\ q.goal = goal => Local(q),
           kind = "process" => until <= now
    PROVE  IndInv'
  <1>0. TypeOK
    BY DEF IndInv
  <1>1. /\ proc' \in [Procs -> Proc]
        /\ proc' = [proc EXCEPT ![p] = proc'[p]]
        /\ proc[p].pc = "idle"
        /\ proc'[p].pc = pc /\ proc'[p].kind = kind /\ proc'[p].goal = goal
        /\ proc'[p].until = until
    BY <1>0, StartType
  <1>2. Local(proc'[p])
    BY <1>1
  <1>3. ~Resolves(proc[p], sub.status)
    BY <1>1 DEF Resolves
  <1>4. /\ sub' \in Row /\ used' \subseteq Rows /\ vendor' \in [Accounts -> AccountStates]
        /\ allowed' \in BOOLEAN /\ asked' \subseteq Rows \cup {None}
    BY <1>0 DEF TypeOK
  <1>5. (sub'.id = None => sub'.status = "none") /\ (sub'.status = "failed" => sub'.failedOp # None)
    BY DEF IndInv, NoneHasNoStatus, FailedNamesOperation, Exists
  <1> QED BY <1>1, <1>2, <1>3, <1>4, <1>5, HandlerStep

(* A handler moves on, and leaves a row that it still resolves or that it    *)
(* has nothing to do with.                                                   *)
LEMMA GotoStep ==
    ASSUME IndInv, NEW p \in Procs, NEW pc \in Pcs, Goto(p, pc),
           UNCHANGED <<now, used, allowed>>,
           sub' \in Row, vendor' \in [Accounts -> AccountStates], asked' \subseteq Rows \cup {None},
           sub'.id = None => sub'.status = "none",
           sub'.status = "failed" => sub'.failedOp # None,
           \A q \in Proc : q.pc = pc /\ q.kind = proc[p].kind /\ q.goal = proc[p].goal =>
              /\ Local(q)
              /\ sub'.status \in Transitional =>
                   \/ Resolves(q, sub'.status)
                   \/ sub'.status = sub.status /\ ~Resolves(proc[p], sub.status)
    PROVE  IndInv'
  <1>0. TypeOK /\ RenewsOverdue
    BY DEF IndInv
  <1>1. /\ proc' \in [Procs -> Proc]
        /\ proc' = [proc EXCEPT ![p] = proc'[p]]
        /\ proc'[p].pc = pc /\ proc'[p].kind = proc[p].kind /\ proc'[p].goal = proc[p].goal
        /\ proc'[p].until = proc[p].until
    BY <1>0, GotoType
  <1>2. Local(proc'[p])
    BY <1>1
  <1>3. proc'[p].kind = "process" => proc'[p].until <= now
    BY <1>0, <1>1 DEF RenewsOverdue
  <1>4. used' \subseteq Rows /\ allowed' \in BOOLEAN
    BY <1>0 DEF TypeOK
  <1>5. sub'.status \in Transitional =>
              \/ Resolves(proc'[p], sub'.status)
              \/ sub'.status = sub.status /\ ~Resolves(proc[p], sub.status)
    BY <1>1
  <1> QED BY <1>1, <1>2, <1>3, <1>4, <1>5, HandlerStep

(* A handler ends, and leaves no transitional status of its own.             *)
LEMMA DoneStep ==
    ASSUME IndInv, NEW p \in Procs, Done(p), UNCHANGED <<now, used, allowed, asked>>,
           sub' \in Row, vendor' \in [Accounts -> AccountStates],
           sub'.id = None => sub'.status = "none",
           sub'.status = "failed" => sub'.failedOp # None,
           sub'.status \in Transitional =>
              sub'.status = sub.status /\ ~Resolves(proc[p], sub.status)
    PROVE  IndInv'
  <1>0. TypeOK
    BY DEF IndInv
  <1>1. /\ proc' \in [Procs -> Proc]
        /\ proc' = [proc EXCEPT ![p] = proc'[p]]
        /\ proc'[p] = IdleProc
    BY <1>0, DoneType
  <1>2. Local(proc'[p]) /\ proc'[p].kind # "process"
    BY <1>1, IdleLocal DEF IdleProc
  <1>3. /\ used' \subseteq Rows
        /\ allowed' \in BOOLEAN /\ asked' \subseteq Rows \cup {None}
    BY <1>0 DEF TypeOK
  <1> QED BY <1>1, <1>2, <1>3, HandlerStep

(* A handler throws.  When it resolved the row's status, its catch block     *)
(* leaves the row failed.                                                    *)
LEMMA ThrowStep ==
    ASSUME IndInv, NEW p \in Procs, Throw(p), UNCHANGED <<now, used, allowed>>,
           vendor' \in [Accounts -> AccountStates], asked' \subseteq Rows \cup {None}
    PROVE  IndInv'
  <1>0. TypeOK /\ NoneHasNoStatus /\ FailedNamesOperation
    BY DEF IndInv
  <1>1. /\ proc' \in [Procs -> Proc]
        /\ proc' = [proc EXCEPT ![p] = proc'[p]]
        /\ proc'[p] = IdleProc
        /\ sub' \in Row /\ sub'.id = sub.id
        /\ \/ sub' = sub
           \/ sub'.status = "failed" /\ sub'.failedOp # None
        /\ Exists /\ proc[p].kind \in {"subscribe", "cancel", "disable", "enable", "process"}
             /\ proc[p].pc # "upsert"
             => sub'.status = "failed" /\ sub'.failedOp # None
    BY <1>0, ThrowType
  <1>2. Local(proc'[p]) /\ proc'[p].kind # "process"
    BY <1>1, IdleLocal DEF IdleProc
  <1>3. used' \subseteq Rows /\ allowed' \in BOOLEAN
    BY <1>0 DEF TypeOK
  <1>4. sub'.status = "failed" => sub'.failedOp # None
    BY <1>0, <1>1 DEF FailedNamesOperation
  <1>5. ASSUME sub'.status \in Transitional
        PROVE  sub'.status = sub.status /\ ~Resolves(proc[p], sub.status)
    <2>1. sub' = sub /\ sub.status # "none"
      BY <1>1, <1>5 DEF Transitional
    <2>2. Exists
      BY <2>1, <1>0 DEF NoneHasNoStatus
    <2>3. sub'.status # "failed"
      BY <1>5 DEF Transitional
    <2>4. ASSUME Resolves(proc[p], sub.status) PROVE FALSE
      <3>1. proc[p].kind \in {"subscribe", "cancel", "disable", "enable"} /\ proc[p].pc # "upsert"
        BY <2>4 DEF Resolves
      <3> QED BY <3>1, <2>2, <2>3, <1>1
    <2> QED BY <2>1, <2>4
  <1>6. sub'.id = None => sub'.status = "none"
    <2>1. CASE sub' = sub
      BY <2>1, <1>0 DEF NoneHasNoStatus, Exists
    <2>2. CASE sub' # sub
      <3>1. sub.id # None
        BY <2>2 DEF Throw, RowAfterThrow, Exists
      <3> QED BY <3>1, <1>1
    <2> QED BY <2>1, <2>2
  <1> QED BY <1>1, <1>2, <1>3, <1>4, <1>5, <1>6, HandlerStep

-----------------------------------------------------------------------------
(* One step per action. *)

(* The kinds, counters and statuses that the actions name.                   *)
LEMMA Names ==
    /\ {"subscribe", "cancel", "disable", "enable", "suspend", "retry", "renew", "process", "sync", "cleanup"}
          \subseteq Kinds
    /\ {"upsert", "provision", "link", "activate", "cascade", "mark", "context", "deprovision", "remove",
        "vendorDisable", "prune", "vendorEnable", "settle", "probe", "extend", "list", "reconcile", "flag",
        "sweep"} \subseteq Pcs
    /\ {"none", "active", "disabled", "expired", "cancelled"} \subseteq Statuses
  BY DEF Kinds, Pcs, Statuses

(* The reads that start a request preserve the invariant.                    *)
LEMMA RequestPreserves ==
    ASSUME IndInv, NEW p \in Procs, Request(p)
    PROVE  IndInv'
  <1>0. /\ TypeOK /\ sub.account \in Accounts \cup {None} /\ None \in Accounts \cup {None}
        /\ 0 \in Nat /\ sub.expiresAt \in Nat /\ now \in Nat
    BY DEF IndInv, TypeOK, Row
  <1>1. CASE SubscribeRead(p)
    <2>1. PICK account \in Accounts \cup {None} : Start(p, "subscribe", "upsert", account, "active", 0)
      BY <1>0, <1>1 DEF SubscribeRead
    <2>2. \A q \in Proc : q.pc = "upsert" /\ q.kind = "subscribe" /\ q.goal = "active" => Local(q)
      BY DEF Local
    <2>3. UNCHANGED <<now, sub, used, vendor, allowed, asked>>
      BY <1>1 DEF SubscribeRead
    <2>4. "subscribe" \in Kinds /\ "upsert" \in Pcs /\ "active" \in Statuses
      BY Names
    <2> QED BY <1>0, <2>1, <2>2, <2>3, <2>4, StartStep
  <1>2. CASE CancelRead(p)
    <2>1. \A q \in Proc : q.pc = "mark" /\ q.kind = "cancel" /\ q.goal = "none" => Local(q)
      BY DEF Local
    <2>2. Start(p, "cancel", "mark", None, "none", 0) /\ UNCHANGED <<now, sub, used, vendor, allowed, asked>>
      BY <1>2 DEF CancelRead
    <2>3. "cancel" \in Kinds /\ "mark" \in Pcs /\ "none" \in Statuses
      BY Names
    <2> QED BY <1>0, <2>1, <2>2, <2>3, StartStep
  <1>3. CASE SetPolicy(p)
    <2> DEFINE r == [IdleProc EXCEPT !.kind = "cancel", !.pc = "mark", !.row = sub.id]
    <2>1. r \in Proc /\ r.kind = "cancel" /\ r.pc = "mark"
      BY <1>0, Constants0, Names DEF Proc, TypeOK, Row
    <2>2. Local(r)
      BY <2>1 DEF Local
    <2>3. /\ proc[p].pc = "idle" /\ allowed' \in BOOLEAN /\ UNCHANGED <<now, sub, used, vendor, asked>>
          /\ proc' = [proc EXCEPT ![p] = r] \/ proc' = proc
      BY <1>3, <1>0 DEF SetPolicy, At, TypeOK
    <2> HIDE DEF r
    <2>4. /\ proc' \in [Procs -> Proc] /\ proc' = [proc EXCEPT ![p] = proc'[p]]
          /\ proc'[p] = r \/ proc'[p] = proc[p]
      BY <2>1, <2>3, <1>0 DEF TypeOK
    <2>5. Local(proc'[p]) /\ (proc'[p].kind = "process" => proc'[p].until <= now)
      BY <2>1, <2>2, <2>4 DEF IndInv, Locals, RenewsOverdue
    <2>6. ~Resolves(proc[p], sub.status)
      BY <2>3 DEF Resolves
    <2>7. /\ sub' \in Row /\ used' \subseteq Rows /\ vendor' \in [Accounts -> AccountStates]
          /\ asked' \subseteq Rows \cup {None}
      BY <1>0, <2>3 DEF TypeOK
    <2>8. (sub'.id = None => sub'.status = "none") /\ (sub'.status = "failed" => sub'.failedOp # None)
      BY <2>3 DEF IndInv, NoneHasNoStatus, FailedNamesOperation, Exists
    <2> QED BY <2>3, <2>4, <2>5, <2>6, <2>7, <2>8, HandlerStep
  <1>4. CASE DisableRead(p)
    <2>1. \A q \in Proc : q.pc = "mark" /\ q.kind = "disable" /\ q.goal = "disabled" => Local(q)
      BY DEF Local, Settled
    <2>2. Start(p, "disable", "mark", sub.account, "disabled", 0) /\ UNCHANGED <<now, sub, used, vendor, allowed, asked>>
      BY <1>4 DEF DisableRead
    <2>3. "disable" \in Kinds /\ "mark" \in Pcs /\ "disabled" \in Statuses
      BY Names
    <2> QED BY <1>0, <2>1, <2>2, <2>3, StartStep
  <1>5. CASE EnableRead(p)
    <2>1. \A q \in Proc : q.pc = "mark" /\ q.kind = "enable" /\ q.goal = "active" => Local(q)
      BY DEF Local, Settled
    <2>2. Start(p, "enable", "mark", sub.account, "active", 0) /\ UNCHANGED <<now, sub, used, vendor, allowed, asked>>
      BY <1>5 DEF EnableRead
    <2>3. "enable" \in Kinds /\ "mark" \in Pcs /\ "active" \in Statuses
      BY Names
    <2> QED BY <1>0, <2>1, <2>2, <2>3, StartStep
  <1>6. CASE SuspendRead(p)
    <2>1. \A q \in Proc : q.pc = "context" /\ q.kind = "suspend" /\ q.goal = "disabled" => Local(q)
      BY DEF Local, Settled
    <2>2. Start(p, "suspend", "context", None, "disabled", 0) /\ UNCHANGED <<now, sub, used, vendor, allowed, asked>>
      BY <1>6 DEF SuspendRead
    <2>3. "suspend" \in Kinds /\ "context" \in Pcs /\ "disabled" \in Statuses
      BY Names
    <2> QED BY <1>0, <2>1, <2>2, <2>3, StartStep
  <1>7. CASE RetryRead(p)
    <2>1. UNCHANGED <<now, sub, used, vendor, allowed, asked>>
      BY <1>7 DEF RetryRead
    <2>2. CASE Start(p, "retry", "deprovision", sub.account, "none", 0)
      <3>1. \A q \in Proc : q.pc = "deprovision" /\ q.kind = "retry" /\ q.goal = "none" => Local(q)
        BY DEF Local
      <3>2. "retry" \in Kinds /\ "deprovision" \in Pcs /\ "none" \in Statuses
        BY Names
      <3> QED BY <1>0, <2>1, <2>2, <3>1, <3>2, StartStep
    <2>3. CASE Start(p, "retry", "vendorDisable", sub.account, "expired", 0)
      <3>1. \A q \in Proc : q.pc = "vendorDisable" /\ q.kind = "retry" /\ q.goal = "expired" => Local(q)
        BY DEF Local, Settled
      <3>2. "retry" \in Kinds /\ "vendorDisable" \in Pcs /\ "expired" \in Statuses
        BY Names
      <3> QED BY <1>0, <2>1, <2>3, <3>1, <3>2, StartStep
    <2>4. CASE Start(p, "retry", "probe", sub.account, "none", 0)
      <3>1. \A q \in Proc : q.pc = "probe" /\ q.kind = "retry" /\ q.goal = "none" => Local(q)
        BY DEF Local
      <3>2. "retry" \in Kinds /\ "probe" \in Pcs /\ "none" \in Statuses
        BY Names
      <3> QED BY <1>0, <2>1, <2>4, <3>1, <3>2, StartStep
    <2> QED BY <1>7, <2>2, <2>3, <2>4 DEF RetryRead
  <1>8. CASE RenewRead(p)
    <2> DEFINE until == (IF sub.expiresAt > now THEN sub.expiresAt ELSE now) + Period
    <2>1. \A q \in Proc : q.pc = "extend" /\ q.kind = "renew" /\ q.goal = "none" => Local(q)
      BY DEF Local
    <2>2. Start(p, "renew", "extend", None, "none", until) /\ UNCHANGED <<now, sub, used, vendor, allowed, asked>>
      BY <1>8 DEF RenewRead
    <2>3. until \in Nat
      BY <1>0, LifecycleConstants
    <2> HIDE DEF until
    <2>4. "renew" \in Kinds /\ "extend" \in Pcs /\ "none" \in Statuses
      BY Names
    <2> QED BY <1>0, <2>1, <2>2, <2>3, <2>4, StartStep
  <1> QED BY <1>1, <1>2, <1>3, <1>4, <1>5, <1>6, <1>7, <1>8 DEF Request

(* The reads that start a task preserve the invariant: processSubscriptions  *)
(* renews only from an expiry that has passed.                               *)
LEMMA TaskPreserves ==
    ASSUME IndInv, NEW p \in Procs, Task(p)
    PROVE  IndInv'
  <1>0. /\ TypeOK /\ sub.account \in Accounts \cup {None} /\ None \in Accounts \cup {None}
        /\ 0 \in Nat /\ sub.expiresAt \in Nat /\ now \in Nat /\ sub.status \in Statuses
    BY DEF IndInv, TypeOK, Row
  <1>1. CASE ProcessRead(p)
    <2>1. UNCHANGED <<now, sub, used, vendor, allowed, asked>> /\ sub.expiresAt <= now
      BY <1>1 DEF ProcessRead
    <2>2. CASE Start(p, "process", "extend", None, "none", sub.expiresAt)
      <3>1. \A q \in Proc : q.pc = "extend" /\ q.kind = "process" /\ q.goal = "none" => Local(q)
        BY DEF Local
      <3>2. "process" \in Kinds /\ "extend" \in Pcs /\ "none" \in Statuses
        BY Names
      <3> QED BY <1>0, <2>1, <2>2, <3>1, <3>2, StartStep
    <2>3. CASE Start(p, "process", "context", None, "expired", 0)
      <3>1. \A q \in Proc : q.pc = "context" /\ q.kind = "process" /\ q.goal = "expired" => Local(q)
        BY DEF Local, Settled
      <3>2. 0 <= now
        BY <1>0
      <3>3. "process" \in Kinds /\ "context" \in Pcs /\ "expired" \in Statuses
        BY Names
      <3> QED BY <1>0, <2>1, <2>3, <3>1, <3>2, <3>3, StartStep
    <2> QED BY <1>1, <2>2, <2>3 DEF ProcessRead
  <1>2. ASSUME NEW kind \in {"sync", "cleanup"}, TaskLoad(p, kind)
        PROVE  IndInv'
    <2>1. Start(p, kind, "list", sub.account, sub.status, 0) /\ UNCHANGED <<now, sub, used, vendor, allowed, asked>>
      BY <1>2 DEF TaskLoad
    <2>2. \A q \in Proc : q.pc = "list" /\ q.kind = kind /\ q.goal = sub.status => Local(q)
      BY DEF Local
    <2>3. kind \in Kinds /\ kind # "process"
      BY Names
    <2>4. "list" \in Pcs
      BY Names
    <2> QED BY <1>0, <2>1, <2>2, <2>3, <2>4, StartStep
  <1> QED BY <1>1, <1>2 DEF Task

(* subscribe: the row that upsertProvisioning leaves in provisioning stays   *)
(* with the handler until activate replaces the status.                      *)
LEMMA SubscribePreserves ==
    ASSUME IndInv, NEW p \in Procs,
           UpsertProvisioning(p) \/ Provision(p) \/ LinkAccount(p) \/ Activate(p) \/ Cascade(p)
    PROVE  IndInv'
  <1>0. /\ TypeOK /\ sub \in Row /\ vendor \in [Accounts -> AccountStates] /\ now \in Nat
        /\ used \subseteq Rows /\ allowed \in BOOLEAN /\ asked \subseteq Rows \cup {None}
        /\ proc[p] \in Proc /\ Local(proc[p])
        /\ (sub.id = None => sub.status = "none") /\ (sub.status = "failed" => sub.failedOp # None)
        /\ proc[p].kind = "process" => proc[p].until <= now
    BY DEF IndInv, TypeOK, Locals, NoneHasNoStatus, FailedNamesOperation, Exists, RenewsOverdue
  <1>1. CASE UpsertProvisioning(p)
    <2>0. /\ proc[p].pc = "upsert" /\ proc[p].kind = "subscribe"
          /\ UNCHANGED <<now, vendor, allowed, asked>>
      BY <1>0, <1>1 DEF UpsertProvisioning, At, Local
    <2>1. CASE Done(p) /\ UNCHANGED <<sub, used>>
      <3>1. ~Resolves(proc[p], sub.status)
        BY <2>0 DEF Resolves
      <3> QED BY <1>0, <2>0, <2>1, <3>1, DoneStep
    <2>2. CASE /\ \/ /\ ~Exists
                     /\ \E id \in Rows \ used, auto \in BOOLEAN :
                          /\ sub' = [[NoRow EXCEPT !.id = id] EXCEPT !.status = "provisioning",
                                        !.expiresAt = now + Period, !.autoRenew = auto]
                          /\ used' = used \cup {id}
                  \/ /\ Exists
                     /\ \E auto \in BOOLEAN :
                          sub' = [sub EXCEPT !.status = "provisioning", !.expiresAt = now + Period,
                                             !.autoRenew = auto]
                     /\ UNCHANGED used
               /\ proc' = [proc EXCEPT ![p].pc = "provision", ![p].row = sub'.id]
      <3>1. now + Period \in Nat /\ "provisioning" \in Statuses
        BY <1>0, LifecycleConstants DEF Statuses
      <3>2. sub' \in Row /\ sub'.status = "provisioning" /\ sub'.id \in Rows /\ used' \subseteq Rows
        <4>1. CASE ~Exists
          <5>1. PICK id \in Rows \ used, auto \in BOOLEAN :
                    /\ sub' = [[NoRow EXCEPT !.id = id] EXCEPT !.status = "provisioning",
                                  !.expiresAt = now + Period, !.autoRenew = auto]
                    /\ used' = used \cup {id}
            BY <2>2, <4>1
          <5>2. NoRow \in Row
            BY Constants0
          <5> QED BY <1>0, <3>1, <5>1, <5>2 DEF Row
        <4>2. CASE Exists
          <5>1. PICK auto \in BOOLEAN : sub' = [sub EXCEPT !.status = "provisioning", !.expiresAt = now + Period,
                                             !.autoRenew = auto]
            BY <2>2, <4>2
          <5> QED BY <1>0, <2>2, <3>1, <4>2, <5>1 DEF Row, Exists
        <4> QED BY <4>1, <4>2
      <3> DEFINE r == [proc[p] EXCEPT !.pc = "provision", !.row = sub'.id]
      <3>3. r \in Proc /\ r.pc = "provision" /\ r.kind = "subscribe"
        BY <1>0, <2>0, <3>2, Names DEF Proc
      <3>4. proc' = [proc EXCEPT ![p] = r]
        BY <2>2, <1>0 DEF TypeOK
      <3> HIDE DEF r
      <3>5. proc' \in [Procs -> Proc] /\ proc' = [proc EXCEPT ![p] = proc'[p]] /\ proc'[p] = r
        BY <1>0, <3>3, <3>4 DEF TypeOK
      <3>6. Local(proc'[p]) /\ proc'[p].kind # "process" /\ Resolves(proc'[p], "provisioning")
        BY <3>3, <3>5 DEF Local, Resolves
      <3>7. sub'.id # None
        BY <3>2, LifecycleConstants
      <3> QED BY <1>0, <2>0, <3>2, <3>5, <3>6, <3>7, HandlerStep
    <2> QED BY <1>1, <2>1, <2>2 DEF UpsertProvisioning
  <1>2. CASE Provision(p)
    <2>0. /\ proc[p].pc = "provision" /\ proc[p].kind = "subscribe"
          /\ UNCHANGED <<now, used, allowed, asked>>
      BY <1>0, <1>2 DEF Provision, At, Local
    <2>1. vendor' \in [Accounts -> AccountStates]
      <3>1. \A a \in Accounts : [vendor EXCEPT ![a] = "on"] \in [Accounts -> AccountStates]
        BY <1>0 DEF AccountStates
      <3>2. proc[p].account # None => proc[p].account \in Accounts
        BY <1>0 DEF Proc
      <3>3. vendor' = vendor \/ \E a \in Accounts : vendor' = [vendor EXCEPT ![a] = "on"]
        BY <1>2, <3>2 DEF Provision
      <3> QED BY <1>0, <3>1, <3>3
    <2>2. CASE Throw(p)
      BY <1>0, <2>0, <2>1, <2>2, ThrowStep
    <2>3. CASE Goto(p, "link") /\ UNCHANGED sub
      <3>1. \A q \in Proc : q.pc = "link" /\ q.kind = proc[p].kind /\ q.goal = proc[p].goal =>
               /\ Local(q)
               /\ sub.status \in Transitional => Resolves(q, sub.status) \/ ~Resolves(proc[p], sub.status)
        BY <2>0 DEF Local, Resolves
      <3> QED BY <1>0, <2>0, <2>1, <2>3, <3>1, Names, GotoStep
    <2>4. CASE UNCHANGED sub /\ \E a \in Accounts : proc' = [proc EXCEPT ![p].pc = "link", ![p].account = a]
      <3>1. PICK a \in Accounts : proc' = [proc EXCEPT ![p].pc = "link", ![p].account = a]
        BY <2>4
      <3> DEFINE r == [proc[p] EXCEPT !.pc = "link", !.account = a]
      <3>2. r \in Proc /\ r.pc = "link" /\ r.kind = "subscribe"
        BY <1>0, <2>0, Names DEF Proc
      <3>3. proc' = [proc EXCEPT ![p] = r]
        BY <3>1, <1>0 DEF TypeOK
      <3> HIDE DEF r
      <3>4. proc' \in [Procs -> Proc] /\ proc' = [proc EXCEPT ![p] = proc'[p]] /\ proc'[p] = r
        BY <1>0, <3>2, <3>3 DEF TypeOK
      <3>5. Local(proc'[p]) /\ proc'[p].kind # "process"
        BY <3>2, <3>4 DEF Local
      <3>6. Resolves(proc'[p], sub.status) \/ ~Resolves(proc[p], sub.status)
        BY <2>0, <3>2, <3>4 DEF Resolves
      <3> QED BY <1>0, <2>0, <2>1, <2>4, <3>4, <3>5, <3>6, HandlerStep
    <2> QED BY <1>2, <2>2, <2>3, <2>4 DEF Provision
  <1>3. CASE LinkAccount(p)
    <2>0. /\ proc[p].pc = "link" /\ proc[p].kind = "subscribe"
          /\ UNCHANGED <<now, used, vendor, allowed, asked>>
      BY <1>0, <1>3 DEF LinkAccount, At, Local
    <2>1. CASE Throw(p)
      BY <1>0, <2>0, <2>1, ThrowStep
    <2>2. CASE sub' = [sub EXCEPT !.account = proc[p].account] /\ Goto(p, "activate")
      <3>1. /\ sub' \in Row /\ sub'.status = sub.status /\ sub'.id = sub.id /\ sub'.failedOp = sub.failedOp
        BY <1>0, <2>2 DEF Row, Proc
      <3>2. \A q \in Proc : q.pc = "activate" /\ q.kind = proc[p].kind /\ q.goal = proc[p].goal =>
               /\ Local(q)
               /\ sub.status \in Transitional => Resolves(q, sub.status) \/ ~Resolves(proc[p], sub.status)
        BY <2>0 DEF Local, Resolves
      <3> QED BY <1>0, <2>0, <2>2, <3>1, <3>2, Names, GotoStep
    <2> QED BY <1>3, <2>1, <2>2 DEF LinkAccount
  <1>4. CASE Activate(p)
    <2>0. /\ proc[p].pc = "activate" /\ proc[p].kind = "subscribe"
          /\ UNCHANGED <<now, used, vendor, allowed, asked>>
      BY <1>0, <1>4 DEF Activate, At, Local
    <2>1. CASE Throw(p)
      BY <1>0, <2>0, <2>1, ThrowStep
    <2>2. CASE Exists /\ sub' = [sub EXCEPT !.status = "active", !.failedOp = None] /\ Goto(p, "cascade")
      <3>1. sub' \in Row /\ sub'.status = "active" /\ sub'.id # None
        BY <1>0, <2>2, Names DEF Row, Exists
      <3>2. \A q \in Proc : q.pc = "cascade" => Local(q)
        BY DEF Local
      <3>3. "active" \notin Transitional
        BY DEF Transitional
      <3> QED BY <1>0, <2>0, <2>2, <3>1, <3>2, <3>3, Names, GotoStep
    <2> QED BY <1>4, <2>1, <2>2 DEF Activate
  <1>5. CASE Cascade(p)
    <2>1. proc[p].pc = "cascade" /\ Done(p) /\ UNCHANGED <<now, sub, used, vendor, allowed, asked>>
      BY <1>5 DEF Cascade, At
    <2>2. ~Resolves(proc[p], sub.status)
      BY <2>1 DEF Resolves
    <2> QED BY <1>0, <2>1, <2>2, DoneStep
  <1> QED BY <1>1, <1>2, <1>3, <1>4, <1>5

(* What getUser shows is a state of the account, and it shows one only of an *)
(* account that is named.                                                    *)
LEMMA ProbesType ==
    ASSUME TypeOK, NEW a \in Accounts \cup {None}, NEW seen \in Probes(a)
    PROVE  seen \in AccountStates /\ (seen # "gone" => a \in Accounts)
  BY DEF Probes, AccountStates, Present, TypeOK

(* What every step of a handler starts from.                                 *)
Before(p) ==
    /\ TypeOK /\ sub \in Row /\ vendor \in [Accounts -> AccountStates] /\ now \in Nat
    /\ used \subseteq Rows /\ allowed \in BOOLEAN /\ asked \subseteq Rows \cup {None}
    /\ proc[p] \in Proc /\ Local(proc[p])
    /\ (sub.id = None => sub.status = "none") /\ (sub.status = "failed" => sub.failedOp # None)
    /\ proc[p].kind = "process" => proc[p].until <= now

(* What holds of a handler before it steps.                                  *)
LEMMA BeforeStep ==
    ASSUME IndInv, NEW p \in Procs PROVE Before(p)
  BY DEF Before, IndInv, TypeOK, Locals, NoneHasNoStatus, FailedNamesOperation, Exists, RenewsOverdue

(* A step that only moves the handler, and perhaps an account at the vendor. *)
LEMMA QuietGoto ==
    ASSUME IndInv, NEW p \in Procs, NEW pc \in Pcs, Goto(p, pc),
           UNCHANGED <<now, sub, used, allowed, asked>>, vendor' \in [Accounts -> AccountStates],
           \A q \in Proc : q.pc = pc /\ q.kind = proc[p].kind /\ q.goal = proc[p].goal =>
              Local(q) /\ (Resolves(proc[p], sub.status) => Resolves(q, sub.status))
    PROVE  IndInv'
  <1>1. Before(p)
    BY BeforeStep
  <1> QED BY <1>1, GotoStep DEF Before

(* cancel: cancelling stays with the handler until the row is deleted.       *)
LEMMA CancelPreserves ==
    ASSUME IndInv, NEW p \in Procs,
           MarkTransition(p) \/ BuildContext(p) \/ Deprovision(p) \/ RemoveRow(p)
    PROVE  IndInv'
  <1>0. Before(p)
    BY BeforeStep
  <1>1. CASE MarkTransition(p)
    <2> DEFINE kind == proc[p].kind
               next == CASE kind = "cancel" -> "context"
                         [] kind = "disable" -> "vendorDisable"
                         [] OTHER -> "prune"
    <2>0. /\ proc[p].pc = "mark" /\ kind \in {"cancel", "disable", "enable"}
          /\ UNCHANGED <<now, used, vendor, allowed>>
      BY <1>0, <1>1 DEF MarkTransition, At, Local, Before
    <2>1. asked' \subseteq Rows \cup {None} /\ vendor' \in [Accounts -> AccountStates]
      BY <1>0, <1>1, <2>0 DEF MarkTransition, Before, Proc
    <2>2. CASE Throw(p)
      BY <2>0, <2>1, <2>2, ThrowStep
    <2>3. CASE Exists /\ sub' = [sub EXCEPT !.status = TransitionalStatus(kind)] /\ Goto(p, next)
      <3>1. TransitionalStatus(kind) \in {"cancelling", "disabling", "enabling"}
        BY <2>0 DEF TransitionalStatus
      <3>2. /\ sub' \in Row /\ sub'.status = TransitionalStatus(kind) /\ sub'.id # None
            /\ sub'.status # "failed"
        BY <1>0, <2>3, <3>1 DEF Row, Before, Exists, Statuses
      <3>3. next \in Pcs
        BY Names
      <3>4. \A q \in Proc : q.pc = next /\ q.kind = kind /\ q.goal = proc[p].goal =>
               Local(q) /\ Resolves(q, TransitionalStatus(kind))
        BY <1>0, <2>0 DEF Before, Local, Resolves, TransitionalStatus
      <3> HIDE DEF next
      <3> QED BY <2>0, <2>1, <2>3, <3>2, <3>3, <3>4, <1>0, GotoStep DEF Before
    <2> QED BY <1>1, <2>2, <2>3 DEF MarkTransition
  <1>2. CASE BuildContext(p)
    <2>0. /\ proc[p].pc = "context" /\ proc[p].kind \in {"cancel", "suspend", "process"}
          /\ UNCHANGED <<now, sub, used, vendor, allowed, asked>>
      BY <1>0, <1>2 DEF BuildContext, At, Local, Before
    <2> DEFINE next == IF proc[p].kind = "cancel" THEN "deprovision" ELSE "vendorDisable"
               r == [proc[p] EXCEPT !.account = LinkedTo(proc[p].row), !.pc = next]
    <2>1. LinkedTo(proc[p].row) \in Accounts \cup {None}
      BY <1>0 DEF LinkedTo, Before, Row
    <2>2. /\ r \in Proc /\ r.pc = next /\ r.kind = proc[p].kind /\ r.goal = proc[p].goal
          /\ r.until = proc[p].until
      BY <1>0, <2>1, Names DEF Proc, Before
    <2>3. proc' = [proc EXCEPT ![p] = r]
      BY <1>0, <1>2 DEF BuildContext, Before, TypeOK
    <2>4. Local(r)
      BY <1>0, <2>0, <2>2 DEF Local, Before
    <2>5. Resolves(r, sub.status) \/ ~Resolves(proc[p], sub.status)
      BY <2>0, <2>2 DEF Resolves
    <2> HIDE DEF r, next
    <2>6. proc' \in [Procs -> Proc] /\ proc' = [proc EXCEPT ![p] = proc'[p]] /\ proc'[p] = r
      BY <1>0, <2>2, <2>3 DEF Before, TypeOK
    <2> QED BY <1>0, <2>0, <2>2, <2>4, <2>5, <2>6, HandlerStep DEF Before
  <1>3. CASE Deprovision(p)
    <2>0. /\ proc[p].pc = "deprovision" /\ Goto(p, "remove")
          /\ UNCHANGED <<now, sub, used, allowed, asked>>
      BY <1>3 DEF Deprovision, At
    <2>1. PICK seen \in Probes(proc[p].account) :
             vendor' = IF Present(seen) THEN [vendor EXCEPT ![proc[p].account] = "gone"] ELSE vendor
      BY <1>3 DEF Deprovision
    <2>2. vendor' \in [Accounts -> AccountStates]
      BY <1>0, <2>1 DEF Before, AccountStates
    <2>3. \A q \in Proc : q.pc = "remove" /\ q.kind = proc[p].kind /\ q.goal = proc[p].goal =>
             Local(q) /\ (Resolves(proc[p], sub.status) => Resolves(q, sub.status))
      BY <2>0 DEF Local, Resolves
    <2> QED BY <2>0, <2>2, <2>3, Names, QuietGoto
  <1>4. CASE RemoveRow(p)
    <2>1. sub' = NoRow /\ Done(p) /\ UNCHANGED <<now, used, vendor, allowed, asked>>
      BY <1>4 DEF RemoveRow
    <2>2. sub' \in Row /\ sub'.status = "none"
      BY <2>1, Constants0 DEF NoRow
    <2>3. "none" \notin Transitional
      BY DEF Transitional
    <2> QED BY <1>0, <2>1, <2>2, <2>3, DoneStep DEF Before
  <1> QED BY <1>1, <1>2, <1>3, <1>4

(* disable, enable, suspend, and the retries of cancellations, expirations   *)
(* and syncs: what settle writes is a settled status.                        *)
LEMMA SettlePreserves ==
    ASSUME IndInv, NEW p \in Procs,
           DisableAccount(p) \/ PruneLink(p) \/ EnableAccount(p) \/ Settle(p) \/ ProbeAccount(p)
    PROVE  IndInv'
  <1>0. Before(p)
    BY BeforeStep
  <1>1. CASE DisableAccount(p)
    <2>0. /\ proc[p].pc = "vendorDisable" /\ Goto(p, "settle")
          /\ UNCHANGED <<now, sub, used, allowed, asked>>
      BY <1>1 DEF DisableAccount, At
    <2>1. vendor' \in [Accounts -> AccountStates]
      BY <1>0, <1>1 DEF Before, AccountStates, DisableAccount
    <2>2. \A q \in Proc : q.pc = "settle" /\ q.kind = proc[p].kind /\ q.goal = proc[p].goal =>
             Local(q) /\ (Resolves(proc[p], sub.status) => Resolves(q, sub.status))
      BY <1>0, <2>0 DEF Local, Resolves, Before
    <2> QED BY <2>0, <2>1, <2>2, Names, QuietGoto
  <1>2. CASE PruneLink(p)
    <2>0. /\ proc[p].pc = "prune" /\ UNCHANGED <<now, used, vendor, allowed, asked>>
      BY <1>2 DEF PruneLink, At
    <2>1. CASE Throw(p)
      BY <1>0, <2>0, <2>1, ThrowStep DEF Before
    <2>2. CASE Goto(p, "vendorEnable") /\ (sub' = sub \/ sub' = [sub EXCEPT !.account = None])
      <3>1. /\ sub' \in Row /\ sub'.status = sub.status /\ sub'.id = sub.id /\ sub'.failedOp = sub.failedOp
        BY <1>0, <2>2 DEF Row, Before
      <3>2. \A q \in Proc : q.pc = "vendorEnable" /\ q.kind = proc[p].kind /\ q.goal = proc[p].goal =>
               Local(q) /\ (Resolves(proc[p], sub.status) => Resolves(q, sub.status))
        BY <1>0, <2>0 DEF Local, Resolves, Before
      <3> QED BY <1>0, <2>0, <2>2, <3>1, <3>2, Names, GotoStep DEF Before
    <2> QED BY <1>2, <2>1, <2>2 DEF PruneLink
  <1>3. CASE EnableAccount(p)
    <2>0. /\ proc[p].pc = "vendorEnable" /\ UNCHANGED <<now, sub, used, allowed, asked>>
      BY <1>3 DEF EnableAccount, At
    <2>1. vendor' \in [Accounts -> AccountStates]
      BY <1>0, <1>3 DEF Before, AccountStates, EnableAccount
    <2>2. CASE proc[p].kind = "retry"
      <3>1. Done(p)
        BY <1>3, <2>2 DEF EnableAccount
      <3>2. ~Resolves(proc[p], sub.status)
        BY <2>2 DEF Resolves
      <3> QED BY <1>0, <2>0, <2>1, <3>1, <3>2, DoneStep DEF Before
    <2>3. CASE proc[p].kind # "retry"
      <3>1. Goto(p, "settle")
        BY <1>3, <2>3 DEF EnableAccount
      <3>2. \A q \in Proc : q.pc = "settle" /\ q.kind = proc[p].kind /\ q.goal = proc[p].goal =>
               Local(q) /\ (Resolves(proc[p], sub.status) => Resolves(q, sub.status))
        BY <1>0, <2>0 DEF Local, Resolves, Before
      <3> QED BY <2>0, <2>1, <3>1, <3>2, Names, QuietGoto
    <2> QED BY <2>2, <2>3
  <1>4. CASE Settle(p)
    <2>0. /\ proc[p].pc = "settle" /\ proc[p].goal \in Settled
          /\ UNCHANGED <<now, used, vendor, allowed, asked>>
      BY <1>0, <1>4 DEF Settle, At, Local, Before
    <2>1. CASE Throw(p)
      BY <1>0, <2>0, <2>1, ThrowStep DEF Before
    <2>2. CASE Exists /\ sub' = SettledRow(p)
      <3>1. /\ sub' \in Row /\ sub'.status = proc[p].goal /\ sub'.id # None
        BY <1>0, <2>0, <2>2, Names DEF Row, Before, SettledRow, Exists, Proc
      <3>2. proc[p].goal # "failed" /\ proc[p].goal \notin Transitional
        BY <2>0 DEF Settled, Transitional
      <3>3. CASE Done(p)
        BY <1>0, <2>0, <3>1, <3>2, <3>3, DoneStep DEF Before
      <3>4. CASE Goto(p, "vendorEnable") /\ proc[p].kind = "retry"
        <4>1. \A q \in Proc : q.pc = "vendorEnable" /\ q.kind = proc[p].kind /\ q.goal = proc[p].goal => Local(q)
          BY <2>0, <3>4 DEF Local
        <4> QED BY <1>0, <2>0, <3>1, <3>2, <3>4, <4>1, Names, GotoStep DEF Before
      <3>5. CASE Goto(p, "cascade")
        <4>1. \A q \in Proc : q.pc = "cascade" => Local(q)
          BY DEF Local
        <4> QED BY <1>0, <2>0, <3>1, <3>2, <3>5, <4>1, Names, GotoStep DEF Before
      <3>6. Done(p) \/ (Goto(p, "vendorEnable") /\ proc[p].kind = "retry") \/ Goto(p, "cascade") \/ Throw(p)
        BY <1>4 DEF Settle
      <3> QED BY <2>1, <3>3, <3>4, <3>5, <3>6
    <2> QED BY <1>4, <2>1, <2>2 DEF Settle
  <1>5. CASE ProbeAccount(p)
    <2>0. /\ proc[p].pc = "probe" /\ UNCHANGED <<now, sub, used, vendor, allowed, asked>>
      BY <1>5 DEF ProbeAccount, At
    <2>1. PICK seen \in Probes(proc[p].account) :
             proc' = [proc EXCEPT ![p].pc = "settle",
                                  ![p].goal = IF Present(seen) THEN "active" ELSE "cancelled"]
      BY <1>5 DEF ProbeAccount
    <2> DEFINE goal == IF Present(seen) THEN "active" ELSE "cancelled"
               r == [proc[p] EXCEPT !.pc = "settle", !.goal = goal]
    <2>2. goal \in Settled /\ goal \in Statuses
      BY DEF Settled, Statuses
    <2> HIDE DEF goal
    <2>3. /\ r \in Proc /\ r.pc = "settle" /\ r.kind = proc[p].kind /\ r.goal = goal
          /\ r.until = proc[p].until
      BY <1>0, <2>2, Names DEF Proc, Before
    <2>4. proc' = [proc EXCEPT ![p] = r]
      BY <1>0, <2>1 DEF Before, TypeOK, goal
    <2>5. Local(r)
      BY <2>2, <2>3 DEF Local
    <2>6. ~Resolves(proc[p], sub.status)
      BY <2>0 DEF Resolves
    <2> HIDE DEF r
    <2>7. proc' \in [Procs -> Proc] /\ proc' = [proc EXCEPT ![p] = proc'[p]] /\ proc'[p] = r
      BY <1>0, <2>3, <2>4 DEF Before, TypeOK
    <2> QED BY <1>0, <2>0, <2>3, <2>5, <2>6, <2>7, HandlerStep DEF Before
  <1> QED BY <1>1, <1>2, <1>3, <1>4, <1>5

(* renew, and the steps of the scheduled tasks.                              *)
LEMMA SchedulePreserves ==
    ASSUME IndInv, NEW p \in Procs,
           ExtendRow(p) \/ ListAccounts(p) \/ ReconcileVendor(p) \/ FlagMissing(p) \/ SweepStale(p)
    PROVE  IndInv'
  <1>0. Before(p)
    BY BeforeStep
  <1>1. CASE ExtendRow(p)
    <2>0. /\ proc[p].pc = "extend" /\ UNCHANGED <<now, used, vendor, allowed, asked>>
      BY <1>1 DEF ExtendRow, At
    <2>1. CASE Throw(p)
      BY <1>0, <2>0, <2>1, ThrowStep DEF Before
    <2>2. CASE sub' = [sub EXCEPT !.expiresAt = NewExpiry(p)] /\ Goto(p, "cascade")
      <3>1. NewExpiry(p) \in Nat
        BY <1>0, LifecycleConstants DEF NewExpiry, Before, Proc
      <3>2. /\ sub' \in Row /\ sub'.status = sub.status /\ sub'.id = sub.id /\ sub'.failedOp = sub.failedOp
        BY <1>0, <2>2, <3>1 DEF Row, Before
      <3>3. \A q \in Proc : q.pc = "cascade" => Local(q)
        BY DEF Local
      <3>4. ~Resolves(proc[p], sub.status)
        BY <2>0 DEF Resolves
      <3> QED BY <1>0, <2>0, <2>2, <3>2, <3>3, <3>4, Names, GotoStep DEF Before
    <2> QED BY <1>1, <2>1, <2>2 DEF ExtendRow
  <1>2. CASE ListAccounts(p)
    <2>0. /\ proc[p].pc = "list" /\ proc[p].kind \in {"sync", "cleanup"}
          /\ UNCHANGED <<now, sub, used, vendor, allowed, asked>>
      BY <1>0, <1>2 DEF ListAccounts, At, Local, Before
    <2>1. ~Resolves(proc[p], sub.status)
      BY <2>0 DEF Resolves
    <2>2. CASE Done(p)
      BY <1>0, <2>0, <2>1, <2>2, DoneStep DEF Before
    <2>3. CASE ~Done(p)
      <3> DEFINE next == IF proc[p].kind = "sync" THEN "reconcile" ELSE "sweep"
                 r == [proc[p] EXCEPT !.ext = vendor, !.pc = next]
      <3>1. next \in {"reconcile", "sweep"} /\ next \in Pcs
        BY Names
      <3>2. proc' = [proc EXCEPT ![p] = r]
        BY <1>0, <1>2, <2>3 DEF ListAccounts, Before, TypeOK
      <3> HIDE DEF next
      <3>3. r \in Proc /\ r.pc = next /\ r.kind = proc[p].kind
        BY <1>0, <3>1 DEF Proc, Before
      <3>4. Local(r) /\ r.kind # "process"
        BY <2>0, <3>1, <3>3 DEF Local
      <3> HIDE DEF r
      <3>5. proc' \in [Procs -> Proc] /\ proc' = [proc EXCEPT ![p] = proc'[p]] /\ proc'[p] = r
        BY <1>0, <3>2, <3>3 DEF Before, TypeOK
      <3> QED BY <1>0, <2>0, <2>1, <3>4, <3>5, HandlerStep DEF Before
    <2> QED BY <2>2, <2>3
  <1>3. CASE ReconcileVendor(p)
    <2>0. /\ proc[p].pc = "reconcile" /\ Goto(p, "flag") /\ proc[p].kind \in {"sync", "cleanup"}
          /\ UNCHANGED <<now, sub, used, allowed, asked>>
      BY <1>0, <1>3 DEF ReconcileVendor, At, Local, Before
    <2>1. \A a \in Accounts : Reconciled(p, a) \in AccountStates
      BY DEF Reconciled, AccountStates
    <2>2. vendor' \in [Accounts -> AccountStates]
      BY <1>0, <1>3, <2>1 DEF ReconcileVendor, Before
    <2>3. \A q \in Proc : q.pc = "flag" /\ q.kind = proc[p].kind /\ q.goal = proc[p].goal =>
             Local(q) /\ (Resolves(proc[p], sub.status) => Resolves(q, sub.status))
      BY <2>0 DEF Local, Resolves
    <2> QED BY <2>0, <2>2, <2>3, Names, QuietGoto
  <1>4. CASE FlagMissing(p)
    <2>0. /\ proc[p].pc = "flag" /\ Done(p)
          /\ UNCHANGED <<now, used, vendor, allowed, asked>>
      BY <1>4 DEF FlagMissing, At
    <2>1. ~Resolves(proc[p], sub.status)
      BY <2>0 DEF Resolves
    <2>2. CASE sub' = sub
      BY <1>0, <2>0, <2>1, <2>2, DoneStep DEF Before
    <2>3. CASE Exists /\ sub' = [sub EXCEPT !.status = "failed", !.failedOp = "sync"]
      <3>1. "sync" \in FailedOperations /\ "failed" \in Statuses /\ "sync" # None
        BY LifecycleConstants DEF FailedOperations, Statuses
      <3>2. sub' \in Row /\ sub'.status = "failed" /\ sub'.failedOp # None /\ sub'.id # None
        BY <1>0, <2>3, <3>1 DEF Row, Before, Exists
      <3>3. "failed" \notin Transitional
        BY DEF Transitional
      <3> QED BY <1>0, <2>0, <3>2, <3>3, DoneStep DEF Before
    <2> QED BY <1>4, <2>2, <2>3 DEF FlagMissing
  <1>5. CASE SweepStale(p)
    <2>0. /\ proc[p].pc = "sweep" /\ Done(p)
          /\ UNCHANGED <<now, used, vendor, allowed, asked>>
      BY <1>5 DEF SweepStale, At
    <2>1. ~Resolves(proc[p], sub.status)
      BY <2>0 DEF Resolves
    <2>2. CASE sub' = sub
      BY <1>0, <2>0, <2>1, <2>2, DoneStep DEF Before
    <2>3. CASE sub' = NoRow
      <3>1. sub' \in Row /\ sub'.status = "none"
        BY <2>3, Constants0 DEF NoRow
      <3>2. "none" \notin Transitional
        BY DEF Transitional
      <3> QED BY <1>0, <2>0, <3>1, <3>2, DoneStep DEF Before
    <2> QED BY <1>5, <2>2, <2>3 DEF SweepStale
  <1> QED BY <1>1, <1>2, <1>3, <1>4, <1>5

(* A rejected await ends the handler through its catch block, or sends a     *)
(* suspension on to its own write.                                           *)
LEMMA AwaitRejectsPreserves ==
    ASSUME IndInv, NEW p \in Procs, AwaitRejects(p)
    PROVE  IndInv'
  <1>0. Before(p) /\ UNCHANGED <<now, used, vendor, allowed, asked>>
    BY BeforeStep DEF AwaitRejects
  <1>1. CASE Throw(p)
    BY <1>0, <1>1, ThrowStep DEF Before
  <1>2. CASE ~Throw(p)
    <2>1. /\ proc[p].kind = "suspend" /\ proc[p].pc \in {"context", "vendorDisable"}
          /\ Goto(p, "settle") /\ UNCHANGED sub
      BY <1>2 DEF AwaitRejects
    <2>2. \A q \in Proc : q.pc = "settle" /\ q.kind = proc[p].kind /\ q.goal = proc[p].goal =>
             Local(q) /\ (Resolves(proc[p], sub.status) => Resolves(q, sub.status))
      BY <1>0, <2>1 DEF Local, Resolves, Before
    <2> QED BY <1>0, <2>1, <2>2, Names, QuietGoto DEF Before
  <1> QED BY <1>1, <1>2

(* Every step of the specification preserves the invariant.  A restart frees *)
(* the handlers and leaves their transitional status behind: nobody owns it. *)
LEMMA NextPreserves ==
    ASSUME IndInv, [Next]_vars PROVE IndInv'
  <1>1. ASSUME NEW p \in Procs, Request(p) PROVE IndInv'
    BY <1>1, RequestPreserves
  <1>2. ASSUME NEW p \in Procs, Task(p) PROVE IndInv'
    BY <1>2, TaskPreserves
  <1>3. ASSUME NEW p \in Procs, Step(p) PROVE IndInv'
    BY <1>3, SubscribePreserves, CancelPreserves, SettlePreserves, SchedulePreserves DEF Step
  <1>4. ASSUME NEW p \in Procs, AwaitRejects(p) PROVE IndInv'
    BY <1>4, AwaitRejectsPreserves
  <1>5. CASE SetAutoRenew
    <2>1. /\ sub' = [sub EXCEPT !.autoRenew = ~@] /\ UNCHANGED <<now, used, vendor, allowed, proc, asked>>
          /\ sub \in Row
      BY <1>5 DEF SetAutoRenew, IndInv, TypeOK
    <2>2. sub' \in Row /\ sub'.status = sub.status /\ sub'.id = sub.id /\ sub'.failedOp = sub.failedOp
      BY <2>1 DEF Row
    <2>3. TypeOK' /\ Locals' /\ RenewsOverdue'
      BY <2>1, <2>2 DEF IndInv, TypeOK, Locals, Local, RenewsOverdue
    <2>4. NoneHasNoStatus' /\ FailedNamesOperation'
      BY <2>2 DEF IndInv, NoneHasNoStatus, FailedNamesOperation, Exists
    <2>5. "crash" \notin Failures => Owned'
      BY <2>1, <2>2 DEF IndInv, Owned, Resolves
    <2> QED BY <2>3, <2>4, <2>5 DEF IndInv
  <1>6. CASE Restart
    <2>1. /\ "crash" \in Failures /\ proc' = [p \in Procs |-> IdleProc]
          /\ UNCHANGED <<now, sub, used, vendor, allowed, asked>>
      BY <1>6 DEF Restart
    <2>2. TypeOK'
      BY <2>1, Constants0 DEF IndInv, TypeOK
    <2>3. Locals' /\ RenewsOverdue'
      BY <2>1, IdleLocal DEF Locals, RenewsOverdue, IdleProc
    <2>4. NoneHasNoStatus' /\ FailedNamesOperation'
      BY <2>1 DEF IndInv, NoneHasNoStatus, FailedNamesOperation, Exists
    <2> QED BY <2>1, <2>2, <2>3, <2>4 DEF IndInv
  <1>7. CASE Drift
    <2>1. vendor' \in [Accounts -> AccountStates] /\ UNCHANGED <<now, sub, used, allowed, proc, asked>>
      BY <1>7 DEF Drift, IndInv, TypeOK, AccountStates
    <2> QED BY <2>1 DEF IndInv, TypeOK, Locals, Local, RenewsOverdue, NoneHasNoStatus, Exists,
                        FailedNamesOperation, Owned, Resolves
  <1>8. CASE Tick
    <2>1. now \in Nat /\ now' = now + 1 /\ UNCHANGED <<sub, used, vendor, allowed, proc, asked>>
      BY <1>8 DEF Tick, IndInv, TypeOK
    <2>2. TypeOK' /\ Locals'
      BY <2>1 DEF IndInv, TypeOK, Locals, Local
    <2>3. RenewsOverdue'
      BY <2>1 DEF IndInv, TypeOK, RenewsOverdue, Proc
    <2> QED BY <2>1, <2>2, <2>3 DEF IndInv, NoneHasNoStatus, Exists,
                        FailedNamesOperation, Owned, Resolves
  <1>9. CASE UNCHANGED vars
    BY <1>9 DEF vars, IndInv, TypeOK, Locals, Local, RenewsOverdue, NoneHasNoStatus, Exists,
                FailedNamesOperation, Owned, Resolves
  <1> QED BY <1>1, <1>2, <1>3, <1>4, <1>5, <1>6, <1>7, <1>8, <1>9 DEF Next

(* No row, idle handlers.                                                    *)
LEMMA InitEstablishes == Init => IndInv
  <1> SUFFICES ASSUME Init PROVE IndInv
    OBVIOUS
  <1>1. /\ now = 0 /\ sub = NoRow /\ used = {} /\ vendor = [a \in Accounts |-> "free"]
        /\ allowed = TRUE /\ proc = [p \in Procs |-> IdleProc] /\ asked = {}
    BY DEF Init
  <1>2. TypeOK
    BY <1>1, Constants0 DEF TypeOK, AccountStates
  <1>3. Locals /\ RenewsOverdue
    BY <1>1, IdleLocal DEF Locals, RenewsOverdue, IdleProc
  <1>4. NoneHasNoStatus /\ FailedNamesOperation /\ Owned
    BY <1>1 DEF NoneHasNoStatus, FailedNamesOperation, Owned, NoRow, Transitional
  <1> QED BY <1>2, <1>3, <1>4 DEF IndInv

(* The invariant holds of every behaviour.                                   *)
LEMMA Inductive == Spec => []IndInv
  <1>1. Init => IndInv
    BY InitEstablishes
  <1>2. IndInv /\ [Next]_vars => IndInv'
    BY NextPreserves
  <1> QED BY <1>1, <1>2, PTL DEF Spec

-----------------------------------------------------------------------------
(* The theorems. *)

(* Every state the handlers and the tasks reach is well typed: in particular *)
(* the catch blocks store only operations that the schema knows.             *)
THEOREM TypeCorrect == Spec => []TypeOK
  <1>1. IndInv => TypeOK
    BY DEF IndInv
  <1> QED BY <1>1, Inductive, PTL

(* While the server does not stop under a handler, no interleaving of any    *)
(* number of handlers leaves a row in a status that no request can leave.    *)
THEOREM NoDeadEndReached == Spec => []NoDeadEnd
  <1>1. IndInv => NoDeadEnd
    BY DEF IndInv, NoDeadEnd, Owned, Transitional, FailedNamesOperation
  <1> QED BY <1>1, Inductive, PTL

(* However many runs of processSubscriptions overlap, an automatic renewal   *)
(* never carries a row beyond one period from now.                           *)
THEOREM RenewalsCapped == Spec => AutoRenewCapped
  <1> DEFINE Capped == \A p \in Procs :
          ExtendRow(p) /\ proc[p].kind = "process" /\ Exists => sub'.expiresAt <= now + Period
  <1>1. IndInv => Capped
    <2> SUFFICES ASSUME IndInv, NEW p \in Procs, ExtendRow(p), proc[p].kind = "process", Exists
                 PROVE  sub'.expiresAt <= now + Period
      OBVIOUS
    <2>1. /\ proc[p].until \in Nat /\ now \in Nat /\ sub \in Row /\ proc[p].until <= now
      BY DEF IndInv, TypeOK, Proc, RenewsOverdue
    <2>2. sub' = [sub EXCEPT !.expiresAt = proc[p].until + Period]
      BY DEF ExtendRow, NewExpiry
    <2>3. sub'.expiresAt = proc[p].until + Period
      BY <2>1, <2>2 DEF Row
    <2> QED BY <2>1, <2>3, LifecycleConstants
  <1> QED BY <1>1, Inductive, PTL DEF AutoRenewCapped

=============================================================================
