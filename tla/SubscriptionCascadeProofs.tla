---------------------- MODULE SubscriptionCascadeProofs ----------------------
(***************************************************************************)
(* Type correctness of the cascade, that the derived row goes with its     *)
(* source, and, when handlers run one at a time, that it mirrors its       *)
(* source, for any number of handlers and rows.                            *)
(***************************************************************************)
EXTENDS MCCascadeParts, TLAPS

-----------------------------------------------------------------------------
(* The inductive invariant. *)

(* What the locals of a handler are worth: whoever is about to write the     *)
(* derived row holds a source row, and the status to write is a status.      *)
Local(q) ==
    /\ q.pc \in {"existing", "derive"} => q.src.id # None
    /\ q.pc = "announce" /\ q.kind = "subscribe" => q.src.id # None
    /\ q.pc = "settle" => q.goal # "none"
    /\ q.pc = "mark" /\ q.kind # "cancel" => q.goal # "none"

Locals == \A p \in Procs : Local(proc[p])

(* A row that is not there has no id.                                        *)
Named == \A t \in Targets : Exists(t) <=> row[t].id # None

IndInv ==
    /\ CascadeTypeOK
    /\ Locals
    /\ Named
    /\ NoOrphan

-----------------------------------------------------------------------------
(* Handlers *)

(* The idle process and the missing row are well typed. *)
LEMMA Constants0 == IdleProc \in Proc /\ NoRow \in Row /\ NoRow.id = None /\ Local(IdleProc)
  BY DEF IdleProc, Proc, NoRow, Row, Local, Pcs, Kinds, Statuses, Targets

(* The names the handlers use are in their sets. *)
LEMMA Names ==
    /\ "source" \in Targets /\ "derived" \in Targets
    /\ \A pc \in {"upsert", "announcePolicy", "mark", "remove", "settle", "extend", "next"} : pc \in Pcs
    /\ \A kind \in {"subscribe", "cancel", "disable", "enable", "suspend", "retry", "renew", "process",
                     "allow", "deny", "unset"} : kind \in Kinds
    /\ \A status \in {"none", "active", "disabled", "expired"} : status \in Statuses
    /\ 0 \in Nat
  BY DEF Targets, Pcs, Kinds, Statuses

(* One handler moves to well-typed locals that are worth what they should.   *)
LEMMA LocalStep ==
    ASSUME CascadeTypeOK, Locals, NEW p \in Procs, NEW r \in Proc, Local(r),
           proc' = [proc EXCEPT ![p] = r]
    PROVE  proc' \in [Procs -> Proc] /\ Locals'
  BY DEF CascadeTypeOK, Locals

(* Moving the program counter.                                               *)
LEMMA GotoStep ==
    ASSUME CascadeTypeOK, Locals, NEW p \in Procs, NEW pc \in Pcs, Goto(p, pc),
           Local([proc[p] EXCEPT !.pc = pc])
    PROVE  proc' \in [Procs -> Proc] /\ Locals'
  <1>1. [proc[p] EXCEPT !.pc = pc] \in Proc
    BY DEF CascadeTypeOK, Proc
  <1>2. proc' = [proc EXCEPT ![p] = [proc[p] EXCEPT !.pc = pc]]
    BY DEF Goto
  <1> QED BY <1>1, <1>2, LocalStep

(* Moving the program counter to a place where the locals do not matter.     *)
LEMMA PlainGoto ==
    ASSUME CascadeTypeOK, Locals, NEW p \in Procs, NEW pc \in Pcs, Goto(p, pc),
           pc \notin {"existing", "derive", "settle", "mark"},
           pc = "announce" => proc[p].kind # "subscribe"
    PROVE  proc' \in [Procs -> Proc] /\ Locals'
  <1>1. Local([proc[p] EXCEPT !.pc = pc])
    BY DEF Local, CascadeTypeOK, Proc
  <1> QED BY <1>1, GotoStep

(* A handler that ends.                                                      *)
LEMMA DoneStep ==
    ASSUME CascadeTypeOK, Locals, NEW p \in Procs, Done(p)
    PROVE  proc' \in [Procs -> Proc] /\ Locals'
  BY Constants0, LocalStep DEF Done

(* A handler whose cascade, or whose row of a snapshot, is done.             *)
LEMMA ContinueStep ==
    ASSUME CascadeTypeOK, Locals, NEW p \in Procs, Continue(p)
    PROVE  proc' \in [Procs -> Proc] /\ Locals'
  <1>1. CASE proc[p].kind \in {"process", "suspend"}
    <2>1. Goto(p, "next")
      BY <1>1 DEF Continue
    <2> QED BY <2>1, PlainGoto DEF Pcs
  <1>2. CASE proc[p].kind \in {"disable", "enable"}
    <2>1. Goto(p, "announce")
      BY <1>2 DEF Continue
    <2> QED BY <1>2, <2>1, PlainGoto DEF Pcs
  <1>3. CASE proc[p].kind \notin {"process", "suspend", "disable", "enable"}
    <2>1. Done(p)
      BY <1>3 DEF Continue
    <2> QED BY <2>1, DoneStep
  <1> QED BY <1>1, <1>2, <1>3

(* A request that starts.                                                    *)
LEMMA StartStep ==
    ASSUME CascadeTypeOK, Locals, NEW p \in Procs, NEW op, NEW kind \in Kinds, NEW t \in Targets,
           NEW pc \in Pcs, NEW goal \in Statuses, NEW until \in Nat,
           Start(p, op, kind, t, pc, goal, until),
           pc \notin {"existing", "derive", "announce"},
           pc = "settle" => goal # "none",
           pc = "mark" /\ kind # "cancel" => goal # "none"
    PROVE  proc' \in [Procs -> Proc] /\ Locals'
  <1> DEFINE r == [IdleProc EXCEPT !.kind = kind, !.pc = pc, !.target = t, !.goal = goal, !.until = until]
  <1>1. r \in Proc /\ Local(r)
    BY Constants0 DEF Proc, Local
  <1>2. proc' = [proc EXCEPT ![p] = r]
    BY DEF Start
  <1> HIDE DEF r
  <1> QED BY <1>1, <1>2, LocalStep

-----------------------------------------------------------------------------
(* Rows *)

(* What a step does to the rows when it writes one that exists and keeps its *)
(* id and the fact that it exists.                                           *)
LEMMA WriteStep ==
    ASSUME CascadeTypeOK, Named, NoOrphan, NEW t \in Targets, NEW r \in Row,
           Exists(t), r.id = row[t].id, IsRow(r), row' = [row EXCEPT ![t] = r]
    PROVE  row' \in [Targets -> Row] /\ Named' /\ NoOrphan'
  BY DEF CascadeTypeOK, Named, NoOrphan, Exists, Targets

(* A step that leaves the rows alone.                                        *)
LEMMA SameRows ==
    ASSUME CascadeTypeOK, Named, NoOrphan, UNCHANGED row
    PROVE  row' \in [Targets -> Row] /\ Named' /\ NoOrphan'
  BY DEF CascadeTypeOK, Named, NoOrphan, Exists

(* A handler that throws: its catch block marks the row as failed, if there  *)
(* is one.                                                                   *)
LEMMA ThrowStep ==
    ASSUME IndInv, NEW p \in Procs, Throw(p)
    PROVE  /\ proc' \in [Procs -> Proc] /\ Locals'
           /\ row' \in [Targets -> Row] /\ Named' /\ NoOrphan'
  <1> DEFINE f == CatchOperation(proc[p].kind)
             t == proc[p].target
             r == [row[t] EXCEPT !.status = "failed", !.failedOp = f]
             caught == f # "none" /\ proc[p].pc # "upsert" /\ Exists(t)
  <1>1. t \in Targets /\ row[t] \in Row /\ f \in FailedOperations \cup {"none"}
    BY DEF IndInv, CascadeTypeOK, Proc, CatchOperation, FailedOperations
  <1>2. r \in Row /\ r.id = row[t].id /\ IsRow(r)
    BY <1>1 DEF Row, IsRow, Statuses
  <1>3. row' = IF caught THEN [row EXCEPT ![t] = r] ELSE row
    BY <1>1 DEF Throw, IndInv, CascadeTypeOK
  <1>4. (caught /\ proc[p].kind = "process" /\ Goto(p, "next")) \/ Done(p)
    BY DEF Throw
  <1>5. proc' \in [Procs -> Proc] /\ Locals'
    BY <1>4, DoneStep, PlainGoto DEF IndInv, Pcs
  <1>6. row' \in [Targets -> Row] /\ Named' /\ NoOrphan'
    <2>1. CASE caught
      <3>1. row' = [row EXCEPT ![t] = r] /\ Exists(t)
        BY <1>3, <2>1
      <3> HIDE DEF r, t
      <3> QED BY <1>1, <1>2, <3>1, WriteStep DEF IndInv
    <2>2. CASE ~caught
      <3>1. UNCHANGED row
        BY <1>3, <2>2
      <3> QED BY <3>1, SameRows DEF IndInv
    <2> QED BY <2>1, <2>2
  <1> QED BY <1>5, <1>6

(* What is left to show of a step that keeps the clock, the ids, the policy  *)
(* and the event flag well typed.                                            *)
LEMMA Assemble ==
    ASSUME IndInv, now' \in Nat, used' \subseteq Rows, allowed' \in BOOLEAN, pending' \in BOOLEAN,
           proc' \in [Procs -> Proc], Locals', row' \in [Targets -> Row], Named', NoOrphan'
    PROVE  IndInv'
  BY DEF IndInv, CascadeTypeOK

-----------------------------------------------------------------------------
(* Steps that write no row *)

(* The reads a request starts with.                                          *)
LEMMA RequestReads ==
    ASSUME IndInv, NEW p \in Procs,
           \/ SubscribeRead(p) \/ CancelRead(p) \/ ProcessRead(p) \/ SuspendRead(p)
           \/ \E t \in Targets : DisableRead(p, t) \/ EnableRead(p, t) \/ RetryRead(p, t) \/ RenewRead(p, t)
    PROVE  proc' \in [Procs -> Proc] /\ Locals'
  <1> USE DEF IndInv
  <1>0. now \in Nat /\ row["source"] \in Row /\ \A t \in Targets : row[t] \in Row
    BY Names DEF CascadeTypeOK
  <1>1. CASE SubscribeRead(p)
    <2> DEFINE r == [IdleProc EXCEPT !.kind = "subscribe", !.pc = "upsert", !.src = row["source"]]
    <2>1. r \in Proc /\ r.pc = "upsert"
      BY <1>0, Constants0, Names DEF Proc
    <2>3. Local(r)
      BY <2>1 DEF Local
    <2>2. proc' = [proc EXCEPT ![p] = r]
      BY <1>1 DEF SubscribeRead
    <2> HIDE DEF r
    <2> QED BY <2>1, <2>2, <2>3, LocalStep
  <1>2. CASE CancelRead(p)
    <2>1. Start(p, "cancel", "cancel", "source", "mark", "none", 0)
      BY <1>2 DEF CancelRead
    <2> QED BY <2>1, Names, StartStep
  <1>3. ASSUME NEW t \in Targets, DisableRead(p, t) PROVE proc' \in [Procs -> Proc] /\ Locals'
    <2>1. PICK op : Start(p, op, "disable", t, "mark", "disabled", 0)
      BY <1>3 DEF DisableRead
    <2> QED BY <2>1, Names, StartStep
  <1>4. ASSUME NEW t \in Targets, EnableRead(p, t) PROVE proc' \in [Procs -> Proc] /\ Locals'
    <2>1. PICK op : Start(p, op, "enable", t, "mark", "active", 0)
      BY <1>4 DEF EnableRead
    <2> QED BY <2>1, Names, StartStep
  <1>5. ASSUME NEW t \in Targets, RetryRead(p, t) PROVE proc' \in [Procs -> Proc] /\ Locals'
    <2>1. CASE Start(p, "retry", "retry", t, "remove", "none", 0)
      BY <2>1, Names, StartStep
    <2>2. CASE Start(p, "retry", "retry", t, "settle", "expired", 0)
      <3> DEFINE r == [IdleProc EXCEPT !.kind = "retry", !.pc = "settle", !.target = t,
                                       !.goal = "expired", !.until = 0]
      <3>1. r \in Proc /\ r.pc = "settle" /\ r.goal = "expired"
        BY Constants0, Names DEF Proc
      <3>2. Local(r)
        BY <3>1 DEF Local
      <3>3. proc' = [proc EXCEPT ![p] = r]
        BY <2>2 DEF Start
      <3> HIDE DEF r
      <3> QED BY <3>1, <3>2, <3>3, LocalStep
    <2> QED BY <1>5, <2>1, <2>2 DEF RetryRead
  <1>6. ASSUME NEW t \in Targets, RenewRead(p, t) PROVE proc' \in [Procs -> Proc] /\ Locals'
    <2> DEFINE until == (IF row[t].expiresAt > now THEN row[t].expiresAt ELSE now) + Period
    <2>1. until \in Nat
      BY <1>0, CascadeConstants DEF Row
    <2>2. PICK op : Start(p, op, "renew", t, "extend", "none", until)
      BY <1>6 DEF RenewRead
    <2> HIDE DEF until
    <2> QED BY <2>1, <2>2, Names, StartStep
  <1>7. CASE ProcessRead(p)
    <2> DEFINE due == {t \in Targets : row[t].status = "active" /\ row[t].expiresAt <= now}
               items == {[target |-> t, until |-> row[t].expiresAt, renew |-> row[t].autoRenew] : t \in due}
               r == [IdleProc EXCEPT !.kind = "process", !.pc = "next", !.rest = items]
    <2>1. items \subseteq Item
      BY <1>0 DEF Item, Row
    <2>2. proc' = [proc EXCEPT ![p] = r]
      BY <1>7 DEF ProcessRead
    <2> HIDE DEF items
    <2>3. r \in Proc /\ Local(r)
      BY <2>1, Constants0 DEF Proc, Local, Pcs, Kinds
    <2> HIDE DEF r
    <2> QED BY <2>2, <2>3, LocalStep
  <1>8. CASE SuspendRead(p)
    <2> DEFINE active == {t \in Targets : row[t].status = "active"}
               items == {[target |-> t, until |-> 0, renew |-> FALSE] : t \in active}
               r == [IdleProc EXCEPT !.kind = "suspend", !.pc = "next", !.rest = items]
    <2>1. items \subseteq Item
      <3>1. ASSUME NEW t \in active PROVE [target |-> t, until |-> 0, renew |-> FALSE] \in Item
        BY DEF Item
      <3> QED BY <3>1
    <2>2. proc' = [proc EXCEPT ![p] = r]
      BY <1>8 DEF SuspendRead
    <2> HIDE DEF items
    <2>3. r \in Proc /\ Local(r)
      BY <2>1, Constants0 DEF Proc, Local, Pcs, Kinds
    <2> HIDE DEF r
    <2> QED BY <2>2, <2>3, LocalStep
  <1> QED BY <1>1, <1>2, <1>3, <1>4, <1>5, <1>6, <1>7, <1>8

(* The reads and the announcements in the course of a handler.               *)
LEMMA LaterReads ==
    ASSUME IndInv, NEW p \in Procs,
           \/ Announce(p) \/ FindExisting(p) \/ FindDerived(p) \/ NextRow(p)
           \/ AnnouncePolicy(p) \/ ReadSource(p)
           \/ \E kind \in {"allow", "deny", "unset"} : SetPolicy(p, kind)
    PROVE  proc' \in [Procs -> Proc] /\ Locals'
  <1> USE DEF IndInv
  <1>0. proc[p] \in Proc /\ Local(proc[p]) /\ \A t \in Targets : row[t] \in Row
    BY DEF CascadeTypeOK, Locals
  <1>1. CASE Announce(p)
    <2>1. CASE proc[p].kind = "subscribe"
      <3>1. Goto(p, "existing") /\ proc[p].pc = "announce"
        BY <1>1, <2>1 DEF Announce, At
      <3>2. Local([proc[p] EXCEPT !.pc = "existing"])
        BY <1>0, <2>1, <3>1 DEF Local, Proc
      <3> QED BY <3>1, <3>2, GotoStep DEF Pcs
    <2>2. CASE proc[p].kind # "subscribe"
      BY <1>1, <2>2, DoneStep DEF Announce
    <2> QED BY <2>1, <2>2
  <1>2. CASE FindExisting(p)
    <2> DEFINE r == [proc[p] EXCEPT !.found = row["derived"], !.pc = "derive"]
    <2>1. proc' = [proc EXCEPT ![p] = r] /\ proc[p].pc = "existing"
      BY <1>2 DEF FindExisting, At
    <2>2. r \in Proc /\ Local(r)
      BY <1>0, <2>1 DEF Local, Proc, Pcs, Targets
    <2> HIDE DEF r
    <2> QED BY <2>1, <2>2, LocalStep
  <1>3. CASE FindDerived(p)
    <2> DEFINE found == IF proc[p].target = "source" /\ Exists("derived") /\ row["derived"].id = proc[p].src.id
                        THEN row["derived"] ELSE NoRow
               r == [proc[p] EXCEPT !.found = found, !.pc = "propagate"]
    <2>1. proc' = [proc EXCEPT ![p] = r]
      BY <1>3 DEF FindDerived
    <2>2. found \in Row
      BY <1>0, Constants0 DEF Targets
    <2> HIDE DEF found
    <2>3. r \in Proc /\ Local(r)
      BY <1>0, <2>2 DEF Local, Proc, Pcs
    <2> HIDE DEF r
    <2> QED BY <2>1, <2>3, LocalStep
  <1>4. CASE NextRow(p)
    <2>1. CASE Done(p)
      BY <2>1, DoneStep
    <2>2. ASSUME NEW item \in proc[p].rest,
                 proc' = [proc EXCEPT ![p] =
                           [proc[p] EXCEPT !.rest = @ \ {item}, !.target = item.target, !.until = item.until,
                                    !.pc = IF item.renew THEN "extend" ELSE "settle",
                                    !.goal = IF item.renew THEN "none"
                                             ELSE IF proc[p].kind = "process" THEN "expired" ELSE "disabled"]]
          PROVE  proc' \in [Procs -> Proc] /\ Locals'
      <3> DEFINE r == [proc[p] EXCEPT !.rest = @ \ {item}, !.target = item.target, !.until = item.until,
                                    !.pc = IF item.renew THEN "extend" ELSE "settle",
                                    !.goal = IF item.renew THEN "none"
                                             ELSE IF proc[p].kind = "process" THEN "expired" ELSE "disabled"]
      <3>1. item \in Item
        BY <1>0 DEF Proc
      <3>2. r \in Proc /\ Local(r)
        BY ZenonT(40), <1>0, <3>1 DEF Proc, Local, Item, Pcs, Statuses
      <3>3. proc' = [proc EXCEPT ![p] = r]
        BY <2>2
      <3> HIDE DEF r
      <3> QED BY <3>2, <3>3, LocalStep
    <2> QED BY <1>4, <2>1, <2>2 DEF NextRow
  <1>5. CASE AnnouncePolicy(p)
    <2>1. CASE Goto(p, "readSource")
      BY <2>1, PlainGoto DEF Pcs
    <2> QED BY <1>5, <2>1, DoneStep DEF AnnouncePolicy
  <1>6. CASE ReadSource(p)
    <2>1. CASE CurrentlyActive(row["source"])
      <3> DEFINE r == [proc[p] EXCEPT !.src = row["source"], !.pc = "existing"]
      <3>1. proc' = [proc EXCEPT ![p] = r]
        BY <1>6, <2>1 DEF ReadSource
      <3>2. row["source"].id # None
        BY <2>1 DEF CurrentlyActive, Named, Exists, IsRow, Targets
      <3>3. r \in Proc /\ Local(r)
        BY <1>0, <3>2 DEF Proc, Local, Pcs, Targets
      <3> HIDE DEF r
      <3> QED BY <3>1, <3>3, LocalStep
    <2>2. CASE ~CurrentlyActive(row["source"])
      BY <1>6, <2>2, DoneStep DEF ReadSource
    <2> QED BY <2>1, <2>2
  <1>7. ASSUME NEW kind \in {"allow", "deny", "unset"}, SetPolicy(p, kind)
        PROVE  proc' \in [Procs -> Proc] /\ Locals'
    <2>1. Start(p, "policy", kind, "derived", "announcePolicy", "none", 0)
      BY <1>7 DEF SetPolicy
    <2> QED BY <2>1, Names, StartStep
  <1> QED BY <1>1, <1>2, <1>3, <1>4, <1>5, <1>6, <1>7

-----------------------------------------------------------------------------
(* Steps that write a row *)

Preserved ==
    /\ proc' \in [Procs -> Proc] /\ Locals'
    /\ row' \in [Targets -> Row] /\ Named' /\ NoOrphan'

(* subscribe: the insert, the update and the activation of the source row.   *)
LEMMA SubscribeWrites ==
    ASSUME IndInv, NEW p \in Procs, UpsertProvisioning(p) \/ Activate(p)
    PROVE  Preserved /\ used' \subseteq Rows
  <1> USE DEF IndInv
  <1>0. /\ now \in Nat /\ used \subseteq Rows /\ row["source"] \in Row /\ now + Period \in Nat
        /\ proc[p] \in Proc /\ proc[p].src \in Row
    BY Names, CascadeConstants DEF CascadeTypeOK, Proc
  <1>1. CASE UpsertProvisioning(p)
    <2> DEFINE written(r, auto) == [r EXCEPT !.status = "provisioning", !.expiresAt = now + Period,
                                             !.autoRenew = auto]
    <2>1. ASSUME NEW id \in Rows \ used, NEW auto \in BOOLEAN, ~Exists("source"),
                 row' = [row EXCEPT !["source"] = written([NoRow EXCEPT !.id = id], auto)],
                 used' = used \cup {id}, Goto(p, "activate")
          PROVE  Preserved /\ used' \subseteq Rows
      <3> DEFINE r == written([NoRow EXCEPT !.id = id], auto)
      <3>1. r \in Row /\ r.id = id /\ IsRow(r) /\ id # None
        BY ZenonT(40), <1>0, Constants0, CascadeConstants DEF Row, IsRow, Statuses
      <3>2. row' = [row EXCEPT !["source"] = r]
        BY <2>1
      <3> HIDE DEF r
      <3>3. row' \in [Targets -> Row]
        BY <3>1, <3>2 DEF CascadeTypeOK
      <3>4. ~Exists("derived")
        BY <2>1, Names DEF NoOrphan, Named
      <3>5. Named' /\ NoOrphan'
        <4>1. row'["source"] = r /\ row'["derived"] = row["derived"]
          BY <3>2 DEF CascadeTypeOK, Targets
        <4>2. row["derived"].id = None
          BY <3>4, Names DEF Named
        <4> QED BY <3>1, <3>4, <4>1, <4>2 DEF Named, NoOrphan, Exists, Targets
      <3>6. proc' \in [Procs -> Proc] /\ Locals'
        BY <2>1, PlainGoto DEF Pcs
      <3> QED BY <1>0, <2>1, <3>3, <3>5, <3>6 DEF Preserved
    <2>2. ASSUME NEW auto \in BOOLEAN, Exists("source"),
                 row' = [row EXCEPT !["source"] = written(@, auto)], UNCHANGED used, Goto(p, "activate")
          PROVE  Preserved /\ used' \subseteq Rows
      <3> DEFINE r == written(row["source"], auto)
      <3>1. r \in Row /\ r.id = row["source"].id /\ IsRow(r)
        BY <1>0 DEF Row, IsRow, Statuses
      <3>2. row' = [row EXCEPT !["source"] = r]
        BY <2>2 DEF CascadeTypeOK
      <3> HIDE DEF r
      <3>3. row' \in [Targets -> Row] /\ Named' /\ NoOrphan'
        BY <2>2, <3>1, <3>2, Names, WriteStep
      <3>4. proc' \in [Procs -> Proc] /\ Locals'
        BY <2>2, PlainGoto DEF Pcs
      <3> QED BY <1>0, <2>2, <3>3, <3>4 DEF Preserved
    <2>3. CASE Done(p) /\ UNCHANGED <<row, used>>
      BY <1>0, <2>3, DoneStep, SameRows DEF Preserved
    <2> QED BY <1>1, <2>1, <2>2, <2>3 DEF UpsertProvisioning
  <1>2. CASE Activate(p)
    <2>1. CASE Throw(p)
      BY <1>0, <1>2, <2>1, ThrowStep DEF Preserved, Activate
    <2>2. CASE /\ Exists("source")
               /\ row' = [row EXCEPT !["source"].status = "active", !["source"].failedOp = "none"]
               /\ proc' = [proc EXCEPT ![p].pc = "announce", ![p].src = row'["source"]]
      <3> DEFINE r == [row["source"] EXCEPT !.status = "active", !.failedOp = "none"]
                 q == [proc[p] EXCEPT !.pc = "announce", !.src = row'["source"]]
      <3>1. r \in Row /\ r.id = row["source"].id /\ IsRow(r)
        BY <1>0 DEF Row, IsRow, Statuses
      <3>2. row' = [row EXCEPT !["source"] = r] /\ row'["source"] = r
        BY <2>2, Names DEF CascadeTypeOK
      <3>3. r.id # None
        BY <2>2, <3>1, Names DEF Named
      <3> HIDE DEF r
      <3>4. row' \in [Targets -> Row] /\ Named' /\ NoOrphan'
        BY <2>2, <3>1, <3>2, Names, WriteStep
      <3>5. q \in Proc /\ q.pc = "announce" /\ q.src.id # None
        BY <1>0, <3>1, <3>2, <3>3 DEF Proc, Pcs
      <3>6. Local(q)
        BY <3>5 DEF Local
      <3>8. proc' = [proc EXCEPT ![p] = q]
        <4>1. proc \in [Procs -> Proc]
          BY DEF CascadeTypeOK
        <4>2. proc' = [proc EXCEPT ![p].pc = "announce", ![p].src = row'["source"]]
          BY <2>2
        <4> QED BY <4>1, <4>2
      <3> HIDE DEF q
      <3>7. proc' \in [Procs -> Proc] /\ Locals'
        BY <3>5, <3>6, <3>8, LocalStep
      <3> QED BY <1>0, <1>2, <3>4, <3>7 DEF Preserved, Activate
    <2> QED BY <1>2, <2>1, <2>2 DEF Activate
  <1> QED BY <1>1, <1>2

(* The derived row becomes a mirror of a source row that is there.           *)
LEMMA DeriveWrites ==
    ASSUME IndInv, NEW p \in Procs, Derive(p)
    PROVE  Preserved
  <1> USE DEF IndInv
  <1>0. proc[p] \in Proc /\ proc[p].src \in Row /\ row["derived"] \in Row /\ proc[p].pc = "derive"
    BY Names DEF CascadeTypeOK, Proc, Derive, At
  <1>1. CASE Throw(p)
    BY <1>1, ThrowStep DEF Preserved
  <1>2. CASE MirrorAccepted(p) /\ ~Throw(p)
    <2> DEFINE src == proc[p].src
               old == IF IsRow(proc[p].found) THEN row["derived"] ELSE NoRow
               r == [old EXCEPT !.id = src.id, !.status = "active",
                                !.expiresAt = src.expiresAt, !.autoRenew = src.autoRenew]
    <2>1. old \in Row
      BY <1>0, Constants0
    <2> HIDE DEF old
    <2>2. r \in Row /\ r.id = src.id /\ IsRow(r)
      BY ZenonT(40), <1>0, <2>1 DEF Row, IsRow, Statuses
    <2>3. /\ row' = [row EXCEPT !["derived"] = r]
          /\ IF proc[p].kind = "allow" THEN Goto(p, "announce") ELSE Done(p)
      BY <1>2 DEF Derive, old
    <2>4. src.id # None /\ src.id = row["source"].id
      BY <1>0, <1>2 DEF Locals, Local, MirrorAccepted
    <2> HIDE DEF r, src
    <2>5. row' \in [Targets -> Row]
      BY <2>2, <2>3 DEF CascadeTypeOK
    <2>6. row'["derived"] = r /\ row'["source"] = row["source"]
      BY <2>3 DEF CascadeTypeOK, Targets
    <2>7. Named' /\ NoOrphan'
      BY <2>2, <2>4, <2>6 DEF Named, NoOrphan, Exists, Targets
    <2>8. proc' \in [Procs -> Proc] /\ Locals'
      BY <2>3, DoneStep, PlainGoto DEF Pcs
    <2> QED BY <2>5, <2>7, <2>8 DEF Preserved
  <1> QED BY <1>1, <1>2 DEF Derive

(* The foreign key: the derived row goes with its source.                    *)
LEMMA RemoveWrites ==
    ASSUME IndInv, NEW p \in Procs, RemoveRow(p)
    PROVE  Preserved
  <1> USE DEF IndInv
  <1> DEFINE t == proc[p].target
  <1>0. proc[p] \in Proc /\ t \in Targets /\ proc[p].pc = "remove"
    BY DEF CascadeTypeOK, Proc, RemoveRow, At
  <1>1. CASE Throw(p)
    BY <1>1, ThrowStep DEF Preserved
  <1>2. CASE ~Throw(p)
    <2>1. /\ row' = IF t = "source" THEN [u \in Targets |-> NoRow] ELSE [row EXCEPT ![t] = NoRow]
          /\ IF proc[p].kind = "cancel" THEN Goto(p, "announce") ELSE Done(p)
      BY <1>2 DEF RemoveRow
    <2>2. proc' \in [Procs -> Proc] /\ Locals'
      <3>1. CASE proc[p].kind = "cancel"
        BY <2>1, <3>1, PlainGoto DEF Pcs
      <3>2. CASE proc[p].kind # "cancel"
        BY <2>1, <3>2, DoneStep
      <3> QED BY <3>1, <3>2
    <2>3. row' \in [Targets -> Row] /\ Named' /\ NoOrphan'
      <3>1. CASE t = "source"
        <4>1. \A u \in Targets : row'[u] = NoRow
          BY <2>1, <3>1
        <4>2. row' \in [Targets -> Row]
          BY <2>1, <3>1, Constants0
        <4> QED BY <4>1, <4>2, Constants0, Names DEF Named, NoOrphan, Exists, IsRow, NoRow
      <3>2. CASE t = "derived"
        <4>1. row' = [row EXCEPT !["derived"] = NoRow]
          BY <2>1, <3>2
        <4>2. row' \in [Targets -> Row] /\ row'["derived"] = NoRow /\ row'["source"] = row["source"]
          BY <4>1, Constants0 DEF CascadeTypeOK, Targets
        <4> QED BY <4>2, Constants0 DEF Named, NoOrphan, Exists, IsRow, NoRow, Targets
      <3> QED BY <1>0, <3>1, <3>2 DEF Targets
    <2> QED BY <2>2, <2>3 DEF Preserved
  <1> QED BY <1>1, <1>2

(* The statuses in between, the settled ones and the new expiry.             *)
LEMMA StatusWrites ==
    ASSUME IndInv, NEW p \in Procs, MarkTransition(p) \/ Settle(p) \/ Extend(p)
    PROVE  Preserved
  <1> USE DEF IndInv
  <1> DEFINE q == proc[p]
             t == proc[p].target
  <1>0. /\ q \in Proc /\ Local(q) /\ t \in Targets /\ row[t] \in Row
        /\ q.until \in Nat /\ q.until + Period \in Nat /\ q.goal \in Statuses
    BY CascadeConstants DEF CascadeTypeOK, Proc, Locals
  <1>1. ASSUME NEW r \in Row, NEW x \in Proc, Exists(t), r.id = row[t].id, IsRow(r), Local(x),
               row' = [row EXCEPT ![t] = r], proc' = [proc EXCEPT ![p] = x]
        PROVE  Preserved
    <2> HIDE DEF t
    <2> QED BY <1>0, <1>1, WriteStep, LocalStep DEF Preserved
  <1>2. CASE Throw(p)
    BY <1>2, ThrowStep DEF Preserved
  <1>3. CASE MarkTransition(p) /\ ~Throw(p)
    <2> DEFINE r == [row[t] EXCEPT !.status = TransitionalStatus(q.kind)]
               x == [q EXCEPT !.pc = IF q.kind = "cancel" THEN "remove" ELSE "settle"]
    <2>1. r \in Row /\ r.id = row[t].id /\ IsRow(r)
      BY <1>0 DEF Row, IsRow, Statuses, TransitionalStatus
    <2>2. q.pc = "mark" /\ row' = [row EXCEPT ![t] = r] /\ Exists(t) /\ proc' = [proc EXCEPT ![p] = x]
      BY <1>3 DEF MarkTransition, Goto, At, CascadeTypeOK
    <2>3. x \in Proc /\ Local(x)
      BY <1>0, <2>2 DEF Proc, Pcs, Local
    <2> HIDE DEF r, x, t, q
    <2> QED BY <1>1, <2>1, <2>2, <2>3
  <1>4. CASE Settle(p) /\ ~Throw(p)
    <2> DEFINE r == [row[t] EXCEPT !.status = q.goal,
                                   !.failedOp = IF q.kind = "retry" THEN "none" ELSE @,
                                   !.autoRenew = IF q.kind = "suspend" THEN FALSE ELSE @]
               x == [q EXCEPT !.pc = "find", !.src = row'[t]]
    <2>1. q.pc = "settle" /\ row' = [row EXCEPT ![t] = r] /\ Exists(t)
      BY <1>4 DEF Settle, At, CascadeTypeOK
    <2>2. r \in Row /\ r.id = row[t].id /\ IsRow(r)
      BY <1>0, <2>1 DEF Row, IsRow, Local
    <2>3. row' \in [Targets -> Row] /\ Named' /\ NoOrphan' /\ row'[t] = r
      <3> HIDE DEF r, t, q
      <3> QED BY <1>0, <2>1, <2>2, WriteStep DEF CascadeTypeOK
    <2>4. CASE q.kind \in {"disable", "enable", "process"}
      <3>1. proc' = [proc EXCEPT ![p] = x]
        BY <1>4, <2>4 DEF Settle, CascadeTypeOK
      <3>2. x \in Proc /\ Local(x)
        <4> HIDE DEF r
        <4> QED BY <1>0, <2>2, <2>3 DEF Proc, Pcs, Local
      <3> HIDE DEF x
      <3> QED BY <2>3, <3>1, <3>2, LocalStep DEF Preserved
    <2>5. CASE q.kind \notin {"disable", "enable", "process"}
      <3>1. Continue(p)
        BY <1>4, <2>5 DEF Settle
      <3> QED BY <2>3, <3>1, ContinueStep DEF Preserved
    <2> QED BY <2>4, <2>5
  <1>5. CASE Extend(p) /\ ~Throw(p)
    <2> DEFINE until == IF q.kind = "process" THEN q.until + Period ELSE q.until
               r == [row[t] EXCEPT !.expiresAt = until]
               x == [q EXCEPT !.pc = "find", !.src = row'[t]]
    <2>1. /\ row' = [row EXCEPT ![t] = r] /\ Exists(t)
          /\ proc' = [proc EXCEPT ![p] = x]
      BY <1>5 DEF Extend, CascadeTypeOK
    <2>2. until \in Nat
      BY <1>0
    <2> HIDE DEF until
    <2>3. r \in Row /\ r.id = row[t].id /\ IsRow(r) /\ row'[t] = r
      BY <1>0, <2>1, <2>2 DEF Row, IsRow, Exists, CascadeTypeOK
    <2> HIDE DEF r
    <2>4. x \in Proc /\ Local(x)
      BY <1>0, <2>3 DEF Proc, Pcs, Local
    <2> HIDE DEF x, t, q
    <2> QED BY <1>1, <2>1, <2>3, <2>4
  <1> QED BY <1>2, <1>3, <1>4, <1>5

(* The cascade keeps the derived row and its source.                         *)
LEMMA PropagateWrites ==
    ASSUME IndInv, NEW p \in Procs, Propagate(p)
    PROVE  Preserved
  <1> USE DEF IndInv
  <1> DEFINE q == proc[p]
             r == Propagated(p, row["derived"])
  <1>0. /\ q \in Proc /\ row["derived"] \in Row
        /\ q.src \in Row /\ q.found \in Row /\ q.goal \in Statuses
    BY Names DEF CascadeTypeOK, Proc
  <1>1. CASE Throw(p)
    BY <1>1, ThrowStep DEF Preserved
  <1>2. CASE ~Throw(p)
    <2>1. /\ Continue(p)
          /\ IF IsRow(q.found) THEN Exists("derived") /\ row' = [row EXCEPT !["derived"] = r]
                               ELSE row' = row
      BY <1>2, Names DEF Propagate, CascadeTypeOK
    <2>2. proc' \in [Procs -> Proc] /\ Locals'
      BY <2>1, ContinueStep
    <2>3. CASE IsRow(q.found)
      <3> DEFINE clamped == Earliest(q.found.expiresAt, q.src.expiresAt)
      <3>1. clamped \in Nat /\ q.src.expiresAt \in Nat
        BY <1>0 DEF Earliest, Row
      <3>2. r = CASE q.kind = "enable" -> [row["derived"] EXCEPT !.status = "active", !.expiresAt = clamped]
                  [] q.kind # "enable" /\ q.goal # "none" -> [row["derived"] EXCEPT !.status = q.goal]
                  [] q.kind # "enable" /\ q.goal = "none" ->
                        [row["derived"] EXCEPT !.expiresAt =
                           IF clamped # q.found.expiresAt THEN q.src.expiresAt ELSE @]
        BY DEF Propagated
      <3> HIDE DEF clamped, r
      <3>3. \/ r = [row["derived"] EXCEPT !.status = "active", !.expiresAt = clamped]
            \/ q.goal # "none" /\ r = [row["derived"] EXCEPT !.status = q.goal]
            \/ r = [row["derived"] EXCEPT !.expiresAt = q.src.expiresAt]
            \/ r = [row["derived"] EXCEPT !.expiresAt = @]
        BY <3>2
      <3>4. r \in Row /\ r.id = row["derived"].id /\ IsRow(r)
        BY ZenonT(40), <1>0, <2>1, <2>3, <3>1, <3>3 DEF Row, IsRow, Exists, Statuses
      <3>5. row' \in [Targets -> Row] /\ Named' /\ NoOrphan'
        BY <2>1, <2>3, <3>4, Names, WriteStep
      <3> QED BY <2>2, <3>5 DEF Preserved
    <2>4. CASE ~IsRow(q.found)
      BY <2>1, <2>2, <2>4, SameRows DEF Preserved
    <2> QED BY <2>3, <2>4
  <1> QED BY <1>1, <1>2

(* The owner or an admin switches the automatic renewal.                     *)
LEMMA AutoRenewWrites ==
    ASSUME IndInv, NEW t \in Targets, SetAutoRenew(t)
    PROVE  Preserved
  <1> USE DEF IndInv
  <1> DEFINE r == [row[t] EXCEPT !.autoRenew = ~@]
  <1>1. r \in Row /\ r.id = row[t].id /\ (Exists(t) => IsRow(r))
    BY DEF CascadeTypeOK, Row, Exists, IsRow
  <1>2. row' = [row EXCEPT ![t] = r] /\ Exists(t) /\ UNCHANGED proc
    BY DEF SetAutoRenew, CascadeTypeOK
  <1> HIDE DEF r
  <1>3. row' \in [Targets -> Row] /\ Named' /\ NoOrphan'
    BY <1>1, <1>2, WriteStep
  <1> QED BY <1>2, <1>3 DEF Preserved, CascadeTypeOK, Locals

-----------------------------------------------------------------------------
(* Every step keeps the invariant. *)

(* The handlers' steps.                                                      *)
LEMMA StepPreserves == ASSUME IndInv, CascadeStep PROVE IndInv'
  <1> USE DEF IndInv
  <1>0. now \in Nat /\ used \subseteq Rows /\ allowed \in BOOLEAN /\ pending \in BOOLEAN
    BY DEF CascadeTypeOK
  <1>1. ASSUME NEW p \in Procs,
               \/ SubscribeRead(p) \/ CancelRead(p) \/ ProcessRead(p) \/ SuspendRead(p)
               \/ \E t \in Targets : DisableRead(p, t) \/ EnableRead(p, t) \/ RetryRead(p, t) \/ RenewRead(p, t)
        PROVE  IndInv'
    <2>1. proc' \in [Procs -> Proc] /\ Locals'
      BY <1>1, RequestReads
    <2>2. UNCHANGED <<now, row, used, allowed, pending>>
      BY <1>1 DEF SubscribeRead, CancelRead, ProcessRead, SuspendRead, DisableRead, EnableRead, RetryRead, RenewRead
    <2> QED BY <1>0, <2>1, <2>2, SameRows, Assemble
  <1>2. ASSUME NEW p \in Procs,
               \/ Announce(p) \/ FindExisting(p) \/ FindDerived(p) \/ NextRow(p)
               \/ AnnouncePolicy(p) \/ ReadSource(p)
               \/ \E kind \in {"allow", "deny", "unset"} : SetPolicy(p, kind)
        PROVE  IndInv'
    <2>1. proc' \in [Procs -> Proc] /\ Locals'
      BY <1>2, LaterReads
    <2>2. UNCHANGED <<now, row, used>> /\ allowed' \in BOOLEAN /\ pending' \in BOOLEAN
      BY <1>0, <1>2 DEF Announce, FindExisting, FindDerived, NextRow, AnnouncePolicy, ReadSource, SetPolicy
    <2> QED BY <1>0, <2>1, <2>2, SameRows, Assemble
  <1>3. ASSUME NEW p \in Procs, UpsertProvisioning(p) \/ Activate(p) PROVE IndInv'
    <2>1. UNCHANGED <<now, allowed, pending>>
      BY <1>3 DEF UpsertProvisioning, Activate
    <2> QED BY <1>0, <1>3, <2>1, SubscribeWrites, Assemble DEF Preserved
  <1>4. ASSUME NEW p \in Procs,
               \/ Derive(p) \/ RemoveRow(p) \/ MarkTransition(p) \/ Settle(p) \/ Extend(p) \/ Propagate(p)
        PROVE  IndInv'
    <2>1. UNCHANGED <<now, used, allowed, pending>>
      BY <1>4 DEF Derive, RemoveRow, MarkTransition, Settle, Extend, Propagate
    <2>2. Preserved
      BY <1>4, DeriveWrites, RemoveWrites, StatusWrites, PropagateWrites
    <2> QED BY <1>0, <2>1, <2>2, Assemble DEF Preserved
  <1>5. ASSUME NEW p \in Procs, AwaitRejects(p) PROVE IndInv'
    <2>1. Throw(p) /\ UNCHANGED <<now, used, allowed, pending>>
      BY <1>5 DEF AwaitRejects
    <2> QED BY <1>0, <2>1, ThrowStep, Assemble
  <1>6. ASSUME NEW t \in Targets, SetAutoRenew(t) PROVE IndInv'
    <2>1. UNCHANGED <<now, used, allowed, pending>>
      BY <1>6 DEF SetAutoRenew
    <2> QED BY <1>0, <1>6, <2>1, AutoRenewWrites, Assemble DEF Preserved
  <1> QED BY <1>1, <1>2, <1>3, <1>4, <1>5, <1>6 DEF CascadeStep

(* The steps of the event bus, the clock and the server itself.              *)
LEMMA SurroundingsPreserve ==
    ASSUME IndInv, Deliver \/ Restart \/ Tick \/ UNCHANGED cascadeVars PROVE IndInv'
  <1> USE DEF IndInv
  <1>0. now \in Nat /\ used \subseteq Rows /\ allowed \in BOOLEAN /\ pending \in BOOLEAN
    BY DEF CascadeTypeOK
  <1>3. /\ now' = now \/ now' = now + 1
        /\ pending' = pending \/ pending' = FALSE
        /\ UNCHANGED <<row, used, allowed>>
    <2>1. CASE Deliver
      BY <2>1 DEF Deliver
    <2>2. CASE Restart
      BY <2>2 DEF Restart
    <2>3. CASE Tick
      BY <2>3 DEF Tick
    <2>4. CASE UNCHANGED cascadeVars
      BY <2>4 DEF cascadeVars
    <2> QED BY <2>1, <2>2, <2>3, <2>4
  <1>1. /\ now' \in Nat /\ used' \subseteq Rows /\ allowed' \in BOOLEAN /\ pending' \in BOOLEAN
        /\ UNCHANGED row
    <2>1. now' \in Nat /\ used' \subseteq Rows /\ UNCHANGED row
      BY <1>0, <1>3
    <2>2. allowed' \in BOOLEAN /\ pending' \in BOOLEAN
      BY <1>0, <1>3, Zenon
    <2> QED BY <2>1, <2>2
  <1>2. proc' \in [Procs -> Proc] /\ Locals'
    <2>1. CASE Restart
      BY <2>1, Constants0 DEF Restart, Locals
    <2>2. CASE ~Restart
      BY <2>2 DEF Deliver, Tick, cascadeVars, CascadeTypeOK, Locals
    <2> QED BY <2>1, <2>2
  <1> QED BY <1>1, <1>2, SameRows, Assemble

(* No rows, idle handlers.                                                   *)
LEMMA InitEstablishes == CascadeInit => IndInv
  <1> SUFFICES ASSUME CascadeInit PROVE IndInv
    OBVIOUS
  <1>1. CascadeTypeOK
    BY Constants0 DEF CascadeInit, CascadeTypeOK
  <1>2. Locals
    BY Constants0 DEF CascadeInit, Locals
  <1>3. \A t \in Targets : row[t] = NoRow
    BY DEF CascadeInit
  <1>4. Named /\ NoOrphan
    BY <1>3, Constants0, Names DEF Named, NoOrphan, Exists, IsRow, NoRow
  <1> QED BY <1>1, <1>2, <1>4 DEF IndInv

(* The invariant holds of every behaviour.                                   *)
LEMMA Inductive == CascadeSpec => []IndInv
  <1>1. CascadeInit => IndInv
    BY InitEstablishes
  <1>2. IndInv /\ [CascadeNext]_cascadeVars => IndInv'
    BY StepPreserves, SurroundingsPreserve DEF CascadeNext
  <1> QED BY <1>1, <1>2, PTL DEF CascadeSpec

-----------------------------------------------------------------------------
(* The derived row mirrors its source when the handlers run one at a time.   *)
(* Between the write of the source and the end of its cascade the rows       *)
(* differ, so the invariant also says where the handler p1 is (Path), that   *)
(* it is about to carry over just what the source has by now (Held), and     *)
(* what it still has to work on of a task's snapshot (Snapshot).             *)

(* Statuses in which the derived row is to mirror its source.                *)
Settled(s) == s.status \in {"active", "disabled", "expired"}

Mirrored(s, d) == Settled(s) /\ d.status # "failed" => d.status = s.status

(* Or it ran out before a source that was renewed meanwhile.                 *)
MirroredOrOut(s, d, t) ==
    Settled(s) /\ d.status # "failed" =>
        d.status = s.status \/ (d.status = "expired" /\ d.expiresAt <= t)

(* The source was written, and the cascade is still to follow.               *)
Midway(q) ==
    \/ q.kind = "subscribe" /\ q.pc \in {"announce", "existing", "derive"}
    \/ q.kind \in {"disable", "enable"} /\ q.pc \in {"find", "propagate"}
    \/ q.kind = "process" /\ q.target = "source" /\ q.goal = "expired" /\ q.pc \in {"find", "propagate"}

(* Where a handler of each kind may be, and what it works at.                *)
Path(q) ==
    \/ /\ q.kind = "none"
       /\ q.pc = "idle"
    \/ /\ q.kind = "subscribe"
       /\ q.pc \in {"upsert", "activate", "announce", "existing", "derive"}
       /\ q.target = "source"
    \/ /\ q.kind = "cancel"
       /\ q.pc \in {"mark", "remove", "announce"}
       /\ q.target = "source"
    \/ /\ q.kind \in {"disable", "enable"}
       /\ q.pc \in {"mark", "settle", "find", "propagate", "announce"}
       /\ q.target = "source"
       /\ q.goal = (IF q.kind = "disable" THEN "disabled" ELSE "active")
    \/ /\ q.kind = "renew"
       /\ q.pc \in {"extend", "find", "propagate"}
       /\ q.target = "source"
       /\ q.goal = "none"
    \/ /\ q.kind = "process"
       /\ \/ q.pc = "next"
          \/ q.pc = "extend" /\ q.goal = "none"
          \/ q.pc = "settle" /\ q.goal = "expired"
          \/ q.pc \in {"find", "propagate"} /\ q.goal \in {"none", "expired"}
    \/ /\ q.kind = "allow"
       /\ q.pc \in {"announcePolicy", "readSource", "existing", "derive", "announce"}
    \/ /\ q.kind \in {"deny", "unset"}
       /\ q.pc = "announcePolicy"

(* What a snapshot still holds of the derived row ran out, and mirrors.      *)
Snapshot(q, s, d, t) ==
    /\ \A i, j \in q.rest : i.target = j.target => i = j
    /\ q.pc # "next" => \A i \in q.rest : i.target # q.target
    /\ (\E i \in q.rest : i.target = "derived") => d.expiresAt <= t /\ (~Midway(q) => Mirrored(s, d))
    /\ q.target = "derived" /\ q.pc = "settle" => d.expiresAt <= t
    /\ q.target = "derived" /\ q.pc = "extend" => Mirrored(s, d)

(* What the handler has read of the rows it is about to write.               *)
Held(q, s, d) ==
    /\ Midway(q) => s.status = (IF q.kind = "subscribe" THEN "active" ELSE q.goal)
    /\ q.kind = "allow" /\ q.pc \in {"existing", "derive"} => s.status = "active"
    /\ q.kind \in {"disable", "enable", "process"} => d.status # "none"
    /\ q.pc = "find" /\ q.target = "source" => q.src.id = s.id
    /\ q.pc = "propagate" =>
          IF q.target = "derived" \/ d.status = "none"
          THEN q.found.status = "none"
          ELSE q.found.status # "none" /\ q.found.expiresAt = d.expiresAt

SerialInv(q, s, d, t) ==
    /\ Path(q)
    /\ ~Midway(q) => MirroredOrOut(s, d, t)
    /\ Held(q, s, d)
    /\ q.kind = "process" => Snapshot(q, s, d, t)

(* The rows and the handler p1, which is the one that runs.                  *)
SerialHolds == SerialInv(proc[p1], row["source"], row["derived"], now)

(* What the proofs below read of the invariant about the two rows and p1.    *)
LEMMA SerialFacts ==
    ASSUME IndInv
    PROVE  /\ proc[p1] \in Proc /\ row["source"] \in Row /\ row["derived"] \in Row /\ now \in Nat
           /\ row["derived"].status # "none" => row["derived"].id = row["source"].id
           /\ row \in [Targets -> Row] /\ proc \in [Procs -> Proc]
  BY PartsConstants DEF IndInv, CascadeTypeOK, NoOrphan, Exists, IsRow, Targets

(* A row that mirrors a settled source is there.                             *)
LEMMA MirrorIsThere ==
    ASSUME NEW s \in Row, NEW d \in Row, NEW t \in Nat, MirroredOrOut(s, d, t), Settled(s)
    PROVE  d.status # "none"
  BY DEF MirroredOrOut, Settled

(* The handler has done its work: nothing is held, the rows mirror.          *)
LEMMA IdleSerial ==
    ASSUME NEW q, NEW s \in Row, NEW d \in Row, NEW t \in Nat, q = IdleProc,
           MirroredOrOut(s, d, t)
    PROVE  SerialInv(q, s, d, t)
  BY DEF SerialInv, IdleProc, Path, Midway, Held

(* A handler that throws.                                                    *)
LEMMA SerialThrow ==
    ASSUME IndInv, SerialHolds, Throw(p1), UNCHANGED now,
           proc[p1].pc \notin {"idle", "next", "announce", "announcePolicy"}
    PROVE  SerialHolds'
<1>f. PICK q \in Proc, s \in Row, d \in Row, t \in Nat :
         q = proc[p1] /\ s = row["source"] /\ d = row["derived"] /\ t = now
  BY SerialFacts
<1>1. SerialInv(q, s, d, t) /\ q.pc \notin {"idle", "next", "announce", "announcePolicy"} /\ now' = t
  BY <1>f DEF SerialHolds
<1> DEFINE caught == CatchOperation(q.kind) # "none" /\ q.pc # "upsert" /\ row[q.target].status # "none"
<1>2. /\ ~caught => row' = row
      /\ caught => row' = [row EXCEPT ![q.target].status = "failed",
                                      ![q.target].failedOp = CatchOperation(q.kind)]
      /\ (caught /\ q.kind = "process") => proc' = [proc EXCEPT ![p1].pc = "next"]
      /\ ~(caught /\ q.kind = "process") => proc' = [proc EXCEPT ![p1] = IdleProc]
  BY <1>f DEF Throw, Exists, IsRow, Goto, Done
<1>3. CASE ~caught
  <2>1. proc'[p1] = IdleProc /\ row' = row
    BY <1>2, <1>3, <1>f, PartsConstants, SerialFacts
  <2>2. Midway(q) => s.status \in {"active", "disabled", "expired"} /\ q.target = "source"
    BY <1>1 DEF SerialInv, Held, Midway, Path
  <2>3. Midway(q) => CatchOperation(q.kind) # "none" /\ q.pc # "upsert"
    BY DEF Midway, CatchOperation
  <2>4. ~Midway(q)
    BY <2>2, <2>3, <1>3, <1>f
  <2>5. MirroredOrOut(s, d, t)
    BY <2>4, <1>1 DEF SerialInv
  <2>6. SerialInv(IdleProc, s, d, t)
    BY <2>5, IdleSerial
  <2> QED
    BY <2>1, <2>6, <1>1, <1>f DEF SerialHolds
<1>4. CASE caught
  <2>1. q.kind \in {"subscribe", "cancel", "disable", "enable", "process"}
    BY <1>4 DEF CatchOperation
  <2>2. q.target \in Targets /\ CatchOperation(q.kind) \in FailedOperations
    BY <2>1 DEF Proc, CatchOperation, FailedOperations
  <2>3. \A u \in Targets : row'[u] = IF u = q.target
                                     THEN [row[u] EXCEPT !.status = "failed", !.failedOp = CatchOperation(q.kind)]
                                     ELSE row[u]
    BY <1>2, <1>4, <2>2, SerialFacts
  <2> DEFINE s1 == row'["source"]
             d1 == row'["derived"]
  <2>4. /\ q.target = "source" => s1.status = "failed" /\ s1.id = s.id /\ d1 = d
        /\ q.target = "derived" => d1.status = "failed" /\ d1.expiresAt = d.expiresAt /\ s1 = s
        /\ q.target \in {"source", "derived"}
    BY <2>2, <2>3, <1>f DEF Targets, Row
  <2> HIDE DEF s1, d1
  <2>5. MirroredOrOut(s1, d1, t)
    BY <2>4 DEF MirroredOrOut, Settled
  <2>6. CASE q.kind # "process"
    <3>1. proc'[p1] = IdleProc
      BY <1>2, <2>6, PartsConstants, SerialFacts
    <3>2. s1 \in Row /\ d1 \in Row
      BY <2>2, <2>3, <1>f DEF s1, d1, Targets, Row, Statuses
    <3> QED
      BY <3>1, <3>2, <2>5, <1>1, IdleSerial DEF SerialHolds, s1, d1
  <2>7. CASE q.kind = "process"
    <3>1. proc'[p1] = [q EXCEPT !.pc = "next"]
      BY <1>2, <1>4, <2>7, <1>f, PartsConstants, SerialFacts
    <3>2. PICK q1 : q1 = proc'[p1]
      OBVIOUS
    <3>3. /\ q1.pc = "next" /\ q1.kind = "process" /\ q1.target = q.target /\ q1.goal = q.goal
          /\ q1.rest = q.rest
      BY <3>1, <3>2, <2>7 DEF Proc
    <3>4. q.rest \in SUBSET Item /\ \A i \in q.rest : i.target \in Targets
      BY DEF Proc, Item
    <3>5. d.status # "none" /\ Snapshot(q, s, d, t)
      BY <1>1, <2>7 DEF SerialInv, Held
    <3>6. /\ \A i, j \in q.rest : i.target = j.target => i = j
          /\ \A i \in q.rest : i.target # q.target
          /\ (\E i \in q.rest : i.target = "derived") => d.expiresAt <= t
      BY <3>5, <1>1, <1>4, <2>7 DEF Snapshot
    <3>7. Path(q1) /\ ~Midway(q1)
      BY <3>3 DEF Path, Midway
    <3>8. Held(q1, s1, d1)
      BY <3>3, <3>5, <3>7, <2>4 DEF Held
    <3>9. Snapshot(q1, s1, d1, t)
      BY <3>3, <3>6, <2>4 DEF Snapshot, Mirrored, Settled
    <3> QED
      BY <3>2, <3>3, <3>7, <3>8, <3>9, <2>5, <1>1 DEF SerialHolds, SerialInv, s1, d1
  <2> QED
    BY <2>6, <2>7
<1> QED
  BY <1>3, <1>4

(* A handler that starts.                                                    *)
LEMMA SerialStart ==
    ASSUME IndInv, SerialHolds, NEW op, NEW kind, NEW pc, NEW goal, NEW until,
           Start(p1, op, kind, "source", pc, goal, until), UNCHANGED <<now, row>>,
           Path([IdleProc EXCEPT !.kind = kind, !.pc = pc, !.target = "source", !.goal = goal, !.until = until]),
           kind \in {"cancel", "disable", "enable", "renew"}, pc \in {"mark", "extend"},
           kind \in {"disable", "enable"} => Settled(row["source"])
    PROVE  SerialHolds'
<1>f. PICK q \in Proc, s \in Row, d \in Row, t \in Nat :
         q = proc[p1] /\ s = row["source"] /\ d = row["derived"] /\ t = now
  BY SerialFacts
<1> DEFINE q1 == [IdleProc EXCEPT !.kind = kind, !.pc = pc, !.target = "source", !.goal = goal, !.until = until]
<1>1. SerialInv(q, s, d, t) /\ q.pc = "idle"
  BY <1>f DEF SerialHolds, Start, At
<1>2. proc'[p1] = q1 /\ row'["source"] = s /\ row'["derived"] = d /\ now' = t
  BY <1>f, PartsConstants, SerialFacts DEF Start
<1>3. q1.kind = kind /\ q1.pc = pc /\ q1.target = "source"
  BY DEF IdleProc
<1>4. Path(q1)
  OBVIOUS
<1> HIDE DEF q1
<1>5. MirroredOrOut(s, d, t)
  BY <1>1 DEF SerialInv, Midway
<1>6. kind \in {"disable", "enable"} => d.status # "none"
  BY <1>5, <1>f, MirrorIsThere
<1>7. Held(q1, s, d) /\ ~Midway(q1)
  BY <1>3, <1>6 DEF Held, Midway
<1> QED
  BY <1>2, <1>3, <1>4, <1>5, <1>7 DEF SerialHolds, SerialInv

(* The requests.                                                             *)
LEMMA SerialRequests ==
    ASSUME IndInv, SerialHolds, 
           CancelRead(p1) \/ DisableRead(p1, "source") \/ EnableRead(p1, "source") \/ RenewRead(p1, "source")
    PROVE  SerialHolds'
<1>1. CASE CancelRead(p1)
  <2>1. Start(p1, "cancel", "cancel", "source", "mark", "none", 0) /\ UNCHANGED <<now, row>>
    BY <1>1 DEF CancelRead
  <2>2. Path([IdleProc EXCEPT !.kind = "cancel", !.pc = "mark", !.target = "source", !.goal = "none", !.until = 0])
    BY DEF Path, IdleProc
  <2> QED
    BY <2>1, <2>2, SerialStart
<1>2. CASE DisableRead(p1, "source")
  <2>1. Start(p1, "disable", "disable", "source", "mark", "disabled", 0) /\ UNCHANGED <<now, row>>
    BY <1>2 DEF DisableRead
  <2>2. Path([IdleProc EXCEPT !.kind = "disable", !.pc = "mark", !.target = "source", !.goal = "disabled", !.until = 0])
    BY DEF Path, IdleProc
  <2>3. Settled(row["source"])
    BY <1>2 DEF DisableRead, CurrentlyActive, Settled
  <2> QED
    BY <2>1, <2>2, <2>3, SerialStart
<1>3. CASE EnableRead(p1, "source")
  <2>1. Start(p1, "enable", "enable", "source", "mark", "active", 0) /\ UNCHANGED <<now, row>>
    BY <1>3 DEF EnableRead
  <2>2. Path([IdleProc EXCEPT !.kind = "enable", !.pc = "mark", !.target = "source", !.goal = "active", !.until = 0])
    BY DEF Path, IdleProc
  <2>3. Settled(row["source"])
    BY <1>3 DEF EnableRead, Settled
  <2> QED
    BY <2>1, <2>2, <2>3, SerialStart
<1>4. CASE RenewRead(p1, "source")
  <2>1. PICK until : Start(p1, "renew", "renew", "source", "extend", "none", until)
    BY <1>4 DEF RenewRead
  <2>2. UNCHANGED <<now, row>>
    BY <1>4 DEF RenewRead
  <2>3. Path([IdleProc EXCEPT !.kind = "renew", !.pc = "extend", !.target = "source", !.goal = "none", !.until = until])
    BY DEF Path, IdleProc
  <2> QED
    BY <2>1, <2>2, <2>3, SerialStart
<1> QED
  BY <1>1, <1>2, <1>3, <1>4

(* The sign-up, the policies and the task begin.                             *)
LEMMA SerialBegins ==
    ASSUME IndInv, SerialHolds,
           \/ SubscribeRead(p1) \/ ProcessRead(p1)
           \/ \E kind \in {"allow", "deny", "unset"} : SetPolicy(p1, kind)
    PROVE  SerialHolds'
<1>f. PICK q \in Proc, s \in Row, d \in Row, t \in Nat :
         q = proc[p1] /\ s = row["source"] /\ d = row["derived"] /\ t = now
  BY SerialFacts
<1>1. SerialInv(q, s, d, t) /\ q.pc = "idle"
  BY <1>f DEF SerialHolds, SubscribeRead, ProcessRead, SetPolicy, Start, At
<1>2. row'["source"] = s /\ row'["derived"] = d /\ now' = t
  BY <1>f DEF SubscribeRead, ProcessRead, SetPolicy
<1>3. MirroredOrOut(s, d, t)
  BY <1>1 DEF SerialInv, Midway
<1>q. PICK q1 : q1 = proc'[p1]
  OBVIOUS
<1>4. CASE SubscribeRead(p1)
  <2>1. q1.kind = "subscribe" /\ q1.pc = "upsert" /\ q1.target = "source"
    BY <1>4, <1>q, PartsConstants, SerialFacts DEF SubscribeRead, IdleProc
  <2>2. Path(q1) /\ ~Midway(q1) /\ Held(q1, s, d)
    BY <2>1 DEF Path, Midway, Held
  <2> QED
    BY <1>q, <1>2, <1>3, <2>1, <2>2 DEF SerialHolds, SerialInv
<1>5. CASE \E kind \in {"allow", "deny", "unset"} : SetPolicy(p1, kind)
  <2>1. q1.kind \in {"allow", "deny", "unset"} /\ q1.pc = "announcePolicy"
    BY <1>5, <1>q, PartsConstants, SerialFacts DEF SetPolicy, Start, IdleProc
  <2>2. Path(q1) /\ ~Midway(q1) /\ Held(q1, s, d)
    BY <2>1 DEF Path, Midway, Held
  <2> QED
    BY <1>q, <1>2, <1>3, <2>1, <2>2 DEF SerialHolds, SerialInv
<1>6. CASE ProcessRead(p1)
  <2> DEFINE due == {u \in Targets : row[u].status = "active" /\ row[u].expiresAt <= now}
             rest == {[target |-> u, until |-> row[u].expiresAt, renew |-> row[u].autoRenew] : u \in due}
  <2>1. q1.kind = "process" /\ q1.pc = "next" /\ q1.rest = rest /\ due # {}
    BY <1>6, <1>q, PartsConstants, SerialFacts DEF ProcessRead, IdleProc
  <2>2. /\ \A i, j \in rest : i.target = j.target => i = j
        /\ (\E i \in rest : i.target = "derived") => d.status = "active" /\ d.expiresAt <= t
    BY <1>f DEF Targets
  <2>3. d.status = "active" \/ s.status = "active"
    BY <2>1, <1>f DEF Targets
  <2>4. d.status # "none"
    BY <2>3, <1>3, <1>f, MirrorIsThere DEF Settled
  <2> HIDE DEF rest, due
  <2>5. Path(q1) /\ ~Midway(q1) /\ Held(q1, s, d)
    BY <2>1, <2>4 DEF Path, Midway, Held
  <2>6. Snapshot(q1, s, d, t)
    BY <2>1, <2>2, <1>3 DEF Snapshot, Mirrored, MirroredOrOut
  <2> QED
    BY <1>q, <1>2, <1>3, <2>1, <2>5, <2>6 DEF SerialHolds, SerialInv
<1> QED
  BY <1>4, <1>5, <1>6

(* The steps of a sign-up, and of a policy that grants.                      *)
LEMMA SerialSignUp ==
    ASSUME IndInv, SerialHolds,
           \/ UpsertProvisioning(p1) \/ Activate(p1) \/ Announce(p1) \/ FindExisting(p1) \/ Derive(p1)
           \/ AnnouncePolicy(p1) \/ ReadSource(p1)
    PROVE  SerialHolds'
<1>f. PICK q \in Proc, s \in Row, d \in Row, t \in Nat :
         q = proc[p1] /\ s = row["source"] /\ d = row["derived"] /\ t = now
  BY SerialFacts
<1>q. PICK q1, s1, d1 : q1 = proc'[p1] /\ s1 = row'["source"] /\ d1 = row'["derived"]
  OBVIOUS
<1>1. SerialInv(q, s, d, t) /\ now' = t /\ Path(q)
  BY <1>f DEF SerialHolds, SerialInv, UpsertProvisioning, Activate, Announce, FindExisting, Derive,
     AnnouncePolicy, ReadSource
<1>r. /\ row' = row => s1 = s /\ d1 = d
      /\ Done(p1) => q1 = IdleProc
      /\ \A pc : Goto(p1, pc) => q1 = [q EXCEPT !.pc = pc]
  BY <1>f, <1>q, PartsConstants, SerialFacts DEF Done, Goto
<1>i. ASSUME q1 = IdleProc, s1 = s, d1 = d, ~Midway(q) PROVE SerialHolds'
  <2>1. SerialInv(IdleProc, s, d, t)
    BY <1>1, <1>i, IdleSerial DEF SerialInv
  <2> QED
    BY <2>1, <1>i, <1>q, <1>1 DEF SerialHolds
<1>2. CASE UpsertProvisioning(p1)
  <2>1. q.kind = "subscribe" /\ q.pc = "upsert" /\ q.target = "source" /\ ~Midway(q)
    BY <1>1, <1>2, <1>f DEF UpsertProvisioning, At, Path, Midway
  <2>2. CASE Done(p1) /\ row' = row
    BY <2>1, <2>2, <1>r, <1>i
  <2>3. CASE Goto(p1, "activate") /\ s1.status = "provisioning" /\ d1 = d
    <3>1. q1.pc = "activate" /\ q1.kind = "subscribe" /\ q1.target = "source"
      BY <2>1, <2>3, <1>r DEF Proc
    <3>2. Path(q1) /\ ~Midway(q1) /\ Held(q1, s1, d1) /\ MirroredOrOut(s1, d1, t)
      BY <3>1, <2>3 DEF Path, Midway, Held, MirroredOrOut, Settled
    <3> QED
      BY <3>1, <3>2, <1>q, <1>1 DEF SerialHolds, SerialInv
  <2>4. \A r \in Row, auto \in BOOLEAN :
           LET new == [r EXCEPT !.status = "provisioning", !.expiresAt = now + Period, !.autoRenew = auto]
           IN  (row' = [row EXCEPT !["source"] = new]) => s1.status = "provisioning" /\ d1 = d
    BY <1>f, <1>q, SerialFacts DEF Targets, Row
  <2>5. \A id \in Rows : [NoRow EXCEPT !.id = id] \in Row
    BY DEF NoRow, Row, Statuses
  <2> QED
    BY <1>2, <2>2, <2>3, <2>4, <2>5, SerialFacts DEF UpsertProvisioning
<1>3. CASE Activate(p1)
  <2>1. q.kind = "subscribe" /\ q.pc = "activate" /\ q.target = "source"
    BY <1>1, <1>3, <1>f DEF Activate, At, Path
  <2>2. CASE Throw(p1)
    BY <2>1, <2>2, <1>f, <1>1, SerialThrow
  <2>3. CASE ~Throw(p1)
    <3>1. /\ row' = [row EXCEPT !["source"].status = "active", !["source"].failedOp = "none"]
          /\ proc' = [proc EXCEPT ![p1].pc = "announce", ![p1].src = row'["source"]]
      BY <1>3, <2>3 DEF Activate
    <3>2. s1.status = "active" /\ d1 = d
      BY <3>1, <1>f, <1>q, SerialFacts DEF Targets, Row
    <3>3. q1.pc = "announce" /\ q1.kind = "subscribe" /\ q1.target = "source"
      BY <3>1, <2>1, <1>f, <1>q, PartsConstants, SerialFacts DEF Proc
    <3>4. Path(q1) /\ Midway(q1) /\ Held(q1, s1, d1)
      BY <3>2, <3>3 DEF Path, Midway, Held
    <3> QED
      BY <3>3, <3>4, <1>q, <1>1 DEF SerialHolds, SerialInv
  <2> QED
    BY <2>2, <2>3
<1>4. CASE Announce(p1)
  <2>1. q.pc = "announce" /\ row' = row /\ q.kind \in {"subscribe", "cancel", "disable", "enable", "allow"}
    BY <1>1, <1>4, <1>f DEF Announce, At, Path
  <2>2. CASE q.kind # "subscribe"
    <3>1. Done(p1) /\ ~Midway(q)
      BY <1>4, <2>1, <2>2, <1>f DEF Announce, Midway
    <3> QED
      BY <3>1, <2>1, <1>r, <1>i
  <2>3. CASE q.kind = "subscribe"
    <3>1. q1 = [q EXCEPT !.pc = "existing"]
      BY <1>4, <2>3, <1>f, <1>r DEF Announce
    <3>2. q1.pc = "existing" /\ q1.kind = "subscribe" /\ q1.target = "source"
      BY <3>1, <2>3, <1>1 DEF Proc, Path
    <3>3. s.status = "active"
      BY <1>1, <2>1, <2>3 DEF SerialInv, Held, Midway
    <3>4. Path(q1) /\ Midway(q1) /\ Held(q1, s, d)
      BY <3>2, <3>3 DEF Path, Midway, Held
    <3> QED
      BY <3>2, <3>4, <2>1, <1>r, <1>q, <1>1 DEF SerialHolds, SerialInv
  <2> QED
    BY <2>2, <2>3
<1>5. CASE FindExisting(p1)
  <2>1. q.pc = "existing" /\ row' = row /\ q.kind \in {"subscribe", "allow"}
    BY <1>1, <1>5, <1>f DEF FindExisting, At, Path
  <2>2. q1.pc = "derive" /\ q1.kind = q.kind /\ q1.target = q.target
    BY <1>5, <1>f, <1>q, PartsConstants, SerialFacts DEF FindExisting, Proc
  <2>3. q.kind = "subscribe" => q.target = "source"
    BY <1>1, <2>1 DEF Path
  <2>4. s.status = "active" /\ (q.kind = "allow" => MirroredOrOut(s, d, t))
    BY <1>1, <2>1 DEF SerialInv, Held, Midway
  <2>5. Path(q1) /\ Held(q1, s, d) /\ (Midway(q1) <=> q.kind = "subscribe")
    BY <2>1, <2>2, <2>3, <2>4 DEF Path, Held, Midway
  <2> QED
    BY <2>1, <2>2, <2>4, <2>5, <1>r, <1>q, <1>1 DEF SerialHolds, SerialInv
<1>6. CASE Derive(p1)
  <2>1. q.pc = "derive" /\ q.kind \in {"subscribe", "allow"}
    BY <1>1, <1>6, <1>f DEF Derive, At, Path
  <2>2. CASE Throw(p1)
    BY <2>1, <2>2, <1>f, <1>1, SerialThrow
  <2>3. CASE ~Throw(p1)
    <3>1. s.status = "active"
      BY <1>1, <2>1 DEF SerialInv, Held, Midway
    <3> DEFINE old == IF IsRow(q.found) THEN d ELSE NoRow
               new == [old EXCEPT !.id = q.src.id, !.status = "active", !.expiresAt = q.src.expiresAt,
                                  !.autoRenew = q.src.autoRenew]
    <3>2. row' = [row EXCEPT !["derived"] = new]
      BY <1>6, <2>3, <1>f DEF Derive
    <3>3. old \in Row
      BY Constants0
    <3>4. new.status = "active"
      BY <3>3 DEF Row
    <3> HIDE DEF old, new
    <3>5. s1 = s /\ d1.status = "active"
      BY <3>2, <3>4, <1>f, <1>q, SerialFacts DEF Targets
    <3>6. MirroredOrOut(s1, d1, t)
      BY <3>5, <3>1 DEF MirroredOrOut
    <3>7. CASE q.kind = "allow"
      <4>1. q1 = [q EXCEPT !.pc = "announce"]
        BY <1>6, <2>3, <3>7, <1>f, <1>r DEF Derive
      <4>2. q1.pc = "announce" /\ q1.kind = "allow"
        BY <4>1, <3>7 DEF Proc
      <4>3. Path(q1) /\ ~Midway(q1) /\ Held(q1, s1, d1)
        BY <4>2 DEF Path, Midway, Held
      <4> QED
        BY <4>2, <4>3, <3>6, <1>q, <1>1 DEF SerialHolds, SerialInv
    <3>8. CASE q.kind # "allow"
      <4>1. q1 = IdleProc
        BY <1>6, <2>3, <3>8, <1>f, <1>r DEF Derive
      <4>2. s1 \in Row /\ d1.status = "active"
        BY <3>5
      <4>3. SerialInv(IdleProc, s1, d1, t)
        BY <3>6 DEF SerialInv, IdleProc, Path, Midway, Held
      <4> QED
        BY <4>1, <4>3, <1>q, <1>1 DEF SerialHolds
    <3> QED
      BY <3>7, <3>8
  <2> QED
    BY <2>2, <2>3
<1>7. CASE AnnouncePolicy(p1)
  <2>1. q.pc = "announcePolicy" /\ row' = row /\ q.kind \in {"allow", "deny", "unset"} /\ ~Midway(q)
    BY <1>1, <1>7, <1>f DEF AnnouncePolicy, At, Path, Midway
  <2>2. CASE q.kind # "allow"
    BY <1>7, <2>1, <2>2, <1>f, <1>r, <1>i DEF AnnouncePolicy
  <2>3. CASE q.kind = "allow"
    <3>1. q1 = [q EXCEPT !.pc = "readSource"]
      BY <1>7, <2>3, <1>f, <1>r DEF AnnouncePolicy
    <3>2. q1.pc = "readSource" /\ q1.kind = "allow"
      BY <3>1, <2>3 DEF Proc
    <3>3. Path(q1) /\ ~Midway(q1) /\ Held(q1, s, d)
      BY <3>2 DEF Path, Midway, Held
    <3> QED
      BY <3>2, <3>3, <2>1, <1>r, <1>q, <1>1 DEF SerialHolds, SerialInv
  <2> QED
    BY <2>2, <2>3
<1>8. CASE ReadSource(p1)
  <2>1. q.pc = "readSource" /\ row' = row /\ q.kind = "allow" /\ ~Midway(q)
    BY <1>1, <1>8, <1>f DEF ReadSource, At, Path, Midway
  <2>2. CASE ~CurrentlyActive(row["source"])
    BY <1>8, <2>1, <2>2, <1>f, <1>r, <1>i DEF ReadSource
  <2>3. CASE CurrentlyActive(row["source"])
    <3>1. q1.pc = "existing" /\ q1.kind = "allow" /\ s.status = "active"
      BY <1>8, <2>1, <2>3, <1>f, <1>q, PartsConstants, SerialFacts DEF ReadSource, CurrentlyActive, Proc
    <3>2. Path(q1) /\ ~Midway(q1) /\ Held(q1, s, d)
      BY <3>1 DEF Path, Midway, Held
    <3> QED
      BY <3>1, <3>2, <2>1, <1>r, <1>q, <1>1 DEF SerialHolds, SerialInv
  <2> QED
    BY <2>2, <2>3
<1> QED
  BY <1>2, <1>3, <1>4, <1>5, <1>6, <1>7, <1>8

(* The steps of a cancellation, of a change of status and of an extension.   *)
LEMMA SerialChanges ==
    ASSUME IndInv, SerialHolds, MarkTransition(p1) \/ RemoveRow(p1) \/ Settle(p1) \/ Extend(p1)
    PROVE  SerialHolds'
<1>f. PICK q \in Proc, s \in Row, d \in Row, t \in Nat :
         q = proc[p1] /\ s = row["source"] /\ d = row["derived"] /\ t = now
  BY SerialFacts
<1>q. PICK q1, s1, d1 : q1 = proc'[p1] /\ s1 = row'["source"] /\ d1 = row'["derived"]
  OBVIOUS
<1>1. SerialInv(q, s, d, t) /\ now' = t /\ Path(q)
  BY <1>f DEF SerialHolds, SerialInv, MarkTransition, RemoveRow, Settle, Extend
<1>t. q.target \in {"source", "derived"} /\ (q.target = "source" => row[q.target] = s) /\ (q.target = "derived" => row[q.target] = d)
  BY <1>f DEF Proc, Targets
<1>r. /\ Done(p1) => q1 = IdleProc
      /\ \A pc : Goto(p1, pc) => q1 = [q EXCEPT !.pc = pc]
  BY <1>f, <1>q, PartsConstants, SerialFacts DEF Done, Goto
<1>0. CASE Throw(p1)
  <2>1. q.pc \in {"mark", "remove", "settle", "extend"}
    BY <1>f DEF MarkTransition, RemoveRow, Settle, Extend, At
  <2> QED
    BY <1>0, <2>1, <1>f, <1>1, SerialThrow
<1>2. CASE MarkTransition(p1) /\ ~Throw(p1)
  <2>1. q.pc = "mark" /\ q.kind \in {"cancel", "disable", "enable"} /\ q.target = "source"
    BY <1>1, <1>2, <1>f DEF MarkTransition, At, Path
  <2>2. /\ row' = [row EXCEPT !["source"].status = TransitionalStatus(q.kind)]
        /\ q1 = [q EXCEPT !.pc = IF q.kind = "cancel" THEN "remove" ELSE "settle"]
    BY <1>2, <2>1, <1>f, <1>r DEF MarkTransition
  <2>3. s1.status \in {"cancelling", "disabling", "enabling"} /\ d1 = d
    BY <2>1, <2>2, <1>f, <1>q, SerialFacts DEF Targets, Row, TransitionalStatus
  <2>4. /\ q1.pc = IF q.kind = "cancel" THEN "remove" ELSE "settle"
        /\ q1.kind = q.kind /\ q1.target = "source" /\ q1.goal = q.goal
    BY <2>1, <2>2 DEF Proc
  <2>5. q.kind \in {"disable", "enable"} => d.status # "none"
    BY <1>1 DEF SerialInv, Held
  <2>6. Path(q1) /\ ~Midway(q1) /\ Held(q1, s1, d1) /\ MirroredOrOut(s1, d1, t)
    BY <1>1, <2>1, <2>3, <2>4, <2>5 DEF Path, Midway, Held, MirroredOrOut, Settled
  <2> QED
    BY <2>1, <2>4, <2>6, <1>q, <1>1 DEF SerialHolds, SerialInv
<1>3. CASE RemoveRow(p1) /\ ~Throw(p1)
  <2>1. q.pc = "remove" /\ q.kind = "cancel" /\ q.target = "source"
    BY <1>1, <1>3, <1>f DEF RemoveRow, At, Path
  <2>2. row' = [u \in Targets |-> NoRow] /\ q1 = [q EXCEPT !.pc = "announce"]
    BY <1>3, <2>1, <1>f, <1>r DEF RemoveRow
  <2>3. s1.status = "none"
    BY <2>2, <1>q DEF Targets, NoRow
  <2>4. q1.pc = "announce" /\ q1.kind = "cancel" /\ q1.target = "source"
    BY <2>1, <2>2 DEF Proc
  <2>5. Path(q1) /\ ~Midway(q1) /\ Held(q1, s1, d1) /\ MirroredOrOut(s1, d1, t)
    BY <2>3, <2>4 DEF Path, Midway, Held, MirroredOrOut, Settled
  <2> QED
    BY <2>4, <2>5, <1>q, <1>1 DEF SerialHolds, SerialInv
<1>4. CASE Settle(p1) /\ ~Throw(p1)
  <2>1. /\ q.pc = "settle" /\ q.kind \in {"disable", "enable", "process"}
        /\ q.kind \in {"disable", "enable"} => q.target = "source"
        /\ q.kind = "disable" => q.goal = "disabled"
        /\ q.kind = "enable" => q.goal = "active"
        /\ q.kind = "process" => q.goal = "expired"
    BY <1>1, <1>4, <1>f DEF Settle, At, Path
  <2>2. /\ row' = [row EXCEPT ![q.target].status = q.goal, ![q.target].failedOp = @, ![q.target].autoRenew = @]
        /\ proc' = [proc EXCEPT ![p1].pc = "find", ![p1].src = row'[q.target]]
    BY <1>4, <2>1, <1>f DEF Settle
  <2>3. /\ q.target = "source" => s1.status = q.goal /\ s1.id = s.id /\ d1 = d
        /\ q.target = "derived" => d1.status = q.goal /\ d1.expiresAt = d.expiresAt /\ s1 = s
    BY <2>1, <2>2, <1>f, <1>q, <1>t, SerialFacts DEF Targets, Row
  <2>4. /\ q1.pc = "find" /\ q1.kind = q.kind /\ q1.target = q.target /\ q1.goal = q.goal /\ q1.rest = q.rest
        /\ q.target = "source" => q1.src.id = s1.id
    BY <2>2, <1>f, <1>q, <1>t, PartsConstants, SerialFacts DEF Proc
  <2>5. d.status # "none"
    BY <1>1, <2>1 DEF SerialInv, Held
  <2>6. q.target = "derived" => q.kind = "process" /\ d.expiresAt <= t
    BY <1>1, <1>t, <2>1 DEF SerialInv, Snapshot
  <2>7. Path(q1) /\ (Midway(q1) <=> q.target = "source")
    BY <2>1, <2>4, <1>t DEF Path, Midway
  <2>8. Held(q1, s1, d1) 
    BY <2>1, <2>3, <2>4, <2>5, <2>7, <1>t DEF Held
  <2>9. q.target = "derived" => MirroredOrOut(s1, d1, t)
    BY <2>1, <2>3, <2>6 DEF MirroredOrOut
  <2>10. q.kind = "process" => Snapshot(q1, s1, d1, t)
    <3> SUFFICES ASSUME q.kind = "process" PROVE Snapshot(q1, s1, d1, t)
      OBVIOUS
    <3>1. /\ \A i, j \in q.rest : i.target = j.target => i = j
          /\ \A i \in q.rest : i.target # q.target
          /\ (\E i \in q.rest : i.target = "derived") => d.expiresAt <= t
      BY <1>1, <2>1 DEF SerialInv, Snapshot
    <3> QED
      BY <3>1, <2>3, <2>4, <2>7, <1>t DEF Snapshot
  <2> QED
    BY <2>4, <2>7, <2>8, <2>9, <2>10, <1>t, <1>q, <1>1 DEF SerialHolds, SerialInv
<1>5. CASE Extend(p1) /\ ~Throw(p1)
  <2>1. /\ q.pc = "extend" /\ q.kind \in {"renew", "process"} /\ q.goal = "none"
        /\ q.kind = "renew" => q.target = "source"
    BY <1>1, <1>5, <1>f DEF Extend, At, Path
  <2>2. PICK e \in Nat : /\ row' = [row EXCEPT ![q.target].expiresAt = e]
                         /\ proc' = [proc EXCEPT ![p1].pc = "find", ![p1].src = row'[q.target]]
    <3>1. q.until \in Nat /\ q.until + Period \in Nat
      BY CascadeConstants DEF Proc
    <3> QED
      BY <1>5, <3>1, <1>f DEF Extend
  <2>3. /\ q.target = "source" => s1.status = s.status /\ s1.id = s.id /\ d1 = d
        /\ q.target = "derived" => d1.status = d.status /\ s1 = s
    BY <2>1, <2>2, <1>f, <1>q, <1>t, SerialFacts DEF Targets, Row
  <2>4. /\ q1.pc = "find" /\ q1.kind = q.kind /\ q1.target = q.target /\ q1.goal = q.goal /\ q1.rest = q.rest
        /\ q.target = "source" => q1.src.id = s1.id
    BY <2>2, <1>f, <1>q, <1>t, PartsConstants, SerialFacts DEF Proc
  <2>5. q.kind = "process" => d.status # "none" /\ Snapshot(q, s, d, t)
    BY <1>1, <2>1 DEF SerialInv, Held
  <2>6. MirroredOrOut(s, d, t) /\ ~Midway(q)
    BY <1>1, <2>1 DEF SerialInv, Midway
  <2>7. q.target = "derived" => q.kind = "process" /\ Mirrored(s, d)
    BY <2>1, <2>5, <1>t DEF Snapshot
  <2>8. Path(q1) /\ ~Midway(q1) /\ Held(q1, s1, d1)
    BY <2>1, <2>3, <2>4, <2>5, <1>t DEF Path, Midway, Held
  <2>9. MirroredOrOut(s1, d1, t)
    BY <2>3, <2>6, <2>7, <1>t DEF MirroredOrOut, Mirrored, Settled
  <2>10. q.kind = "process" => Snapshot(q1, s1, d1, t)
    <3> SUFFICES ASSUME q.kind = "process" PROVE Snapshot(q1, s1, d1, t)
      OBVIOUS
    <3>1. /\ \A i, j \in q.rest : i.target = j.target => i = j
          /\ \A i \in q.rest : i.target # q.target
          /\ (\E i \in q.rest : i.target = "derived") => d.expiresAt <= t /\ Mirrored(s, d)
      BY <2>1, <2>5, <2>6 DEF Snapshot
    <3>2. q.target = "source" => (Mirrored(s, d) => Mirrored(s1, d1)) /\ d1 = d
      BY <2>3 DEF Mirrored, Settled
    <3> QED
      BY <3>1, <3>2, <2>4, <1>t DEF Snapshot
  <2> QED
    BY <2>4, <2>8, <2>9, <2>10, <1>q, <1>1 DEF SerialHolds, SerialInv
<1> QED
  BY <1>0, <1>2, <1>3, <1>4, <1>5

(* The cascade finds the derived row, and carries the change over.           *)
LEMMA SerialCascade ==
    ASSUME IndInv, SerialHolds, FindDerived(p1) \/ Propagate(p1)
    PROVE  SerialHolds'
<1>f. PICK q \in Proc, s \in Row, d \in Row, t \in Nat :
         q = proc[p1] /\ s = row["source"] /\ d = row["derived"] /\ t = now
  BY SerialFacts
<1>q. PICK q1, s1, d1 : q1 = proc'[p1] /\ s1 = row'["source"] /\ d1 = row'["derived"]
  OBVIOUS
<1>1. SerialInv(q, s, d, t) /\ now' = t /\ Path(q)
  BY <1>f DEF SerialHolds, SerialInv, FindDerived, Propagate
<1>t. q.target \in {"source", "derived"}
  BY DEF Proc, Targets
<1>p. /\ q.pc \in {"find", "propagate"} /\ q.kind \in {"disable", "enable", "renew", "process"}
      /\ q.kind # "process" => q.target = "source"
      /\ q.kind = "disable" => q.goal = "disabled"
      /\ q.kind = "enable" => q.goal = "active"
      /\ q.kind = "renew" => q.goal = "none"
      /\ q.kind = "process" => q.goal \in {"none", "expired"}
  BY <1>1, <1>f DEF FindDerived, Propagate, At, Path
<1>s. q.kind = "process" =>
         /\ \A i, j \in q.rest : i.target = j.target => i = j
         /\ \A i \in q.rest : i.target # q.target
         /\ (\E i \in q.rest : i.target = "derived") => d.expiresAt <= t /\ (~Midway(q) => Mirrored(s, d))
  BY <1>1, <1>p DEF SerialInv, Snapshot
<1>2. CASE FindDerived(p1)
  <2>1. q.pc = "find" /\ s1 = s /\ d1 = d
    BY <1>2, <1>f, <1>q DEF FindDerived, At
  <2> DEFINE found == IF q.target = "source" /\ d.status # "none" /\ d.id = q.src.id THEN d ELSE NoRow
  <2>2. q1 = [q EXCEPT !.found = found, !.pc = "propagate"]
    BY <1>2, <1>f, <1>q, PartsConstants, SerialFacts DEF FindDerived, Exists, IsRow
  <2>3. q.target = "source" /\ d.status # "none" => d.id = q.src.id
    BY <1>1, <2>1, <1>f, SerialFacts DEF SerialInv, Held
  <2>4. /\ q.target = "derived" \/ d.status = "none" => found.status = "none"
        /\ q.target = "source" /\ d.status # "none" => found = d
    BY <2>3 DEF NoRow
  <2> HIDE DEF found
  <2>5. /\ q1.pc = "propagate" /\ q1.kind = q.kind /\ q1.target = q.target /\ q1.goal = q.goal
        /\ q1.rest = q.rest /\ q1.found = found
    BY <2>2 DEF Proc
  <2>6. Path(q1) /\ (Midway(q1) <=> Midway(q))
    BY <2>1, <2>5, <1>p DEF Path, Midway
  <2>7. /\ Midway(q) => s.status = (IF q.kind = "subscribe" THEN "active" ELSE q.goal)
        /\ q.kind \in {"disable", "enable", "process"} => d.status # "none"
    BY <1>1 DEF SerialInv, Held
  <2>8. Held(q1, s, d)
    BY <2>4, <2>5, <2>6, <2>7, <1>t, <1>p DEF Held
  <2>9. q.kind = "process" => Snapshot(q1, s, d, t)
    BY <1>s, <2>5, <2>6 DEF Snapshot
  <2>10. ~Midway(q) => MirroredOrOut(s, d, t)
    BY <1>1 DEF SerialInv
  <2> QED
    BY <2>1, <2>5, <2>6, <2>8, <2>9, <2>10, <1>q, <1>1 DEF SerialHolds, SerialInv
<1>3. CASE Propagate(p1) /\ Throw(p1)
  BY <1>3, <1>p, <1>f, <1>1, SerialThrow
<1>4. CASE Propagate(p1) /\ ~Throw(p1)
  <2>1. q.pc = "propagate" /\ Continue(p1)
    BY <1>4, <1>f DEF Propagate, At
  <2>2. /\ q.found.status = "none" => s1 = s /\ d1 = d
        /\ q.found.status # "none" => s1 = s /\ d1 = Propagated(p1, d)
    BY <1>4, <1>f, <1>q, SerialFacts DEF Propagate, IsRow, Targets
  <2>3. /\ (q.target = "derived" \/ d.status = "none") => q.found.status = "none"
        /\ q.target = "source" /\ d.status # "none" => q.found.status # "none" /\ q.found.expiresAt = d.expiresAt
        /\ Midway(q) => s.status = (IF q.kind = "subscribe" THEN "active" ELSE q.goal)
        /\ q.kind \in {"disable", "enable", "process"} => d.status # "none"
        /\ ~Midway(q) => MirroredOrOut(s, d, t)
    BY <1>1, <1>t, <2>1 DEF SerialInv, Held
  <2> DEFINE clamped == Earliest(q.found.expiresAt, q.src.expiresAt)
  <2>4. Propagated(p1, d) = CASE q.kind = "enable" -> [d EXCEPT !.status = "active", !.expiresAt = clamped]
                              [] q.kind # "enable" /\ q.goal # "none" -> [d EXCEPT !.status = q.goal]
                              [] q.kind # "enable" /\ q.goal = "none" ->
                                    [d EXCEPT !.expiresAt = IF clamped # q.found.expiresAt THEN q.src.expiresAt ELSE @]
    BY <1>f DEF Propagated
  <2>5. /\ q.found \in Row /\ q.src \in Row /\ q.found.expiresAt \in Nat /\ q.src.expiresAt \in Nat /\ d.expiresAt \in Nat
        /\ clamped <= q.found.expiresAt /\ (clamped # q.found.expiresAt => clamped = q.src.expiresAt)
    BY DEF Proc, Row, Earliest
  <2> HIDE DEF clamped
  <2>6. CASE Midway(q)
    <3>1. /\ s.status = q.goal /\ d.status # "none" /\ q.target = "source" /\ q.kind \in {"disable", "enable", "process"}
          /\ q.goal \in {"disabled", "active", "expired"}
      BY <2>3, <2>6, <1>p DEF Midway
    <3>2. d1.status = q.goal /\ s1 = s /\ (q.kind = "process" => d1.expiresAt = d.expiresAt)
      <4>1. q.found.status # "none" /\ s1 = s /\ d1 = Propagated(p1, d)
        BY <3>1, <2>2, <2>3
      <4>2. d1 = IF q.kind = "enable" THEN [d EXCEPT !.status = "active", !.expiresAt = clamped] ELSE [d EXCEPT !.status = q.goal]
        BY <4>1, <3>1, <2>4
      <4>3. d1.status = (IF q.kind = "enable" THEN "active" ELSE q.goal) /\ (q.kind # "enable" => d1.expiresAt = d.expiresAt)
        BY <4>2 DEF Row
      <4> QED
        BY <4>1, <4>3, <1>p
    <3> QED
      <4>1. Mirrored(s1, d1) /\ MirroredOrOut(s1, d1, t) /\ d1.status # "none"
        BY <3>1, <3>2 DEF Mirrored, MirroredOrOut
      <4>2. CASE q.kind = "process"
        <5>1. q1 = [q EXCEPT !.pc = "next"]
          BY <4>2, <2>1, <1>f, <1>q, PartsConstants, SerialFacts DEF Continue, Goto
        <5>2. q1.pc = "next" /\ q1.kind = "process" /\ q1.target = q.target /\ q1.rest = q.rest
          BY <5>1, <4>2 DEF Proc
        <5>3. Path(q1) /\ ~Midway(q1) /\ Held(q1, s1, d1)
          BY <5>2, <4>1 DEF Path, Midway, Held
        <5>4. Snapshot(q1, s1, d1, t)
          BY <5>2, <4>1, <4>2, <3>2, <1>s DEF Snapshot
        <5> QED
          BY <5>2, <5>3, <5>4, <4>1, <1>q, <1>1 DEF SerialHolds, SerialInv
      <4>3. CASE q.kind # "process"
        <5>1. q1 = [q EXCEPT !.pc = "announce"]
          BY <4>3, <3>1, <2>1, <1>f, <1>q, PartsConstants, SerialFacts DEF Continue, Goto
        <5>2. q1.pc = "announce" /\ q1.kind = q.kind /\ q1.target = q.target /\ q1.goal = q.goal
          BY <5>1 DEF Proc
        <5>3. Path(q1) /\ ~Midway(q1) /\ Held(q1, s1, d1)
          BY <5>2, <4>1, <4>3, <3>1, <1>p DEF Path, Midway, Held
        <5> QED
          BY <5>2, <5>3, <4>1, <4>3, <1>q, <1>1 DEF SerialHolds, SerialInv
      <4> QED
        BY <4>2, <4>3
  <2>7. CASE ~Midway(q)
    <3>1. q.kind \in {"renew", "process"} /\ (q.target = "source" => q.goal = "none")
      BY <2>1, <2>7, <1>p, <1>t DEF Midway
    <3>2. s1 = s /\ d1.status = d.status /\ d1.expiresAt \in Nat /\ d1.expiresAt <= d.expiresAt
      <4>1. CASE q.found.status = "none"
        BY <4>1, <2>2, <2>5
      <4>2. CASE q.found.status # "none"
        <5>1. q.target = "source" /\ q.goal = "none" /\ q.found.expiresAt = d.expiresAt
          BY <4>2, <3>1, <2>3, <1>t
        <5>2. d1 = [d EXCEPT !.expiresAt = IF clamped # q.found.expiresAt THEN q.src.expiresAt ELSE @]
          BY <4>2, <5>1, <3>1, <2>2, <2>4
        <5>3. d1.status = d.status /\ d1.expiresAt = IF clamped # q.found.expiresAt THEN q.src.expiresAt ELSE d.expiresAt
          BY <5>2 DEF Row
        <5> QED
          BY <4>2, <5>1, <5>3, <2>2, <2>5
      <4> QED
        BY <4>1, <4>2
    <3>3. MirroredOrOut(s, d, t) /\ MirroredOrOut(s1, d1, t)
      BY <3>2, <2>3, <2>5, <2>7 DEF MirroredOrOut
    <3>4. CASE q.kind = "process"
      <4>1. q1 = [q EXCEPT !.pc = "next"]
        BY <3>4, <2>1, <1>f, <1>q, PartsConstants, SerialFacts DEF Continue, Goto
      <4>2. q1.pc = "next" /\ q1.kind = "process" /\ q1.target = q.target /\ q1.rest = q.rest
        BY <4>1, <3>4 DEF Proc
      <4>3. Path(q1) /\ ~Midway(q1) /\ Held(q1, s1, d1)
        BY <4>2, <3>2, <3>4, <2>3 DEF Path, Midway, Held
      <4>4. (\E i \in q.rest : i.target = "derived") => d1.expiresAt <= t /\ Mirrored(s1, d1)
        BY <3>2, <3>4, <2>5, <2>7, <1>s DEF Mirrored
      <4>5. Snapshot(q1, s1, d1, t)
        BY <4>2, <4>4, <3>4, <1>s DEF Snapshot
      <4> QED
        BY <4>2, <4>3, <4>5, <3>3, <1>q, <1>1 DEF SerialHolds, SerialInv
    <3>5. CASE q.kind # "process"
      <4>1. q1 = IdleProc
        BY <3>1, <3>5, <2>1, <1>f, <1>q, PartsConstants, SerialFacts DEF Continue, Done
      <4>2. SerialInv(IdleProc, s1, d1, t)
        BY <3>3 DEF SerialInv, IdleProc, Path, Midway, Held
      <4> QED
        BY <4>1, <4>2, <1>q, <1>1 DEF SerialHolds
    <3> QED
      BY <3>4, <3>5
  <2> QED
    BY <2>6, <2>7
<1> QED
  BY <1>2, <1>3, <1>4

(* The task takes the next row of its snapshot.                              *)
LEMMA SerialNext ==
    ASSUME IndInv, SerialHolds, NextRow(p1)
    PROVE  SerialHolds'
<1>f. PICK q \in Proc, s \in Row, d \in Row, t \in Nat :
         q = proc[p1] /\ s = row["source"] /\ d = row["derived"] /\ t = now
  BY SerialFacts
<1>q. PICK q1 : q1 = proc'[p1]
  OBVIOUS
<1>1. /\ SerialInv(q, s, d, t) /\ now' = t /\ row'["source"] = s /\ row'["derived"] = d
      /\ q.pc = "next" /\ q.kind = "process" /\ ~Midway(q)
  BY <1>f DEF SerialHolds, SerialInv, NextRow, At, Path, Midway
<1>2. MirroredOrOut(s, d, t) /\ d.status # "none" /\ Snapshot(q, s, d, t)
  BY <1>1 DEF SerialInv, Held
<1>3. CASE Done(p1)
  <2>1. q1 = IdleProc
    BY <1>3, <1>q, PartsConstants, SerialFacts DEF Done
  <2>2. SerialInv(IdleProc, s, d, t)
    BY <1>2, IdleSerial
  <2> QED
    BY <2>1, <2>2, <1>q, <1>1 DEF SerialHolds
<1>4. CASE ~Done(p1)
  <2>1. PICK item \in q.rest :
            proc' = [proc EXCEPT ![p1] =
                       [q EXCEPT !.rest = @ \ {item}, !.target = item.target, !.until = item.until,
                                 !.pc = IF item.renew THEN "extend" ELSE "settle",
                                 !.goal = IF item.renew THEN "none"
                                          ELSE IF q.kind = "process" THEN "expired" ELSE "disabled"]]
    BY <1>4, <1>f DEF NextRow
  <2>2. /\ q1.rest = q.rest \ {item} /\ q1.target = item.target /\ q1.kind = "process"
        /\ q1.pc = IF item.renew THEN "extend" ELSE "settle"
        /\ q1.goal = IF item.renew THEN "none" ELSE "expired"
    BY <2>1, <1>1, <1>f, <1>q, PartsConstants, SerialFacts DEF Proc
  <2>3. Path(q1) /\ ~Midway(q1) /\ Held(q1, s, d)
    BY <2>2, <1>2 DEF Path, Midway, Held
  <2>4. Snapshot(q1, s, d, t)
    <3>1. /\ \A i, j \in q.rest : i.target = j.target => i = j
          /\ (\E i \in q.rest : i.target = "derived") => d.expiresAt <= t /\ Mirrored(s, d)
      BY <1>1, <1>2 DEF Snapshot
    <3>2. \A i \in q1.rest : i \in q.rest /\ i # item
      BY <2>2
    <3>3. \A i \in q1.rest : i.target # q1.target
      BY <3>1, <3>2, <2>1, <2>2
    <3>4. q1.target = "derived" => d.expiresAt <= t /\ Mirrored(s, d)
      BY <3>1, <2>1, <2>2
    <3> QED
      BY <3>1, <3>2, <3>3, <3>4 DEF Snapshot
  <2> QED
    BY <2>2, <2>3, <2>4, <1>2, <1>q, <1>1 DEF SerialHolds, SerialInv
<1> QED
  BY <1>3, <1>4

(* Auto-renewal is switched, an event is delivered, time passes, or nothing  *)
(* happens: what ran out stays so, and no status changes.                    *)
LEMMA SerialAround ==
    ASSUME IndInv, SerialHolds,
           (\E t \in Targets : SetAutoRenew(t)) \/ Deliver \/ Tick \/ UNCHANGED cascadeVars
    PROVE  SerialHolds'
<1>f. PICK q \in Proc, s \in Row, d \in Row, t \in Nat :
         q = proc[p1] /\ s = row["source"] /\ d = row["derived"] /\ t = now
  BY SerialFacts
<1>q. PICK s1, d1, t1 : s1 = row'["source"] /\ d1 = row'["derived"] /\ t1 = now'
  OBVIOUS
<1>1. SerialInv(q, s, d, t)
  BY <1>f DEF SerialHolds
<1>2. proc' = proc /\ t1 \in Nat /\ t <= t1
  BY <1>f, <1>q DEF SetAutoRenew, Deliver, Tick, cascadeVars
<1>3. /\ s1.status = s.status /\ s1.id = s.id /\ s1.expiresAt = s.expiresAt
      /\ d1.status = d.status /\ d1.id = d.id /\ d1.expiresAt = d.expiresAt
  <2>1. CASE \E t2 \in Targets : SetAutoRenew(t2)
    <3>1. PICK t2 \in Targets : row' = [row EXCEPT ![t2].autoRenew = ~@]
      BY <2>1 DEF SetAutoRenew
    <3>2. /\ s1 = s \/ s1 = [s EXCEPT !.autoRenew = ~s.autoRenew]
          /\ d1 = d \/ d1 = [d EXCEPT !.autoRenew = ~d.autoRenew]
      BY <3>1, <1>f, <1>q, SerialFacts DEF Targets
    <3> QED
      BY <3>2 DEF Row
  <2>2. CASE Deliver \/ Tick \/ UNCHANGED cascadeVars
    BY <2>2, <1>f, <1>q DEF Deliver, Tick, cascadeVars
  <2> QED
    BY <2>1, <2>2
<1>4. Held(q, s1, d1)
  BY <1>1, <1>3 DEF SerialInv, Held
<1>5. ~Midway(q) => MirroredOrOut(s1, d1, t1)
  BY <1>1, <1>2, <1>3 DEF SerialInv, MirroredOrOut, Settled, Row
<1>6. q.kind = "process" => Snapshot(q, s1, d1, t1)
  BY <1>1, <1>2, <1>3 DEF SerialInv, Snapshot, Mirrored, Settled, Row
<1> QED
  BY <1>1, <1>2, <1>4, <1>5, <1>6, <1>f, <1>q DEF SerialHolds, SerialInv

(* A handler that is idle before and after a step did not make it.           *)
LEMMA IdleDoesNothing ==
    ASSUME IndInv, NEW p \in Procs, proc[p] = IdleProc, proc'[p] = IdleProc,
           \/ SubscribeRead(p) \/ UpsertProvisioning(p) \/ Activate(p) \/ Announce(p)
           \/ FindExisting(p) \/ Derive(p)
           \/ CancelRead(p) \/ MarkTransition(p) \/ RemoveRow(p)
           \/ \E t \in Targets : DisableRead(p, t) \/ EnableRead(p, t) \/ RetryRead(p, t) \/ RenewRead(p, t)
           \/ Settle(p) \/ FindDerived(p) \/ Propagate(p) \/ Extend(p)
           \/ ProcessRead(p) \/ SuspendRead(p) \/ NextRow(p)
           \/ \E kind \in {"allow", "deny", "unset"} : SetPolicy(p, kind)
           \/ AnnouncePolicy(p) \/ ReadSource(p)
           \/ AwaitRejects(p)
    PROVE  FALSE
<1>1. proc[p].pc = "idle" /\ proc'[p].pc = "idle" /\ proc \in [Procs -> Proc]
  BY DEF IdleProc, IndInv, CascadeTypeOK
<1>2. ASSUME NEW op, NEW kind, NEW t, NEW pc, NEW goal, NEW until, Start(p, op, kind, t, pc, goal, until)
      PROVE  pc = "idle"
  BY <1>1, <1>2 DEF Start, IdleProc
<1>3. CASE \/ UpsertProvisioning(p) \/ Activate(p) \/ Announce(p) \/ FindExisting(p) \/ Derive(p)
           \/ MarkTransition(p) \/ RemoveRow(p) \/ Settle(p) \/ FindDerived(p) \/ Propagate(p) \/ Extend(p)
           \/ NextRow(p) \/ AnnouncePolicy(p) \/ ReadSource(p) \/ AwaitRejects(p)
  <2>1. PICK pc \in Pcs \ {"idle"} : proc[p].pc = pc
    BY <1>3, <1>1 DEF UpsertProvisioning, Activate, Announce, FindExisting, Derive, MarkTransition, RemoveRow,
                      Settle, FindDerived, Propagate, Extend, NextRow, AnnouncePolicy, ReadSource, AwaitRejects, At, Pcs
  <2> QED
    BY <2>1, <1>1
<1>4. CASE SubscribeRead(p) \/ ProcessRead(p) \/ SuspendRead(p)
  <2>1. proc'[p].pc \in {"upsert", "next"}
    BY <1>4, <1>1 DEF SubscribeRead, ProcessRead, SuspendRead, IdleProc
  <2> QED
    BY <2>1, <1>1
<1>5. CASE CancelRead(p)
  BY <1>2, <1>5 DEF CancelRead
<1>6. ASSUME NEW t \in Targets, DisableRead(p, t) \/ EnableRead(p, t) \/ RetryRead(p, t) \/ RenewRead(p, t)
      PROVE  FALSE
  <2>1. proc'[p].pc \in {"mark", "remove", "settle", "extend"}
    <3>1. CASE DisableRead(p, t)
      BY <3>1, <1>1 DEF DisableRead, Start, IdleProc
    <3>2. CASE EnableRead(p, t)
      BY <3>2, <1>1 DEF EnableRead, Start, IdleProc
    <3>3. CASE RetryRead(p, t)
      BY <3>3, <1>1 DEF RetryRead, Start, IdleProc
    <3>4. CASE RenewRead(p, t)
      BY <3>4, <1>1 DEF RenewRead, Start, IdleProc
    <3> QED
      BY <1>6, <3>1, <3>2, <3>3, <3>4
  <2> QED
    BY <2>1, <1>1
<1>7. ASSUME NEW kind, SetPolicy(p, kind)
      PROVE  FALSE
  BY <1>2, <1>7 DEF SetPolicy
<1> QED
  BY <1>3, <1>4, <1>5, <1>6, <1>7

(* Every step of the part in which one handler runs at a time.               *)
LEMMA SerialStep ==
    ASSUME IndInv, SerialHolds, \A p \in Procs \ {p1} : proc[p] = IdleProc, CascadeNext, Serial
    PROVE  SerialHolds'
<1>1. CASE Deliver \/ Tick \/ \E t \in Targets : SetAutoRenew(t)
  BY <1>1, SerialAround
<1>2. ASSUME NEW p \in Procs,
             \/ SubscribeRead(p) \/ UpsertProvisioning(p) \/ Activate(p) \/ Announce(p)
             \/ FindExisting(p) \/ Derive(p)
             \/ CancelRead(p) \/ MarkTransition(p) \/ RemoveRow(p)
             \/ \E t \in Targets : DisableRead(p, t) \/ EnableRead(p, t) \/ RetryRead(p, t) \/ RenewRead(p, t)
             \/ Settle(p) \/ FindDerived(p) \/ Propagate(p) \/ Extend(p)
             \/ ProcessRead(p) \/ SuspendRead(p) \/ NextRow(p)
             \/ \E kind \in {"allow", "deny", "unset"} : SetPolicy(p, kind)
             \/ AnnouncePolicy(p) \/ ReadSource(p)
             \/ AwaitRejects(p)
      PROVE  SerialHolds'
  <2>1. p = p1
    <3> SUFFICES ASSUME p # p1 PROVE FALSE
      OBVIOUS
    <3>1. proc[p] = IdleProc /\ proc'[p] = IdleProc
      BY DEF Serial
    <3> QED
      BY <1>2, <3>1, IdleDoesNothing
  <2>2. ~Admin("derived") /\ proc'[p1].kind \notin {"retry", "suspend"} /\ proc \in [Procs -> Proc] /\ p1 \in Procs
    BY PartsConstants DEF Serial, IndInv, CascadeTypeOK
  <2>3. CASE SubscribeRead(p1) \/ ProcessRead(p1) \/ \E kind \in {"allow", "deny", "unset"} : SetPolicy(p1, kind)
    BY <2>3, SerialBegins
  <2>4. CASE UpsertProvisioning(p1) \/ Activate(p1) \/ Announce(p1) \/ FindExisting(p1) \/ Derive(p1)
             \/ AnnouncePolicy(p1) \/ ReadSource(p1)
    BY <2>4, SerialSignUp
  <2>5. CASE MarkTransition(p1) \/ RemoveRow(p1) \/ Settle(p1) \/ Extend(p1)
    BY <2>5, SerialChanges
  <2>6. CASE FindDerived(p1) \/ Propagate(p1)
    BY <2>6, SerialCascade
  <2>7. CASE NextRow(p1)
    BY <2>7, SerialNext
  <2>8. CASE CancelRead(p1)
    BY <2>8, SerialRequests
  <2>9. ASSUME NEW t \in Targets, DisableRead(p1, t) \/ EnableRead(p1, t) \/ RenewRead(p1, t)
        PROVE  SerialHolds'
    <3>1. t = "source"
      BY <2>2, <2>9 DEF Admin, Targets
    <3> QED
      BY <2>9, <3>1, SerialRequests
  <2>10. ASSUME NEW t \in Targets, RetryRead(p1, t)
         PROVE  FALSE
    <3>1. proc'[p1].kind = "retry"
      BY <2>2, <2>10 DEF RetryRead, Start, IdleProc
    <3> QED
      BY <2>2, <3>1
  <2>11. CASE SuspendRead(p1)
    <3>1. proc'[p1].kind = "suspend"
      BY <2>2, <2>11 DEF SuspendRead, IdleProc
    <3> QED
      BY <2>2, <3>1
  <2>12. CASE AwaitRejects(p1)
    BY <2>12, SerialThrow DEF AwaitRejects
  <2> QED
    BY <1>2, <2>1, <2>3, <2>4, <2>5, <2>6, <2>7, <2>8, <2>9, <2>10, <2>11, <2>12
<1>3. CascadeStep \/ Deliver \/ Tick
  BY DEF CascadeNext, Serial
<1> QED
  BY <1>1, <1>2, <1>3 DEF CascadeStep

-----------------------------------------------------------------------------
(* The part of the exploration in which one handler runs at a time. *)

SerialPart == part = "serial" => SerialHolds /\ \A p \in Procs \ {p1} : proc[p] = IdleProc

(* Both parts are explorations of the cascade.                               *)
LEMMA PartsAreCascade == PartsSpec => CascadeSpec
<1>1. PartsInit => CascadeInit
  BY DEF PartsInit
<1>2. [PartsNext]_partVars => [CascadeNext]_cascadeVars
  BY DEF PartsNext, partVars
<1> QED
  BY <1>1, <1>2, PTL DEF PartsSpec, CascadeSpec

(* Before the first request there is nothing to mirror.                      *)
LEMMA SerialInit == PartsInit => SerialPart
<1> SUFFICES ASSUME PartsInit PROVE SerialPart
  OBVIOUS
<1>1. /\ proc[p1] = IdleProc /\ row["source"] = NoRow /\ row["derived"] = NoRow /\ now = 0
      /\ \A p \in Procs : proc[p] = IdleProc
  BY PartsConstants DEF PartsInit, CascadeInit, Targets
<1>2. NoRow \in Row /\ MirroredOrOut(NoRow, NoRow, 0)
  BY Constants0 DEF MirroredOrOut, Settled, NoRow
<1>3. SerialInv(proc[p1], row["source"], row["derived"], now)
  BY <1>1, <1>2, IdleSerial
<1> QED
  BY <1>1, <1>3 DEF SerialPart, SerialHolds

(* With one handler at a time, what it holds stays true of the rows.         *)
LEMMA SerialPartHolds == PartsSpec => []SerialPart
<1>1. IndInv /\ SerialPart /\ [PartsNext]_partVars => SerialPart'
  <2> SUFFICES ASSUME IndInv, SerialPart, [PartsNext]_partVars, part' = "serial" PROVE SerialPart'
    BY DEF SerialPart
  <2>1. part = "serial" /\ SerialHolds /\ \A p \in Procs \ {p1} : proc[p] = IdleProc
    BY DEF SerialPart, PartsNext, partVars
  <2>2. CASE PartsNext
    <3>1. CascadeNext /\ Serial
      BY <2>1, <2>2 DEF PartsNext
    <3>2. \A p \in Procs \ {p1} : proc'[p] = IdleProc
      BY <2>1, <3>1 DEF Serial
    <3> QED
      BY <2>1, <3>1, <3>2, SerialStep DEF SerialPart
  <2>3. CASE UNCHANGED partVars
    <3>1. UNCHANGED cascadeVars /\ proc' = proc
      BY <2>3 DEF partVars, cascadeVars
    <3> QED
      BY <2>1, <3>1, SerialAround DEF SerialPart
  <2> QED
    BY <2>2, <2>3
<1> QED
  BY <1>1, SerialInit, PartsAreCascade, Inductive, PTL DEF PartsSpec

-----------------------------------------------------------------------------
(* The theorems. *)

(* The rows and the handlers' locals keep their types.                       *)
THEOREM CascadeTypeCorrect == CascadeSpec => []CascadeTypeOK
  <1>1. IndInv => CascadeTypeOK
    BY DEF IndInv
  <1> QED BY <1>1, Inductive, PTL

(* However sign-ups, cancellations, retries and policies interleave, the     *)
(* derived row names the source row that is there, or is gone with it.       *)
THEOREM DerivedGoesWithSource == CascadeSpec => []NoOrphan
  <1>1. IndInv => NoOrphan
    BY DEF IndInv
  <1> QED BY <1>1, Inductive, PTL

(* One handler at a time, sign-ups, cancellations, changes of status,        *)
(* renewals, expiries and policies leave the derived row with the status of  *)
(* its source, also when awaits reject along the way; between the write of   *)
(* the source and the end of its cascade the handler still has to bring the  *)
(* change over, which Midway says.                                           *)
THEOREM SerialMirrorsHolds == PartsSpec => []SerialMirrors
<1>1. IndInv /\ SerialPart => SerialMirrors
  <2> SUFFICES ASSUME IndInv, SerialPart, part = "serial", Quiet PROVE Mirrors
    BY DEF SerialMirrors, Mirrors
  <2>1. SerialInv(proc[p1], row["source"], row["derived"], now) /\ proc[p1].pc = "idle"
    BY PartsConstants DEF SerialPart, SerialHolds, Quiet, At
  <2>2. MirroredOrOut(row["source"], row["derived"], now)
    BY <2>1 DEF SerialInv, Midway
  <2> QED
    BY <2>2 DEF MirroredOrOut, Settled, Mirrors
<1> QED
  BY <1>1, SerialPartHolds, PartsAreCascade, Inductive, PTL

=============================================================================
