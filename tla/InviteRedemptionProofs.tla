----------------------- MODULE InviteRedemptionProofs -----------------------
(***************************************************************************)
(* Proofs about InviteRedemption, for every set of invites, sign-ups and    *)
(* admin requests.                                                         *)
(*                                                                         *)
(* SingleRedemption is not inductive: nothing in it stops the invite of a  *)
(* finished sign-up from being claimed again.  The strengthening is        *)
(* SpentInv, which ties a finished sign-up to the used mark of its invite  *)
(* row (or to the row's deletion), and LocalsInv, which says that a        *)
(* handler past its first await holds a real invite id.                    *)
(* AccountHasProfileEmail rests on ProfileInv (the e-mail of the invite    *)
(* that a sign-up carries is that of its profile), MarksNeverCleared on    *)
(* BlankInv (an id without a row has no mark that a new row could lose).   *)
(***************************************************************************)
EXTENDS InviteRedemption, TLAPS

(* A handler that works on an invite names one. *)
LocalsInv ==
    /\ \A a \in Attempts : attempt[a].pc # "idle" => attempt[a].invite \in Invites
    /\ \A o \in AdminOps : op[o].pc \in {"supersede", "patch"} => op[o].target \in Invites
    /\ \A o \in AdminOps : op[o].pc = "patch" => op[o].body \in Patches

(* The invite of a finished sign-up is marked used, or its row is gone. *)
SpentInv ==
    \A a \in Attempts :
        At(a, "done") =>
            \/ row[attempt[a].invite] = "deleted"
            \/ row[attempt[a].invite] = "live" /\ invite[attempt[a].invite].usedAt

IndInv == TypeOK /\ LocalsInv /\ SpentInv /\ SingleRedemption /\ RedemptionRecorded

-----------------------------------------------------------------------------
(* Type correctness, action by action. *)

(* A patched row is a row: the fields of a PATCH body have their columns'    *)
(* types, and an absent field keeps the column (PatchedRow).                 *)
LEMMA PatchedRowType ==
    ASSUME NEW r \in InviteRow, NEW body \in Patches
    PROVE  PatchedRow(r, body) \in InviteRow
  BY InviteConstants DEF PatchedRow, InviteRow, PatchBodies, RevokedReasons

(* The columns and locals have their types initially. *)
LEMMA InitTypeOK == Init => TypeOK /\ LocalsInv
  BY InviteConstants DEF Init, TypeOK, LocalsInv, InviteRow, BlankRow, Attempt, IdleAttempt,
     Op, IdleOp, AttemptPcs, OpPcs

(* The two ways in which a sign-up handler moves on: to the next await, or   *)
(* back to the start when it throws before a user row exists.                *)
LEMMA GotoType ==
    ASSUME TypeOK, NEW a \in Attempts, NEW pc \in AttemptPcs, Goto(a, pc)
    PROVE  /\ attempt' \in [Attempts -> Attempt]
           /\ attempt'[a].pc = pc /\ attempt'[a].invite = attempt[a].invite
           /\ \A b \in Attempts \ {a} : attempt'[b] = attempt[b]
<1>1. attempt[a] \in Attempt
  BY DEF TypeOK
<1>2. [attempt[a] EXCEPT !.pc = pc] \in Attempt
  BY <1>1 DEF Attempt
<1> QED
  BY <1>1, <1>2 DEF TypeOK, Goto, Attempt

(* An attempt that ends is an idle attempt.                                  *)
LEMMA AbandonType ==
    ASSUME TypeOK, NEW a \in Attempts, Abandon(a)
    PROVE  /\ attempt' \in [Attempts -> Attempt]
           /\ attempt'[a] = IdleAttempt /\ attempt'[a].pc = "idle"
           /\ \A b \in Attempts \ {a} : attempt'[b] = attempt[b]
<1>1. IdleAttempt \in Attempt
  BY DEF IdleAttempt, Attempt, AttemptPcs
<1> QED
  BY <1>1 DEF TypeOK, Abandon, IdleAttempt

(* A step of a sign-up keeps the types (join, the callback and what follows  *)
(* it in completeSignUp).                                                    *)
LEMMA SignUpTypeOK ==
    ASSUME TypeOK, LocalsInv, NEW a \in Attempts, SignUp(a)
    PROVE  TypeOK' /\ LocalsInv'
<1>1. CASE \E i \in Invites : Join(a, i)
  <2>1. PICK i \in Invites : Join(a, i)
    BY <1>1
  <2> DEFINE rec == [IdleAttempt EXCEPT !.pc = "joined", !.invite = i, !.window = now + SignUpWindow]
  <2>2. attempt' = [attempt EXCEPT ![a] = rec]
    BY <2>1 DEF Join
  <2>3. rec \in Attempt /\ rec.invite = i
    <3>1. IdleAttempt \in Attempt /\ now + SignUpWindow \in Nat
      BY InviteConstants DEF IdleAttempt, Attempt, AttemptPcs, TypeOK
    <3> QED
      BY <3>1 DEF Attempt, AttemptPcs
  <2> HIDE DEF rec
  <2> QED
    BY <2>1, <2>2, <2>3 DEF Join, TypeOK, LocalsInv
<1>2. CASE \E e \in Emails : Callback(a, e)
  <2>1. PICK e \in Emails : Callback(a, e)
    BY <1>2
  <2>2. invite[attempt[a].invite].email \in Emails \cup {None}
    BY <2>1 DEF Callback, InviteRow, TypeOK, LocalsInv, At
  <2>3. CASE Abandon(a)
    BY <2>1, <2>3, AbandonType DEF Callback, TypeOK, LocalsInv
  <2>4. CASE ~Abandon(a)
    <3>1. PICK pc \in AttemptPcs \ {"idle"}, bound \in Emails \cup {None} :
             attempt' = [attempt EXCEPT ![a].pc = pc, ![a].email = e, ![a].window = 0,
                                        ![a].bound = bound]
      BY <2>1, <2>2, <2>4 DEF Callback, AttemptPcs
    <3> DEFINE rec == [attempt[a] EXCEPT !.pc = pc, !.email = e, !.window = 0, !.bound = bound]
    <3>2. attempt[a] \in Attempt
      BY DEF TypeOK
    <3>3. rec \in Attempt /\ rec.invite = attempt[a].invite
      BY <3>2 DEF Attempt
    <3>4. attempt' = [attempt EXCEPT ![a] = rec]
      BY <3>1, <3>2 DEF TypeOK, Attempt
    <3>5. attempt[a].invite \in Invites
      BY <2>1 DEF Callback, LocalsInv, At
    <3> HIDE DEF rec
    <3> QED
      BY <2>1, <3>3, <3>4, <3>5 DEF Callback, TypeOK, LocalsInv
  <2> QED
    BY <2>3, <2>4
<1>3. CASE CountMismatch(a)
  <2>1. attempt[a].invite \in Invites
    BY <1>3 DEF CountMismatch, LocalsInv, At
  <2>2. invite' \in [Invites -> InviteRow]
    BY SMTT(30), <1>3, <2>1 DEF CountMismatch, InviteRow, TypeOK
  <2>3. Goto(a, "lockout") \/ Abandon(a)
    BY <1>3 DEF CountMismatch
  <2> QED
    BY <1>3, <2>1, <2>2, <2>3, GotoType, AbandonType DEF CountMismatch, TypeOK, LocalsInv, AttemptPcs
<1>4. CASE AutoRevoke(a)
  <2>1. attempt[a].invite \in Invites
    BY <1>4 DEF AutoRevoke, LocalsInv, At
  <2>2. invite' \in [Invites -> InviteRow]
    BY SMTT(30), <1>4, <2>1 DEF AutoRevoke, RevokeRow, InviteRow, RevokedReasons, TypeOK
  <2> QED
    BY <1>4, <2>2, AbandonType DEF AutoRevoke, TypeOK, LocalsInv
<1>5. CASE CheckExisting(a)
  <2>1. Goto(a, "creating") \/ Abandon(a)
    BY <1>5 DEF CheckExisting
  <2> QED
    BY <1>5, <2>1, GotoType, AbandonType DEF CheckExisting, TypeOK, LocalsInv, At, AttemptPcs
<1>6. CASE CreateUser(a)
  <2>1. CASE Abandon(a) /\ UNCHANGED user
    BY <1>6, <2>1, AbandonType DEF CreateUser, TypeOK, LocalsInv
  <2>2. CASE ~(Abandon(a) /\ UNCHANGED user)
    <3> DEFINE rec == [attempt[a] EXCEPT !.pc = "linking", !.bound = None]
    <3>1. attempt[a] \in Attempt /\ attempt[a].invite \in Invites
      BY <1>6 DEF CreateUser, TypeOK, LocalsInv, At
    <3>2. rec \in Attempt /\ rec.invite = attempt[a].invite
      BY <3>1 DEF Attempt, AttemptPcs
    <3>3. attempt' = [attempt EXCEPT ![a] = rec]
      BY <1>6, <2>2, <3>1 DEF CreateUser, TypeOK, Attempt
    <3>4. user' \in [Attempts -> Emails \cup {None}]
      BY <1>6, <2>2, <3>1 DEF CreateUser, TypeOK, Attempt
    <3> HIDE DEF rec
    <3> QED
      BY <1>6, <3>1, <3>2, <3>3, <3>4 DEF CreateUser, TypeOK, LocalsInv
  <2> QED
    BY <2>1, <2>2
<1>7. CASE LinkIdentity(a)
  <2>1. Goto(a, "claiming") \/ Goto(a, "failed")
    BY <1>7 DEF LinkIdentity
  <2> QED
    BY <1>7, <2>1, GotoType DEF LinkIdentity, TypeOK, LocalsInv, At, AttemptPcs
<1>8. CASE Claim(a)
  <2>1. attempt[a].invite \in Invites
    BY <1>8 DEF Claim, LocalsInv, At
  <2>2. invite' \in [Invites -> InviteRow]
    <3> DEFINE rec == [invite[attempt[a].invite] EXCEPT !.usedAt = TRUE, !.usedBy = a]
    <3>1. invite[attempt[a].invite] \in InviteRow
      BY <2>1 DEF TypeOK
    <3>2. rec \in InviteRow
      BY <3>1 DEF InviteRow
    <3>3. UNCHANGED invite \/ invite' = [invite EXCEPT ![attempt[a].invite] = rec]
      BY <1>8, <2>1, <3>1 DEF Claim, TypeOK, InviteRow
    <3> HIDE DEF rec
    <3> QED
      BY <2>1, <3>2, <3>3 DEF TypeOK
  <2>3. Goto(a, "done") \/ Goto(a, "failed")
    BY <1>8 DEF Claim
  <2> QED
    BY <1>8, <2>1, <2>2, <2>3, GotoType DEF Claim, TypeOK, LocalsInv, AttemptPcs
<1>9. CASE Fail(a)
  <2>1. \/ Abandon(a)
        \/ Goto(a, "failed") /\ attempt[a].invite \in Invites
    BY <1>9 DEF Fail, LocalsInv
  <2> QED
    BY <1>9, <2>1, GotoType, AbandonType DEF Fail, TypeOK, LocalsInv, AttemptPcs
<1> QED
  BY <1>1, <1>2, <1>3, <1>4, <1>5, <1>6, <1>7, <1>8, <1>9 DEF SignUp, SignUpStep

(* An admin handler moves to a well-typed state of its own locals. *)
LEMMA OpType ==
    ASSUME TypeOK, LocalsInv, NEW o \in AdminOps, NEW rec \in Op,
           op' = [op EXCEPT ![o] = rec],
           rec.pc \in {"supersede", "patch"} => rec.target \in Invites,
           rec.pc = "patch" => rec.body \in Patches
    PROVE  /\ op' \in [AdminOps -> Op]
           /\ \A p \in AdminOps : op'[p].pc \in {"supersede", "patch"} => op'[p].target \in Invites
           /\ \A p \in AdminOps : op'[p].pc = "patch" => op'[p].body \in Patches
  BY DEF TypeOK, LocalsInv

(* A step of an admin request keeps the types. *)
LEMMA AdminTypeOK ==
    ASSUME TypeOK, LocalsInv, NEW o \in AdminOps, Admin(o)
    PROVE  TypeOK' /\ LocalsInv'
<1>1. op[o] \in Op /\ IdleOp \in Op /\ op \in [AdminOps -> Op]
  BY DEF TypeOK, IdleOp, Op, OpPcs
<1>2. CASE \E e \in Emails \cup {None}, days \in InviteDays : CreateToken(o, e, days)
  <2>1. PICK e \in Emails \cup {None}, days \in InviteDays : CreateToken(o, e, days)
    BY <1>2
  <2> DEFINE rec == [IdleOp EXCEPT !.pc = IF e = None THEN "insert" ELSE "findPending",
                                   !.email = e, !.days = days]
  <2>2. rec \in Op /\ rec.pc \notin {"supersede", "patch"}
    BY DEF Op, OpPcs, IdleOp
  <2>3. op' = [op EXCEPT ![o] = rec]
    BY <2>1 DEF CreateToken
  <2> HIDE DEF rec
  <2> QED
    BY <2>1, <2>2, <2>3, OpType DEF CreateToken, TypeOK, LocalsInv
<1>3. CASE FindPending(o)
  <2>1. CASE op' = [op EXCEPT ![o].pc = "insert"]
    <3> DEFINE rec == [op[o] EXCEPT !.pc = "insert"]
    <3>1. rec \in Op /\ rec.pc \notin {"supersede", "patch"} /\ op' = [op EXCEPT ![o] = rec]
      BY <1>1, <2>1 DEF Op, OpPcs
    <3> HIDE DEF rec
    <3> QED
      BY <1>3, <3>1, OpType DEF FindPending, TypeOK, LocalsInv
  <2>2. CASE \E i \in Invites : op' = [op EXCEPT ![o].pc = "supersede", ![o].target = i]
    <3>1. PICK i \in Invites : op' = [op EXCEPT ![o].pc = "supersede", ![o].target = i]
      BY <2>2
    <3> DEFINE rec == [op[o] EXCEPT !.pc = "supersede", !.target = i]
    <3>2. rec \in Op /\ rec.pc = "supersede" /\ rec.target = i /\ op' = [op EXCEPT ![o] = rec]
      BY <1>1, <3>1 DEF Op, OpPcs
    <3> HIDE DEF rec
    <3> QED
      BY <1>3, <3>2, OpType DEF FindPending, TypeOK, LocalsInv
  <2> QED
    BY <1>3, <2>1, <2>2 DEF FindPending
<1>4. CASE Supersede(o)
  <2>1. op[o].target \in Invites
    BY <1>4 DEF Supersede, LocalsInv, OpAt
  <2>2. invite' \in [Invites -> InviteRow]
    <3>1. invite[op[o].target] \in InviteRow /\ "AUTO_SUPERSEDED" \in RevokedReasons
      BY <2>1 DEF TypeOK, RevokedReasons
    <3>2. ASSUME NEW r \in InviteRow, NEW reason \in RevokedReasons
          PROVE  [r EXCEPT !.revokedReason = reason] \in InviteRow
      BY DEF InviteRow
    <3>3. \/ invite' = [invite EXCEPT ![op[o].target] =
                          [invite[op[o].target] EXCEPT !.revokedReason = "AUTO_SUPERSEDED"]]
          \/ invite' = invite
      BY <1>4 DEF Supersede, RevokeRow
    <3> QED
      BY <2>1, <3>1, <3>2, <3>3 DEF TypeOK
  <2>3. PICK rec \in Op : rec.pc \in {"insert", "idle"} /\ op' = [op EXCEPT ![o] = rec]
    <3>1. CASE OpDone(o)
      BY <1>1, <3>1 DEF OpDone, IdleOp
    <3>2. CASE op' = [op EXCEPT ![o].pc = "insert", ![o].target = None]
      <4> DEFINE r == [op[o] EXCEPT !.pc = "insert", !.target = None]
      <4>1. r \in Op /\ r.pc = "insert" /\ op' = [op EXCEPT ![o] = r]
        BY <1>1, <3>2 DEF Op, OpPcs
      <4> QED
        BY <4>1
    <3> QED
      BY <1>4, <3>1, <3>2 DEF Supersede
  <2> QED
    BY <1>4, <2>2, <2>3, OpType DEF Supersede, TypeOK, LocalsInv
<1>5. CASE \E i \in Invites : InsertInvite(o, i)
  <2>1. PICK i \in Invites : InsertInvite(o, i)
    BY <1>5
  <2>2. [BlankRow EXCEPT !.email = op[o].email, !.expiresAt = now + op[o].days, !.createdAt = now]
          \in InviteRow
    <3>1. op[o].email \in Emails \cup {None} /\ now + op[o].days \in Nat /\ now \in Nat
      <4>1. op[o].days \in InviteDays \cup {0} /\ op[o].email \in Emails \cup {None}
        BY <1>1 DEF Op
      <4>2. InviteDays \subseteq Nat
        BY InviteConstants
      <4>3. op[o].days \in Nat
        BY <4>1, <4>2, 0 \in Nat, Zenon
      <4> QED
        BY <4>1, <4>3 DEF TypeOK
    <3>2. BlankRow \in InviteRow
      BY DEF BlankRow, InviteRow
    <3>3. ASSUME NEW r \in InviteRow, NEW e \in Emails \cup {None}, NEW t \in Nat, NEW c \in Nat
          PROVE  [r EXCEPT !.email = e, !.expiresAt = t, !.createdAt = c] \in InviteRow
      BY DEF InviteRow
    <3> QED
      BY <3>1, <3>2, <3>3
  <2>3. op' = [op EXCEPT ![o] = IdleOp] /\ IdleOp.pc = "idle"
    BY <2>1 DEF InsertInvite, OpDone, IdleOp
  <2>4. /\ row' \in [Invites -> {"unused", "live", "deleted"}]
        /\ invite' \in [Invites -> InviteRow]
    BY <2>1, <2>2 DEF InsertInvite, TypeOK
  <2> QED
    BY <1>1, <2>1, <2>3, <2>4, OpType DEF InsertInvite, TypeOK, LocalsInv
<1>6. CASE \E i \in Invites, body \in Patches : ReadForUpdate(o, i, body)
  <2>1. PICK i \in Invites, body \in Patches : ReadForUpdate(o, i, body)
    BY <1>6
  <2> DEFINE rec == [IdleOp EXCEPT !.pc = "patch", !.target = i, !.body = body]
  <2>2. rec \in Op /\ rec.target = i /\ rec.body = body
    BY DEF Op, OpPcs, IdleOp
  <2>3. op' = [op EXCEPT ![o] = rec]
    BY <2>1 DEF ReadForUpdate
  <2> HIDE DEF rec
  <2> QED
    BY <2>1, <2>2, <2>3, OpType DEF ReadForUpdate, TypeOK, LocalsInv
<1>7. CASE WriteUpdate(o)
  <2>1. op[o].target \in Invites /\ op[o].body \in Patches
    BY <1>7 DEF WriteUpdate, LocalsInv, OpAt
  <2>2. PatchedRow(invite[op[o].target], op[o].body) \in InviteRow
    BY <2>1, PatchedRowType DEF TypeOK
  <2>3. invite' \in [Invites -> InviteRow]
    BY <1>7, <2>1, <2>2 DEF WriteUpdate, TypeOK
  <2>4. op' = [op EXCEPT ![o] = IdleOp] /\ IdleOp.pc = "idle"
    BY <1>7 DEF WriteUpdate, OpDone, IdleOp
  <2> QED
    BY <1>1, <1>7, <2>3, <2>4, OpType DEF WriteUpdate, TypeOK, LocalsInv
<1>8. CASE FailOp(o)
  <2>1. op' = [op EXCEPT ![o] = IdleOp] /\ IdleOp.pc = "idle"
    BY <1>8 DEF FailOp, OpDone, IdleOp
  <2> QED
    BY <1>1, <1>8, <2>1, OpType DEF FailOp, TypeOK, LocalsInv
<1> QED
  BY <1>2, <1>3, <1>4, <1>5, <1>6, <1>7, <1>8 DEF Admin, AdminStep

(* Every step keeps the types. *)
LEMMA NextTypeOK ==
    ASSUME TypeOK, LocalsInv, [Next]_vars
    PROVE  TypeOK' /\ LocalsInv'
<1>1. CASE \E a \in Attempts : SignUp(a)
  BY <1>1, SignUpTypeOK
<1>2. CASE \E o \in AdminOps : Admin(o)
  BY <1>2, AdminTypeOK
<1>3. CASE \E i \in Invites : DeleteInvite(i)
  BY <1>3, InviteConstants DEF DeleteInvite, TypeOK, LocalsInv, BlankRow, InviteRow
<1>4. CASE \E a \in Attempts : DeleteUser(a)
  <2>1. PICK a \in Attempts : DeleteUser(a)
    BY <1>4
  <2>2. invite' \in [Invites -> InviteRow]
    <3>1. ASSUME NEW r \in InviteRow, NEW u \in Attempts \cup {None}
          PROVE  [r EXCEPT !.usedBy = u] \in InviteRow
      BY DEF InviteRow
    <3>2. ASSUME NEW i \in Invites
          PROVE  (IF invite[i].usedBy = a THEN None ELSE invite[i].usedBy) \in Attempts \cup {None}
      <4>1. invite[i] \in InviteRow
        BY DEF TypeOK
      <4> QED
        BY <4>1 DEF InviteRow
    <3>3. invite' = [i \in Invites |->
              [invite[i] EXCEPT !.usedBy = IF invite[i].usedBy = a THEN None ELSE invite[i].usedBy]]
      BY <2>1 DEF DeleteUser
    <3>4. \A i \in Invites : invite[i] \in InviteRow
      BY DEF TypeOK
    <3> QED
      BY <3>1, <3>2, <3>3, <3>4
  <2> QED
    BY <2>1, <2>2 DEF DeleteUser, TypeOK, LocalsInv
<1>5. CASE Tick
  BY <1>5 DEF Tick, TypeOK, LocalsInv
<1>6. CASE UNCHANGED vars
  BY <1>6 DEF vars, TypeOK, LocalsInv
<1> QED
  BY <1>1, <1>2, <1>3, <1>4, <1>5, <1>6 DEF Next

-----------------------------------------------------------------------------
(* No double spend. *)

(* A step of any handler other than a sign-up leaves the attempts alone, and *)
(* neither clears a used mark nor brings a deleted row back.                 *)
LEMMA OthersKeepSpent ==
    ASSUME IndInv, NEW o \in AdminOps, Admin(o)
    PROVE  /\ UNCHANGED <<attempt, user>>
           /\ \A i \in Invites : row[i] # "unused" =>
                /\ row'[i] = row[i]
                /\ invite'[i].usedAt = invite[i].usedAt
                /\ invite'[i].usedBy = invite[i].usedBy
<1> USE DEF IndInv, TypeOK, LocalsInv
<1>1. CASE \E e \in Emails \cup {None}, days \in InviteDays : CreateToken(o, e, days)
  BY <1>1 DEF CreateToken
<1>2. CASE FindPending(o)
  BY <1>2 DEF FindPending
<1>3. CASE Supersede(o)
  <2>1. op[o].target \in Invites
    BY <1>3 DEF Supersede, OpAt
  <2> QED
    BY <1>3, <2>1 DEF Supersede, RevokeRow, InviteRow
<1>4. CASE \E i \in Invites : InsertInvite(o, i)
  BY <1>4 DEF InsertInvite
<1>5. CASE \E i \in Invites, body \in Patches : ReadForUpdate(o, i, body)
  BY <1>5 DEF ReadForUpdate
<1>6. CASE WriteUpdate(o)
  <2>1. op[o].target \in Invites /\ invite[op[o].target] \in InviteRow
    BY <1>6 DEF WriteUpdate, OpAt
  <2>2. LET r == PatchedRow(invite[op[o].target], op[o].body)
        IN  r.usedAt = invite[op[o].target].usedAt /\ r.usedBy = invite[op[o].target].usedBy
    BY <2>1 DEF PatchedRow, InviteRow
  <2> QED
    BY <1>6, <2>1, <2>2 DEF WriteUpdate
<1>7. CASE FailOp(o)
  BY <1>7 DEF FailOp
<1> QED
  BY <1>1, <1>2, <1>3, <1>4, <1>5, <1>6, <1>7 DEF Admin, AdminStep

(* A step of a sign-up other than a successful claim finishes no sign-up and *)
(* touches neither the rows' existence nor their use.                        *)
LEMMA SignUpKeepsSpent ==
    ASSUME IndInv, NEW a \in Attempts, SignUp(a), ~(Claim(a) /\ attempt'[a].pc = "done")
    PROVE  /\ ~At(a, "done") /\ ~At(a, "done")'
           /\ UNCHANGED row
           /\ \A b \in Attempts \ {a} : attempt'[b] = attempt[b] /\ user'[b] = user[b]
           /\ \A i \in Invites :
                /\ invite'[i].usedAt = invite[i].usedAt
                /\ invite'[i].usedBy = invite[i].usedBy
<1>1. TypeOK /\ LocalsInv
  BY DEF IndInv
<1> USE <1>1 DEF TypeOK, LocalsInv, At
<1>2. CASE \E i \in Invites : Join(a, i)
  BY <1>2 DEF Join, IdleAttempt
<1>3. CASE \E e \in Emails : Callback(a, e)
  BY <1>3, AbandonType DEF Callback, Attempt
<1>4. CASE CountMismatch(a)
  <2>1. attempt[a].invite \in Invites
    BY <1>4 DEF CountMismatch
  <2>2. Goto(a, "lockout") \/ Abandon(a)
    BY <1>4 DEF CountMismatch
  <2>3. \A i \in Invites : invite'[i].usedAt = invite[i].usedAt /\ invite'[i].usedBy = invite[i].usedBy
    BY <1>4, <2>1 DEF CountMismatch, InviteRow
  <2> QED
    BY <1>4, <2>2, <2>3, GotoType, AbandonType DEF CountMismatch, AttemptPcs
<1>5. CASE AutoRevoke(a)
  <2>1. attempt[a].invite \in Invites
    BY <1>5 DEF AutoRevoke
  <2>2. \A i \in Invites : invite'[i].usedAt = invite[i].usedAt /\ invite'[i].usedBy = invite[i].usedBy
    BY <1>5, <2>1 DEF AutoRevoke, RevokeRow, InviteRow
  <2> QED
    BY <1>5, <2>2, AbandonType DEF AutoRevoke
<1>6. CASE CheckExisting(a)
  BY <1>6, GotoType, AbandonType DEF CheckExisting, AttemptPcs
<1>7. CASE CreateUser(a)
  BY <1>7, AbandonType DEF CreateUser, Attempt
<1>8. CASE LinkIdentity(a)
  BY <1>8, GotoType DEF LinkIdentity, AttemptPcs
<1>9. CASE Claim(a)
  <2>1. Goto(a, "failed") /\ UNCHANGED invite
    BY <1>9, GotoType DEF Claim, AttemptPcs
  <2> QED
    BY <1>9, <2>1, GotoType DEF Claim, AttemptPcs
<1>10. CASE Fail(a)
  BY <1>10, GotoType, AbandonType DEF Fail, AttemptPcs
<1> QED
  BY <1>2, <1>3, <1>4, <1>5, <1>6, <1>7, <1>8, <1>9, <1>10 DEF SignUp, SignUpStep

(* A claim succeeds only on an invite that no finished sign-up names. *)
LEMMA ClaimIsFirst ==
    ASSUME IndInv, NEW a \in Attempts, Claim(a), attempt'[a].pc = "done"
    PROVE  /\ attempt[a].invite \in Invites /\ attempt'[a].invite = attempt[a].invite
           /\ ~At(a, "done")
           /\ row[attempt[a].invite] = "live"
           /\ \A b \in Attempts : At(b, "done") => attempt[b].invite # attempt[a].invite
           /\ \A b \in Attempts \ {a} : attempt'[b] = attempt[b]
           /\ UNCHANGED <<row, user>>
           /\ invite'[attempt[a].invite].usedAt /\ invite'[attempt[a].invite].usedBy = a
           /\ \A i \in Invites \ {attempt[a].invite} : invite'[i] = invite[i]
<1>1. TypeOK /\ LocalsInv /\ SpentInv
  BY DEF IndInv
<1>2. At(a, "claiming") /\ attempt[a].invite \in Invites
  BY <1>1 DEF Claim, At, LocalsInv
<1>3. ~Goto(a, "failed")
  BY <1>1, GotoType DEF AttemptPcs
<1>4. /\ Pending(attempt[a].invite) /\ Goto(a, "done")
      /\ invite' = [invite EXCEPT ![attempt[a].invite].usedAt = TRUE, ![attempt[a].invite].usedBy = a]
  BY <1>3 DEF Claim
<1>5. /\ invite'[attempt[a].invite].usedAt /\ invite'[attempt[a].invite].usedBy = a
      /\ \A i \in Invites \ {attempt[a].invite} : invite'[i] = invite[i]
  BY <1>1, <1>2, <1>4 DEF TypeOK, InviteRow
<1>6. \A b \in Attempts : At(b, "done") => attempt[b].invite # attempt[a].invite
  BY <1>1, <1>4 DEF SpentInv, Pending
<1> QED
  BY <1>1, <1>2, <1>4, <1>5, <1>6, GotoType DEF Pending, At, Claim, AttemptPcs

(* The strengthened invariant is inductive. *)
LEMMA IndInvInductive ==
    ASSUME IndInv, [Next]_vars
    PROVE  IndInv'
<1>1. TypeOK /\ LocalsInv
  BY DEF IndInv
<1>2. TypeOK' /\ LocalsInv'
  BY <1>1, NextTypeOK
<1>3. \A b \in Attempts : At(b, "done") => attempt[b].invite \in Invites
  BY <1>1 DEF At, LocalsInv
<1>4. SpentInv' /\ SingleRedemption' /\ RedemptionRecorded'
  <2>1. CASE \E o \in AdminOps : Admin(o)
    <3>1. PICK o \in AdminOps : Admin(o)
      BY <2>1
    <3> QED
      BY <1>3, <3>1, OthersKeepSpent DEF IndInv, SpentInv, SingleRedemption, RedemptionRecorded, At
  <2>2. CASE \E a \in Attempts : SignUp(a) /\ ~(Claim(a) /\ attempt'[a].pc = "done")
    <3>1. PICK a \in Attempts : SignUp(a) /\ ~(Claim(a) /\ attempt'[a].pc = "done")
      BY <2>2
    <3> QED
      BY <1>3, <3>1, SignUpKeepsSpent DEF IndInv, SpentInv, SingleRedemption, RedemptionRecorded, At
  <2>3. CASE \E a \in Attempts : Claim(a) /\ attempt'[a].pc = "done"
    <3>1. PICK a \in Attempts : Claim(a) /\ attempt'[a].pc = "done"
      BY <2>3
    <3> QED
      BY <1>3, <3>1, ClaimIsFirst DEF IndInv, SpentInv, SingleRedemption, RedemptionRecorded, At
  <2>4. CASE \E i \in Invites : DeleteInvite(i)
    BY <1>1, <1>3, <2>4
       DEF IndInv, SpentInv, SingleRedemption, RedemptionRecorded, At, DeleteInvite, TypeOK
  <2>5. CASE \E a \in Attempts : DeleteUser(a)
    <3>1. PICK a \in Attempts : DeleteUser(a)
      BY <2>5
    <3>2. \A i \in Invites :
             /\ invite'[i].usedAt = invite[i].usedAt
             /\ invite[i].usedBy # a => invite'[i].usedBy = invite[i].usedBy
      BY <1>1, <3>1 DEF DeleteUser, TypeOK, InviteRow
    <3>3. user'[a] = None /\ \A b \in Attempts \ {a} : user'[b] = user[b]
      BY <1>1, <3>1 DEF DeleteUser, TypeOK
    <3>4. UNCHANGED <<row, attempt>>
      BY <3>1 DEF DeleteUser
    <3>5. SpentInv'
      BY <1>3, <3>2, <3>4 DEF IndInv, SpentInv, At
    <3>6. SingleRedemption'
      BY <3>4 DEF IndInv, SingleRedemption, At
    <3>7. RedemptionRecorded'
      <4> SUFFICES ASSUME NEW b \in Attempts, At(b, "done"), user'[b] # None,
                          row[attempt[b].invite] = "live"
                   PROVE  invite'[attempt[b].invite].usedBy = b
        BY <3>4 DEF RedemptionRecorded, At
      <4>1. b # a /\ user[b] # None
        BY <3>3
      <4>2. invite[attempt[b].invite].usedBy = b
        BY <4>1 DEF IndInv, RedemptionRecorded
      <4> QED
        BY <1>3, <3>2, <4>1, <4>2
    <3> QED
      BY <3>5, <3>6, <3>7
  <2>6. CASE Tick \/ UNCHANGED vars
    BY <2>6 DEF IndInv, SpentInv, SingleRedemption, RedemptionRecorded, At, Tick, vars
  <2> QED
    BY <2>1, <2>2, <2>3, <2>4, <2>5, <2>6 DEF Next
<1> QED
  BY <1>2, <1>4 DEF IndInv

(* Nothing is issued, nobody signs up.                                       *)
LEMMA InitIndInv == Init => IndInv
  BY InitTypeOK DEF Init, IndInv, SpentInv, SingleRedemption, RedemptionRecorded, At, IdleAttempt

(* The invariant holds of every behaviour.                                   *)
LEMMA AlwaysIndInv == Spec => []IndInv
  BY InitIndInv, IndInvInductive, PTL DEF Spec

(* The columns and the handlers' locals always have their types. *)
THEOREM TypeCorrect == Spec => []TypeOK
  BY AlwaysIndInv, PTL DEF IndInv

(* No two sign-ups ever complete with one invite: however the validations,   *)
(* claims, updates and deletions of any number of handlers interleave.       *)
THEOREM NoDoubleSpend == Spec => []SingleRedemption
  BY AlwaysIndInv, PTL DEF IndInv

(* The invite's audit columns name the sign-up that consumed it, as long as  *)
(* both rows exist.                                                          *)
THEOREM RedemptionIsRecorded == Spec => []RedemptionRecorded
  BY AlwaysIndInv, PTL DEF IndInv

-----------------------------------------------------------------------------
(* Revocation wins. *)

(* Only a claim marks an invite used, and only a pending one. *)
LEMMA UseNeedsPending ==
    ASSUME IndInv, [Next]_vars, NEW i \in Invites, ~invite[i].usedAt, invite'[i].usedAt
    PROVE  Pending(i)
<1>1. TypeOK /\ LocalsInv
  BY DEF IndInv
<1>2. CASE \E o \in AdminOps : Admin(o)
  <2>1. PICK o \in AdminOps : Admin(o)
    BY <1>2
  <2>2. row[i] = "unused"
    BY <2>1, OthersKeepSpent
  <2>3. CASE \E j \in Invites : InsertInvite(o, j)
    <3>1. PICK j \in Invites : InsertInvite(o, j)
      BY <2>3
    <3>2. j # i \/ ~invite'[i].usedAt
      BY <1>1, <3>1 DEF InsertInvite, TypeOK, BlankRow
    <3>3. j # i => invite'[i] = invite[i]
      BY <1>1, <3>1 DEF InsertInvite, TypeOK
    <3> QED
      BY <3>2, <3>3
  <2>4. CASE Supersede(o) \/ WriteUpdate(o)
    <3>1. op[o].target \in Invites
      BY <1>1, <2>4 DEF Supersede, WriteUpdate, OpAt, LocalsInv
    <3>2. invite'[i] = invite[i]
      BY <1>1, <2>2, <2>4, <3>1 DEF Supersede, WriteUpdate, RevokeRow, TypeOK
    <3> QED
      BY <3>2
  <2>5. CASE UNCHANGED invite
    BY <2>5
  <2> QED
    BY <2>1, <2>3, <2>4, <2>5
       DEF Admin, AdminStep, CreateToken, FindPending, ReadForUpdate, FailOp
<1>3. CASE \E a \in Attempts : SignUp(a)
  <2>1. PICK a \in Attempts : SignUp(a)
    BY <1>3
  <2>2. Claim(a) /\ attempt'[a].pc = "done"
    BY <2>1, SignUpKeepsSpent
  <2>3. ~Goto(a, "failed")
    BY <1>1, <2>2, GotoType DEF AttemptPcs
  <2>4. Pending(attempt[a].invite)
    BY <2>2, <2>3 DEF Claim
  <2>5. i = attempt[a].invite
    BY <2>2, ClaimIsFirst
  <2> QED
    BY <2>4, <2>5
<1>4. CASE \E j \in Invites : DeleteInvite(j)
  BY <1>1, <1>4 DEF DeleteInvite, TypeOK, BlankRow
<1>5. CASE \E a \in Attempts : DeleteUser(a)
  BY <1>1, <1>5 DEF DeleteUser, TypeOK, InviteRow
<1>6. CASE Tick \/ UNCHANGED vars
  BY <1>6 DEF Tick, vars
<1> QED
  BY <1>2, <1>3, <1>4, <1>5, <1>6 DEF Next

(* An invite revoked before it is claimed is never redeemed, although a      *)
(* sign-up may have validated it before the revocation.                      *)
THEOREM RevocationWins == Spec => RevokedNeverRedeemed
<1>1. ASSUME IndInv, [Next]_vars
      PROVE  [\A i \in Invites : Revoked(i) /\ ~invite[i].usedAt => ~invite'[i].usedAt]_vars
  BY <1>1, UseNeedsPending DEF Pending
<1> QED
  BY <1>1, AlwaysIndInv, PTL DEF Spec, RevokedNeverRedeemed

-----------------------------------------------------------------------------
(* The account has the profile's email. *)

(* Before its user row exists an attempt has none, and the invite's email    *)
(* that overrides the profile's is the same one.                             *)
ProfileInv ==
    /\ \A a \in Attempts :
          /\ attempt[a].pc \notin {"linking", "claiming", "done", "failed"} => user[a] = None
          /\ attempt[a].bound # None => attempt[a].bound = attempt[a].email
    /\ AccountHasProfileEmail

(* What is said of one attempt, as long as the step leaves the others alone. *)
LEMMA ProfileOfOthers ==
    ASSUME ProfileInv, NEW a \in Attempts,
           \A b \in Attempts \ {a} : attempt'[b] = attempt[b] /\ user'[b] = user[b],
           attempt'[a].pc \notin {"linking", "claiming", "done", "failed"} => user'[a] = None,
           attempt'[a].bound # None => attempt'[a].bound = attempt'[a].email,
           user'[a] # None => user'[a] = attempt'[a].email
    PROVE  ProfileInv'
  BY DEF ProfileInv, AccountHasProfileEmail

(* A handler that moves on or throws keeps the email of its profile.         *)
LEMMA ProfileMovesOn ==
    ASSUME TypeOK, ProfileInv, NEW a \in Attempts, UNCHANGED user,
           \/ /\ Abandon(a) /\ attempt[a].pc \notin {"linking", "claiming", "done", "failed"}
           \/ \E pc \in AttemptPcs :
                 /\ Goto(a, pc)
                 /\ pc \in {"linking", "claiming", "done", "failed"} \/ user[a] = None
    PROVE  ProfileInv'
<1>1. CASE Abandon(a)
  <2>1. attempt'[a] = IdleAttempt /\ \A b \in Attempts \ {a} : attempt'[b] = attempt[b]
    BY <1>1, AbandonType
  <2>2. CASE user[a] = None
    BY <2>1, <2>2, ProfileOfOthers DEF IdleAttempt
  <2>3. CASE user[a] # None
    <3>1. PICK pc \in AttemptPcs : Goto(a, pc) /\ (pc \in {"linking", "claiming", "done", "failed"} \/ user[a] = None)
      BY <2>3 DEF ProfileInv
    <3>2. attempt'[a].pc = pc
      BY <3>1, GotoType
    <3> QED
      BY <2>1, <2>3, <3>1, <3>2 DEF IdleAttempt
  <2> QED
    BY <2>2, <2>3
<1>2. ASSUME NEW pc \in AttemptPcs, Goto(a, pc), pc \in {"linking", "claiming", "done", "failed"} \/ user[a] = None
      PROVE  ProfileInv'
  <2>1. /\ attempt'[a].pc = pc /\ attempt'[a].bound = attempt[a].bound /\ attempt'[a].email = attempt[a].email
        /\ \A b \in Attempts \ {a} : attempt'[b] = attempt[b]
    BY <1>2 DEF Goto, TypeOK, Attempt
  <2> QED
    BY <1>2, <2>1, ProfileOfOthers DEF ProfileInv, AccountHasProfileEmail
<1> QED
  BY <1>1, <1>2

(* The sign-up creates the row of the user with the e-mail of the profile.   *)
LEMMA SignUpKeepsProfile ==
    ASSUME TypeOK, LocalsInv, ProfileInv, NEW a \in Attempts, SignUp(a)
    PROVE  ProfileInv'
<1> USE DEF At
<1>1. CASE \E i \in Invites : Join(a, i)
  <2>1. PICK i \in Invites : Join(a, i)
    BY <1>1
  <2>2. /\ attempt'[a].pc = "joined" /\ attempt'[a].bound = None /\ attempt'[a].email = None
        /\ \A b \in Attempts \ {a} : attempt'[b] = attempt[b]
    BY <2>1 DEF Join, TypeOK, IdleAttempt
  <2>3. user[a] = None /\ UNCHANGED user
    BY <2>1 DEF Join, ProfileInv
  <2> QED
    BY <2>2, <2>3, ProfileOfOthers
<1>2. CASE \E e \in Emails : Callback(a, e)
  <2>1. PICK e \in Emails : Callback(a, e)
    BY <1>2
  <2>2. user[a] = None /\ UNCHANGED user /\ attempt[a].pc = "joined"
    BY <2>1 DEF Callback, ProfileInv
  <2>3. CASE Abandon(a)
    BY <2>2, <2>3, ProfileMovesOn
  <2>4. CASE ~Abandon(a)
    <3> DEFINE i == attempt[a].invite
    <3>1. attempt' = [attempt EXCEPT ![a].pc = IF EmailMatches(i, e) THEN "validated" ELSE "mismatch",
                                     ![a].email = e,
                                     ![a].window = 0,
                                     ![a].bound = IF EmailMatches(i, e) THEN invite[i].email ELSE None]
      BY <2>1, <2>4 DEF Callback
    <3>2. /\ attempt'[a].pc \in {"validated", "mismatch"} /\ attempt'[a].email = e
          /\ attempt'[a].bound = IF EmailMatches(i, e) THEN invite[i].email ELSE None
          /\ \A b \in Attempts \ {a} : attempt'[b] = attempt[b]
      BY <3>1 DEF TypeOK, Attempt
    <3>3. attempt'[a].bound # None => attempt'[a].bound = e
      BY <3>2 DEF EmailMatches
    <3> HIDE DEF i
    <3> QED
      BY <2>2, <3>2, <3>3, ProfileOfOthers
  <2> QED
    BY <2>3, <2>4
<1>3. CASE CountMismatch(a)
  <2>1. user[a] = None /\ UNCHANGED user /\ attempt[a].pc = "mismatch" /\ (Goto(a, "lockout") \/ Abandon(a))
    BY <1>3 DEF CountMismatch, ProfileInv
  <2> QED
    BY <2>1, ProfileMovesOn DEF AttemptPcs
<1>4. CASE AutoRevoke(a)
  <2>1. UNCHANGED user /\ attempt[a].pc = "lockout" /\ Abandon(a)
    BY <1>4 DEF AutoRevoke
  <2> QED
    BY <2>1, ProfileMovesOn
<1>5. CASE CheckExisting(a)
  <2>1. user[a] = None /\ UNCHANGED user /\ attempt[a].pc = "validated" /\ (Goto(a, "creating") \/ Abandon(a))
    BY <1>5 DEF CheckExisting, ProfileInv
  <2> QED
    BY <2>1, ProfileMovesOn DEF AttemptPcs
<1>6. CASE CreateUser(a)
  <2> DEFINE e == IF attempt[a].bound # None THEN attempt[a].bound ELSE attempt[a].email
  <2>1. e = attempt[a].email /\ attempt[a].pc = "creating"
    BY <1>6 DEF ProfileInv, CreateUser
  <2>2. CASE user' = [user EXCEPT ![a] = e] /\ attempt' = [attempt EXCEPT ![a].pc = "linking", ![a].bound = None]
    <3>1. /\ attempt'[a].pc = "linking" /\ attempt'[a].bound = None /\ attempt'[a].email = attempt[a].email
          /\ user'[a] = e
          /\ \A b \in Attempts \ {a} : attempt'[b] = attempt[b] /\ user'[b] = user[b]
      BY <2>2 DEF TypeOK, Attempt
    <3> HIDE DEF e
    <3> QED
      BY <2>1, <3>1, ProfileOfOthers
  <2>3. CASE Abandon(a) /\ UNCHANGED user
    BY <2>1, <2>3, ProfileMovesOn
  <2> QED
    BY <1>6, <2>2, <2>3 DEF CreateUser
<1>7. CASE LinkIdentity(a) \/ Claim(a)
  <2>1. UNCHANGED user /\ \E pc \in {"claiming", "done", "failed"} : Goto(a, pc)
    BY <1>7 DEF LinkIdentity, Claim
  <2> QED
    BY <2>1, ProfileMovesOn DEF AttemptPcs
<1>8. CASE Fail(a)
  <2>1. UNCHANGED user
    BY <1>8 DEF Fail
  <2>2. \/ attempt[a].pc \notin {"linking", "claiming", "done", "failed"} /\ Abandon(a)
        \/ Goto(a, "failed")
    BY <1>8 DEF Fail
  <2> QED
    BY <2>1, <2>2, ProfileMovesOn DEF AttemptPcs
<1> QED
  BY <1>1, <1>2, <1>3, <1>4, <1>5, <1>6, <1>7, <1>8 DEF SignUp, SignUpStep

(* Every step keeps the e-mails of the rows created.                         *)
LEMMA ProfileStep ==
    ASSUME IndInv, ProfileInv, [Next]_vars
    PROVE  ProfileInv'
<1>1. TypeOK /\ LocalsInv
  BY DEF IndInv
<1>2. CASE \E a \in Attempts : SignUp(a)
  BY <1>1, <1>2, SignUpKeepsProfile
<1>3. CASE \E a \in Attempts : DeleteUser(a)
  <2>1. PICK a \in Attempts : DeleteUser(a)
    BY <1>3
  <2>2. user'[a] = None /\ UNCHANGED attempt /\ \A b \in Attempts \ {a} : user'[b] = user[b]
    BY <1>1, <2>1 DEF DeleteUser, TypeOK
  <2> QED
    BY <2>2 DEF ProfileInv, AccountHasProfileEmail
<1>4. CASE UNCHANGED <<attempt, user>>
  BY <1>4 DEF ProfileInv, AccountHasProfileEmail
<1>5. (\E o \in AdminOps : Admin(o)) => UNCHANGED <<attempt, user>>
  BY OthersKeepSpent
<1> QED
  BY <1>2, <1>3, <1>4, <1>5 DEF Next, DeleteInvite, Tick, vars

(* Whatever an administrator makes of the invite's email between two awaits  *)
(* of a sign-up, the user row carries the email of the profile that signed   *)
(* up, as createUser and the check before it agree (auth.service).           *)
THEOREM AccountsAreProfiles == Spec => []AccountHasProfileEmail
<1>1. Init => ProfileInv
  BY DEF Init, ProfileInv, AccountHasProfileEmail, IdleAttempt
<1>2. ProfileInv => AccountHasProfileEmail
  BY DEF ProfileInv
<1> QED
  BY <1>1, <1>2, ProfileStep, AlwaysIndInv, PTL DEF Spec

-----------------------------------------------------------------------------
(* Marks are never cleared. *)

(* An id that has no row carries nothing that a later row could inherit.     *)
BlankInv == \A i \in Invites : row[i] # "live" => invite[i] = BlankRow

(* A step that keeps what is blank and what is marked.                       *)
KeepsMarks ==
    \A i \in Invites :
        /\ row'[i] = row[i]
        /\ row[i] # "live" => invite'[i] = invite[i]
        /\ invite[i].usedAt => invite'[i].usedAt
        /\ Revoked(i) => Revoked(i)'

(* Revoking an invite clears no mark on any.                                 *)
LEMMA RevokeKeepsMarks ==
    ASSUME TypeOK, NEW i \in Invites, NEW reason \in RevokedReasons, RevokeRow(i, reason), UNCHANGED row
    PROVE  KeepsMarks
<1>1. \A j \in Invites \ {i} : invite'[j] = invite[j]
  BY DEF TypeOK, RevokeRow
<1>2. CASE row[i] = "live"
  <2>1. invite'[i].usedAt = invite[i].usedAt /\ invite'[i].revokedReason = reason
    BY <1>2 DEF TypeOK, RevokeRow, InviteRow
  <2> QED
    BY <1>1, <1>2, <2>1, InviteConstants DEF KeepsMarks, Revoked
<1>3. CASE row[i] # "live"
  BY <1>1, <1>3 DEF KeepsMarks, Revoked, RevokeRow
<1> QED
  BY <1>2, <1>3

(* A sign-up marks an invite, and clears no mark.                            *)
LEMMA SignUpKeepsMarks ==
    ASSUME TypeOK, LocalsInv, NEW a \in Attempts, SignUp(a)
    PROVE  KeepsMarks
<1>1. CASE UNCHANGED <<row, invite>>
  BY <1>1 DEF KeepsMarks, Revoked
<1>2. CASE CountMismatch(a)
  <2>1. attempt[a].invite \in Invites
    BY <1>2 DEF CountMismatch, At, LocalsInv
  <2> QED
    BY <1>2, <2>1 DEF CountMismatch, KeepsMarks, Revoked, TypeOK, InviteRow
<1>3. CASE AutoRevoke(a)
  <2>1. attempt[a].invite \in Invites
    BY <1>3 DEF AutoRevoke, At, LocalsInv
  <2> QED
    BY <1>3, <2>1, RevokeKeepsMarks DEF AutoRevoke, RevokedReasons
<1>4. CASE Claim(a)
  <2>1. attempt[a].invite \in Invites
    BY <1>4 DEF Claim, At, LocalsInv
  <2> QED
    BY <1>4, <2>1 DEF Claim, Pending, KeepsMarks, Revoked, TypeOK, InviteRow
<1> QED
  BY <1>1, <1>2, <1>3, <1>4 DEF SignUp, SignUpStep, Join, Callback, CheckExisting, CreateUser, LinkIdentity, Fail

(* An admin request other than an insert. *)
LEMMA AdminKeepsMarks ==
    ASSUME TypeOK, LocalsInv, NEW o \in AdminOps, Admin(o), ~\E i \in Invites : InsertInvite(o, i)
    PROVE  KeepsMarks
<1>1. CASE UNCHANGED <<row, invite>>
  BY <1>1 DEF KeepsMarks, Revoked
<1>2. CASE Supersede(o)
  <2>1. op[o].target \in Invites
    BY <1>2 DEF Supersede, OpAt, LocalsInv
  <2> QED
    BY <1>2, <2>1, RevokeKeepsMarks DEF Supersede, RevokedReasons
<1>3. CASE WriteUpdate(o)
  <2> DEFINE i == op[o].target
  <2>1. i \in Invites /\ invite[i] \in InviteRow /\ UNCHANGED row
    BY <1>3 DEF WriteUpdate, OpAt, LocalsInv, TypeOK
  <2>2. LET r == PatchedRow(invite[i], op[o].body)
        IN  r.usedAt = invite[i].usedAt /\ (r.revokedReason = invite[i].revokedReason \/ r.revokedReason = "ADMIN")
    BY <2>1 DEF PatchedRow, InviteRow
  <2>3. "ADMIN" # None
    BY InviteConstants DEF RevokedReasons
  <2>4. CASE row[i] = "live"
    BY <1>3, <2>1, <2>2, <2>3, <2>4 DEF WriteUpdate, KeepsMarks, Revoked, TypeOK
  <2>5. CASE row[i] # "live"
    BY <1>3, <2>1, <2>5 DEF WriteUpdate, KeepsMarks, Revoked
  <2> QED
    BY <2>4, <2>5
<1> QED
  BY <1>1, <1>2, <1>3 DEF Admin, AdminStep, CreateToken, FindPending, ReadForUpdate, FailOp

(* No step clears a mark of an invite whose row stays.                       *)
LEMMA MarksStep ==
    ASSUME IndInv, BlankInv, [Next]_vars
    PROVE  /\ BlankInv'
           /\ \A i \in Invites : row'[i] = "live" => /\ invite[i].usedAt => invite'[i].usedAt
                                                     /\ Revoked(i) => Revoked(i)'
<1>1. TypeOK /\ LocalsInv
  BY DEF IndInv
<1>2. CASE KeepsMarks
  BY <1>2 DEF KeepsMarks, BlankInv
<1>3. CASE \E o \in AdminOps, i \in Invites : InsertInvite(o, i)
  <2>1. PICK o \in AdminOps, i \in Invites : InsertInvite(o, i)
    BY <1>3
  <2>2. /\ row[i] = "unused" /\ row'[i] = "live"
        /\ \A j \in Invites \ {i} : row'[j] = row[j] /\ invite'[j] = invite[j]
    BY <1>1, <2>1 DEF InsertInvite, TypeOK
  <2>3. ~invite[i].usedAt /\ ~Revoked(i)
    BY <2>2 DEF BlankInv, BlankRow, Revoked
  <2> QED
    BY <2>2, <2>3 DEF BlankInv, Revoked
<1>4. CASE \E i \in Invites : DeleteInvite(i)
  <2>1. PICK i \in Invites : DeleteInvite(i)
    BY <1>4
  <2>2. /\ row'[i] = "deleted" /\ invite'[i] = BlankRow
        /\ \A j \in Invites \ {i} : row'[j] = row[j] /\ invite'[j] = invite[j]
    BY <1>1, <2>1 DEF DeleteInvite, TypeOK
  <2> QED
    BY <2>2 DEF BlankInv, Revoked
<1>5. CASE \E a \in Attempts : DeleteUser(a)
  <2>1. PICK a \in Attempts : DeleteUser(a)
    BY <1>5
  <2>2. UNCHANGED row
        /\ \A i \in Invites : invite'[i] = [invite[i] EXCEPT !.usedBy = IF invite[i].usedBy = a THEN None ELSE invite[i].usedBy]
    BY <1>1, <2>1 DEF DeleteUser
  <2>3. ASSUME NEW i \in Invites
        PROVE  invite'[i].usedAt = invite[i].usedAt /\ invite'[i].revokedReason = invite[i].revokedReason
    <3> DEFINE u == IF invite[i].usedBy = a THEN None ELSE invite[i].usedBy
    <3>1. invite[i] \in InviteRow /\ invite'[i] = [invite[i] EXCEPT !.usedBy = u]
      BY <1>1, <2>2 DEF TypeOK
    <3> HIDE DEF u
    <3> QED
      BY <3>1 DEF InviteRow
  <2>4. ASSUME NEW i \in Invites, row[i] # "live" PROVE invite'[i] = BlankRow
    <3>1. invite[i] = BlankRow /\ BlankRow.usedBy = None /\ None # a
      BY <2>4, InviteConstants DEF BlankInv, BlankRow
    <3>2. invite'[i] = [BlankRow EXCEPT !.usedBy = None]
      BY <2>2, <3>1
    <3> QED
      BY <3>2 DEF BlankRow
  <2> QED
    BY <2>2, <2>3, <2>4 DEF BlankInv, Revoked
<1>6. CASE Tick \/ UNCHANGED vars
  BY <1>6 DEF Tick, vars, BlankInv, Revoked
<1>7. CASE \E a \in Attempts : SignUp(a)
  BY <1>1, <1>2, <1>7, SignUpKeepsMarks
<1>8. CASE \E o \in AdminOps : Admin(o)
  BY <1>1, <1>2, <1>3, <1>8, AdminKeepsMarks
<1> QED
  BY <1>3, <1>4, <1>5, <1>6, <1>7, <1>8 DEF Next

(* A used or revoked invite stays so as long as its row exists, although     *)
(* updates, lock-outs and supersedes write rows that they read before.       *)
THEOREM MarksStay == Spec => MarksNeverCleared
<1>1. Init => BlankInv
  BY DEF Init, BlankInv
<1>2. IndInv /\ BlankInv /\ [Next]_vars => BlankInv'
  BY MarksStep
<1>3. Spec => []BlankInv
  BY <1>1, <1>2, AlwaysIndInv, PTL DEF Spec
<1>4. IndInv /\ BlankInv /\ [Next]_vars
      => [\A i \in Invites : row'[i] = "live" => /\ invite[i].usedAt => invite'[i].usedAt
                                                 /\ Revoked(i) => Revoked(i)']_vars
  BY MarksStep
<1> QED
  BY <1>3, <1>4, AlwaysIndInv, PTL DEF Spec, MarksNeverCleared

-----------------------------------------------------------------------------
(* Refinement. *)

(* The initial states map to the ledger's.                                   *)
LEMMA InitLedger == Init => Ledger!Init
  BY DEF Init, Ledger!Init, Winners, At, IdleAttempt

(* A successful claim is the ledger's Spend; every other step is a stutter. *)
LEMMA StepLedger ==
    ASSUME IndInv, [Next]_vars
    PROVE  [Ledger!Next]_Winners
<1>1. CASE \E a \in Attempts : Claim(a) /\ attempt'[a].pc = "done"
  <2>1. PICK a \in Attempts : Claim(a) /\ attempt'[a].pc = "done"
    BY <1>1
  <2>i. PICK i \in Invites : i = attempt[a].invite
    BY <2>1, ClaimIsFirst
  <2>2. i \in Invites /\ Winners[i] = {}
    BY <2>1, <2>i, ClaimIsFirst DEF Winners
  <2>3. Winners' = [Winners EXCEPT ![i] = {a}]
    <3>1. ASSUME NEW j \in Invites, j # i
          PROVE  {b \in Attempts : At(b, "done") /\ attempt[b].invite = j}'
                   = {b \in Attempts : At(b, "done") /\ attempt[b].invite = j}
      BY <2>1, <2>i, <3>1, ClaimIsFirst DEF At
    <3>2. {b \in Attempts : At(b, "done") /\ attempt[b].invite = i}' = {a}
      BY <2>1, <2>i, ClaimIsFirst DEF At
    <3>3. \A j \in Invites : Winners'[j] = [Winners EXCEPT ![i] = {a}][j]
      BY <2>2, <3>1, <3>2 DEF Winners
    <3>4. Winners' = [j \in Invites |-> Winners'[j]]
      BY DEF Winners
    <3>5. [Winners EXCEPT ![i] = {a}] = [j \in Invites |-> [Winners EXCEPT ![i] = {a}][j]]
      BY DEF Winners
    <3> QED
      BY <3>3, <3>4, <3>5, Zenon
  <2> QED
    BY <2>2, <2>3 DEF Ledger!Next, Ledger!Spend
<1>2. CASE ~\E a \in Attempts : Claim(a) /\ attempt'[a].pc = "done"
  <2>1. \A b \in Attempts :
           /\ At(b, "done")' <=> At(b, "done")
           /\ At(b, "done") => attempt'[b] = attempt[b]
    <3>1. CASE \E a \in Attempts : SignUp(a)
      BY <1>2, <3>1, SignUpKeepsSpent DEF At
    <3>2. CASE UNCHANGED attempt
      BY <3>2 DEF At
    <3>3. (\E o \in AdminOps : Admin(o)) => UNCHANGED attempt
      BY OthersKeepSpent
    <3> QED
      BY <3>1, <3>2, <3>3 DEF Next, DeleteInvite, DeleteUser, Tick, vars
  <2>2. \A i \in Invites :
           {b \in Attempts : At(b, "done") /\ attempt[b].invite = i}'
              = {b \in Attempts : At(b, "done") /\ attempt[b].invite = i}
    BY <2>1
  <2> QED
    BY <2>2 DEF Winners
<1> QED
  BY <1>1, <1>2

(* The handlers, for any number of invites, sign-ups and admin requests,     *)
(* implement the ledger: an invite is spent once and never again.            *)
THEOREM ImplementsLedger == Spec => SpendsLikeALedger
  BY InitLedger, StepLedger, AlwaysIndInv, PTL DEF Spec, SpendsLikeALedger, Ledger!Spec

=============================================================================
