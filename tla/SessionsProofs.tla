----------------------------- MODULE SessionsProofs -----------------------------
(***************************************************************************)
(* Who may have a stored session, and how many of them, for any number of  *)
(* requests, users and session ids.                                        *)
(*                                                                         *)
(* SessionLimit is not inductive.  A login that has listed the sessions to *)
(* evict counts as one more session from the moment it is done, whatever   *)
(* other logins store while it deletes them one by one; and a request may  *)
(* revive the expired session it came with.  Room therefore counts the     *)
(* sessions that work or may be revived, takes away those that any set of  *)
(* evicting logins is going to delete, and adds these logins to those that *)
(* have made room.                                                         *)
(***************************************************************************)
EXTENDS Sessions, FiniteSetTheorems, TLAPS

LoginPcs == {"resolve", "enforce", "evict", "regenerate"}

LocalOK(r) ==
    /\ request[r].pc \in LoginPcs => request[r].kind = "login"
    /\ request[r].kind = "login" => request[r].pc \in LoginPcs \cup {"store"} /\ ~request[r].found

(* An order of creation, total among the sessions of one user.               *)
Order ==
    \A s \in Sids :
        /\ s \notin older[s]
        /\ \A o \in older[s] : Stored(o) /\ older[o] \subseteq older[s]
        /\ \A t \in Sids \ {s} :
              Stored(s) /\ session[t].user = session[s].user => s \in older[t] \/ t \in older[s]

(* Sessions of u that work, or that a request works with and may revive.     *)
Held(u) ==
    {s \in Sids : /\ session[s].user = u
                  /\ ~session[s].expired
                     \/ \E q \in Requests : request[q].kind # "login" /\ request[q].sid = s}

Evicting(u) == {r \in Requests : request[r].kind = "login" /\ request[r].user = u /\ request[r].pc = "evict"}

Doomed(Q) == UNION {request[q].doomed : q \in Q}

Room ==
    ~unenforced =>
        \A u \in People : \A Q \in SUBSET Evicting(u) :
            Cardinality(Held(u) \ Doomed(Q)) + Cardinality(SigningIn(u)) + Cardinality(Q)
                < most + Cardinality(Requests)

SessionInv ==
    /\ SessionTypeOK
    /\ limit <= most
    /\ Order
    /\ \A r \in Requests : LocalOK(r)
    /\ SessionsHaveUsers
    /\ Room

-----------------------------------------------------------------------------
(* Sets and their sizes *)

(* The constants have the types of the variables they initialise.            *)
LEMMA QuietType == Quiet \in RequestState /\ NoSession \in Session
  BY DEF Quiet, RequestState, RequestPcs, NoSession, Session

(* A subset is no larger.                                                    *)
LEMMA SubsetSize ==
    ASSUME NEW S, NEW T, IsFiniteSet(T), S \subseteq T
    PROVE  IsFiniteSet(S) /\ Cardinality(S) \in Nat /\ Cardinality(T) \in Nat /\ Cardinality(S) <= Cardinality(T)
<1>1. S \in SUBSET T
  OBVIOUS
<1> QED
  BY <1>1, FS_Subset, FS_CardinalityType

(* A union is no larger than its parts together.                             *)
LEMMA UnionSize ==
    ASSUME NEW S, NEW T, IsFiniteSet(S), IsFiniteSet(T)
    PROVE  /\ IsFiniteSet(S \cup T)
           /\ Cardinality(S \cup T) \in Nat /\ Cardinality(S) \in Nat /\ Cardinality(T) \in Nat
           /\ Cardinality(S \cup T) <= Cardinality(S) + Cardinality(T)
           /\ S \cap T = {} => Cardinality(S \cup T) = Cardinality(S) + Cardinality(T)
<1>1. IsFiniteSet(S \cup T) /\ Cardinality(S \cup T) = Cardinality(S) + Cardinality(T) - Cardinality(S \cap T)
  BY FS_Union
<1>2. IsFiniteSet(S \cap T)
  BY SubsetSize
<1>3. /\ Cardinality(S \cup T) \in Nat /\ Cardinality(S) \in Nat /\ Cardinality(T) \in Nat
      /\ Cardinality(S \cap T) \in Nat
  BY <1>1, <1>2, FS_CardinalityType
<1>4. S \cap T = {} => Cardinality(S \cap T) = 0
  BY FS_EmptySet
<1> QED
  BY <1>1, <1>3, <1>4

(* Sets of requests and of sessions can be counted.                          *)
LEMMA SizesFinite ==
    /\ \A S : S \subseteq Requests => IsFiniteSet(S) /\ Cardinality(S) \in Nat
    /\ \A S : S \subseteq Sids => IsFiniteSet(S) /\ Cardinality(S) \in Nat
    /\ Cardinality(Requests) \in Nat \ {0}
<1>1. /\ \A S : S \subseteq Requests => IsFiniteSet(S) /\ Cardinality(S) \in Nat
      /\ \A S : S \subseteq Sids => IsFiniteSet(S) /\ Cardinality(S) \in Nat
  BY SessionConstants, SubsetSize
<1>2. Cardinality(Requests) # 0 /\ Cardinality(Requests) \in Nat
  BY SessionConstants, FS_EmptySet, FS_CardinalityType
<1> QED
  BY <1>1, <1>2

(* The eviction leaves room for one session: the sessions that it spares     *)
(* have different numbers of older ones, all of them among the last.         *)
LEMMA EvictionMakesRoom ==
    ASSUME SessionTypeOK, Order, NEW u \in People
    PROVE  Cardinality(ActiveSessions(u) \ Evicted(ActiveSessions(u))) <= limit - 1
<1> DEFINE A == ActiveSessions(u)
           n == Cardinality(A)
           k == limit - 1
           Spared == A \ Evicted(A)
           Before(s) == older[s] \cap A
           rank == [s \in Spared |-> Cardinality(Before(s))]
<1>1. A \subseteq Sids /\ IsFiniteSet(A) /\ n \in Nat /\ k \in Nat /\ Spared \subseteq A
  BY SizesFinite, SessionConstants DEF ActiveSessions, SessionTypeOK
<1>2. \A s \in A : Stored(s) /\ session[s].user = u
  BY SessionConstants DEF ActiveSessions, Stored
<1>3. ASSUME NEW s \in A
      PROVE  IsFiniteSet(Before(s)) /\ Cardinality(Before(s)) \in Nat /\ Cardinality(Before(s)) <= n - 1
  <2>1. Before(s) \subseteq A \ {s} /\ IsFiniteSet(A \ {s}) /\ Cardinality(A \ {s}) = n - 1
    <3>1. s \notin older[s]
      BY <1>1, <1>3 DEF Order
    <3> HIDE DEF A
    <3> QED
      BY <1>1, <3>1, FS_RemoveElement
  <2> HIDE DEF A
  <2> QED
    BY <2>1, SubsetSize
<1>4. ASSUME NEW s \in A, NEW t \in A, s \in older[t]
      PROVE  Cardinality(Before(s)) # Cardinality(Before(t))
  <2>1. older[s] \subseteq older[t] /\ s \notin older[s]
    BY <1>1, <1>4 DEF Order
  <2>2. Before(s) \in SUBSET Before(t) /\ Before(s) # Before(t)
    BY <1>4, <2>1
  <2>3. IsFiniteSet(Before(t))
    BY <1>3
  <2> HIDE DEF Before
  <2> QED
    BY <2>2, <2>3, FS_Subset
<1>5. ASSUME NEW s \in A, NEW t \in A, s # t
      PROVE  Cardinality(Before(s)) # Cardinality(Before(t))
  <2>1. s \in older[t] \/ t \in older[s]
    BY <1>1, <1>2, <1>5 DEF Order
  <2> HIDE DEF A, Before
  <2> QED
    BY <1>4, <2>1
<1>6. \A s \in Spared : Cardinality(Before(s)) >= n - k
  <2>1. \A s \in Spared : s \in A /\ ~(Cardinality(Before(s)) < n - k)
    BY DEF Evicted
  <2> HIDE DEF A, Before, Spared, k, n
  <2> QED
    BY <1>1, <1>3, <2>1
<1>7. n <= k => Cardinality(Spared) <= k
  <2> SUFFICES ASSUME n <= k PROVE Cardinality(Spared) <= k
    OBVIOUS
  <2>1. Cardinality(Spared) <= n /\ Cardinality(Spared) \in Nat
    BY <1>1, SubsetSize
  <2> HIDE DEF A, Spared, k, n
  <2> QED
    BY <1>1, <2>1
<1>8. n > k => Cardinality(Spared) <= k
  <2> SUFFICES ASSUME n > k PROVE Cardinality(Spared) <= k
    OBVIOUS
  <2> HIDE DEF A, n, k, Before, Spared
  <2>1. rank \in [Spared -> (n - k)..(n - 1)]
    BY <1>1, <1>3, <1>6
  <2>2. \A s, t \in Spared : s # t => rank[s] # rank[t]
    BY <1>1, <1>5
  <2>3. rank \in Injection(Spared, (n - k)..(n - 1))
    BY <2>1, <2>2 DEF Injection, IsInjective
  <2>4. n - k \in Int /\ n - 1 \in Int
    BY <1>1
  <2>5. IsFiniteSet((n - k)..(n - 1)) /\ Cardinality((n - k)..(n - 1)) = IF n - k > n - 1 THEN 0 ELSE (n - 1) - (n - k) + 1
    BY <2>4, FS_Interval
  <2> HIDE DEF rank
  <2>6. Cardinality(Spared) <= Cardinality((n - k)..(n - 1))
    BY <2>3, <2>5, FS_Injection
  <2>7. Cardinality((n - k)..(n - 1)) <= k
    BY <1>1, <2>5
  <2>8. Cardinality(Spared) \in Nat /\ Cardinality((n - k)..(n - 1)) \in Nat
    BY <1>1, <2>5, SubsetSize, FS_CardinalityType
  <2> QED
    BY <1>1, <2>6, <2>7, <2>8
<1>9. n <= k \/ n > k
  BY <1>1
<1>10. Cardinality(Spared) <= k
  BY <1>7, <1>8, <1>9
<1> QED
  BY <1>10

-----------------------------------------------------------------------------
(* What a step may do to the bound *)

(* The terms of Room are numbers.                                            *)
LEMMA LoadIsNat ==
    ASSUME NEW u \in People, NEW Q \in SUBSET Requests
    PROVE  /\ Cardinality(Held(u) \ Doomed(Q)) \in Nat /\ IsFiniteSet(Held(u) \ Doomed(Q))
           /\ Cardinality(SigningIn(u)) \in Nat /\ IsFiniteSet(SigningIn(u))
           /\ Cardinality(Q) \in Nat /\ IsFiniteSet(Q)
<1>1. Held(u) \ Doomed(Q) \subseteq Sids /\ SigningIn(u) \subseteq Requests
  BY DEF Held, SigningIn
<1> QED
  BY <1>1, SizesFinite

(* The terms of Room are numbers after a step, too.                          *)
LEMMA LoadIsNatNext ==
    ASSUME NEW u \in People, NEW Q \in SUBSET Requests
    PROVE  /\ Cardinality((Held(u) \ Doomed(Q))') \in Nat /\ IsFiniteSet((Held(u) \ Doomed(Q))')
           /\ Cardinality(SigningIn(u)') \in Nat /\ IsFiniteSet(SigningIn(u)')
<1>1. (Held(u) \ Doomed(Q))' \subseteq Sids /\ SigningIn(u)' \subseteq Requests
  BY DEF Held, SigningIn
<1> QED
  BY <1>1, SizesFinite

(* The bound of u stays, with what the requests Q are going to delete, when  *)
(* it held for requests P and u had as much then.                            *)
LEMMA BoundKept ==
    ASSUME SessionTypeOK, SessionTypeOK', Room, ~unenforced, most <= most',
           NEW u \in People, NEW P \in SUBSET Evicting(u), NEW Q \in SUBSET Requests,
           Cardinality((Held(u) \ Doomed(Q))') + Cardinality(SigningIn(u)') + Cardinality(Q)
               <= Cardinality(Held(u) \ Doomed(P)) + Cardinality(SigningIn(u)) + Cardinality(P)
    PROVE  (Cardinality(Held(u) \ Doomed(Q)) + Cardinality(SigningIn(u)) + Cardinality(Q)
               < most + Cardinality(Requests))'
<1>1. P \in SUBSET Requests
  BY DEF Evicting
<1>2. Cardinality(Held(u) \ Doomed(P)) + Cardinality(SigningIn(u)) + Cardinality(P) < most + Cardinality(Requests)
  BY DEF Room
<1>3. most \in Nat /\ most' \in Nat /\ Cardinality(Requests) \in Nat
  BY SizesFinite DEF SessionTypeOK
<1>4. /\ Cardinality(Held(u) \ Doomed(P)) \in Nat /\ Cardinality(SigningIn(u)) \in Nat /\ Cardinality(P) \in Nat
      /\ Cardinality((Held(u) \ Doomed(Q))') \in Nat /\ Cardinality(SigningIn(u)') \in Nat /\ Cardinality(Q) \in Nat
  BY <1>1, LoadIsNat, LoadIsNatNext
<1> DEFINE load == Cardinality(Held(u) \ Doomed(P)) + Cardinality(SigningIn(u)) + Cardinality(P)
           next == Cardinality((Held(u) \ Doomed(Q))') + Cardinality(SigningIn(u)') + Cardinality(Q)
<1>5. next <= load /\ load < most + Cardinality(Requests) /\ next \in Nat /\ load \in Nat
  BY <1>2, <1>4
<1> HIDE DEF next, load
<1>6. next < most' + Cardinality(Requests)
  BY <1>3, <1>5
<1> QED
  BY <1>6 DEF next

(* No session comes to work, no login makes room or is about to delete less. *)
LEMMA BoundThinned ==
    ASSUME SessionTypeOK, SessionTypeOK', Room, ~unenforced, most <= most', NEW u \in People,
           NEW Q \in SUBSET Evicting(u), (Held(u) \ Doomed(Q))' \subseteq Held(u) \ Doomed(Q),
           SigningIn(u)' \subseteq SigningIn(u)
    PROVE  (Cardinality(Held(u) \ Doomed(Q)) + Cardinality(SigningIn(u)) + Cardinality(Q)
               < most + Cardinality(Requests))'
<1>1. Q \in SUBSET Requests
  BY DEF Evicting
<1>2. /\ Cardinality((Held(u) \ Doomed(Q))') <= Cardinality(Held(u) \ Doomed(Q))
      /\ Cardinality(SigningIn(u)') <= Cardinality(SigningIn(u))
  BY <1>1, LoadIsNat, SubsetSize
<1> HIDE DEF Held, Doomed, SigningIn
<1>3. Cardinality((Held(u) \ Doomed(Q))') + Cardinality(SigningIn(u)') + Cardinality(Q)
         <= Cardinality(Held(u) \ Doomed(Q)) + Cardinality(SigningIn(u)) + Cardinality(Q)
  BY <1>1, <1>2, LoadIsNat, LoadIsNatNext
<1> QED
  BY <1>1, <1>3, BoundKept

(* Nobody makes room and no session comes to work. *)
LEMMA RoomKept ==
    ASSUME SessionTypeOK, SessionTypeOK', Room, unenforced => unenforced', most <= most',
           \A u \in People : /\ Held(u)' \subseteq Held(u)
                             /\ SigningIn(u)' \subseteq SigningIn(u)
                             /\ Evicting(u)' \subseteq Evicting(u)
                             /\ \A q \in Evicting(u)' : request'[q].doomed = request[q].doomed
    PROVE  Room'
<1> SUFFICES ASSUME ~unenforced', NEW u \in People, NEW Q \in SUBSET Evicting(u)'
             PROVE  (Cardinality(Held(u) \ Doomed(Q)) + Cardinality(SigningIn(u)) + Cardinality(Q)
                        < most + Cardinality(Requests))'
  BY DEF Room
<1>1. Q \in SUBSET Evicting(u)
  OBVIOUS
<1>2. Doomed(Q)' = Doomed(Q)
  BY DEF Doomed
<1>3. (Held(u) \ Doomed(Q))' \subseteq Held(u) \ Doomed(Q)
  BY <1>2
<1> QED
  BY <1>1, <1>3, BoundThinned

(* After an eviction: at most limit - 1 sessions of u are spared, one more   *)
(* for each request that is not a login may be revived, and logins count     *)
(* once.                                                                     *)
LEMMA RoomMade ==
    ASSUME SessionTypeOK', (limit <= most)', NEW u \in People, NEW Q \in SUBSET Evicting(u)',
           (Cardinality(ActiveSessions(u) \ Doomed(Q)) <= limit - 1)'
    PROVE  (Cardinality(Held(u) \ Doomed(Q)) + Cardinality(SigningIn(u)) + Cardinality(Q)
               < most + Cardinality(Requests))'
<1> DEFINE others == {q \in Requests : request'[q].kind # "login"}
           sids == {s \in Sids : \E q \in others : request'[q].sid = s}
           held == (Held(u) \ Doomed(Q))'
           spared == (ActiveSessions(u) \ Doomed(Q))'
           signing == SigningIn(u)'
           all == Cardinality(Requests)
<1>1. held \subseteq spared \cup sids
  BY DEF Held, ActiveSessions
<1>2. /\ others \subseteq Requests /\ signing \subseteq Requests /\ Q \subseteq Requests
      /\ others \cap (signing \cup Q) = {} /\ signing \cap Q = {}
  BY DEF SigningIn, Evicting
<1>3. spared \subseteq Sids /\ sids \subseteq Sids
  BY DEF ActiveSessions
<1>4. Cardinality(sids) <= Cardinality(others)
  <2> DEFINE users == {q \in others : request'[q].sid \in Sids}
             f == [q \in users |-> request'[q].sid]
  <2>1. f \in Surjection(users, sids)
    BY DEF Surjection
  <2>2. users \subseteq others /\ IsFiniteSet(others)
    BY SizesFinite
  <2>3. IsFiniteSet(users) /\ Cardinality(users) <= Cardinality(others) /\ Cardinality(users) \in Nat
        /\ Cardinality(others) \in Nat
    BY <2>2, SubsetSize
  <2> HIDE DEF users, f, others, sids
  <2>4. Cardinality(sids) <= Cardinality(users) /\ IsFiniteSet(sids)
    BY <2>1, <2>3, FS_Surjection
  <2>5. Cardinality(sids) \in Nat
    BY <2>4, FS_CardinalityType
  <2> QED
    BY <2>3, <2>4, <2>5
<1> HIDE DEF others, sids, held, spared, signing
<1>5. /\ IsFiniteSet(spared) /\ IsFiniteSet(sids) /\ IsFiniteSet(others) /\ IsFiniteSet(signing) /\ IsFiniteSet(Q)
      /\ Cardinality(spared) \in Nat /\ Cardinality(sids) \in Nat /\ Cardinality(others) \in Nat
      /\ Cardinality(signing) \in Nat /\ Cardinality(Q) \in Nat /\ all \in Nat
  BY <1>2, <1>3, SizesFinite
<1>6. Cardinality(held) \in Nat /\ Cardinality(held) <= Cardinality(spared) + Cardinality(sids)
  <2>1. /\ IsFiniteSet(spared \cup sids) /\ Cardinality(spared \cup sids) \in Nat
        /\ Cardinality(spared \cup sids) <= Cardinality(spared) + Cardinality(sids)
    BY <1>5, UnionSize
  <2>2. Cardinality(held) \in Nat /\ Cardinality(held) <= Cardinality(spared \cup sids)
    BY <1>1, <2>1, SubsetSize
  <2> QED
    BY <1>5, <2>1, <2>2
<1>7. Cardinality(others) + Cardinality(signing) + Cardinality(Q) <= all
  <2>1. IsFiniteSet(signing \cup Q) /\ Cardinality(signing \cup Q) = Cardinality(signing) + Cardinality(Q)
    BY <1>2, <1>5, UnionSize
  <2>2. Cardinality(others \cup (signing \cup Q)) = Cardinality(others) + Cardinality(signing \cup Q)
    BY <1>2, <1>5, <2>1, UnionSize
  <2>3. others \cup (signing \cup Q) \subseteq Requests /\ IsFiniteSet(Requests)
    BY <1>2, SessionConstants
  <2>4. Cardinality(others \cup (signing \cup Q)) <= all
    BY <2>3, SubsetSize
  <2> QED
    BY <1>5, <2>1, <2>2, <2>4
<1>8. Cardinality(spared) <= limit' - 1 /\ limit' \in Nat /\ most' \in Nat /\ limit' <= most'
  BY DEF spared, SessionTypeOK
<1>9. Cardinality(held) + Cardinality(signing) + Cardinality(Q) < most' + all
  BY <1>4, <1>5, <1>6, <1>7, <1>8
<1> QED
  BY <1>9 DEF held, signing

-----------------------------------------------------------------------------
(* The store and the requests, one step at a time *)

(* deleteMany, of sessions that are there or not. *)
LEMMA Thinned ==
    ASSUME SessionTypeOK, Order, (\E gone : DeleteSessions(gone)) \/ KeepSessions
    PROVE  /\ session' \in [Sids -> Session] /\ older' \in [Sids -> SUBSET Sids]
           /\ Order'
           /\ \A s \in Sids : session'[s] = session[s] \/ session'[s] = NoSession
<1>1. CASE KeepSessions
  BY <1>1 DEF KeepSessions, SessionTypeOK, Order, Stored
<1>2. CASE \E gone : DeleteSessions(gone)
  <2>1. PICK gone : DeleteSessions(gone)
    BY <1>2
  <2>2. /\ \A s \in Sids : session'[s] = IF s \in gone THEN NoSession ELSE session[s]
        /\ \A s \in Sids : older'[s] = IF s \in gone THEN {} ELSE older[s] \ gone
    BY <2>1 DEF DeleteSessions
  <2>3. session' \in [Sids -> Session] /\ older' \in [Sids -> SUBSET Sids]
    BY <2>1, QuietType DEF DeleteSessions, SessionTypeOK
  <2>4. \A s \in Sids : (s \in gone => ~Stored(s)') /\ (s \notin gone => session'[s] = session[s])
    BY <2>2 DEF Stored, NoSession
  <2>5. ASSUME NEW s \in Sids, NEW o \in older'[s]
        PROVE  Stored(o)' /\ older'[o] \subseteq older'[s]
    <3>1. s \notin gone /\ o \in older[s] /\ o \notin gone /\ o \in Sids
      BY <2>2, <2>5 DEF SessionTypeOK
    <3>2. Stored(o) /\ older[o] \subseteq older[s]
      BY <3>1 DEF Order
    <3> QED
      BY <2>2, <3>1, <3>2 DEF Stored
  <2>6. ASSUME NEW s \in Sids, NEW t \in Sids \ {s}, Stored(s)', session'[t].user = session'[s].user
        PROVE  s \in older'[t] \/ t \in older'[s]
    <3>1. s \notin gone /\ t \notin gone
      BY <2>2, <2>4, <2>6 DEF Stored, NoSession
    <3>2. Stored(s) /\ session[t].user = session[s].user
      BY <2>4, <2>6, <3>1 DEF Stored
    <3>3. s \in older[t] \/ t \in older[s]
      BY <3>2 DEF Order
    <3> QED
      BY <2>2, <3>1, <3>3
  <2>7. \A s \in Sids : s \notin older'[s]
    BY <2>2, ZenonT(60) DEF Order
  <2>8. Order'
    BY <2>5, <2>6, <2>7 DEF Order
  <2> QED
    BY <2>2, <2>3, <2>8
<1> QED
  BY <1>1, <1>2

(* What a request leaves that goes on.                                       *)
LEMMA StepType ==
    ASSUME SessionTypeOK, NEW r \in Requests, NEW pc \in RequestPcs, Step(r, pc)
    PROVE  /\ request' \in [Requests -> RequestState]
           /\ \A q \in Requests \ {r} : request'[q] = request[q]
           /\ request'[r].pc = pc /\ request'[r].kind = request[r].kind /\ request'[r].sid = request[r].sid
           /\ request'[r].user = request[r].user /\ request'[r].found = request[r].found
           /\ request'[r].doomed = request[r].doomed
<1>1. request[r] \in RequestState
  BY DEF SessionTypeOK
<1> QED
  BY <1>1 DEF Step, SessionTypeOK, RequestState

(* What a request leaves that is done.                                       *)
LEMMA FinishType ==
    ASSUME SessionTypeOK, NEW r \in Requests, Finish(r)
    PROVE  /\ request' \in [Requests -> RequestState]
           /\ \A q \in Requests \ {r} : request'[q] = request[q]
           /\ request'[r] = Quiet
  BY QuietType DEF Finish, SessionTypeOK

(* The kinds of requests that are no logins, from their guard to their end.  *)
Ordinary(r) ==
    /\ request' \in [Requests -> RequestState]
    /\ \A q \in Requests \ {r} : request'[q] = request[q]
    /\ \/ request'[r] = Quiet
       \/ /\ request[r].kind # "login" /\ request'[r].kind = request[r].kind
          /\ request'[r].sid = request[r].sid /\ request'[r].pc \notin LoginPcs

(* A request that signs nobody in gives no user a session to hold.           *)
LEMMA OrdinaryHeld ==
    ASSUME NEW r \in Requests, Ordinary(r), NEW u \in People,
           \A s \in Sids : session'[s].user = u => /\ session[s].user = u
                                                   /\ session[s].expired => session'[s].expired \/ s \in Held(u)
    PROVE  /\ Held(u)' \subseteq Held(u)
           /\ SigningIn(u)' \subseteq SigningIn(u)
           /\ Evicting(u)' \subseteq Evicting(u)
           /\ \A q \in Evicting(u)' : request'[q].doomed = request[q].doomed
<1>1. request'[r].kind # "login"
  BY DEF Ordinary, Quiet
<1>2. ASSUME NEW s \in Sids, NEW q \in Requests, request'[q].kind # "login", request'[q].sid = s
      PROVE  request[q].kind # "login" /\ request[q].sid = s
  BY <1>2, SessionConstants DEF Ordinary, Quiet
<1>3. Held(u)' \subseteq Held(u)
  <2> SUFFICES ASSUME NEW s \in Sids, s \in Held(u)' PROVE s \in Held(u)
    BY DEF Held
  <2>1. session[s].user = u /\ (session[s].expired => session'[s].expired \/ s \in Held(u))
    BY DEF Held
  <2>2. CASE session'[s].expired
    <3>1. PICK q \in Requests : request'[q].kind # "login" /\ request'[q].sid = s
      BY <2>2 DEF Held
    <3> QED
      BY <1>2, <2>1, <3>1 DEF Held
  <2>3. CASE ~session'[s].expired
    BY <2>1, <2>3 DEF Held
  <2> QED
    BY <2>2, <2>3
<1>4. \A q \in Requests : request'[q].kind = "login" => q # r /\ request'[q] = request[q]
  BY <1>1 DEF Ordinary
<1> QED
  BY <1>3, <1>4 DEF SigningIn, Evicting

(* A request that signs nobody in keeps what is known of the locals.         *)
LEMMA OrdinaryLocals ==
    ASSUME \A q \in Requests : LocalOK(q), NEW r \in Requests, Ordinary(r)
    PROVE  \A q \in Requests : LocalOK(q)'
<1>1. LocalOK(r)'
  BY DEF LocalOK, Ordinary, Quiet, LoginPcs
<1>2. ASSUME NEW q \in Requests \ {r} PROVE LocalOK(q)'
  <2>1. request'[q] = request[q] /\ LocalOK(q)
    BY DEF Ordinary
  <2> QED
    BY <2>1 DEF LocalOK
<1> QED
  BY <1>1, <1>2

(* A step of an ordinary request that deletes sessions at most. *)
LEMMA OrdinaryKeeps ==
    ASSUME SessionInv, NEW r \in Requests, Ordinary(r), (\E gone : DeleteSessions(gone)) \/ KeepSessions,
           user' \in [People -> [status : UserStatuses, admin : BOOLEAN]],
           \A u \in People : user'[u].status = "absent" /\ user[u].status # "absent"
                                => \A s \in Sids : session'[s].user # u,
           limit' \in 1..MaxLimit, most' \in 1..MaxLimit, limit' <= most', most <= most',
           provider' \in BOOLEAN, UNCHANGED unenforced
    PROVE  SessionInv'
<1>1. /\ SessionTypeOK /\ Order /\ Room /\ (\A q \in Requests : LocalOK(q)) /\ SessionsHaveUsers
  BY DEF SessionInv
<1>2. /\ session' \in [Sids -> Session] /\ older' \in [Sids -> SUBSET Sids] /\ Order'
      /\ \A s \in Sids : session'[s] = session[s] \/ session'[s] = NoSession
  BY <1>1, Thinned
<1>3. SessionTypeOK'
  BY <1>1, <1>2 DEF SessionTypeOK, Ordinary
<1>4. \A q \in Requests : LocalOK(q)'
  BY <1>1, OrdinaryLocals
<1>5. ASSUME NEW u \in People
      PROVE  \A s \in Sids : session'[s].user = u => session[s] = session'[s]
  BY <1>2, <1>5, SessionConstants DEF NoSession
<1>6. Room'
  <2>1. ASSUME NEW u \in People
        PROVE  /\ Held(u)' \subseteq Held(u)
               /\ SigningIn(u)' \subseteq SigningIn(u)
               /\ Evicting(u)' \subseteq Evicting(u)
               /\ \A q \in Evicting(u)' : request'[q].doomed = request[q].doomed
    BY <1>5, OrdinaryHeld
  <2> QED
    BY <1>1, <1>3, <2>1, RoomKept
<1>7. SessionsHaveUsers'
  <2> SUFFICES ASSUME NEW s \in Sids, Stored(s)' PROVE user'[session'[s].user].status # "absent"
    BY DEF SessionsHaveUsers
  <2>1. session'[s] = session[s] /\ Stored(s)
    BY <1>2 DEF Stored, NoSession
  <2>2. session[s].user \in People /\ user[session[s].user].status # "absent"
    BY <1>1, <2>1 DEF SessionTypeOK, Session, Stored, SessionsHaveUsers
  <2> QED
    BY <2>1, <2>2
<1> QED
  BY <1>2, <1>3, <1>4, <1>6, <1>7 DEF SessionInv

(* Steps of a request that is past its guard. *)
LEMMA OrdinarySteps ==
    ASSUME SessionInv, NEW r \in Requests, request[r].pc \notin LoginPcs \cup {"store"},
           \/ Finish(r)
           \/ \E pc \in RequestPcs \ LoginPcs : Step(r, pc)
           \/ \E pc \in RequestPcs \ LoginPcs, gone \in SUBSET Sids :
                 request' = [request EXCEPT ![r].doomed = gone, ![r].pc = pc]
           \/ \E pc \in RequestPcs \ LoginPcs, t \in People \cup {Nobody} :
                 request' = [request EXCEPT ![r].target = t, ![r].pc = pc]
    PROVE  Ordinary(r)
<1>1. SessionTypeOK /\ request[r] \in RequestState /\ request[r].kind # "login"
  BY DEF SessionInv, SessionTypeOK, LocalOK
<1>2. CASE Finish(r)
  BY <1>1, <1>2, FinishType DEF Ordinary
<1>3. CASE \E pc \in RequestPcs \ LoginPcs : Step(r, pc)
  BY <1>1, <1>3, StepType DEF Ordinary
<1>4. CASE \E pc \in RequestPcs \ LoginPcs, gone \in SUBSET Sids :
              request' = [request EXCEPT ![r].doomed = gone, ![r].pc = pc]
  <2>1. PICK pc \in RequestPcs \ LoginPcs, gone \in SUBSET Sids :
                request' = [request EXCEPT ![r].doomed = gone, ![r].pc = pc]
    BY <1>4
  <2>2. request' \in [Requests -> RequestState]
    BY <1>1, <2>1 DEF SessionTypeOK, RequestState
  <2> QED
    BY <1>1, <2>1, <2>2 DEF Ordinary, SessionTypeOK, RequestState
<1>5. CASE \E pc \in RequestPcs \ LoginPcs, t \in People \cup {Nobody} :
              request' = [request EXCEPT ![r].target = t, ![r].pc = pc]
  <2>1. PICK pc \in RequestPcs \ LoginPcs, t \in People \cup {Nobody} :
                request' = [request EXCEPT ![r].target = t, ![r].pc = pc]
    BY <1>5
  <2>2. request' \in [Requests -> RequestState]
    BY <1>1, <2>1 DEF SessionTypeOK, RequestState
  <2> QED
    BY <1>1, <2>1, <2>2 DEF Ordinary, SessionTypeOK, RequestState
<1> QED
  BY <1>2, <1>3, <1>4, <1>5

(* Deleting sessions, users as they are, keeps the invariant.                *)
LEMMA OrdinaryKeepsUsers ==
    ASSUME SessionInv, NEW r \in Requests, Ordinary(r), (\E gone : DeleteSessions(gone)) \/ KeepSessions,
           KeepSettings, UNCHANGED <<user, unenforced>>
    PROVE  SessionInv'
  BY OrdinaryKeeps DEF SessionInv, SessionTypeOK, KeepSettings

(* A login whose provider was switched off ends.                             *)
LEMMA ResolveKeeps ==
    ASSUME SessionInv, NEW r \in Requests, Resolve(r), ~provider
    PROVE  SessionInv'
<1>1. Ordinary(r)
  BY FinishType DEF Resolve, Ordinary, SessionInv
<1> QED
  BY <1>1, OrdinaryKeepsUsers DEF Resolve

(* The guard lets the request go on, or ends it.                             *)
LEMMA GuardKeeps ==
    ASSUME SessionInv, NEW r \in Requests, Guard(r)
    PROVE  SessionInv'
<1>1. \E pc \in RequestPcs \ LoginPcs : Step(r, pc)
  BY DEF Guard, AfterGuard, RequestPcs, LoginPcs
<1>2. Ordinary(r)
  BY <1>1, OrdinarySteps DEF Guard, Awaits, LoginPcs
<1> QED
  BY <1>2, OrdinaryKeepsUsers DEF Guard

(* A logout deletes the session of its request.                              *)
LEMMA DestroyKeeps ==
    ASSUME SessionInv, NEW r \in Requests, Destroy(r)
    PROVE  SessionInv'
<1>1. Ordinary(r)
  BY OrdinarySteps DEF Destroy, Awaits, LoginPcs
<1> QED
  BY <1>1, OrdinaryKeepsUsers DEF Destroy

(* Revoking deletes sessions.                                                *)
LEMMA RevokeKeeps ==
    ASSUME SessionInv, NEW r \in Requests, RevokeFind(r) \/ RevokeDelete(r) \/ RevokeAll(r)
    PROVE  SessionInv'
<1>1. CASE RevokeFind(r)
  <2>1. \/ \E pc \in RequestPcs \ LoginPcs : Step(r, pc)
        \/ \E pc \in RequestPcs \ LoginPcs, gone \in SUBSET Sids :
              request' = [request EXCEPT ![r].doomed = gone, ![r].pc = pc]
    BY <1>1 DEF RevokeFind, RequestPcs, LoginPcs
  <2>2. Ordinary(r)
    BY <1>1, <2>1, OrdinarySteps DEF RevokeFind, Acts, Awaits, LoginPcs
  <2> QED
    BY <1>1, <2>2, OrdinaryKeepsUsers DEF RevokeFind
<1>2. CASE RevokeDelete(r)
  <2>1. \E pc \in RequestPcs \ LoginPcs, gone \in SUBSET Sids :
           request' = [request EXCEPT ![r].doomed = gone, ![r].pc = pc]
    BY <1>2 DEF RevokeDelete, RequestPcs, LoginPcs
  <2>2. Ordinary(r)
    BY <1>2, <2>1, OrdinarySteps DEF RevokeDelete, Awaits, LoginPcs
  <2> QED
    BY <1>2, <2>2, OrdinaryKeepsUsers DEF RevokeDelete
<1>3. CASE RevokeAll(r)
  <2>1. \E pc \in RequestPcs \ LoginPcs : Step(r, pc)
    BY <1>3 DEF RevokeAll, RequestPcs, LoginPcs
  <2>2. Ordinary(r)
    BY <1>3, <2>1, OrdinarySteps DEF RevokeAll, Acts, Awaits, LoginPcs
  <2> QED
    BY <1>3, <2>2, OrdinaryKeepsUsers DEF RevokeAll
<1> QED
  BY <1>1, <1>2, <1>3

(* A removed user loses the sessions with the row, or before it.             *)
LEMMA RemoveUserKeeps ==
    ASSUME SessionInv, NEW r \in Requests, NEW t \in People, NEW hard \in BOOLEAN, RemoveUser(r, t, hard)
    PROVE  SessionInv'
<1>1. /\ request[r].pc = "act" /\ KeepSettings /\ UNCHANGED unenforced
      /\ "end" \in RequestPcs \ LoginPcs /\ "dropSessions" \in RequestPcs \ LoginPcs
  BY DEF RemoveUser, Acts, Awaits, RequestPcs, LoginPcs
<1>2. CASE UNCHANGED user /\ KeepSessions
  <2>1. \/ \E pc \in RequestPcs \ LoginPcs : Step(r, pc)
        \/ \E pc \in RequestPcs \ LoginPcs, u \in People \cup {Nobody} :
              request' = [request EXCEPT ![r].target = u, ![r].pc = pc]
    BY <1>1 DEF RemoveUser
  <2>2. Ordinary(r)
    BY <1>1, <2>1, OrdinarySteps DEF LoginPcs
  <2> QED
    BY <1>1, <1>2, <2>2, OrdinaryKeepsUsers
<1>3. CASE /\ user' = [user EXCEPT ![t] = [status |-> "absent", admin |-> FALSE]]
           /\ DeleteSessions(SessionsOf(t))
           /\ Step(r, "end")
  <2>1. Ordinary(r)
    BY <1>1, <1>3, OrdinarySteps DEF LoginPcs
  <2>2. user' \in [People -> [status : UserStatuses, admin : BOOLEAN]]
    BY <1>3 DEF SessionInv, SessionTypeOK, UserStatuses
  <2>3. ASSUME NEW u \in People, user'[u].status = "absent", user[u].status # "absent"
        PROVE  \A s \in Sids : session'[s].user # u
    <3>1. u = t
      BY <1>3, <2>3 DEF SessionInv, SessionTypeOK
    <3> QED
      BY <1>3, <3>1, SessionConstants DEF DeleteSessions, SessionsOf, NoSession
  <2> QED
    BY <1>1, <1>3, <2>1, <2>2, <2>3, OrdinaryKeeps DEF SessionInv, SessionTypeOK, KeepSettings
<1> QED
  BY <1>2, <1>3 DEF RemoveUser

(* The row of a user changes, and the user is not gone for that. *)
LEMMA UserWrittenKeeps ==
    ASSUME SessionInv, NEW r \in Requests, Ordinary(r), KeepSessions, KeepSettings, UNCHANGED unenforced,
           \/ UNCHANGED user
           \/ \E t : \E status \in UserStatuses \ {"absent"} : user' = [user EXCEPT ![t].status = status]
           \/ \E t : \E admin \in BOOLEAN : user' = [user EXCEPT ![t].admin = admin]
    PROVE  SessionInv'
<1>1. user \in [People -> [status : UserStatuses, admin : BOOLEAN]]
  BY DEF SessionInv, SessionTypeOK
<1>2. /\ user' \in [People -> [status : UserStatuses, admin : BOOLEAN]]
      /\ \A u \in People : user'[u].status = "absent" => user[u].status = "absent"
  BY <1>1
<1> QED
  BY <1>2, OrdinaryKeeps DEF SessionInv, SessionTypeOK, KeepSettings

(* A user removed softly loses the sessions first.                           *)
LEMMA RemoveSoftlyKeeps ==
    ASSUME SessionInv, NEW r \in Requests, RemoveSessions(r) \/ SoftDelete(r)
    PROVE  SessionInv'
<1>1. CASE RemoveSessions(r)
  <2>1. \E pc \in RequestPcs \ LoginPcs : Step(r, pc)
    BY <1>1 DEF RemoveSessions, RequestPcs, LoginPcs
  <2>2. Ordinary(r)
    BY <1>1, <2>1, OrdinarySteps DEF RemoveSessions, Awaits, LoginPcs
  <2> QED
    BY <1>1, <2>2, OrdinaryKeepsUsers DEF RemoveSessions
<1>2. CASE SoftDelete(r)
  <2>1. \E pc \in RequestPcs \ LoginPcs, t \in People \cup {Nobody} :
           request' = [request EXCEPT ![r].target = t, ![r].pc = pc]
    BY <1>2 DEF SoftDelete, RequestPcs, LoginPcs
  <2>2. Ordinary(r)
    BY <1>2, <2>1, OrdinarySteps DEF SoftDelete, Awaits, LoginPcs
  <2>3. \/ UNCHANGED user
        \/ \E t : \E status \in UserStatuses \ {"absent"} : user' = [user EXCEPT ![t].status = status]
    BY <1>2 DEF SoftDelete, UserStatuses
  <2> QED
    BY <1>2, <2>2, <2>3, UserWrittenKeeps DEF SoftDelete
<1> QED
  BY <1>1, <1>2

(* Enabling or disabling a user takes no row away.                           *)
LEMMA SetEnabledKeeps ==
    ASSUME SessionInv, NEW r \in Requests, NEW t \in People, NEW enabled \in BOOLEAN, SetEnabled(r, t, enabled)
    PROVE  SessionInv'
<1>1. \E pc \in RequestPcs \ LoginPcs : Step(r, pc)
  BY DEF SetEnabled, RequestPcs, LoginPcs
<1>2. Ordinary(r)
  BY <1>1, OrdinarySteps DEF SetEnabled, Acts, Awaits, LoginPcs
<1>3. \/ UNCHANGED user
      \/ \E x : \E status \in UserStatuses \ {"absent"} : user' = [user EXCEPT ![x].status = status]
  BY DEF SetEnabled, UserStatuses
<1> QED
  BY <1>2, <1>3, UserWrittenKeeps DEF SetEnabled

(* Granting or revoking the role takes no row away.                          *)
LEMMA SetAdminKeeps ==
    ASSUME SessionInv, NEW r \in Requests, NEW t \in People, NEW admin \in BOOLEAN, SetAdmin(r, t, admin)
    PROVE  SessionInv'
<1>1. \/ \E pc \in RequestPcs \ LoginPcs : Step(r, pc)
      \/ \E pc \in RequestPcs \ LoginPcs, x \in People \cup {Nobody} :
            request' = [request EXCEPT ![r].target = x, ![r].pc = pc]
  BY DEF SetAdmin, RequestPcs, LoginPcs
<1>2. Ordinary(r)
  BY <1>1, OrdinarySteps DEF SetAdmin, Acts, Awaits, LoginPcs
<1>3. \/ UNCHANGED user
      \/ \E x : \E flag \in BOOLEAN : user' = [user EXCEPT ![x].admin = flag]
  BY DEF SetAdmin
<1> QED
  BY <1>2, <1>3, UserWrittenKeeps DEF SetAdmin

(* The second half of granting takes no row away.                            *)
LEMMA GrantKeeps ==
    ASSUME SessionInv, NEW r \in Requests, Grant(r)
    PROVE  SessionInv'
<1>1. \E pc \in RequestPcs \ LoginPcs, x \in People \cup {Nobody} :
         request' = [request EXCEPT ![r].target = x, ![r].pc = pc]
  BY DEF Grant, RequestPcs, LoginPcs
<1>2. Ordinary(r)
  BY <1>1, OrdinarySteps DEF Grant, Awaits, LoginPcs
<1>3. \/ UNCHANGED user
      \/ \E x : \E flag \in BOOLEAN : user' = [user EXCEPT ![x].admin = flag]
  BY DEF Grant
<1> QED
  BY <1>2, <1>3, UserWrittenKeeps DEF Grant

(* The bound goes by the highest limit there was: a lower one changes        *)
(* nothing.                                                                  *)
LEMMA SetLimitKeeps ==
    ASSUME SessionInv, NEW r \in Requests, NEW n \in 0..MaxLimit, SetLimit(r, n)
    PROVE  SessionInv'
<1>1. \E pc \in RequestPcs \ LoginPcs : Step(r, pc)
  BY DEF SetLimit, RequestPcs, LoginPcs
<1>2. Ordinary(r)
  BY <1>1, OrdinarySteps DEF SetLimit, Acts, Awaits, LoginPcs
<1>3. /\ limit' \in 1..MaxLimit /\ most' \in 1..MaxLimit /\ limit' <= most' /\ most <= most'
      /\ provider' \in BOOLEAN
  BY SessionConstants DEF SetLimit, ValidLimit, SessionInv, SessionTypeOK
<1> QED
  BY <1>2, <1>3, OrdinaryKeeps DEF SetLimit, SessionInv, SessionTypeOK

(* Switching a provider off deletes sessions.                                *)
LEMMA ProviderKeeps ==
    ASSUME SessionInv, NEW r \in Requests, DropProviderSessions(r) \/ \E on \in BOOLEAN : SetProvider(r, on)
    PROVE  SessionInv'
<1>1. CASE DropProviderSessions(r)
  <2>1. \E pc \in RequestPcs \ LoginPcs : Step(r, pc)
    BY <1>1 DEF DropProviderSessions, RequestPcs, LoginPcs
  <2>2. Ordinary(r)
    BY <1>1, <2>1, OrdinarySteps DEF DropProviderSessions, Awaits, LoginPcs
  <2> QED
    BY <1>1, <2>2, OrdinaryKeepsUsers DEF DropProviderSessions
<1>2. CASE \E on \in BOOLEAN : SetProvider(r, on)
  <2>1. \E pc \in RequestPcs \ LoginPcs : Step(r, pc)
    BY <1>2 DEF SetProvider, RequestPcs, LoginPcs
  <2>2. Ordinary(r)
    BY <1>2, <2>1, OrdinarySteps DEF SetProvider, Acts, Awaits, LoginPcs
  <2> QED
    BY <1>2, <2>2, OrdinaryKeeps DEF SetProvider, SessionInv, SessionTypeOK
<1> QED
  BY <1>1, <1>2

-----------------------------------------------------------------------------
(* Requests that begin, and time *)

(* Initially an administrator has one session at most.                       *)
LEMMA InitHolds == SessionInit => SessionInv
<1> SUFFICES ASSUME SessionInit PROVE SessionInv
  OBVIOUS
<1>1. PICK sidOf \in [Admins -> Sids] :
         session = [s \in Sids |-> IF \E a \in Admins : sidOf[a] = s
                                   THEN [NoSession EXCEPT !.user = CHOOSE a \in Admins : sidOf[a] = s,
                                                          !.admin = TRUE]
                                   ELSE NoSession]
  BY DEF SessionInit
<1>2. ASSUME NEW s \in Sids, session[s].user # Nobody
      PROVE  session[s].user \in Admins /\ sidOf[session[s].user] = s
  <2>1. \E a \in Admins : sidOf[a] = s
    BY <1>1, <1>2 DEF NoSession
  <2> DEFINE a == CHOOSE b \in Admins : sidOf[b] = s
  <2>2. a \in Admins /\ sidOf[a] = s
    BY <2>1
  <2>3. session[s].user = a
    BY <1>1, <2>1 DEF NoSession
  <2> QED
    BY <2>2, <2>3
<1>3. SessionTypeOK
  <2>1. session \in [Sids -> Session]
    <3>1. ASSUME NEW s \in Sids PROVE session[s] \in Session
      <4>1. CASE \E a \in Admins : sidOf[a] = s
        <5> DEFINE b == CHOOSE a \in Admins : sidOf[a] = s
        <5>1. b \in People
          BY <4>1, SessionConstants
        <5>2. session[s] = [NoSession EXCEPT !.user = b, !.admin = TRUE]
          BY <1>1, <4>1
        <5> HIDE DEF b
        <5> QED
          BY <5>1, <5>2 DEF NoSession, Session
      <4>2. CASE ~\E a \in Admins : sidOf[a] = s
        BY <1>1, <4>2, QuietType
      <4> QED
        BY <4>1, <4>2
    <3> QED
      BY <1>1, <3>1
  <2>2. user \in [People -> [status : UserStatuses, admin : BOOLEAN]]
    <3>1. ASSUME NEW u \in People PROVE user[u] \in [status : UserStatuses, admin : BOOLEAN]
      <4> DEFINE flag == u \in Admins
      <4>1. flag \in BOOLEAN
        OBVIOUS
      <4>2. user[u] = [status |-> "active", admin |-> flag]
        BY Zenon DEF SessionInit
      <4> HIDE DEF flag
      <4> QED
        BY <4>1, <4>2 DEF UserStatuses
    <3> QED
      BY <3>1 DEF SessionInit
  <2> QED
    BY <2>1, <2>2, QuietType DEF SessionInit, SessionTypeOK
<1>4. Order
  BY <1>2, ZenonT(60) DEF SessionInit, Order, Stored
<1>5. \A r \in Requests : LocalOK(r)
  BY DEF SessionInit, LocalOK, Quiet, LoginPcs
<1>6. SessionsHaveUsers
  BY <1>2, SessionConstants DEF SessionInit, SessionsHaveUsers, Stored
<1>7. ASSUME NEW u \in People, NEW Q \in SUBSET Evicting(u)
      PROVE  Cardinality(Held(u) \ Doomed(Q)) + Cardinality(SigningIn(u)) + Cardinality(Q)
                < most + Cardinality(Requests)
  <2>1. SigningIn(u) = {} /\ Q = {}
    BY DEF SessionInit, SigningIn, Evicting, Quiet
  <2>2. Cardinality(SigningIn(u)) = 0 /\ Cardinality(Q) = 0
    BY <2>1, FS_EmptySet
  <2>3. \A s, t \in Held(u) : s = t
    BY <1>2, SessionConstants DEF Held
  <2>4. \E x : Held(u) \ Doomed(Q) \subseteq {x}
    BY <2>3
  <2> HIDE DEF Held, Doomed
  <2>5. \A x : IsFiniteSet({x}) /\ Cardinality({x}) = 1
    BY FS_Singleton
  <2>6. Cardinality(Held(u) \ Doomed(Q)) \in Nat /\ Cardinality(Held(u) \ Doomed(Q)) <= 1
    BY <2>4, <2>5, SubsetSize, ZenonT(60)
  <2>7. most \in Nat /\ most >= 1 /\ Cardinality(Requests) \in Nat /\ Cardinality(Requests) >= 1
    BY <1>3, SizesFinite, SessionConstants DEF SessionTypeOK
  <2> QED
    BY <2>2, <2>6, <2>7
<1>8. limit <= most
  <2>1. most = limit
    BY DEF SessionInit
  <2> QED
    BY <1>3, <2>1 DEF SessionTypeOK
<1>9. Room
  BY <1>7 DEF Room
<1> QED
  BY <1>3, <1>4, <1>5, <1>6, <1>8, <1>9 DEF SessionInv

(* A step of request r that leaves the store, the settings and the users.    *)
LEMMA RequestKeeps ==
    ASSUME SessionInv, NEW r \in Requests, KeepSessions, KeepSettings, UNCHANGED user,
           unenforced' \in BOOLEAN,
           request' \in [Requests -> RequestState],
           \A q \in Requests \ {r} : request'[q] = request[q],
           LocalOK(r)', Room'
    PROVE  SessionInv'
<1>1. SessionTypeOK'
  BY DEF SessionInv, SessionTypeOK, KeepSessions, KeepSettings
<1>2. Order'
  BY Thinned DEF SessionInv
<1>3. \A q \in Requests : LocalOK(q)'
  BY DEF SessionInv, LocalOK
<1>4. SessionsHaveUsers'
  BY DEF SessionInv, SessionsHaveUsers, KeepSessions, Stored
<1>5. limit' <= most'
  BY DEF SessionInv, KeepSettings
<1> QED
  BY <1>1, <1>2, <1>3, <1>4, <1>5 DEF SessionInv

(* A login starts; it counts against the limit from here on.                 *)
LEMMA AuthorizeKeeps ==
    ASSUME SessionInv, NEW r \in Requests, NEW u \in People, NEW old \in Sids \cup {Nobody}, Authorize(r, u, old)
    PROVE  SessionInv'
<1> DEFINE begun == [Quiet EXCEPT !.pc = "resolve", !.kind = "login", !.sid = old, !.user = u,
                                  !.admin = user[u].admin]
<1>1. SessionTypeOK /\ Room /\ request \in [Requests -> RequestState]
  BY DEF SessionInv, SessionTypeOK
<1>2. begun \in RequestState /\ begun.kind = "login" /\ begun.pc = "resolve" /\ begun.found = FALSE
  BY <1>1 DEF Quiet, RequestState, RequestPcs, AllKinds, SessionTypeOK
<1>3. request' = [request EXCEPT ![r] = begun]
  BY DEF Authorize
<1> HIDE DEF begun
<1>4. /\ request' \in [Requests -> RequestState] /\ request'[r] = begun
      /\ \A q \in Requests \ {r} : request'[q] = request[q]
  BY <1>1, <1>2, <1>3
<1>5. LocalOK(r)'
  BY <1>2, <1>4 DEF LocalOK, LoginPcs
<1>6. SessionTypeOK' /\ KeepSessions /\ KeepSettings /\ UNCHANGED <<user, unenforced>>
  BY <1>1, <1>4 DEF Authorize, SessionTypeOK, KeepSessions, KeepSettings
<1>7. Room'
  <2>1. \A q \in Requests : request'[q].kind # "login" \/ request'[q].pc \in {"evict", "regenerate", "store"}
                               => request'[q] = request[q]
    BY <1>2, <1>4
  <2>2. \A v \in People : /\ Held(v)' \subseteq Held(v)
                          /\ SigningIn(v)' \subseteq SigningIn(v)
                          /\ Evicting(v)' \subseteq Evicting(v)
                          /\ \A q \in Evicting(v)' : request'[q].doomed = request[q].doomed
    BY <1>6, <2>1 DEF Held, SigningIn, Evicting, KeepSessions
  <2> QED
    BY <1>1, <1>6, <2>2, RoomKept DEF KeepSettings, SessionTypeOK
<1> QED
  BY <1>4, <1>5, <1>6, <1>7, RequestKeeps DEF SessionTypeOK

(* A login whose provider is on goes on to make room.                        *)
LEMMA ResolvedKeeps ==
    ASSUME SessionInv, NEW r \in Requests, Resolve(r), provider
    PROVE  SessionInv'
<1>1. SessionTypeOK /\ Room /\ LocalOK(r) /\ request[r].pc = "resolve"
  BY DEF SessionInv, Resolve, Awaits
<1>2. Step(r, "enforce") /\ "enforce" \in RequestPcs
  BY DEF Resolve, RequestPcs
<1>3. /\ request' \in [Requests -> RequestState]
      /\ \A q \in Requests \ {r} : request'[q] = request[q]
      /\ request'[r].pc = "enforce" /\ request'[r].kind = request[r].kind
      /\ request'[r].sid = request[r].sid /\ request'[r].found = request[r].found
  BY <1>1, <1>2, StepType
<1>4. LocalOK(r)'
  BY <1>1, <1>3 DEF LocalOK, LoginPcs
<1>5. SessionTypeOK' /\ KeepSessions /\ KeepSettings /\ UNCHANGED <<user, unenforced>>
  BY <1>1, <1>3 DEF Resolve, SessionTypeOK, KeepSessions, KeepSettings
<1>6. Room'
  <2>1. \A q \in Requests : request'[q].pc \in {"evict", "regenerate", "store"} => request'[q] = request[q]
    BY <1>3
  <2>2. \A v \in People : /\ Held(v)' \subseteq Held(v)
                          /\ SigningIn(v)' \subseteq SigningIn(v)
                          /\ Evicting(v)' \subseteq Evicting(v)
                          /\ \A q \in Evicting(v)' : request'[q].doomed = request[q].doomed
    BY <1>3, <1>5, <2>1 DEF Held, SigningIn, Evicting, KeepSessions
  <2> QED
    BY <1>1, <1>5, <2>2, RoomKept DEF KeepSettings, SessionTypeOK
<1> QED
  BY <1>3, <1>4, <1>5, <1>6, RequestKeeps DEF SessionTypeOK

(* From here on the session counts even once it expires: the request may     *)
(* revive it.                                                                *)
LEMMA ArriveKeeps ==
    ASSUME SessionInv, NEW r \in Requests, NEW s \in Sids, NEW kind \in AllKinds, Arrive(r, s, kind)
    PROVE  SessionInv'
<1> DEFINE begun == [Quiet EXCEPT !.pc = "guard", !.kind = kind, !.sid = s, !.user = session[s].user,
                                  !.admin = session[s].admin]
<1>1. SessionTypeOK /\ Room /\ request \in [Requests -> RequestState] /\ session[s] \in Session
  BY DEF SessionInv, SessionTypeOK
<1>2. begun \in RequestState /\ begun.kind # "login" /\ begun.pc = "guard" /\ begun.sid = s
  BY <1>1 DEF Arrive, Quiet, RequestState, RequestPcs, Session
<1>3. request' = [request EXCEPT ![r] = begun]
  BY DEF Arrive
<1> HIDE DEF begun
<1>4. /\ request' \in [Requests -> RequestState] /\ request'[r] = begun
      /\ \A q \in Requests \ {r} : request'[q] = request[q]
  BY <1>1, <1>2, <1>3
<1>5. LocalOK(r)'
  BY <1>2, <1>4 DEF LocalOK, LoginPcs
<1>6. SessionTypeOK' /\ KeepSessions /\ KeepSettings /\ UNCHANGED <<user, unenforced>> /\ ~session[s].expired
  BY <1>1, <1>4 DEF Arrive, SessionTypeOK, KeepSessions, KeepSettings
<1>7. Room'
  <2>1. \A q \in Requests : \/ request'[q] = request[q]
                            \/ request'[q].kind # "login" /\ request'[q].sid = s
    BY <1>2, <1>4
  <2>2. \A v \in People : /\ Held(v)' \subseteq Held(v)
                          /\ SigningIn(v)' \subseteq SigningIn(v)
                          /\ Evicting(v)' \subseteq Evicting(v)
                          /\ \A q \in Evicting(v)' : request'[q].doomed = request[q].doomed
    BY <1>6, <2>1 DEF Held, SigningIn, Evicting, KeepSessions
  <2> QED
    BY <1>1, <1>6, <2>2, RoomKept DEF KeepSettings, SessionTypeOK
<1> QED
  BY <1>4, <1>5, <1>6, <1>7, RequestKeeps DEF SessionTypeOK

(* Sessions expire, and expired ones are purged.                             *)
LEMMA TimeKeeps ==
    ASSUME SessionInv, PurgeExpired \/ \E s \in Sids : Expire(s)
    PROVE  SessionInv'
<1>1. SessionTypeOK /\ Order /\ Room /\ SessionsHaveUsers /\ KeepSettings /\ UNCHANGED <<user, request, unenforced>>
  BY DEF SessionInv, PurgeExpired, Expire
<1>2. /\ session' \in [Sids -> Session] /\ older' \in [Sids -> SUBSET Sids] /\ Order'
      /\ \A s \in Sids : \/ session'[s] = session[s] \/ session'[s] = NoSession
                         \/ session'[s].user = session[s].user /\ session'[s].expired /\ ~session[s].expired
  <2>1. CASE PurgeExpired
    BY <1>1, <2>1, Thinned DEF PurgeExpired
  <2>2. CASE \E s \in Sids : Expire(s)
    <3>1. PICK s \in Sids : Expire(s)
      BY <2>2
    <3>2. /\ session' \in [Sids -> Session] /\ UNCHANGED older
          /\ \A x \in Sids : session'[x].user = session[x].user
          /\ \A x \in Sids : session'[x] = session[x] \/ (session'[x].expired /\ ~session[x].expired)
      <4> DEFINE expired == [session[s] EXCEPT !.expired = TRUE]
      <4>1. session \in [Sids -> Session] /\ session[s] \in Session /\ UNCHANGED older /\ ~session[s].expired
            /\ session' = [session EXCEPT ![s] = expired]
        BY <1>1, <3>1 DEF Expire, SessionTypeOK
      <4>2. expired \in Session /\ expired.user = session[s].user /\ expired.expired
        BY <4>1 DEF Session
      <4> HIDE DEF expired
      <4>3. session' \in [Sids -> Session] /\ \A x \in Sids : session'[x] = IF x = s THEN expired ELSE session[x]
        BY <4>1, <4>2
      <4> QED
        BY <4>1, <4>2, <4>3
    <3>3. Order'
      BY <1>1, <3>2 DEF Order, Stored, SessionTypeOK
    <3> QED
      BY <1>1, <3>2, <3>3 DEF SessionTypeOK
  <2> QED
    BY <2>1, <2>2
<1>3. SessionTypeOK' /\ limit' <= most'
  BY <1>1, <1>2 DEF SessionTypeOK, KeepSettings, SessionInv
<1>4. \A r \in Requests : LocalOK(r)'
  BY <1>1 DEF SessionInv, LocalOK
<1>5. SessionsHaveUsers'
  BY <1>1, <1>2 DEF SessionsHaveUsers, Stored, NoSession
<1>6. Room'
  <2>1. \A u \in People : /\ Held(u)' \subseteq Held(u)
                          /\ SigningIn(u)' \subseteq SigningIn(u)
                          /\ Evicting(u)' \subseteq Evicting(u)
                          /\ \A q \in Evicting(u)' : request'[q].doomed = request[q].doomed
    BY <1>1, <1>2, SessionConstants DEF Held, SigningIn, Evicting, NoSession
  <2> QED
    BY <1>1, <1>3, <2>1, RoomKept DEF KeepSettings, SessionTypeOK
<1> QED
  BY <1>2, <1>3, <1>4, <1>5, <1>6 DEF SessionInv

-----------------------------------------------------------------------------
(* A login makes room *)

(* A step of the login r, which evicts before or after it: the other users   *)
(* have no more than before.                                                 *)
LEMMA OthersKept ==
    ASSUME SessionTypeOK, SessionTypeOK', Room, ~unenforced, most <= most', NEW r \in Requests,
           \A q \in Requests \ {r} : request'[q] = request[q],
           request'[r].kind = "login", request'[r].user = request[r].user,
           NEW u \in People, u # request[r].user,
           \A s \in Sids : session'[s].user = u => session[s] = session'[s],
           NEW Q \in SUBSET Evicting(u)'
    PROVE  (Cardinality(Held(u) \ Doomed(Q)) + Cardinality(SigningIn(u)) + Cardinality(Q)
               < most + Cardinality(Requests))'
<1>1. r \notin Q /\ Q \in SUBSET Evicting(u) /\ SigningIn(u)' \subseteq SigningIn(u)
  BY DEF Evicting, SigningIn
<1>2. Doomed(Q)' = Doomed(Q)
  BY <1>1 DEF Doomed, Evicting
<1>3. Held(u)' \subseteq Held(u)
  BY DEF Held
<1>4. (Held(u) \ Doomed(Q))' \subseteq Held(u) \ Doomed(Q)
  BY <1>2, <1>3
<1> QED
  BY <1>1, <1>4, BoundThinned

(* The login lists the oldest sessions beyond the limit, to delete them.     *)
LEMMA EnforceKeeps ==
    ASSUME SessionInv, NEW r \in Requests, Enforce(r)
    PROVE  SessionInv'
<1> DEFINE w == request[r].user
           evicted == Evicted(ActiveSessions(w))
           pc == IF evicted = {} THEN "regenerate" ELSE "evict"
<1>1. /\ SessionTypeOK /\ Order /\ Room /\ LocalOK(r) /\ request[r] \in RequestState /\ request[r].pc = "enforce"
      /\ request[r].kind = "login" /\ ~request[r].found /\ limit <= most
  BY DEF SessionInv, SessionTypeOK, LocalOK, LoginPcs, Enforce, Awaits
<1>2. KeepSessions /\ KeepSettings /\ UNCHANGED user
  BY DEF Enforce
<1>3. evicted \subseteq Sids
  BY DEF Evicted, ActiveSessions
<1>4. CASE Step(r, "regenerate") /\ unenforced' = TRUE
  <2>1. /\ request' \in [Requests -> RequestState]
        /\ \A q \in Requests \ {r} : request'[q] = request[q]
        /\ request'[r].pc = "regenerate" /\ request'[r].kind = "login" /\ ~request'[r].found
    BY <1>1, <1>4, StepType DEF RequestPcs
  <2>2. LocalOK(r)' /\ Room'
    BY <1>4, <2>1 DEF LocalOK, LoginPcs, Room
  <2>3. unenforced' \in BOOLEAN
    BY <1>4
  <2> QED
    BY <1>2, <2>1, <2>2, <2>3, RequestKeeps
<1>5. ASSUME UNCHANGED unenforced,
             request' = [request EXCEPT ![r].doomed = evicted, ![r].pc = pc]
      PROVE  SessionInv'
  <2>1. pc \in RequestPcs /\ pc \in {"regenerate", "evict"}
    BY DEF RequestPcs
  <2> HIDE DEF evicted, pc
  <2>2. /\ request' \in [Requests -> RequestState]
        /\ \A q \in Requests \ {r} : request'[q] = request[q]
        /\ request'[r].pc = pc /\ request'[r].kind = "login" /\ ~request'[r].found
        /\ request'[r].user = w /\ request'[r].doomed = evicted
    <3>1. request'[r] = [request[r] EXCEPT !.doomed = evicted, !.pc = pc]
      BY <1>5, <1>1 DEF SessionTypeOK
    <3>2. request'[r] \in RequestState /\ request'[r].pc = pc /\ request'[r].kind = "login" /\ ~request'[r].found
          /\ request'[r].user = w /\ request'[r].doomed = evicted
      BY <1>1, <1>3, <2>1, <3>1 DEF RequestState
    <3>3. \A q \in Requests \ {r} : request'[q] = request[q]
      BY <1>5, <1>1 DEF SessionTypeOK
    <3>4. DOMAIN request' = Requests /\ request' = [q \in Requests |-> request'[q]]
      BY <1>5, <1>1 DEF SessionTypeOK
    <3> QED
      BY <1>1, <3>2, <3>3, <3>4 DEF SessionTypeOK
  <2>3. LocalOK(r)' /\ unenforced' \in BOOLEAN
    BY <1>1, <1>5, <2>1, <2>2 DEF LocalOK, LoginPcs, SessionTypeOK
  <2>4. SessionTypeOK' /\ (limit <= most)' /\ most <= most'
    BY <1>1, <1>2, <2>2, <2>3 DEF SessionTypeOK, KeepSessions, KeepSettings
  <2>5. Room'
    <3> SUFFICES ASSUME ~unenforced', NEW u \in People, NEW Q \in SUBSET Evicting(u)'
                 PROVE  (Cardinality(Held(u) \ Doomed(Q)) + Cardinality(SigningIn(u)) + Cardinality(Q)
                            < most + Cardinality(Requests))'
      BY DEF Room
    <3>1. ~unenforced
      BY <1>5
    <3>2. CASE u # w
      <4>1. \A s \in Sids : session[s] = session'[s]
        BY <1>2 DEF KeepSessions
      <4> QED
        BY <1>1, <2>2, <2>4, <3>1, <3>2, <4>1, OthersKept
    <3>3. CASE u = w /\ evicted \subseteq Doomed(Q)'
      <4>1. ActiveSessions(u)' = ActiveSessions(u)
        BY <1>2 DEF ActiveSessions, KeepSessions
      <4>2. (ActiveSessions(u) \ Doomed(Q))' \subseteq ActiveSessions(u) \ Evicted(ActiveSessions(u))
        BY <3>3, <4>1 DEF evicted
      <4>3. Cardinality(ActiveSessions(u) \ Evicted(ActiveSessions(u))) <= limit - 1
        BY <1>1, EvictionMakesRoom
      <4>4. IsFiniteSet(ActiveSessions(u) \ Evicted(ActiveSessions(u)))
        <5>1. ActiveSessions(u) \ Evicted(ActiveSessions(u)) \subseteq Sids
          BY DEF ActiveSessions
        <5> QED
          BY <5>1, SizesFinite
      <4>5. /\ Cardinality((ActiveSessions(u) \ Doomed(Q))') \in Nat
            /\ Cardinality((ActiveSessions(u) \ Doomed(Q))')
                  <= Cardinality(ActiveSessions(u) \ Evicted(ActiveSessions(u)))
            /\ Cardinality(ActiveSessions(u) \ Evicted(ActiveSessions(u))) \in Nat
        BY <4>2, <4>4, SubsetSize
      <4> DEFINE spared == Cardinality(ActiveSessions(u) \ Evicted(ActiveSessions(u)))
                 left == Cardinality((ActiveSessions(u) \ Doomed(Q))')
      <4>6. left \in Nat /\ spared \in Nat /\ left <= spared /\ spared <= limit - 1 /\ limit' = limit /\ limit \in Nat
        BY <1>1, <1>2, <4>3, <4>5 DEF KeepSettings, SessionTypeOK
      <4> HIDE DEF spared, left
      <4>7. left <= limit' - 1
        BY <4>6
      <4>8. (Cardinality(ActiveSessions(u) \ Doomed(Q)) <= limit - 1)'
        BY <4>7 DEF left
      <4> QED
        BY <2>4, <4>8, RoomMade
    <3>4. CASE u = w /\ ~(evicted \subseteq Doomed(Q)')
      <4>1. r \notin Q /\ pc = "evict"
        BY <2>2, <3>4 DEF Doomed, pc
      <4>2. Q \in SUBSET Evicting(u) /\ SigningIn(u)' \subseteq SigningIn(u)
        BY <2>2, <4>1 DEF Evicting, SigningIn
      <4>3. Doomed(Q)' = Doomed(Q) /\ Held(u)' \subseteq Held(u)
        BY <1>1, <1>2, <2>2, <4>1, <4>2 DEF Doomed, Held, KeepSessions, Evicting
      <4>4. (Held(u) \ Doomed(Q))' \subseteq Held(u) \ Doomed(Q)
        BY <4>3
      <4> QED
        BY <1>1, <2>4, <3>1, <4>2, <4>4, BoundThinned
    <3> QED
      BY <3>2, <3>3, <3>4
  <2> QED
    BY <1>2, <2>2, <2>3, <2>5, RequestKeeps
<1> QED
  BY <1>4, <1>5 DEF Enforce

(* A step of the login r that deletes sessions at most. *)
LEMMA LoginThins ==
    ASSUME SessionInv, NEW r \in Requests, (\E gone : DeleteSessions(gone)) \/ KeepSessions,
           KeepSettings, UNCHANGED user, unenforced' \in BOOLEAN, request' \in [Requests -> RequestState],
           \A q \in Requests \ {r} : request'[q] = request[q],
           LocalOK(r)'
    PROVE  /\ SessionTypeOK'
           /\ \A u \in People : \A s \in Sids : session'[s].user = u => session[s] = session'[s]
           /\ Room' => SessionInv'
<1>1. SessionTypeOK /\ Order /\ SessionsHaveUsers /\ limit <= most
  BY DEF SessionInv
<1>2. /\ session' \in [Sids -> Session] /\ older' \in [Sids -> SUBSET Sids] /\ Order'
      /\ \A s \in Sids : session'[s] = session[s] \/ session'[s] = NoSession
  BY <1>1, Thinned
<1>3. SessionTypeOK' /\ limit' <= most'
  BY <1>1, <1>2 DEF SessionTypeOK, KeepSettings
<1>4. \A u \in People : \A s \in Sids : session'[s].user = u => session[s] = session'[s]
  BY <1>2, SessionConstants DEF NoSession
<1>5. \A q \in Requests : LocalOK(q)'
  BY DEF SessionInv, LocalOK
<1>6. SessionsHaveUsers'
  BY <1>1, <1>2 DEF SessionsHaveUsers, Stored, NoSession
<1> QED
  BY <1>2, <1>3, <1>4, <1>5, <1>6 DEF SessionInv

(* The login deletes one session of its list.                                *)
LEMMA EvictKeeps ==
    ASSUME SessionInv, NEW r \in Requests, Evict(r)
    PROVE  SessionInv'
<1> DEFINE w == request[r].user
           doomed == request[r].doomed
<1>1. /\ SessionTypeOK /\ Room /\ request[r] \in RequestState /\ request[r].pc = "evict"
      /\ request[r].kind = "login" /\ ~request[r].found /\ doomed \subseteq Sids
  BY DEF SessionInv, SessionTypeOK, LocalOK, LoginPcs, Evict, Awaits, RequestState
<1>2. KeepSettings /\ UNCHANGED user
  BY DEF Evict
<1>3. ASSUME NEW d \in SUBSET Sids, NEW pc \in {"regenerate", "evict"},
             request' = [request EXCEPT ![r].doomed = d, ![r].pc = pc]
      PROVE  /\ request' \in [Requests -> RequestState]
             /\ \A q \in Requests \ {r} : request'[q] = request[q]
             /\ request'[r].pc = pc /\ request'[r].kind = "login" /\ ~request'[r].found
             /\ request'[r].user = w /\ request'[r].doomed = d
             /\ LocalOK(r)'
  <2>1. /\ request'[r] = [request[r] EXCEPT !.doomed = d, !.pc = pc]
        /\ \A q \in Requests \ {r} : request'[q] = request[q]
        /\ request' = [q \in Requests |-> request'[q]]
    BY <1>1, <1>3 DEF SessionTypeOK
  <2>2. /\ request'[r] \in RequestState /\ request'[r].pc = pc /\ request'[r].kind = "login" /\ ~request'[r].found
        /\ request'[r].user = w /\ request'[r].doomed = d
    BY <1>1, <2>1 DEF RequestState, RequestPcs
  <2>3. LocalOK(r)'
    BY <2>2 DEF LocalOK, LoginPcs
  <2> QED
    BY <1>1, <2>1, <2>2, <2>3 DEF SessionTypeOK
<1>4. CASE KeepSessions /\ unenforced' = TRUE /\ request' = [request EXCEPT ![r].doomed = {}, ![r].pc = "regenerate"]
  <2>1. Room' /\ unenforced' \in BOOLEAN
    BY <1>4 DEF Room
  <2> QED
    BY <1>2, <1>3, <1>4, <2>1, LoginThins
<1>5. ASSUME NEW s \in doomed, DeleteSessions({s}), UNCHANGED unenforced,
             request' = [request EXCEPT ![r].doomed = doomed \ {s},
                                        ![r].pc = IF doomed = {s} THEN "regenerate" ELSE "evict"]
      PROVE  SessionInv'
  <2> DEFINE pc == IF doomed = {s} THEN "regenerate" ELSE "evict"
  <2>1. pc \in {"regenerate", "evict"} /\ doomed \ {s} \in SUBSET Sids /\ unenforced' \in BOOLEAN
    BY <1>1, <1>5 DEF SessionTypeOK
  <2>2. /\ request' \in [Requests -> RequestState]
        /\ \A q \in Requests \ {r} : request'[q] = request[q]
        /\ request'[r].pc = pc /\ request'[r].kind = "login" /\ ~request'[r].found
        /\ request'[r].user = w /\ request'[r].doomed = doomed \ {s}
        /\ LocalOK(r)'
    BY <1>3, <1>5, <2>1
  <2>3. /\ SessionTypeOK'
        /\ \A u \in People : \A x \in Sids : session'[x].user = u => session[x] = session'[x]
        /\ Room' => SessionInv'
    BY <1>2, <1>5, <2>1, <2>2, LoginThins
  <2>4. s \in Sids /\ session'[s] = NoSession
    BY <1>1, <1>5 DEF DeleteSessions
  <2>5. most <= most'
    BY <1>1, <1>2 DEF KeepSettings, SessionTypeOK
  <2>6. Room'
    <3> SUFFICES ASSUME ~unenforced', NEW u \in People, NEW Q \in SUBSET Evicting(u)'
                 PROVE  (Cardinality(Held(u) \ Doomed(Q)) + Cardinality(SigningIn(u)) + Cardinality(Q)
                            < most + Cardinality(Requests))'
      BY DEF Room
    <3>1. ~unenforced
      BY <1>5
    <3>2. CASE u # w
      BY <1>1, <2>2, <2>3, <2>5, <3>1, <3>2, OthersKept
    <3>3. Held(u)' \subseteq Held(u) \ {s}
      BY <2>2, <2>3, <2>4, SessionConstants DEF Held, NoSession
    <3>4. u = w => r \in Evicting(u) /\ r \notin SigningIn(u)
      BY <1>1 DEF Evicting, SigningIn
    <3>5. \A q \in Requests \ {r} : /\ q \in SigningIn(u)' <=> q \in SigningIn(u)
                                    /\ q \in Evicting(u)' => q \in Evicting(u)
      BY <2>2 DEF Evicting, SigningIn
    <3>6. CASE u = w /\ doomed # {s}
      <4>1. Q \in SUBSET Evicting(u) /\ SigningIn(u)' \subseteq SigningIn(u)
        <5>1. r \notin SigningIn(u)' /\ SigningIn(u)' \subseteq Requests /\ Evicting(u)' \subseteq Requests
          BY <2>2, <3>6 DEF SigningIn, Evicting
        <5> HIDE DEF w, doomed
        <5> QED
          BY <3>4, <3>5, <3>6, <5>1
      <4>2. \A q \in Q : request[q].doomed \subseteq request'[q].doomed \cup {s}
        BY <2>2 DEF Evicting
      <4>3. Doomed(Q) \subseteq Doomed(Q)' \cup {s}
        BY <4>2 DEF Doomed
      <4>4. (Held(u) \ Doomed(Q))' \subseteq Held(u) \ Doomed(Q)
        BY <3>3, <4>3
      <4> QED
        BY <1>1, <2>3, <2>5, <3>1, <4>1, <4>4, BoundThinned
    <3>7. CASE u = w /\ doomed = {s}
      <4> DEFINE P == Q \cup {r}
      <4>1. r \notin Evicting(u)' /\ r \in SigningIn(u)' /\ SigningIn(u)' \subseteq Requests
            /\ SigningIn(u) \subseteq Requests /\ Evicting(u)' \subseteq Requests
        BY <2>2, <3>7 DEF Evicting, SigningIn
      <4>2. r \notin Q /\ P \in SUBSET Evicting(u) /\ SigningIn(u)' = SigningIn(u) \cup {r} /\ r \notin SigningIn(u)
        BY <3>4, <3>5, <3>7, <4>1
      <4>3. Q \in SUBSET Requests /\ P \in SUBSET Requests
        BY <4>1
      <4>4. Doomed(P) = Doomed(Q)' \cup {s}
        <5>1. \A q \in Q : request[q].doomed = request'[q].doomed
          BY <2>2, <4>2, <4>3
        <5> QED
          BY <3>7, <5>1 DEF Doomed
      <4>5. (Held(u) \ Doomed(Q))' \subseteq Held(u) \ Doomed(P)
        BY <3>3, <4>4
      <4>6. Cardinality((Held(u) \ Doomed(Q))') <= Cardinality(Held(u) \ Doomed(P))
        BY <4>3, <4>5, LoadIsNat, SubsetSize
      <4>7. Cardinality(P) = Cardinality(Q) + 1 /\ Cardinality(SigningIn(u)') = Cardinality(SigningIn(u)) + 1
        <5>1. IsFiniteSet(Q) /\ IsFiniteSet(SigningIn(u))
          BY <4>3, LoadIsNat
        <5>2. Cardinality(SigningIn(u) \cup {r}) = Cardinality(SigningIn(u)) + 1
          BY <4>2, <5>1, FS_AddElement
        <5> QED
          BY <4>2, <5>1, <5>2, FS_AddElement
      <4>8. /\ Cardinality(Held(u) \ Doomed(P)) \in Nat /\ Cardinality(SigningIn(u)) \in Nat /\ Cardinality(Q) \in Nat
            /\ Cardinality((Held(u) \ Doomed(Q))') \in Nat
        BY <4>3, LoadIsNat, LoadIsNatNext
      <4>9. Cardinality((Held(u) \ Doomed(Q))') + Cardinality(SigningIn(u)') + Cardinality(Q)
               <= Cardinality(Held(u) \ Doomed(P)) + Cardinality(SigningIn(u)) + Cardinality(P)
        BY <4>6, <4>7, <4>8
      <4> HIDE DEF P
      <4> QED
        BY <1>1, <2>3, <2>5, <3>1, <4>2, <4>3, <4>9, BoundKept
    <3> QED
      BY <3>2, <3>6, <3>7
  <2> QED
    BY <2>3, <2>6
<1> QED
  BY <1>1, <1>4, <1>5 DEF Evict

(* The login drops the session it came with and takes a fresh id.            *)
LEMMA RegenerateKeeps ==
    ASSUME SessionInv, NEW r \in Requests, Regenerate(r)
    PROVE  SessionInv'
<1>1. /\ SessionTypeOK /\ Room /\ request[r] \in RequestState /\ request[r].pc = "regenerate"
      /\ request[r].kind = "login"
  BY DEF SessionInv, SessionTypeOK, LocalOK, LoginPcs, Regenerate, Awaits
<1>2. /\ KeepSettings /\ UNCHANGED <<user, unenforced>> /\ \E gone : DeleteSessions(gone)
  BY DEF Regenerate
<1>3. PICK s \in Sids : request' = [request EXCEPT ![r].sid = s, ![r].found = FALSE, ![r].pc = "store"]
  BY DEF Regenerate
<1>4. /\ request' \in [Requests -> RequestState]
      /\ \A q \in Requests \ {r} : request'[q] = request[q]
      /\ request'[r].pc = "store" /\ request'[r].kind = "login" /\ ~request'[r].found
      /\ request'[r].user = request[r].user
  <2>1. /\ request'[r] = [request[r] EXCEPT !.sid = s, !.found = FALSE, !.pc = "store"]
        /\ \A q \in Requests \ {r} : request'[q] = request[q]
        /\ request' = [q \in Requests |-> request'[q]]
    BY <1>1, <1>3 DEF SessionTypeOK
  <2>2. /\ request'[r] \in RequestState /\ request'[r].pc = "store" /\ request'[r].kind = "login"
        /\ ~request'[r].found /\ request'[r].user = request[r].user
    BY <1>1, <2>1 DEF RequestState, RequestPcs
  <2> QED
    BY <1>1, <2>1, <2>2 DEF SessionTypeOK
<1>5. LocalOK(r)' /\ unenforced' \in BOOLEAN
  BY <1>1, <1>2, <1>4 DEF LocalOK, LoginPcs, SessionTypeOK
<1>6. /\ SessionTypeOK'
      /\ \A u \in People : \A x \in Sids : session'[x].user = u => session[x] = session'[x]
      /\ Room' => SessionInv'
  BY <1>2, <1>4, <1>5, LoginThins
<1>7. Room'
  <2>1. \A u \in People : /\ Held(u)' \subseteq Held(u)
                          /\ SigningIn(u)' \subseteq SigningIn(u)
                          /\ Evicting(u)' \subseteq Evicting(u)
                          /\ \A q \in Evicting(u)' : request'[q].doomed = request[q].doomed
    BY <1>1, <1>4, <1>6 DEF Held, SigningIn, Evicting
  <2> QED
    BY <1>1, <1>2, <1>6, <2>1, RoomKept DEF KeepSettings, SessionTypeOK
<1> QED
  BY <1>6, <1>7

-----------------------------------------------------------------------------
(* The end of a request *)

(* A request that is no login puts off the expiry of its session, if that is *)
(* still there.                                                              *)
LEMMA TouchKeeps ==
    ASSUME SessionInv, NEW r \in Requests, request[r].kind # "login", Finish(r),
           session' = [session EXCEPT ![request[r].sid].expired = FALSE] \/ UNCHANGED session,
           KeepSettings, UNCHANGED <<older, user, unenforced>>
    PROVE  SessionInv'
<1> DEFINE s == request[r].sid
           touched == [session[s] EXCEPT !.expired = FALSE]
<1>1. SessionTypeOK /\ Order /\ Room /\ SessionsHaveUsers /\ (\A q \in Requests : LocalOK(q)) /\ limit <= most
  BY DEF SessionInv
<1>2. /\ session' \in [Sids -> Session]
      /\ \A x \in Sids : session'[x].user = session[x].user
      /\ \A x \in Sids : session'[x] = session[x] \/ x = s
  <2>1. s \in Sids => touched \in Session /\ touched.user = session[s].user
    BY <1>1, ZenonT(60) DEF SessionTypeOK, Session
  <2>2. session' = [session EXCEPT ![s] = touched] \/ session' = session
    OBVIOUS
  <2> HIDE DEF touched, s
  <2>3. session \in [Sids -> Session]
    BY <1>1 DEF SessionTypeOK
  <2> QED
    BY <2>1, <2>2, <2>3
<1>3. Ordinary(r)
  BY <1>1, FinishType DEF Ordinary
<1>4. SessionTypeOK' /\ limit' <= most'
  BY <1>1, <1>2, <1>3 DEF SessionTypeOK, KeepSettings, Ordinary
<1>5. Order'
  BY <1>1, <1>2 DEF Order, Stored, SessionTypeOK
<1>6. SessionsHaveUsers'
  BY <1>1, <1>2 DEF SessionsHaveUsers, Stored
<1>7. \A q \in Requests : LocalOK(q)'
  BY <1>1, <1>3, OrdinaryLocals
<1>8. Room'
  <2>1. ASSUME NEW u \in People
        PROVE  /\ Held(u)' \subseteq Held(u)
               /\ SigningIn(u)' \subseteq SigningIn(u)
               /\ Evicting(u)' \subseteq Evicting(u)
               /\ \A q \in Evicting(u)' : request'[q].doomed = request[q].doomed
    <3>1. \A x \in Sids : session[x].user = u /\ x = s => x \in Held(u)
      BY DEF Held
    <3>2. \A x \in Sids : session'[x].user = u => /\ session[x].user = u
                                                  /\ session[x].expired => session'[x].expired \/ x \in Held(u)
      BY <1>2, <3>1
    <3> QED
      BY <1>3, <3>2, OrdinaryHeld
  <2> QED
    BY <1>1, <1>4, <2>1, RoomKept DEF KeepSettings, SessionTypeOK
<1> QED
  BY <1>1, <1>4, <1>5, <1>6, <1>7, <1>8 DEF SessionInv

(* The end of a request revives its session, or goes on to store it.         *)
LEMMA EndKeeps ==
    ASSUME SessionInv, NEW r \in Requests, End(r)
    PROVE  SessionInv'
<1>1. SessionTypeOK /\ request[r] \in RequestState /\ request[r].kind # "login"
  BY DEF SessionInv, SessionTypeOK, LocalOK, LoginPcs, End, Awaits
<1>2. CASE Finish(r)
  BY <1>1, <1>2, TouchKeeps DEF End
<1>3. CASE request' = [request EXCEPT ![r].found = Stored(request[r].sid), ![r].pc = "store"] /\ UNCHANGED session
  <2> DEFINE found == Stored(request[r].sid)
  <2>1. found \in BOOLEAN
    BY DEF Stored
  <2>2. request' = [request EXCEPT ![r].found = found, ![r].pc = "store"]
    BY <1>3
  <2> HIDE DEF found
  <2>3. /\ request'[r] = [request[r] EXCEPT !.found = found, !.pc = "store"]
        /\ \A q \in Requests \ {r} : request'[q] = request[q]
        /\ request' = [q \in Requests |-> request'[q]]
    BY <1>1, <2>2 DEF SessionTypeOK
  <2>4. /\ request'[r] \in RequestState /\ request'[r].pc = "store" /\ request'[r].kind = request[r].kind
        /\ request'[r].sid = request[r].sid
    BY <1>1, <2>1, <2>3 DEF RequestState, RequestPcs
  <2>5. Ordinary(r)
    BY <1>1, <2>3, <2>4 DEF Ordinary, SessionTypeOK, LoginPcs
  <2> QED
    BY <1>3, <2>5, OrdinaryKeepsUsers DEF End, KeepSessions
<1> QED
  BY <1>2, <1>3 DEF End

(* A function at one point and at the others.                                *)
LEMMA Written ==
    ASSUME NEW D, NEW R, NEW f \in [D -> R], NEW x, NEW v \in R
    PROVE  /\ [f EXCEPT ![x] = v] \in [D -> R]
           /\ \A y \in D : [f EXCEPT ![x] = v][y] = IF y = x THEN v ELSE f[y]
  OBVIOUS

(* A new session is the youngest of all. *)
LEMMA InsertedOrder ==
    ASSUME SessionInv, NEW r \in Requests, ~Stored(request[r].sid),
           session' = [session EXCEPT ![request[r].sid] = Inserted(r)],
           older' = [older EXCEPT ![request[r].sid] = IF Inserted(r) = NoSession THEN {}
                                                      ELSE {o \in Sids : Stored(o)}],
           UNCHANGED user
    PROVE  /\ session' \in [Sids -> Session] /\ older' \in [Sids -> SUBSET Sids]
           /\ Order' /\ SessionsHaveUsers'
           /\ \A x \in Sids : /\ x # request[r].sid => session'[x] = session[x]
                              /\ x = request[r].sid => session'[x] = NoSession \/ session'[x].user = request[r].user
<1> DEFINE s == request[r].sid
           new == Inserted(r)
           before == IF new = NoSession THEN {} ELSE {o \in Sids : Stored(o)}
<1>1. /\ session \in [Sids -> Session] /\ older \in [Sids -> SUBSET Sids] /\ Order /\ SessionsHaveUsers
      /\ request[r] \in RequestState
  BY DEF SessionInv, SessionTypeOK
<1>2. /\ new \in Session /\ (new = NoSession \/ new.user = request[r].user)
      /\ new.user # Nobody => user[new.user].status # "absent"
  BY <1>1, QuietType DEF Inserted, Session, RequestState, NoSession
<1>3. before \in SUBSET Sids /\ before \subseteq {o \in Sids : Stored(o)}
      /\ (new.user # Nobody => before = {o \in Sids : Stored(o)})
  BY DEF NoSession
<1>4. session' = [session EXCEPT ![s] = new] /\ older' = [older EXCEPT ![s] = before] /\ ~Stored(s)
  OBVIOUS
<1> HIDE DEF s, new, before
<1>5. /\ session' \in [Sids -> Session] /\ older' \in [Sids -> SUBSET Sids]
      /\ \A x \in Sids : session'[x] = (IF x = s THEN new ELSE session[x])
      /\ \A x \in Sids : older'[x] = (IF x = s THEN before ELSE older[x])
  <2>1. /\ [session EXCEPT ![s] = new] \in [Sids -> Session]
        /\ \A x \in Sids : [session EXCEPT ![s] = new][x] = IF x = s THEN new ELSE session[x]
    <3>1. session \in [Sids -> Session] /\ new \in Session
      BY <1>1, <1>2
    <3> QED
      BY <3>1, Written
  <2>2. /\ [older EXCEPT ![s] = before] \in [Sids -> SUBSET Sids]
        /\ \A x \in Sids : [older EXCEPT ![s] = before][x] = IF x = s THEN before ELSE older[x]
    <3>1. older \in [Sids -> SUBSET Sids] /\ before \in SUBSET Sids
      BY <1>1, <1>3
    <3> QED
      BY <3>1, Written
  <2> QED
    BY <1>4, <2>1, <2>2
<1>6. \A x \in Sids : \A o \in older[x] : o \in Sids /\ Stored(o) /\ o # s
  BY <1>1, <1>4 DEF Order
<1>7. \A x \in Sids : x \notin older'[x]
  BY <1>1, <1>3, <1>4, <1>5 DEF Order
<1>8. ASSUME NEW x \in Sids, NEW o \in older'[x]
      PROVE  Stored(o)' /\ older'[o] \subseteq older'[x]
  <2>1. o \in Sids /\ Stored(o) /\ o # s
    BY <1>3, <1>4, <1>5, <1>6, <1>8
  <2>2. session'[o] = session[o] /\ older'[o] = older[o]
    BY <1>5, <2>1
  <2>3. older[o] \subseteq older'[x]
    <3>1. CASE x = s
      <4>1. before # {} /\ before = {y \in Sids : Stored(y)}
        BY <1>5, <1>8, <3>1 DEF before
      <4> QED
        BY <1>5, <1>6, <2>1, <3>1, <4>1
    <3>2. CASE x # s
      BY <1>1, <1>5, <1>8, <3>2 DEF Order
    <3> QED
      BY <3>1, <3>2
  <2> QED
    BY <2>1, <2>2, <2>3 DEF Stored
<1>9. ASSUME NEW x \in Sids, NEW y \in Sids \ {x}, Stored(x)', session'[y].user = session'[x].user
      PROVE  x \in older'[y] \/ y \in older'[x]
  <2>1. session'[x].user # Nobody /\ session'[y].user # Nobody
    BY <1>9 DEF Stored
  <2>2. CASE x = s
    <3>1. session'[y] = session[y] /\ new.user # Nobody /\ Stored(y)
      BY <1>5, <1>9, <2>1, <2>2 DEF Stored
    <3> QED
      BY <1>3, <1>5, <2>2, <3>1
  <2>3. CASE y = s
    <3>1. session'[x] = session[x] /\ new.user # Nobody /\ Stored(x)
      BY <1>5, <1>9, <2>1, <2>3 DEF Stored
    <3> QED
      BY <1>3, <1>5, <2>3, <3>1
  <2>4. CASE x # s /\ y # s
    BY <1>1, <1>5, <1>9, <2>4 DEF Order, Stored
  <2> QED
    BY <2>2, <2>3, <2>4
<1>10. Order'
  BY <1>7, <1>8, <1>9 DEF Order
<1>11. SessionsHaveUsers'
  BY <1>1, <1>2, <1>5 DEF SessionsHaveUsers, Stored
<1>12. \A x \in Sids : /\ x # s => session'[x] = session[x]
                       /\ x = s => session'[x] = NoSession \/ session'[x].user = request[r].user
  BY <1>2, <1>5
<1> USE DEF s
<1> QED
  BY <1>5, <1>10, <1>11, <1>12

(* A stored session takes the place that its login has counted.              *)
LEMMA StoreKeeps ==
    ASSUME SessionInv, NEW r \in Requests, Store(r)
    PROVE  SessionInv'
<1> DEFINE s == request[r].sid
           w == request[r].user
<1>1. /\ SessionTypeOK /\ Room /\ LocalOK(r) /\ (\A q \in Requests : LocalOK(q)) /\ limit <= most
      /\ request[r].pc = "store" /\ Finish(r) /\ KeepSettings /\ UNCHANGED user
  BY DEF SessionInv, Store, Awaits
<1>2. CASE request[r].found /\ session' = [session EXCEPT ![s].expired = FALSE] /\ UNCHANGED <<older, unenforced>>
  <2>1. request[r].kind # "login"
    BY <1>1, <1>2 DEF LocalOK
  <2> QED
    BY <1>1, <1>2, <2>1, TouchKeeps
<1>3. CASE KeepSessions /\ UNCHANGED unenforced
  <2>1. Ordinary(r)
    BY <1>1, FinishType DEF Ordinary
  <2> QED
    BY <1>1, <1>3, <2>1, OrdinaryKeepsUsers
<1>4. ASSUME ~Stored(s), unenforced' = (unenforced \/ request[r].kind # "login"),
             session' = [session EXCEPT ![s] = Inserted(r)],
             older' = [older EXCEPT ![s] = IF Inserted(r) = NoSession THEN {} ELSE {o \in Sids : Stored(o)}]
      PROVE  SessionInv'
  <2>1. /\ session' \in [Sids -> Session] /\ older' \in [Sids -> SUBSET Sids]
        /\ Order' /\ SessionsHaveUsers'
        /\ \A x \in Sids : /\ x # s => session'[x] = session[x]
                           /\ x = s => session'[x] = NoSession \/ session'[x].user = w
    BY <1>1, <1>4, InsertedOrder
  <2>2. /\ request' \in [Requests -> RequestState] /\ request'[r] = Quiet
        /\ \A q \in Requests \ {r} : request'[q] = request[q]
    BY <1>1, FinishType
  <2>3. unenforced' \in BOOLEAN
    BY <1>4
  <2>4. SessionTypeOK' /\ (limit <= most)' /\ most <= most'
    BY <1>1, <2>1, <2>2, <2>3 DEF SessionTypeOK, KeepSettings
  <2>5. \A q \in Requests : LocalOK(q)'
    BY <1>1, <2>2 DEF LocalOK, Quiet, LoginPcs
  <2>6. Room'
    <3> SUFFICES ASSUME ~unenforced', NEW u \in People, NEW Q \in SUBSET Evicting(u)'
                 PROVE  (Cardinality(Held(u) \ Doomed(Q)) + Cardinality(SigningIn(u)) + Cardinality(Q)
                            < most + Cardinality(Requests))'
      BY DEF Room
    <3>1. ~unenforced /\ request[r].kind = "login"
      BY <1>4
    <3>2. /\ r \notin Q /\ Q \in SUBSET Evicting(u) /\ Q \in SUBSET Requests
          /\ SigningIn(u)' = SigningIn(u) \ {r}
      BY <2>2 DEF Evicting, SigningIn, Quiet
    <3>3. Doomed(Q)' = Doomed(Q)
      BY <2>2, <3>2 DEF Doomed
    <3>4. Held(u)' \subseteq Held(u) \cup {s} /\ (u # w => Held(u)' \subseteq Held(u))
      BY <2>1, <2>2, SessionConstants DEF Held, Quiet, NoSession
    <3>5. CASE u # w
      <4>1. (Held(u) \ Doomed(Q))' \subseteq Held(u) \ Doomed(Q) /\ SigningIn(u)' \subseteq SigningIn(u)
        BY <3>2, <3>3, <3>4, <3>5
      <4> QED
        BY <1>1, <2>4, <3>1, <3>2, <4>1, BoundThinned
    <3>6. CASE u = w
      <4>1. r \in SigningIn(u) /\ IsFiniteSet(SigningIn(u)) /\ Cardinality(SigningIn(u)) \in Nat
        BY <1>1, <3>1, <3>2, <3>6, LoadIsNat DEF SigningIn
      <4>2. Cardinality(SigningIn(u)') = Cardinality(SigningIn(u)) - 1
        BY <3>2, <4>1, FS_RemoveElement
      <4>3. (Held(u) \ Doomed(Q))' \subseteq (Held(u) \ Doomed(Q)) \cup {s}
        BY <3>3, <3>4
      <4>4. Cardinality((Held(u) \ Doomed(Q))') <= Cardinality(Held(u) \ Doomed(Q)) + 1
        <5>1. IsFiniteSet({s}) /\ Cardinality({s}) = 1
          BY FS_Singleton
        <5>2. IsFiniteSet(Held(u) \ Doomed(Q)) /\ Cardinality(Held(u) \ Doomed(Q)) \in Nat
          BY <3>2, LoadIsNat
        <5>3. /\ IsFiniteSet((Held(u) \ Doomed(Q)) \cup {s}) /\ Cardinality((Held(u) \ Doomed(Q)) \cup {s}) \in Nat
              /\ Cardinality((Held(u) \ Doomed(Q)) \cup {s}) <= Cardinality(Held(u) \ Doomed(Q)) + 1
          BY <5>1, <5>2, UnionSize
        <5>4. /\ Cardinality((Held(u) \ Doomed(Q))') \in Nat
              /\ Cardinality((Held(u) \ Doomed(Q))') <= Cardinality((Held(u) \ Doomed(Q)) \cup {s})
          BY <4>3, <5>3, SubsetSize
        <5> QED
          BY <5>2, <5>3, <5>4
      <4>5. /\ Cardinality(Held(u) \ Doomed(Q)) \in Nat /\ Cardinality(Q) \in Nat
            /\ Cardinality((Held(u) \ Doomed(Q))') \in Nat
        BY <3>2, LoadIsNat, LoadIsNatNext
      <4>6. Cardinality((Held(u) \ Doomed(Q))') + Cardinality(SigningIn(u)') + Cardinality(Q)
               <= Cardinality(Held(u) \ Doomed(Q)) + Cardinality(SigningIn(u)) + Cardinality(Q)
        BY <4>1, <4>2, <4>4, <4>5
      <4> QED
        BY <1>1, <2>4, <3>1, <3>2, <4>6, BoundKept
    <3> QED
      BY <3>5, <3>6
  <2> QED
    BY <2>1, <2>4, <2>5, <2>6 DEF SessionInv
<1> QED
  BY <1>2, <1>3, <1>4 DEF Store

-----------------------------------------------------------------------------
(* All steps, and the theorems *)

(* Every step keeps the invariant.                                           *)
LEMMA StepKeeps == SessionInv /\ [SessionNext]_sessionVars => SessionInv'
<1> SUFFICES ASSUME SessionInv, [SessionNext]_sessionVars PROVE SessionInv'
  OBVIOUS
<1>1. CASE UNCHANGED sessionVars
  BY <1>1 DEF sessionVars, SessionInv, SessionTypeOK, Order, LocalOK, SessionsHaveUsers, Room, Stored, Held,
              SigningIn, Evicting, Doomed
<1>2. ASSUME NEW r \in Requests, Serve(r)
      PROVE  SessionInv'
  <2>1. CASE Resolve(r) \/ Enforce(r) \/ Evict(r) \/ Regenerate(r)
    BY <2>1, ResolveKeeps, ResolvedKeeps, EnforceKeeps, EvictKeeps, RegenerateKeeps
  <2>2. CASE Guard(r) \/ Destroy(r) \/ End(r) \/ Store(r)
    BY <2>2, GuardKeeps, DestroyKeeps, EndKeeps, StoreKeeps
  <2>3. CASE RevokeFind(r) \/ RevokeDelete(r) \/ RevokeAll(r)
    BY <2>3, RevokeKeeps
  <2>4. CASE RemoveSessions(r) \/ SoftDelete(r) \/ Grant(r) \/ DropProviderSessions(r)
    BY <2>4, RemoveSoftlyKeeps, GrantKeeps, ProviderKeeps
  <2>5. CASE \E t \in People, on \in BOOLEAN : RemoveUser(r, t, on) \/ SetEnabled(r, t, on) \/ SetAdmin(r, t, on)
    BY <2>5, RemoveUserKeeps, SetEnabledKeeps, SetAdminKeeps
  <2>6. CASE (\E n \in 0..MaxLimit : SetLimit(r, n)) \/ (\E on \in BOOLEAN : SetProvider(r, on))
    BY <2>6, SetLimitKeeps, ProviderKeeps
  <2> QED
    BY <1>2, <2>1, <2>2, <2>3, <2>4, <2>5, <2>6 DEF Serve
<1>3. ASSUME NEW r \in Requests, \E u \in People, old \in Sids \cup {Nobody} : Authorize(r, u, old)
      PROVE  SessionInv'
  BY <1>3, AuthorizeKeeps
<1>4. ASSUME NEW r \in Requests, \E s \in Sids, kind \in AllKinds : Arrive(r, s, kind)
      PROVE  SessionInv'
  BY <1>4, ArriveKeeps
<1> QED
  BY <1>1, <1>2, <1>3, <1>4, TimeKeeps DEF SessionNext

(* All variables of the session store keep their types.                      *)
THEOREM SessionTypesKept == SessionSpec => []SessionTypeOK
<1>1. SessionInv => SessionTypeOK
  BY DEF SessionInv
<1> QED
  BY <1>1, InitHolds, StepKeeps, PTL DEF SessionSpec

(* No session is stored for a user who was deleted for good: the foreign key *)
(* (sessions go with their user, and none is inserted without) and the order *)
(* of awaits in sign-in, set() and deleteUser() leave no gap between them.   *)
THEOREM StoredSessionsHaveUsers == SessionSpec => []SessionsHaveUsers
<1>1. SessionInv => SessionsHaveUsers
  BY DEF SessionInv
<1> QED
  BY <1>1, InitHolds, StepKeeps, PTL DEF SessionSpec

(* enforceLimitForUser() bounds the working sessions of a user by maxPerUser *)
(* and one for each other request in flight, however many logins list, evict *)
(* and store at the same time and whichever expired sessions are revived.    *)
THEOREM SessionsStayLimited == SessionSpec => []SessionLimit
<1>1. ASSUME SessionInv PROVE SessionLimit
  <2> SUFFICES ASSUME ~unenforced, NEW u \in People
               PROVE  Cardinality(ActiveSessions(u)) + Cardinality(SigningIn(u)) < most + Cardinality(Requests)
    BY DEF SessionLimit
  <2>1. {} \in SUBSET Evicting(u) /\ {} \in SUBSET Requests /\ Cardinality({}) = 0
    BY FS_EmptySet
  <2>2. Cardinality(Held(u) \ Doomed({})) + Cardinality(SigningIn(u)) + 0 < most + Cardinality(Requests)
    BY <1>1, <2>1 DEF SessionInv, Room
  <2>3. ActiveSessions(u) \subseteq Held(u) \ Doomed({})
    BY DEF ActiveSessions, Held, Doomed
  <2>4. /\ Cardinality(ActiveSessions(u)) \in Nat
        /\ Cardinality(ActiveSessions(u)) <= Cardinality(Held(u) \ Doomed({}))
    BY <2>1, <2>3, LoadIsNat, SubsetSize
  <2>5. Cardinality(Held(u) \ Doomed({})) \in Nat /\ Cardinality(SigningIn(u)) \in Nat
    BY <2>1, LoadIsNat
  <2>6. most \in Nat /\ Cardinality(Requests) \in Nat
    BY <1>1, SizesFinite DEF SessionInv, SessionTypeOK
  <2> DEFINE held == Cardinality(Held(u) \ Doomed({}))
             active == Cardinality(ActiveSessions(u))
  <2>7. held + Cardinality(SigningIn(u)) + 0 < most + Cardinality(Requests) /\ active <= held /\ active \in Nat /\ held \in Nat
    BY <2>2, <2>4, <2>5
  <2> HIDE DEF held, active
  <2>8. active + Cardinality(SigningIn(u)) < most + Cardinality(Requests)
    BY <2>5, <2>6, <2>7
  <2> QED
    BY <2>8 DEF active
<1> QED
  BY <1>1, InitHolds, StepKeeps, PTL DEF SessionSpec

=============================================================================
