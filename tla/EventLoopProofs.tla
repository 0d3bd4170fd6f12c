--------------------------- MODULE EventLoopProofs ---------------------------
(***************************************************************************)
(* The event loop is right for any number of events, any turn counts and   *)
(* any depth of nesting.  First the list alone: every operation keeps its  *)
(* pointers in agreement (WellFormed), and does to the queue that the      *)
(* pointers stand for what EventQueue says (Represents).  Then the loop:   *)
(* its safety properties, and that it implements EventQueue.               *)
(***************************************************************************)
EXTENDS MCEventLoop, SequenceTheorems, FiniteSetTheorems, FunctionTheorems, TLAPS

\* The lemmas about the abstract queue; EventQ and QP are the same operations.
QP == INSTANCE EventQueueProofs WITH queue <- AsQueue(list)

-----------------------------------------------------------------------------
(* The pointers agree.                                                     *)

\* The empty queue of a new EventLoop is well linked.
LEMMA EmptyWellFormed ==
  /\ EmptyList \in ListType /\ WellFormed(EmptyList) /\ IsEmpty(EmptyList)
  /\ \A e \in Event : ~Linked(EmptyList, e)
  BY ListAssumption
     DEF EmptyList, ListType, WellFormed, WellLinked, AllReachable, Linked,
         InUse, Slot, IsEmpty

\* A queue with an event in it has a front.
LEMMA QueuedHasFront ==
  ASSUME NEW L \in ListType, AllReachable(L), NEW e \in Event, Linked(L, e)
  PROVE  ~IsEmpty(L)
<1> SUFFICES ASSUME IsEmpty(L)  PROVE FALSE
  OBVIOUS
<1>1. Follows(L, {HeadSlot}) /\ {HeadSlot} \in SUBSET Slot
  BY DEF IsEmpty, Follows, Slot
<1> QED
  BY <1>1, ListAssumption DEF AllReachable

\* Splicing an unqueued event behind a slot in use: the core of both arms.
LEMMA LinkFacts ==
  ASSUME NEW L \in ListType, WellFormed(L),
         NEW e \in Event, ~Linked(L, e),
         NEW s \in Slot, InUse(L, s)
  PROVE  LET K == Link(L, e, s)
         IN  /\ K \in ListType
             /\ K.tail = L.tail /\ K.dfip = L.dfip
             /\ s # e
             /\ \A x \in Event : Linked(K, x) <=> (Linked(L, x) \/ x = e)
             /\ \A x \in Slot : InUse(K, x) <=> (InUse(L, x) \/ x = e)
             /\ \A x \in Event : Linked(K, x) =>
                    InUse(K, K.prv[x]) /\ K.nxt[K.prv[x]] = x
             /\ \A x \in Event : ~Linked(K, x) => K.nxt[x] = Null
             /\ \A x \in Slot : K.nxt[x] # Null => K.prv[K.nxt[x]] = x
             /\ \A x \in Slot : InUse(K, x) =>
                    (K.nxt[x] = Null <=> x = (IF L.tail = s THEN e ELSE L.tail))
             /\ AllReachable(K)
<1> DEFINE K == Link(L, e, s)
           n == L.nxt[s]
<1> USE ListAssumption
<1>1. e \in Slot /\ s # e /\ L.nxt[e] = Null /\ n # e
  BY DEF Slot, InUse, WellFormed, WellLinked, ListType, Linked
<1>2. /\ K \in ListType /\ K.tail = L.tail /\ K.dfip = L.dfip
      /\ K.nxt = [L.nxt EXCEPT ![e] = n, ![s] = e]
      /\ K.prv = [x \in Event |-> IF x = n THEN e ELSE IF x = e THEN s ELSE L.prv[x]]
  BY <1>1 DEF Link, ListType, Slot
<1>3. /\ \A x \in Event : Linked(K, x) <=> (Linked(L, x) \/ x = e)
      /\ \A x \in Slot : InUse(K, x) <=> (InUse(L, x) \/ x = e)
  BY <1>1, <1>2
     DEF WellFormed, WellLinked, Linked, InUse, ListType, Slot
<1>4. \A x \in Event : Linked(K, x) => InUse(K, K.prv[x]) /\ K.nxt[K.prv[x]] = x
  BY <1>1, <1>2, <1>3
     DEF WellFormed, WellLinked, Linked, InUse, ListType, Slot
<1>5. \A x \in Event : ~Linked(K, x) => K.nxt[x] = Null
  BY <1>1, <1>2, <1>3
     DEF WellFormed, WellLinked, Linked, InUse, ListType, Slot
<1>6. \A x \in Slot : K.nxt[x] # Null => K.prv[K.nxt[x]] = x
  BY <1>1, <1>2, <1>3
     DEF WellFormed, WellLinked, Linked, InUse, ListType, Slot
<1>7. \A x \in Slot : InUse(K, x) =>
          (K.nxt[x] = Null <=> x = (IF L.tail = s THEN e ELSE L.tail))
  BY <1>1, <1>2, <1>3
     DEF WellFormed, WellLinked, Linked, InUse, ListType, Slot
<1>8. AllReachable(K)
  <2> SUFFICES ASSUME NEW R \in SUBSET Slot, Follows(K, R),
                      NEW x \in Event, Linked(K, x)
               PROVE  x \in R
    BY DEF AllReachable
  \* Without e, R follows the pointers of the old list.
  <2> DEFINE S == R \ {e}
  <2>1. Follows(L, S)
    BY <1>1, <1>2 DEF Follows, ListType, Slot, WellFormed, WellLinked, Linked, InUse
  <2>2. CASE x # e
    BY <1>3, <2>1, <2>2 DEF WellFormed, AllReachable
  <2>3. CASE x = e
    <3>1. s \in R
      BY <1>1, <2>1 DEF WellFormed, AllReachable, InUse, Follows, Slot
    <3> QED
      BY <1>1, <1>2, <2>3, <3>1 DEF Follows, ListType
  <2> QED
    BY <2>2, <2>3
<1> QED
  BY <1>1, <1>2, <1>3, <1>4, <1>5, <1>6, <1>7, <1>8

\* Event::armDepthFirst on an event that is not queued.
LEMMA DepthFirstWellFormed ==
  ASSUME NEW L \in ListType, WellFormed(L), NEW e \in Event, ~Linked(L, e)
  PROVE  LET K == LinkDepthFirst(L, e)
         IN  /\ K \in ListType /\ WellFormed(K) /\ ~IsEmpty(K)
             /\ \A x \in Event : Linked(K, x) <=> (Linked(L, x) \/ x = e)
<1> DEFINE s == L.dfip
           M == Link(L, e, s)
           K == LinkDepthFirst(L, e)
<1> USE ListAssumption
<1>1. s \in Slot /\ InUse(L, s) /\ L.tail \in Slot
  BY DEF ListType, WellFormed, WellLinked
<1> HIDE DEF s
<1>2. M \in ListType /\ M.tail = L.tail
  BY <1>1, LinkFacts
<1>3. /\ K \in ListType
      /\ K.nxt = M.nxt /\ K.prv = M.prv /\ K.dfip = e
      /\ K.tail = (IF L.tail = s THEN e ELSE L.tail)
  BY <1>2 DEF LinkDepthFirst, ListType, Slot, s
<1>4. /\ \A x \in Event : Linked(K, x) <=> Linked(M, x)
      /\ \A x \in Slot : InUse(K, x) <=> InUse(M, x)
  BY <1>3 DEF Linked, InUse
<1>5. WellFormed(K)
  <2>1. /\ \A x \in Event : Linked(K, x) => InUse(K, K.prv[x]) /\ K.nxt[K.prv[x]] = x
        /\ \A x \in Event : ~Linked(K, x) => K.nxt[x] = Null
        /\ \A x \in Slot : K.nxt[x] # Null => K.prv[K.nxt[x]] = x
        /\ \A x \in Slot : InUse(K, x) => (K.nxt[x] = Null <=> x = K.tail)
    <3>1. \A x \in Event : Linked(M, x) => M.prv[x] \in Slot
      BY <1>2 DEF Linked, ListType
    <3> QED  BY <1>1, <1>3, <1>4, <3>1, LinkFacts
  <2>2. InUse(K, K.tail) /\ InUse(K, K.dfip)
    BY <1>1, <1>3, <1>4, LinkFacts DEF WellFormed, WellLinked, Slot
  <2>3. AllReachable(K)
    BY <1>1, <1>3, <1>4, LinkFacts DEF AllReachable, Follows
  <2> QED  BY <2>1, <2>2, <2>3 DEF WellFormed, WellLinked
<1>6. ~IsEmpty(K)
  BY <1>1, <1>3, <1>4, <1>5, LinkFacts, QueuedHasFront DEF WellFormed
<1> QED
  BY <1>1, <1>3, <1>4, <1>5, <1>6, LinkFacts

\* Event::armBreadthFirst on an event that is not queued.
LEMMA BreadthFirstWellFormed ==
  ASSUME NEW L \in ListType, WellFormed(L), NEW e \in Event, ~Linked(L, e)
  PROVE  LET K == LinkBreadthFirst(L, e)
         IN  /\ K \in ListType /\ WellFormed(K) /\ ~IsEmpty(K)
             /\ \A x \in Event : Linked(K, x) <=> (Linked(L, x) \/ x = e)
<1> DEFINE s == L.tail
           M == Link(L, e, s)
           K == LinkBreadthFirst(L, e)
<1> USE ListAssumption
<1>1. s \in Slot /\ InUse(L, s) /\ L.dfip \in Slot
  BY DEF ListType, WellFormed, WellLinked
<1> HIDE DEF s
<1>2. M \in ListType /\ M.dfip = L.dfip
  BY <1>1, LinkFacts
<1>3. /\ K \in ListType
      /\ K.nxt = M.nxt /\ K.prv = M.prv /\ K.dfip = L.dfip /\ K.tail = e
  BY <1>2 DEF LinkBreadthFirst, ListType, Slot, s
<1>4. /\ \A x \in Event : Linked(K, x) <=> Linked(M, x)
      /\ \A x \in Slot : InUse(K, x) <=> InUse(M, x)
  BY <1>3 DEF Linked, InUse
<1>5. WellFormed(K)
  <2>1. /\ \A x \in Event : Linked(K, x) => InUse(K, K.prv[x]) /\ K.nxt[K.prv[x]] = x
        /\ \A x \in Event : ~Linked(K, x) => K.nxt[x] = Null
        /\ \A x \in Slot : K.nxt[x] # Null => K.prv[K.nxt[x]] = x
        /\ \A x \in Slot : InUse(K, x) => (K.nxt[x] = Null <=> x = K.tail)
    <3>1. \A x \in Event : Linked(M, x) => M.prv[x] \in Slot
      BY <1>2 DEF Linked, ListType
    <3>2. L.tail = s
      BY DEF s
    <3> QED  BY <1>1, <1>3, <1>4, <3>1, <3>2, LinkFacts
  <2>2. InUse(K, K.tail) /\ InUse(K, K.dfip)
    BY <1>1, <1>3, <1>4, LinkFacts DEF WellFormed, WellLinked, Slot
  <2>3. AllReachable(K)
    BY <1>1, <1>3, <1>4, LinkFacts DEF AllReachable, Follows
  <2> QED  BY <2>1, <2>2, <2>3 DEF WellFormed, WellLinked
<1>6. ~IsEmpty(K)
  BY <1>1, <1>3, <1>4, <1>5, LinkFacts, QueuedHasFront DEF WellFormed
<1> QED
  BY <1>1, <1>3, <1>4, <1>5, <1>6, LinkFacts

\* Unlinking a queued event, whose slot becomes the one before it.
LEMMA UnlinkWellFormed ==
  ASSUME NEW L \in ListType, WellFormed(L), NEW e \in Event
  PROVE  LET K == Unlink(L, e)
         IN  /\ K \in ListType /\ WellFormed(K)
             /\ \A x \in Event : Linked(K, x) <=> (Linked(L, x) /\ x # e)
             /\ IsEmpty(L) => IsEmpty(K)
<1> DEFINE K == Unlink(L, e)
           p == L.prv[e]
           n == L.nxt[e]
<1> USE ListAssumption
<1>1. CASE p = Null
  BY <1>1 DEF Unlink, Linked
<1>2. CASE p # Null
  <2> USE DEF WellLinked, Linked, InUse, ListType, Slot
  <2>1. /\ p \in Slot /\ e \in Slot /\ n \in Event \cup {Null}
        /\ InUse(L, p) /\ L.nxt[p] = e /\ InUse(L, e)
        /\ n # Null => L.prv[n] = e
    BY <1>2 DEF WellFormed
  <2>2. p # e /\ n # e
    \* Otherwise e is a ring of its own, which HeadSlot does not lead to.
    <3> SUFFICES ASSUME p = e  PROVE FALSE
      BY <2>1
    <3>1. Follows(L, Slot \ {e})
      BY <2>1 DEF Follows, WellFormed
    <3> QED
      BY <1>2, <3>1 DEF WellFormed, AllReachable
  <2>3. /\ K.nxt = [L.nxt EXCEPT ![p] = n, ![e] = Null]
        /\ K.prv = [x \in Event |-> IF x = n THEN p
                                    ELSE IF x = e THEN Null ELSE L.prv[x]]
        /\ K.tail = (IF L.tail = e THEN p ELSE L.tail)
        /\ K.dfip = (IF L.dfip = e THEN p ELSE L.dfip)
    BY <1>2 DEF Unlink
  <2>4. K \in ListType
    BY <1>2, <2>1 DEF Unlink
  <2>5. /\ \A x \in Event : Linked(K, x) <=> (Linked(L, x) /\ x # e)
        /\ \A x \in Slot : InUse(K, x) <=> (InUse(L, x) /\ x # e)
    BY <1>2, <2>1, <2>2, <2>3 DEF WellFormed
  <2>6. \A x \in Event : Linked(K, x) => InUse(K, K.prv[x]) /\ K.nxt[K.prv[x]] = x
    BY <1>2, <2>1, <2>2, <2>3, <2>5 DEF WellFormed
  <2>7. \A x \in Event : ~Linked(K, x) => K.nxt[x] = Null
    BY <1>2, <2>1, <2>2, <2>3, <2>5 DEF WellFormed
  <2>8. \A x \in Slot : K.nxt[x] # Null => K.prv[K.nxt[x]] = x
    BY <1>2, <2>1, <2>2, <2>3, <2>5 DEF WellFormed
  <2>9. \A x \in Slot : InUse(K, x) => (K.nxt[x] = Null <=> x = K.tail)
    BY <1>2, <2>1, <2>2, <2>3, <2>5 DEF WellFormed
  <2>10. InUse(K, K.tail) /\ InUse(K, K.dfip)
    BY <1>2, <2>1, <2>2, <2>3, <2>4, <2>5 DEF WellFormed
  <2>11. AllReachable(K)
    <3> SUFFICES ASSUME NEW R \in SUBSET Slot, Follows(K, R),
                        NEW x \in Event, Linked(K, x)
                 PROVE  x \in R
      BY DEF AllReachable
    \* With e if p leads to it, without e if not, R follows the old pointers.
    <3> DEFINE S == IF p \in R THEN R \cup {e} ELSE R \ {e}
    <3>1. Follows(L, S) /\ S \in SUBSET Slot
      BY <2>1, <2>2, <2>3 DEF Follows, WellFormed
    <3> QED
      BY <2>5, <3>1 DEF WellFormed, AllReachable
  <2>12. IsEmpty(L) => IsEmpty(K)
    BY <2>1, <2>3, <2>2 DEF IsEmpty, WellFormed
  <2> QED
    BY <2>4, <2>5, <2>6, <2>7, <2>8, <2>9, <2>10, <2>11, <2>12 DEF WellFormed
<1> QED
  BY <1>1, <1>2

\* Moving the insert point back to the front.
LEMMA ResetWellFormed ==
  ASSUME NEW L \in ListType, WellFormed(L)
  PROVE  LET K == ResetInsertPoint(L)
         IN  /\ K \in ListType /\ WellFormed(K)
             /\ \A x \in Event : Linked(K, x) <=> Linked(L, x)
             /\ IsEmpty(K) <=> IsEmpty(L)
<1> DEFINE K == ResetInsertPoint(L)
<1>1. /\ K \in ListType
      /\ K.nxt = L.nxt /\ K.prv = L.prv /\ K.tail = L.tail /\ K.dfip = HeadSlot
  BY DEF ResetInsertPoint, ListType, Slot
<1> QED
  BY <1>1 DEF WellFormed, WellLinked, AllReachable, Follows, Linked, InUse, IsEmpty

\* turn() takes the front of a queue that is not empty: for the pointers this
\* is unlinking it and moving the insert point back.
LEMMA PopWellFormed ==
  ASSUME NEW L \in ListType, WellFormed(L), ~IsEmpty(L)
  PROVE  LET e == L.nxt[HeadSlot]
             K == PopFront(L)
         IN  /\ e \in Event /\ Linked(L, e)
             /\ K \in ListType /\ WellFormed(K)
             /\ \A x \in Event : Linked(K, x) <=> (Linked(L, x) /\ x # e)
<1> DEFINE e == L.nxt[HeadSlot]
<1> USE ListAssumption
<1>1. e \in Event /\ L.prv[e] = HeadSlot
  BY DEF IsEmpty, ListType, WellFormed, WellLinked, Slot
<1>2. PopFront(L) = ResetInsertPoint(Unlink(L, e))
  <2> DEFINE U == Unlink(L, e)
  <2>1. U = [nxt  |-> PopFront(L).nxt, prv |-> PopFront(L).prv,
             tail |-> PopFront(L).tail, dfip |-> U.dfip]
    BY <1>1 DEF PopFront, Unlink, Slot
  <2> HIDE DEF U
  <2>2. ResetInsertPoint(U) =
            [nxt  |-> PopFront(L).nxt, prv |-> PopFront(L).prv,
             tail |-> PopFront(L).tail, dfip |-> HeadSlot]
    BY <2>1 DEF ResetInsertPoint
  <2>3. QED
    BY <2>2 DEF U, PopFront
<1>3. Unlink(L, e) \in ListType /\ WellFormed(Unlink(L, e))
  BY <1>1, UnlinkWellFormed
<1> QED
  BY <1>1, <1>2, <1>3, UnlinkWellFormed, ResetWellFormed DEF Linked, Slot

-----------------------------------------------------------------------------
(* What queue the pointers stand for.                                      *)

\* The slot before the event at place i + 1.
SlotAt(Q, i) == IF i = 0 THEN HeadSlot ELSE Q.order[i]

\* The pointers say that the events of Q, and no others, are queued in the order of Q.
Chain(L, Q) ==
    /\ Q \in QP!QueueOf(Event) /\ QP!Distinct(Q)
    /\ \A e \in Event : Linked(L, e) <=> e \in QP!Queued(Q)
    /\ \A i \in 0 .. Len(Q.order) :
          L.nxt[SlotAt(Q, i)] = IF i = Len(Q.order) THEN Null ELSE Q.order[i + 1]
    /\ \A i \in 1 .. Len(Q.order) : L.prv[Q.order[i]] = SlotAt(Q, i - 1)

Represents(L, Q) ==
    /\ Chain(L, Q)
    /\ L.tail = SlotAt(Q, Len(Q.order))
    /\ L.dfip = SlotAt(Q, Q.ins)

LEMMA SlotFacts ==
  ASSUME NEW Q \in QP!QueueOf(Event), QP!Distinct(Q)
  PROVE  /\ \A i \in 0 .. Len(Q.order) : SlotAt(Q, i) \in Slot
         /\ \A i, j \in 0 .. Len(Q.order) : SlotAt(Q, i) = SlotAt(Q, j) => i = j
         /\ \A e \in Event : e \notin QP!Queued(Q) =>
               \A i \in 0 .. Len(Q.order) : SlotAt(Q, i) # e
<1>1. /\ Len(Q.order) \in Nat /\ DOMAIN Q.order = 1 .. Len(Q.order)
      /\ \A i \in 1 .. Len(Q.order) : Q.order[i] \in Event /\ Q.order[i] \in QP!Queued(Q)
  BY QP!QueueFacts
<1>2. \A i \in 0 .. Len(Q.order) : i # 0 => i \in 1 .. Len(Q.order)
  BY <1>1
<1> QED
  BY <1>1, <1>2, ListAssumption DEF SlotAt, Slot, QP!Distinct

\* Link() behind the k-th event.
LEMMA LinkChain ==
  ASSUME NEW L \in ListType, NEW Q, Chain(L, Q), NEW e \in Event, ~Linked(L, e),
         NEW k \in 0 .. Len(Q.order),
         NEW R \in QP!QueueOf(Event), QP!Distinct(R), QP!Queued(R) = QP!Queued(Q) \cup {e},
         Len(R.order) = Len(Q.order) + 1,
         \A j \in 1 .. Len(Q.order) + 1 :
             R.order[j] = IF j <= k THEN Q.order[j] ELSE IF j = k + 1 THEN e ELSE Q.order[j - 1]
  PROVE  Chain(Link(L, e, SlotAt(Q, k)), R)
<1> DEFINE s == SlotAt(Q, k)
           K == Link(L, e, s)
           n == Len(Q.order)
<1> USE ListAssumption
<1>1. /\ Q \in QP!QueueOf(Event) /\ QP!Distinct(Q) /\ e \notin QP!Queued(Q)
      /\ n \in Nat /\ k \in Nat /\ k <= n
      /\ \A i \in 1 .. n : Q.order[i] \in Event /\ Q.order[i] # e
  BY QP!QueueFacts DEF Chain
<1>2. /\ \A i \in 0 .. n : SlotAt(Q, i) \in Slot /\ SlotAt(Q, i) # e
      /\ \A i, j \in 0 .. n : SlotAt(Q, i) = SlotAt(Q, j) => i = j
  BY <1>1, SlotFacts
<1>3. s \in Slot /\ e \in Slot /\ s # e
  BY <1>1, <1>2 DEF Slot
<1>4. /\ \A i \in 0 .. n : L.nxt[SlotAt(Q, i)] = IF i = n THEN Null ELSE Q.order[i + 1]
      /\ \A i \in 1 .. n : L.prv[Q.order[i]] = SlotAt(Q, i - 1)
  BY DEF Chain
<1>5. /\ K.nxt[s] = e /\ K.nxt[e] = L.nxt[s]
      /\ \A x \in Slot \ {s, e} : K.nxt[x] = L.nxt[x]
      /\ \A x \in Event : K.prv[x] = IF x = L.nxt[s] THEN e ELSE IF x = e THEN s ELSE L.prv[x]
  BY <1>3 DEF Link, ListType, Slot
<1> HIDE DEF K
<1>6. /\ \A i \in 0 .. k : SlotAt(R, i) = SlotAt(Q, i)
      /\ SlotAt(R, k + 1) = e
      /\ \A i \in k + 2 .. n + 1 : SlotAt(R, i) = SlotAt(Q, i - 1)
  BY <1>1 DEF SlotAt
<1>7. L.nxt[s] = IF k = n THEN Null ELSE Q.order[k + 1]
  BY <1>1, <1>4
<1>8. \A x \in Event : Linked(K, x) <=> x \in QP!Queued(R)
  <2>1. \A x \in Event : x = L.nxt[s] => Linked(L, x)
    <3>1. k # n => k + 1 \in 1 .. n
      BY <1>1
    <3> QED
      BY <1>1, <1>7, <3>1, QP!QueueFacts DEF Chain
  <2> QED
    BY <1>3, <1>5, <2>1 DEF Chain, Linked, Slot
<1>9. ASSUME NEW i \in 0 .. n + 1
      PROVE  K.nxt[SlotAt(R, i)] = IF i = n + 1 THEN Null ELSE R.order[i + 1]
  <2>0. i \in Nat /\ i <= n + 1
    BY <1>1
  <2>1. CASE i < k
    <3>1. SlotAt(R, i) = SlotAt(Q, i) /\ i \in 0 .. n /\ i # n /\ i + 1 \in 1 .. n + 1
      BY <1>1, <1>6, <2>0, <2>1
    <3>2. SlotAt(Q, i) # s /\ SlotAt(Q, i) \in Slot \ {s, e}
      BY <1>1, <1>2, <2>1, <3>1
    <3>3. R.order[i + 1] = Q.order[i + 1]
      BY <1>1, <2>0, <2>1
    <3> QED  BY <1>1, <1>4, <1>5, <2>0, <2>1, <3>1, <3>2, <3>3
  <2>2. CASE i = k
    <3>1. SlotAt(R, i) = s /\ R.order[i + 1] = e /\ i # n + 1
      BY <1>1, <1>6, <2>0, <2>2
    <3> QED  BY <1>5, <3>1
  <2>3. CASE i = k + 1
    <3>1. SlotAt(R, i) = e
      BY <1>6, <2>3
    <3>2. i # n + 1 => R.order[i + 1] = Q.order[i]
      BY <1>1, <2>0, <2>3
    <3> QED  BY <1>1, <1>5, <1>7, <2>3, <3>1, <3>2
  <2>4. CASE i > k + 1
    <3>1. SlotAt(R, i) = SlotAt(Q, i - 1) /\ i - 1 \in 0 .. n /\ i - 1 # k
      BY <1>1, <1>6, <2>0, <2>4
    <3>2. SlotAt(Q, i - 1) \in Slot \ {s, e}
      BY <1>1, <1>2, <3>1
    <3>3. i # n + 1 => R.order[i + 1] = Q.order[i]
      BY <1>1, <2>0, <2>4
    <3>4. L.nxt[SlotAt(Q, i - 1)] = IF i - 1 = n THEN Null ELSE Q.order[i]
      <4>1. (i - 1) + 1 = i
        BY <2>0
      <4> QED  BY <1>4, <3>1, <4>1
    <3> QED  BY <1>1, <1>5, <2>0, <3>1, <3>2, <3>3, <3>4
  <2> QED  BY <1>1, <2>0, <2>1, <2>2, <2>3, <2>4
<1>10. ASSUME NEW i \in 1 .. n + 1
       PROVE  K.prv[R.order[i]] = SlotAt(R, i - 1)
  <2>0. i \in Nat /\ 1 <= i /\ i <= n + 1
    BY <1>1
  <2>1. CASE i <= k
    <3>1. R.order[i] = Q.order[i] /\ i \in 1 .. n /\ SlotAt(R, i - 1) = SlotAt(Q, i - 1)
      BY <1>1, <1>6, <2>0, <2>1
    <3>2. Q.order[i] # L.nxt[s]
      <4>1. k # n => Q.order[i] # Q.order[k + 1]
        BY <1>1, <2>0, <2>1, QP!QueueFacts DEF QP!Distinct
      <4>2. Q.order[i] # Null
        BY <1>1, <3>1
      <4> QED  BY <1>7, <4>1, <4>2
    <3>3. K.prv[Q.order[i]] = L.prv[Q.order[i]]
      BY <1>1, <1>5, <3>1, <3>2
    <3>4. L.prv[Q.order[i]] = SlotAt(Q, i - 1)
      BY <1>4, <3>1
    <3> QED  BY <3>1, <3>3, <3>4
  <2>2. CASE i = k + 1
    <3>1. R.order[i] = e /\ SlotAt(R, i - 1) = s
      BY <1>1, <1>6, <2>0, <2>2
    <3>2. e # L.nxt[s]
      <4>1. k # n => k + 1 \in 1 .. n
        BY <1>1
      <4> QED  BY <1>1, <1>7, <4>1
    <3> QED  BY <1>5, <3>1, <3>2
  <2>3. CASE i = k + 2
    <3>1. R.order[i] = Q.order[k + 1] /\ SlotAt(R, i - 1) = e /\ k # n /\ k + 1 \in 1 .. n
      BY <1>1, <1>6, <2>0, <2>3
    <3> QED  BY <1>1, <1>5, <1>7, <3>1
  <2>4. CASE i > k + 2
    <3>1. /\ R.order[i] = Q.order[i - 1] /\ i - 1 \in 1 .. n
          /\ SlotAt(R, i - 1) = SlotAt(Q, (i - 1) - 1)
      BY <1>1, <1>6, <2>0, <2>4
    <3>2. Q.order[i - 1] # L.nxt[s]
      <4>1. k # n => Q.order[i - 1] # Q.order[k + 1]
        BY <1>1, <2>0, <2>4, QP!QueueFacts DEF QP!Distinct
      <4>2. Q.order[i - 1] # Null
        BY <1>1, <3>1
      <4> QED  BY <1>7, <4>1, <4>2
    <3>3. K.prv[Q.order[i - 1]] = L.prv[Q.order[i - 1]]
      BY <1>1, <1>5, <3>1, <3>2
    <3>4. L.prv[Q.order[i - 1]] = SlotAt(Q, (i - 1) - 1)
      BY <1>4, <3>1
    <3> QED  BY <3>1, <3>3, <3>4
  <2> QED  BY <1>1, <2>0, <2>1, <2>2, <2>3, <2>4
<1> QED
  BY <1>8, <1>9, <1>10 DEF Chain, K

\* Unlink() of the k-th event.
LEMMA UnlinkChain ==
  ASSUME NEW L \in ListType, NEW Q, Chain(L, Q), NEW k \in 1 .. Len(Q.order),
         NEW R \in QP!QueueOf(Event), QP!Distinct(R),
         QP!Queued(R) = QP!Queued(Q) \ {Q.order[k]}, Len(R.order) = Len(Q.order) - 1,
         \A j \in 1 .. Len(Q.order) - 1 :
             R.order[j] = IF j < k THEN Q.order[j] ELSE Q.order[j + 1]
  PROVE  /\ Chain(Unlink(L, Q.order[k]), R)
         /\ Unlink(L, Q.order[k]).tail =
                IF L.tail = Q.order[k] THEN SlotAt(Q, k - 1) ELSE L.tail
         /\ Unlink(L, Q.order[k]).dfip =
                IF L.dfip = Q.order[k] THEN SlotAt(Q, k - 1) ELSE L.dfip
<1> DEFINE e == Q.order[k]
           p == SlotAt(Q, k - 1)
           K == Unlink(L, e)
           n == Len(Q.order)
<1> USE ListAssumption
<1>1. /\ Q \in QP!QueueOf(Event) /\ QP!Distinct(Q)
      /\ n \in Nat /\ k \in Nat /\ 1 <= k /\ k <= n /\ DOMAIN Q.order = 1 .. n
      /\ \A i \in 1 .. n : Q.order[i] \in Event
  BY QP!QueueFacts DEF Chain
<1>2. /\ \A i \in 0 .. n : SlotAt(Q, i) \in Slot
      /\ \A i, j \in 0 .. n : SlotAt(Q, i) = SlotAt(Q, j) => i = j
      /\ \A i \in 1 .. n : SlotAt(Q, i) = Q.order[i]
  BY <1>1, SlotFacts DEF SlotAt
<1>11. \A i, j \in 1 .. n : Q.order[i] = Q.order[j] => i = j
  BY <1>1 DEF QP!Distinct
<1>3. /\ e \in Event /\ e = SlotAt(Q, k) /\ p \in Slot /\ e \in Slot /\ p # e /\ p # Null
      /\ k - 1 \in 0 .. n
  BY <1>1, <1>2 DEF Slot
<1>4. /\ \A i \in 0 .. n : L.nxt[SlotAt(Q, i)] = IF i = n THEN Null ELSE Q.order[i + 1]
      /\ \A i \in 1 .. n : L.prv[Q.order[i]] = SlotAt(Q, i - 1)
  BY DEF Chain
<1>5. L.prv[e] = p /\ L.nxt[e] = IF k = n THEN Null ELSE Q.order[k + 1]
  BY <1>1, <1>3, <1>4
<1>6. /\ K.nxt[p] = L.nxt[e] /\ K.nxt[e] = Null
      /\ \A x \in Slot \ {p, e} : K.nxt[x] = L.nxt[x]
      /\ \A x \in Event : K.prv[x] = IF x = L.nxt[e] THEN p ELSE IF x = e THEN Null ELSE L.prv[x]
      /\ K.tail = (IF L.tail = e THEN p ELSE L.tail) /\ K.dfip = (IF L.dfip = e THEN p ELSE L.dfip)
  BY <1>3, <1>5 DEF Unlink, ListType, Slot
<1> HIDE DEF K
<1>7. /\ \A i \in 0 .. k - 1 : SlotAt(R, i) = SlotAt(Q, i)
      /\ \A i \in k .. n - 1 : SlotAt(R, i) = SlotAt(Q, i + 1)
  BY <1>1 DEF SlotAt
<1>8. \A x \in Event : Linked(K, x) <=> x \in QP!Queued(R)
  <2>1. \A x \in Event : x = L.nxt[e] => Linked(L, x) /\ x # e
    <3>1. k # n => k + 1 \in 1 .. n /\ Q.order[k + 1] \in QP!Queued(Q) /\ Q.order[k + 1] # e
      BY <1>1, QP!QueueFacts DEF QP!Distinct
    <3> QED
      BY <1>1, <1>5, <3>1 DEF Chain
  <2> QED
    BY <1>3, <1>6, <2>1 DEF Chain, Linked, Slot
<1>9. ASSUME NEW i \in 0 .. n - 1
      PROVE  K.nxt[SlotAt(R, i)] = IF i = n - 1 THEN Null ELSE R.order[i + 1]
  <2>0. i \in Nat /\ i <= n - 1 /\ i \in 0 .. n /\ i + 1 \in 0 .. n
    BY <1>1
  <2>1. CASE i < k - 1
    <3>1. SlotAt(R, i) = SlotAt(Q, i) /\ SlotAt(Q, i) \in Slot \ {p, e} /\ i # n - 1
      BY <1>1, <1>2, <1>3, <1>7, <2>0, <2>1
    <3>2. R.order[i + 1] = Q.order[i + 1]
      <4>1. i + 1 \in 1 .. n - 1 /\ i + 1 < k
        BY <1>1, <2>0, <2>1
      <4> QED  BY <4>1
    <3>3. L.nxt[SlotAt(Q, i)] = Q.order[i + 1]
      BY <1>1, <1>4, <2>0
    <3> QED  BY <1>6, <3>1, <3>2, <3>3
  <2>2. CASE i = k - 1
    <3>1. SlotAt(R, i) = p
      BY <1>1, <1>7, <2>0, <2>2
    <3>2. i # n - 1 => R.order[i + 1] = Q.order[k + 1]
      BY <1>1, <2>0, <2>2
    <3> QED  BY <1>1, <1>5, <1>6, <2>2, <3>1, <3>2
  <2>3. CASE i > k - 1
    <3>1. SlotAt(R, i) = SlotAt(Q, i + 1) /\ SlotAt(Q, i + 1) \in Slot \ {p, e}
      BY <1>1, <1>2, <1>3, <1>7, <2>0, <2>3
    <3>2. i # n - 1 => R.order[i + 1] = Q.order[(i + 1) + 1]
      <4>1. i # n - 1 => i + 1 \in 1 .. n - 1 /\ ~(i + 1 < k)
        BY <1>1, <2>0, <2>3
      <4> QED  BY <4>1
    <3>3. L.nxt[SlotAt(Q, i + 1)] = IF i + 1 = n THEN Null ELSE Q.order[(i + 1) + 1]
      BY <1>4, <2>0
    <3> QED  BY <1>1, <1>6, <2>0, <3>1, <3>2, <3>3
  <2> QED  BY <1>1, <2>0, <2>1, <2>2, <2>3
<1>10. ASSUME NEW i \in 1 .. n - 1
       PROVE  K.prv[R.order[i]] = SlotAt(R, i - 1)
  <2>0. i \in Nat /\ 1 <= i /\ i <= n - 1 /\ i \in 1 .. n /\ i + 1 \in 1 .. n
    BY <1>1
  <2>1. CASE i < k
    <3>1. R.order[i] = Q.order[i] /\ SlotAt(R, i - 1) = SlotAt(Q, i - 1)
      BY <1>1, <1>7, <2>0, <2>1
    <3>2. Q.order[i] # e /\ Q.order[i] # L.nxt[e]
      <4>0. i # k /\ i # k + 1 /\ k \in 1 .. n /\ (k # n => k + 1 \in 1 .. n)
        BY <1>1, <2>0, <2>1
      <4>1. k # n => Q.order[i] # Q.order[k + 1]
        BY <1>11, <2>0, <4>0
      <4>2. Q.order[i] # Null /\ Q.order[i] # e
        BY <1>1, <1>11, <2>0, <4>0
      <4> QED  BY <1>5, <4>1, <4>2
    <3>3. K.prv[Q.order[i]] = L.prv[Q.order[i]]
      BY <1>1, <1>6, <2>0, <3>2
    <3>4. L.prv[Q.order[i]] = SlotAt(Q, i - 1)
      BY <1>4, <2>0
    <3> QED  BY <3>1, <3>3, <3>4
  <2>2. CASE i = k
    <3>1. R.order[i] = Q.order[k + 1] /\ SlotAt(R, i - 1) = p /\ k # n
      <4>1. i - 1 \in 0 .. k - 1 /\ i - 1 = k - 1 /\ ~(i < k) /\ k # n
        BY <1>1, <2>0, <2>2
      <4> QED  BY <1>7, <2>2, <4>1
    <3>2. Q.order[k + 1] \in Event
      BY <1>1, <2>0, <2>2
    <3> QED  BY <1>5, <1>6, <3>1, <3>2
  <2>3. CASE i > k
    <3>1. R.order[i] = Q.order[i + 1] /\ SlotAt(R, i - 1) = SlotAt(Q, (i + 1) - 1)
      BY <1>1, <1>7, <2>0, <2>3
    <3>2. Q.order[i + 1] # e /\ Q.order[i + 1] # L.nxt[e]
      <4>0. i + 1 # k /\ i + 1 # k + 1 /\ k \in 1 .. n /\ (k # n => k + 1 \in 1 .. n)
        BY <1>1, <2>0, <2>3
      <4>1. k # n => Q.order[i + 1] # Q.order[k + 1]
        BY <1>11, <2>0, <4>0
      <4>2. Q.order[i + 1] # Null /\ Q.order[i + 1] # e
        BY <1>1, <1>11, <2>0, <4>0
      <4> QED  BY <1>5, <4>1, <4>2
    <3>3. K.prv[Q.order[i + 1]] = L.prv[Q.order[i + 1]]
      BY <1>1, <1>6, <2>0, <3>2
    <3>4. L.prv[Q.order[i + 1]] = SlotAt(Q, (i + 1) - 1)
      BY <1>4, <2>0
    <3> QED  BY <3>1, <3>3, <3>4
  <2> QED  BY <1>1, <2>0, <2>1, <2>2, <2>3
<1> QED
  BY <1>6, <1>8, <1>9, <1>10 DEF Chain, K

LEMMA EmptyRepresents == Represents(EmptyList, QP!Empty)
<1>1. /\ QP!Empty \in QP!QueueOf(Event) /\ QP!Distinct(QP!Empty) /\ QP!Queued(QP!Empty) = {}
      /\ QP!Empty.order = << >> /\ Len(QP!Empty.order) = 0 /\ QP!Empty.ins = 0
  BY QP!EmptyFacts DEF QP!Empty
<1> QED
  BY <1>1, EmptyWellFormed
     DEF Represents, Chain, SlotAt, EmptyList, Linked, Slot

\* armDepthFirst() and armBreadthFirst() of an event that is not queued.
LEMMA ArmRepresents ==
  ASSUME NEW L \in ListType, NEW Q, Represents(L, Q), NEW e \in Event, ~Linked(L, e)
  PROVE  /\ Represents(LinkDepthFirst(L, e), QP!DepthFirst(Q, e))
         /\ Represents(LinkBreadthFirst(L, e), QP!BreadthFirst(Q, e))
<1> DEFINE n == Len(Q.order)
<1>1. /\ Q \in QP!QueueOf(Event) /\ QP!Distinct(Q) /\ e \notin QP!Queued(Q)
      /\ n \in Nat /\ Q.ins \in 0 .. n /\ Q.ins \in Nat /\ n \in 0 .. n
  BY QP!QueueFacts DEF Represents, Chain
<1>2. L.dfip = SlotAt(Q, Q.ins) /\ L.tail = SlotAt(Q, n) /\ Chain(L, Q)
  BY DEF Represents
<1>3. Represents(LinkDepthFirst(L, e), QP!DepthFirst(Q, e))
  <2> DEFINE R == QP!DepthFirst(Q, e)
             M == Link(L, e, L.dfip)
             K == LinkDepthFirst(L, e)
  <2>1. /\ R \in QP!QueueOf(Event) /\ QP!Distinct(R)
        /\ QP!Queued(R) = QP!Queued(Q) \cup {e} /\ Len(R.order) = n + 1 /\ R.ins = Q.ins + 1
    BY <1>1, QP!DepthFirstFacts
  <2>2. \A j \in 1 .. n + 1 :
            R.order[j] = IF j <= Q.ins THEN Q.order[j]
                         ELSE IF j = Q.ins + 1 THEN e ELSE Q.order[j - 1]
    BY <1>1, QP!DepthFirstFacts
  <2> HIDE DEF R
  <2>3. Chain(M, R)
    BY <1>1, <1>2, <2>1, <2>2, LinkChain
  <2>4. /\ K.nxt = M.nxt /\ K.prv = M.prv /\ K.dfip = e
        /\ K.tail = IF L.tail = L.dfip THEN e ELSE L.tail
    BY DEF LinkDepthFirst, Link, ListType
  <2>5. Chain(K, R)
    BY <2>3, <2>4 DEF Chain, Linked
  <2>6. SlotAt(R, Q.ins + 1) = e
    BY <1>1, <2>2 DEF SlotAt
  <2>7. L.tail = L.dfip <=> Q.ins = n
    BY <1>1, <1>2, SlotFacts
  <2>8. SlotAt(R, n + 1) = IF Q.ins = n THEN e ELSE SlotAt(Q, n)
    BY <1>1, <2>2 DEF SlotAt
  <2> QED
    BY <1>2, <2>1, <2>4, <2>5, <2>6, <2>7, <2>8 DEF Represents, R
<1>4. Represents(LinkBreadthFirst(L, e), QP!BreadthFirst(Q, e))
  <2> DEFINE R == QP!BreadthFirst(Q, e)
             M == Link(L, e, L.tail)
             K == LinkBreadthFirst(L, e)
  <2>1. /\ R \in QP!QueueOf(Event) /\ QP!Distinct(R)
        /\ QP!Queued(R) = QP!Queued(Q) \cup {e} /\ Len(R.order) = n + 1 /\ R.ins = Q.ins
    BY <1>1, QP!BreadthFirstFacts
  <2>2. \A j \in 1 .. n + 1 : R.order[j] = IF j <= n THEN Q.order[j] ELSE e
    BY <1>1, QP!BreadthFirstFacts
  <2> HIDE DEF R
  <2>3. \A j \in 1 .. n + 1 :
            R.order[j] = IF j <= n THEN Q.order[j] ELSE IF j = n + 1 THEN e ELSE Q.order[j - 1]
    BY <1>1, <2>2
  <2>4. Chain(M, R)
    BY <1>1, <1>2, <2>1, <2>3, LinkChain
  <2>5. /\ K.nxt = M.nxt /\ K.prv = M.prv /\ K.dfip = L.dfip /\ K.tail = e
    BY DEF LinkBreadthFirst, Link, ListType
  <2>6. Chain(K, R)
    BY <2>4, <2>5 DEF Chain, Linked
  <2>7. SlotAt(R, n + 1) = e /\ SlotAt(R, Q.ins) = SlotAt(Q, Q.ins)
    BY <1>1, <2>2 DEF SlotAt
  <2> QED
    BY <1>2, <2>1, <2>5, <2>6, <2>7 DEF Represents, R
<1> QED
  BY <1>3, <1>4

\* ~Event(), of an event that may be queued.
LEMMA UnlinkRepresents ==
  ASSUME NEW L \in ListType, NEW Q, Represents(L, Q), NEW e \in Event
  PROVE  Represents(Unlink(L, e), QP!Drop(Q, e))
<1> DEFINE n == Len(Q.order)
<1>1. /\ Q \in QP!QueueOf(Event) /\ QP!Distinct(Q) /\ Chain(L, Q)
      /\ n \in Nat /\ Q.ins \in 0 .. n /\ Q.ins \in Nat /\ DOMAIN Q.order = 1 .. n
      /\ L.dfip = SlotAt(Q, Q.ins) /\ L.tail = SlotAt(Q, n)
  BY QP!QueueFacts DEF Represents, Chain
<1>2. CASE ~Linked(L, e)
  <2>1. Unlink(L, e) = L
    BY <1>2 DEF Unlink, Linked
  <2>2. QP!Drop(Q, e) = Q
    BY <1>1, <1>2 DEF QP!Drop, Chain
  <2> QED  BY <2>1, <2>2
<1>3. CASE Linked(L, e)
  <2>1. PICK k \in 1 .. n : Q.order[k] = e
    BY <1>1, <1>3 DEF Chain, QP!Queued
  <2> DEFINE R == QP!Drop(Q, e)
             K == Unlink(L, e)
  <2>2. /\ R \in QP!QueueOf(Event) /\ QP!Distinct(R)
        /\ QP!Queued(R) = QP!Queued(Q) \ {Q.order[k]} /\ Len(R.order) = n - 1
        /\ R.ins = IF k <= Q.ins THEN Q.ins - 1 ELSE Q.ins
    <3>1. LET r == QP!Drop(Q, Q.order[k])
          IN  /\ r \in QP!QueueOf(Event) /\ QP!Distinct(r)
              /\ r.ins = IF k <= Q.ins THEN Q.ins - 1 ELSE Q.ins
              /\ Len(r.order) = n - 1
              /\ QP!Queued(r) = QP!Queued(Q) \ {Q.order[k]}
      BY <1>1, QP!DropFacts
    <3> QED  BY <2>1, <3>1
  <2>3. \A j \in 1 .. n - 1 : R.order[j] = IF j < k THEN Q.order[j] ELSE Q.order[j + 1]
    BY <1>1, <2>1, QP!DropFacts
  <2> HIDE DEF R
  <2>4. /\ Chain(K, R)
        /\ K.tail = IF L.tail = e THEN SlotAt(Q, k - 1) ELSE L.tail
        /\ K.dfip = IF L.dfip = e THEN SlotAt(Q, k - 1) ELSE L.dfip
    <3>1. /\ Chain(Unlink(L, Q.order[k]), R)
          /\ Unlink(L, Q.order[k]).tail =
                IF L.tail = Q.order[k] THEN SlotAt(Q, k - 1) ELSE L.tail
          /\ Unlink(L, Q.order[k]).dfip =
                IF L.dfip = Q.order[k] THEN SlotAt(Q, k - 1) ELSE L.dfip
      BY <1>1, <2>2, <2>3, UnlinkChain
    <3> QED  BY <2>1, <3>1
  <2>5. /\ L.tail = e <=> n = k
        /\ L.dfip = e <=> Q.ins = k
    <3>1. SlotAt(Q, k) = e /\ k \in 0 .. n /\ n \in 0 .. n
      BY <1>1, <2>1 DEF SlotAt
    <3> QED  BY <1>1, <3>1, SlotFacts
  <2>6. SlotAt(R, n - 1) = IF n = k THEN SlotAt(Q, k - 1) ELSE SlotAt(Q, n)
    <3>0. ASSUME NEW m \in Nat, NEW j \in 1 .. m
          PROVE  /\ m - 1 # 0 => m - 1 \in 1 .. m - 1 /\ (m - 1) + 1 = m /\ (m - 1 < j <=> m = j)
                 /\ m - 1 = 0 => m = j /\ j - 1 = 0
      OBVIOUS
    <3>1. n - 1 # 0 => n - 1 \in 1 .. n - 1 /\ (n - 1) + 1 = n /\ (n - 1 < k <=> n = k)
      BY <1>1, <3>0
    <3>2. n - 1 = 0 => n = k /\ k - 1 = 0
      BY <1>1, <3>0
    <3> QED  BY <1>1, <2>3, <3>1, <3>2 DEF SlotAt
  <2>7. SlotAt(R, R.ins) = IF Q.ins = k THEN SlotAt(Q, k - 1) ELSE SlotAt(Q, Q.ins)
    BY <1>1, <2>2, <2>3 DEF SlotAt
  <2> QED
    BY <1>1, <2>2, <2>4, <2>5, <2>6, <2>7 DEF Represents, R
<1> QED
  BY <1>2, <1>3

\* turn() after the callback.
LEMMA ResetRepresents ==
  ASSUME NEW L \in ListType, NEW Q, Represents(L, Q)
  PROVE  Represents(ResetInsertPoint(L), QP!Rewind(Q))
<1> DEFINE K == ResetInsertPoint(L)
           R == QP!Rewind(Q)
<1>1. /\ K.nxt = L.nxt /\ K.prv = L.prv /\ K.tail = L.tail /\ K.dfip = HeadSlot
  BY DEF ResetInsertPoint, ListType
<1>2. /\ R \in QP!QueueOf(Event) /\ R.order = Q.order /\ R.ins = 0
      /\ QP!Distinct(R) /\ QP!Queued(R) = QP!Queued(Q)
  BY QP!RewindFacts DEF Represents, Chain
<1> HIDE DEF K, R
<1> QED
  BY <1>1, <1>2 DEF Represents, Chain, Linked, SlotAt, K, R

\* turn() before the callback.
LEMMA PopRepresents ==
  ASSUME NEW L \in ListType, NEW Q, Represents(L, Q), ~IsEmpty(L)
  PROVE  Q.order # << >> /\ Represents(PopFront(L), QP!Pop(Q))
<1> DEFINE n == Len(Q.order)
           e == L.nxt[HeadSlot]
           R == QP!Pop(Q)
           U == Unlink(L, e)
           K == PopFront(L)
<1>1. /\ Q \in QP!QueueOf(Event) /\ QP!Distinct(Q) /\ Chain(L, Q) /\ n \in Nat
      /\ DOMAIN Q.order = 1 .. n /\ Q.order \in Seq(Event)
      /\ L.tail = SlotAt(Q, n)
  BY QP!QueueFacts DEF Represents, Chain
<1>2. SlotAt(Q, 0) = HeadSlot
  BY DEF SlotAt
<1>3. n # 0 /\ Q.order # << >> /\ e = Q.order[1] /\ 1 \in 1 .. n
  BY <1>1, <1>2 DEF Chain, IsEmpty
<1>4. L.prv[e] = HeadSlot /\ e \in Event
  BY <1>1, <1>2, <1>3 DEF Chain
<1>5. /\ R \in QP!QueueOf(Event) /\ QP!Distinct(R)
      /\ QP!Queued(R) = QP!Queued(Q) \ {Q.order[1]} /\ Len(R.order) = n - 1 /\ R.ins = 0
      /\ \A j \in 1 .. n - 1 : R.order[j] = Q.order[j + 1]
  BY <1>1, <1>3, QP!PopFacts
<1> HIDE DEF R
<1>6. \A j \in 1 .. n - 1 : R.order[j] = IF j < 1 THEN Q.order[j] ELSE Q.order[j + 1]
  BY <1>1, <1>5
<1>7. /\ Chain(Unlink(L, Q.order[1]), R)
      /\ Unlink(L, Q.order[1]).tail = IF L.tail = Q.order[1] THEN SlotAt(Q, 1 - 1) ELSE L.tail
  BY <1>1, <1>3, <1>5, <1>6, UnlinkChain
<1>8. /\ K.nxt = U.nxt /\ K.prv = U.prv /\ K.tail = U.tail /\ K.dfip = HeadSlot
  BY <1>4, ListAssumption DEF PopFront, Unlink
<1>9. Chain(K, R)
  BY <1>3, <1>7, <1>8 DEF Chain, Linked
<1>10. K.tail = IF L.tail = e THEN HeadSlot ELSE L.tail
  BY <1>2, <1>3, <1>7, <1>8
<1>11. L.tail = e <=> n = 1
  <2>1. SlotAt(Q, 1) = e /\ 1 \in 0 .. n /\ n \in 0 .. n
    BY <1>1, <1>3 DEF SlotAt
  <2> QED  BY <1>1, <2>1, SlotFacts
<1>12. SlotAt(R, n - 1) = IF n = 1 THEN HeadSlot ELSE SlotAt(Q, n)
  <2>0. ASSUME NEW m \in Nat, m # 0, m # 1
        PROVE  m - 1 \in 1 .. m - 1 /\ (m - 1) + 1 = m /\ m - 1 # 0
    <3>1. m >= 2
      BY <2>0
    <3> QED  BY <3>1
  <2>1. n # 1 => n - 1 \in 1 .. n - 1 /\ (n - 1) + 1 = n /\ n - 1 # 0
    BY <1>1, <1>3, <2>0
  <2>2. n = 1 => SlotAt(R, n - 1) = HeadSlot
    BY DEF SlotAt
  <2>3. ASSUME n # 1
        PROVE  SlotAt(R, n - 1) = SlotAt(Q, n)
    BY <1>1, <1>3, <1>5, <2>1, <2>3 DEF SlotAt
  <2> QED  BY <2>2, <2>3
<1>13. K.tail = SlotAt(R, Len(R.order)) /\ K.dfip = SlotAt(R, R.ins)
  BY <1>1, <1>5, <1>8, <1>10, <1>11, <1>12 DEF SlotAt
<1> QED
  BY <1>3, <1>9, <1>13 DEF Represents, R

LEMMA CountTo == ASSUME NEW n \in Nat  PROVE Cardinality(1 .. n) = n
<1>1. 1 \in Int /\ n \in Int
  OBVIOUS
<1>2. Cardinality(1 .. n) = IF 1 > n THEN 0 ELSE n - 1 + 1
  BY <1>1, FS_Interval
<1> QED  BY <1>2

\* Walk(L) solves its equation, whose only solution is given by the queue.
LEMMA WalkFacts ==
  ASSUME NEW L \in ListType, NEW Q, Chain(L, Q), Len(Q.order) <= Cardinality(Event)
  PROVE  \A i \in 0 .. Cardinality(Event) :
             Walk(L)[i] = IF i <= Len(Q.order) THEN SlotAt(Q, i) ELSE Null
<1> DEFINE N == Cardinality(Event)
           D == 0 .. N
           n == Len(Q.order)
           w == Walk(L)
           g == [i \in D |-> IF i <= n THEN SlotAt(Q, i) ELSE Null]
           step(f, i) == IF i = 0 THEN HeadSlot
                         ELSE IF f[i - 1] = Null THEN Null ELSE L.nxt[f[i - 1]]
<1>1. /\ N \in Nat /\ n \in Nat /\ n <= N
      /\ Q \in QP!QueueOf(Event) /\ QP!Distinct(Q)
  BY FiniteEvents, FS_CardinalityType, QP!QueueFacts DEF Chain
<1>2. \A i \in 0 .. n : SlotAt(Q, i) \in Slot
  BY <1>1, SlotFacts
<1>3. g = [i \in D |-> step(g, i)]
  <2>1. ASSUME NEW i \in D  PROVE g[i] = step(g, i)
    <3>1. i \in Nat /\ i <= N
      BY <1>1
    <3>2. CASE i = 0
      BY <1>1, <3>1, <3>2 DEF SlotAt
    <3>3. ASSUME i # 0 PROVE g[i] = step(g, i)
      <4>1. i - 1 \in D /\ i - 1 >= 0
        BY <1>1, <3>1, <3>3
      <4>2. g[i - 1] = IF i - 1 <= n THEN SlotAt(Q, i - 1) ELSE Null
        BY <4>1
      <4>3. CASE i - 1 <= n
        <5>0. i - 1 \in 0 .. n
          BY <1>1, <4>1, <4>3
        <5>1. g[i - 1] = SlotAt(Q, i - 1) /\ SlotAt(Q, i - 1) # Null
          BY <1>2, <4>2, <4>3, <5>0, ListAssumption DEF Slot
        <5>2. L.nxt[SlotAt(Q, i - 1)] = IF i - 1 = n THEN Null ELSE Q.order[(i - 1) + 1]
          BY <5>0 DEF Chain
        <5>3. i - 1 # n <=> i <= n
          BY <1>1, <3>1, <4>3
        <5>4. (i - 1) + 1 = i
          BY <3>1
        <5>5. g[i] = IF i <= n THEN Q.order[i] ELSE Null
          BY <3>3 DEF SlotAt
        <5>6. step(g, i) = L.nxt[SlotAt(Q, i - 1)]
          BY <3>3, <5>1
        <5> HIDE DEF g, step
        <5> QED  BY <5>2, <5>3, <5>4, <5>5, <5>6
      <4>4. CASE ~(i - 1 <= n)
        <5>1. ~(i <= n)
          BY <1>1, <3>1, <4>4
        <5> QED  BY <3>3, <4>2, <4>4, <5>1
      <4> QED  BY <4>3, <4>4
    <3> QED  BY <3>2, <3>3
  <2>2. g = [i \in D |-> g[i]]
    OBVIOUS
  <2> HIDE DEF g, step
  <2> QED  BY <2>1, <2>2
<1>4. w = CHOOSE f : f = [i \in D |-> step(f, i)]
  BY DEF Walk
<1> HIDE DEF g, step, w
<1>5. w = [i \in D |-> step(w, i)]
  BY <1>3, <1>4
<1> DEFINE T == {i \in Nat : i <= N => w[i] = g[i]}
<1>6. 0 \in T
  BY <1>1, <1>3, <1>5 DEF step
<1>7. ASSUME NEW i \in Nat, i \in T  PROVE i + 1 \in T
  <2> SUFFICES ASSUME i + 1 <= N  PROVE w[i + 1] = g[i + 1]
    OBVIOUS
  <2>1. i + 1 \in D /\ i + 1 # 0 /\ (i + 1) - 1 = i /\ w[i] = g[i]
    BY <1>1, <1>7
  <2>2. w[i + 1] = step(w, i + 1) /\ g[i + 1] = step(g, i + 1)
    BY <1>3, <1>5, <2>1
  <2> QED  BY <2>1, <2>2 DEF step
<1> HIDE DEF T
<1>8. \A i \in Nat : i \in T
  BY <1>6, <1>7, QP!Induction
<1>9. \A i \in D : w[i] = g[i]
  BY <1>1, <1>8 DEF T
<1> QED
  BY <1>9 DEF g, w

\* The list stands for one queue only.
LEMMA RepresentsAsQueue ==
  ASSUME NEW L \in ListType, NEW Q, Represents(L, Q)
  PROVE  AsQueue(L) = Q
<1> DEFINE N == Cardinality(Event)
           n == Len(Q.order)
           w == Walk(L)
           I == {i \in 1 .. N : w[i] # Null}
           m == Cardinality(I)
           c == CHOOSE i \in 0 .. m : w[i] = L.dfip
<1>1. /\ Chain(L, Q) /\ Q \in QP!QueueOf(Event) /\ QP!Distinct(Q)
      /\ n \in Nat /\ N \in Nat /\ Q.order \in Seq(Event) /\ DOMAIN Q.order = 1 .. n
      /\ Q.ins \in 0 .. n /\ L.dfip = SlotAt(Q, Q.ins)
  BY FiniteEvents, FS_CardinalityType, QP!QueueFacts DEF Represents, Chain
<1>2. n <= N
  <2>1. Q.order \in Injection(1 .. n, Event)
    <3>1. Q.order \in [1 .. n -> Event] /\ \A i, j \in 1 .. n : Q.order[i] = Q.order[j] => i = j
      BY <1>1 DEF QP!Distinct
    <3> QED  BY <3>1 DEF Injection, IsInjective
  <2>2. Cardinality(1 .. n) <= N
    BY <2>1, FiniteEvents, FS_Injection
  <2>3. Cardinality(1 .. n) = n
    BY <1>1, CountTo
  <2> QED  BY <2>2, <2>3
<1>3. \A i \in 0 .. N : w[i] = IF i <= n THEN SlotAt(Q, i) ELSE Null
  BY <1>1, <1>2, WalkFacts
<1>4. /\ \A i \in 0 .. n : SlotAt(Q, i) \in Slot /\ SlotAt(Q, i) # Null
      /\ \A i, j \in 0 .. n : SlotAt(Q, i) = SlotAt(Q, j) => i = j
      /\ \A i \in 1 .. n : SlotAt(Q, i) = Q.order[i]
  <2>1. \A i \in 1 .. n : SlotAt(Q, i) = Q.order[i]
    BY <1>1 DEF SlotAt
  <2> QED  BY <1>1, <2>1, SlotFacts, ListAssumption DEF Slot
<1>5. AsQueue(L) = [order |-> [i \in 1 .. m |-> w[i]], ins |-> c]
  BY DEF AsQueue
<1> HIDE DEF w
<1>6. I = 1 .. n
  <2>1. \A i \in 1 .. N : i \in 0 .. N /\ (i <= n => i \in 0 .. n)
    BY <1>1
  <2>2. \A i \in 1 .. N : w[i] # Null <=> i <= n
    BY <1>3, <1>4, <2>1
  <2> QED  BY <1>1, <1>2, <2>2
<1> HIDE DEF I
<1>7. m = n
  BY <1>1, <1>6, CountTo
<1>8. [i \in 1 .. m |-> w[i]] = Q.order
  <2>1. \A i \in 1 .. n : w[i] = Q.order[i]
    BY <1>1, <1>2, <1>3, <1>4
  <2>2. Q.order = [i \in 1 .. n |-> Q.order[i]]
    BY <1>1
  <2> QED  BY <1>7, <2>1, <2>2
<1>9. c = Q.ins
  <2>1. \A i \in 0 .. n : w[i] = SlotAt(Q, i)
    BY <1>1, <1>2, <1>3
  <2>2. \A i \in 0 .. n : w[i] = L.dfip <=> i = Q.ins
    BY <1>1, <1>4, <2>1
  <2> QED  BY <1>1, <1>7, <2>2
<1>10. Q = [order |-> Q.order, ins |-> Q.ins]
  BY <1>1, QP!QueueFacts
<1> HIDE DEF m, c
<1> QED
  BY <1>5, <1>8, <1>9, <1>10

-----------------------------------------------------------------------------
(***************************************************************************)
(* The inductive invariant.  FramesOK is what the properties lack: which   *)
(* frames carry which fields, and that ending one frame, or destroying the *)
(* event that it fires, never takes the doneEvent of another wait away.    *)
(***************************************************************************)
FrameOK(f) ==
    /\ f.kind = "wait" => f.left = Unlimited
    /\ f.at = "fire" => f.event \in Event

FramesOK ==
    /\ \A i \in DOMAIN stack : FrameOK(stack[i])
    /\ \A i, j \in DOMAIN stack :
           i # j /\ stack[i].done = stack[j].done => stack[i].done = Null
    /\ \A i, j \in DOMAIN stack :
           j <= i /\ stack[i].at = "fire" => stack[j].done # stack[i].event

IInv ==
    /\ TypeOK
    /\ WellFormed(list)
    /\ FramesOK
    /\ OnlyLiveQueued
    /\ WorkIsAnnounced
    /\ IdleNotRunning

LEMMA InitIInv == Init => IInv
<1> SUFFICES ASSUME Init  PROVE IInv
  OBVIOUS
<1>1. stack = << >> /\ stack \in Seq(Frame) /\ DOMAIN stack = {}
  BY DEF Init
<1>2. TypeOK
  BY <1>1, EmptyWellFormed DEF Init, TypeOK
<1>3. FramesOK /\ OnlyLiveQueued /\ IdleNotRunning
  BY <1>1, EmptyWellFormed DEF Init, FramesOK, OnlyLiveQueued, IdleNotRunning, Busy
<1>4. WorkIsAnnounced /\ WellFormed(list)
  BY EmptyWellFormed DEF Init, WorkIsAnnounced
<1> QED
  BY <1>2, <1>3, <1>4 DEF IInv

\* A step that leaves stack and running alone and queues only live events.
LEMMA StepOfUser ==
  ASSUME IInv, UNCHANGED << running, stack >>,
         list' \in ListType, WellFormed(list'),
         alive' \subseteq Event, firing' \subseteq Event,
         lastRunnable' \in BOOLEAN,
         \A e \in Event : Linked(list', e) => e \in alive',
         \A i \in DOMAIN stack : stack[i].done \in alive' \cup {Null},
         ~IsEmpty(list') => lastRunnable'
  PROVE  IInv'
  BY DEF IInv, TypeOK, FramesOK, FrameOK, OnlyLiveQueued, WorkIsAnnounced,
         IdleNotRunning, Busy

LEMMA UserKeepsIInv ==
  ASSUME IInv, NEW e \in Event
  PROVE  /\ Construct(e) => IInv'
         /\ ArmDepthFirst(e) => IInv'
         /\ ArmBreadthFirst(e) => IInv'
         /\ Destroy(e) => IInv'
<1> USE DEF IInv, TypeOK, OnlyLiveQueued, WorkIsAnnounced
<1>1. CASE Construct(e)
  BY <1>1, StepOfUser DEF Construct
<1>2. CASE ArmDepthFirst(e)
  BY <1>2, StepOfUser, DepthFirstWellFormed DEF ArmDepthFirst
<1>3. CASE ArmBreadthFirst(e)
  BY <1>3, StepOfUser, BreadthFirstWellFormed DEF ArmBreadthFirst
<1>4. CASE Destroy(e)
  BY <1>4, StepOfUser, UnlinkWellFormed DEF Destroy, IsDone
<1> QED
  BY <1>1, <1>2, <1>3, <1>4

\* What a step that changes the last frame, or adds or removes one, has to
\* show of the queue and of the objects.
QueueOK(L, live) ==
    /\ L \in ListType /\ WellFormed(L)
    /\ live \subseteq Event
    /\ \A e \in Event : Linked(L, e) => e \in live

\* Changing the last frame, but not its doneEvent.
LEMMA SetTop ==
  ASSUME IInv, Busy, NEW f \in Frame, FrameOK(f), f.done = Top.done,
         stack' = [stack EXCEPT ![Depth] = f],
         f.at = "fire" => \A j \in DOMAIN stack : stack[j].done # f.event,
         UNCHANGED running, QueueOK(list', alive'),
         \A i \in DOMAIN stack : stack[i].done \in alive' \cup {Null},
         firing' \subseteq Event, lastRunnable' \in BOOLEAN,
         ~IsEmpty(list') => lastRunnable'
  PROVE  IInv'
<1> USE DEF QueueOK
<1>1. /\ stack \in Seq(Frame) /\ Depth \in DOMAIN stack /\ Depth \in Nat
      /\ DOMAIN stack = 1 .. Depth
  BY DEF IInv, TypeOK, Busy, Depth
<1>2. /\ stack' \in Seq(Frame) /\ DOMAIN stack' = DOMAIN stack
      /\ \A i \in DOMAIN stack : stack'[i] = IF i = Depth THEN f ELSE stack[i]
      /\ \A i \in DOMAIN stack : stack'[i].done = stack[i].done
      /\ stack' # << >>
  BY <1>1 DEF Top
<1>3. TypeOK'
  BY <1>2 DEF IInv, TypeOK
<1>4. FramesOK'
  BY <1>1, <1>2 DEF IInv, FramesOK, FrameOK
<1>5. OnlyLiveQueued' /\ WorkIsAnnounced' /\ IdleNotRunning' /\ WellFormed(list')
  BY <1>2 DEF OnlyLiveQueued, WorkIsAnnounced, IdleNotRunning, Busy
<1> QED
  BY <1>3, <1>4, <1>5 DEF IInv

\* Entering run() or waitImpl().
LEMMA PushFrame ==
  ASSUME IInv, NEW f \in Frame, FrameOK(f), f.at # "fire",
         stack' = Append(stack, f), running' = TRUE, QueueOK(list', alive'),
         alive \subseteq alive', f.done \in (alive' \ alive) \cup {Null},
         firing' \subseteq Event, lastRunnable' \in BOOLEAN,
         ~IsEmpty(list') => lastRunnable'
  PROVE  IInv'
<1> USE DEF QueueOK
<1>1. /\ stack \in Seq(Frame) /\ Depth \in Nat /\ DOMAIN stack = 1 .. Depth
      /\ stack' \in Seq(Frame) /\ DOMAIN stack' = 1 .. Depth + 1
      /\ \A i \in DOMAIN stack : stack'[i] = stack[i]
      /\ stack'[Depth + 1] = f
      /\ stack' # << >>
  BY DEF IInv, TypeOK, Depth
<1>2. \A i \in DOMAIN stack : stack[i].done \in alive \cup {Null}
  BY DEF IInv, OnlyLiveQueued
<1>3. TypeOK'
  BY <1>1 DEF IInv, TypeOK
<1>4. \A i \in DOMAIN stack' : i \in DOMAIN stack \/ i = Depth + 1
  BY <1>1
<1>5. FramesOK'
  BY <1>1, <1>2, <1>4 DEF IInv, FramesOK, FrameOK
<1>6. OnlyLiveQueued'
  BY <1>1, <1>2, <1>4 DEF OnlyLiveQueued
<1>7. WorkIsAnnounced' /\ IdleNotRunning' /\ WellFormed(list')
  BY <1>1 DEF WorkIsAnnounced, IdleNotRunning, Busy
<1> QED
  BY <1>3, <1>5, <1>6, <1>7 DEF IInv

\* Leaving run() or waitImpl(), normally or not.
LEMMA PopFrameKeepsIInv ==
  ASSUME IInv, Busy, NEW L, NEW live, QueueOK(L, live), PopFrame(L, live),
         \A i \in DOMAIN stack : stack[i].done \in live \cup {Null},
         firing' \subseteq Event, lastRunnable' \in BOOLEAN,
         ~IsEmpty(L) => lastRunnable'
  PROVE  IInv'
<1> USE DEF QueueOK
<1> DEFINE d == Top.done
<1>1. /\ stack \in Seq(Frame) /\ Depth \in DOMAIN stack /\ Depth \in Nat
      /\ DOMAIN stack = 1 .. Depth
  BY DEF IInv, TypeOK, Busy, Depth
<1>2. /\ stack' \in Seq(Frame) /\ DOMAIN stack' = 1 .. Depth - 1
      /\ \A i \in DOMAIN stack' : i \in DOMAIN stack /\ stack'[i] = stack[i]
  BY <1>1 DEF PopFrame, Front, Depth
<1>3. d \in Event \cup {Null}
  BY <1>1 DEF Top, Frame
<1>4. \A i \in DOMAIN stack' : stack[i].done = d => d = Null
  BY <1>1, <1>2 DEF IInv, FramesOK, Top
<1>5. QueueOK(list', alive') /\ (~IsEmpty(list') => ~IsEmpty(L))
  BY <1>3, UnlinkWellFormed, ListAssumption DEF PopFrame
<1>6. TypeOK'
  BY <1>2, <1>5 DEF IInv, TypeOK, PopFrame
<1>7. FramesOK'
  BY <1>1, <1>2 DEF IInv, FramesOK, FrameOK
<1>8. \A i \in DOMAIN stack' : stack'[i].done \in alive' \cup {Null}
  BY <1>2, <1>4 DEF PopFrame
<1> QED
  BY <1>5, <1>6, <1>7, <1>8
     DEF IInv, OnlyLiveQueued, WorkIsAnnounced, IdleNotRunning, PopFrame

LEMMA CallsKeepIInv ==
  ASSUME IInv
  PROVE  /\ \A n \in TurnCounts : Run(n) => IInv'
         /\ \A d \in Event, ready \in BOOLEAN : Wait(d, ready) => IInv'
<1> USE LoopAssumption, ListAssumption
<1>1. ASSUME NEW n \in TurnCounts, Run(n)  PROVE IInv'
  <2>1. RunFrame(n) \in Frame /\ FrameOK(RunFrame(n)) /\ RunFrame(n).at # "fire"
        /\ RunFrame(n).done = Null
    BY DEF RunFrame, Frame, FrameOK, Kinds, Places
  <2>2. QueueOK(list', alive') /\ (~IsEmpty(list') => lastRunnable')
    BY <1>1 DEF Run, IInv, TypeOK, OnlyLiveQueued, QueueOK, WorkIsAnnounced
  <2> QED
    BY <1>1, <2>1, <2>2, PushFrame DEF Run, IInv, TypeOK
<1>2. ASSUME NEW d \in Event, NEW ready \in BOOLEAN, Wait(d, ready)  PROVE IInv'
  <2>1. WaitFrame(d) \in Frame /\ FrameOK(WaitFrame(d)) /\ WaitFrame(d).at # "fire"
        /\ WaitFrame(d).done = d
    BY DEF WaitFrame, Frame, FrameOK, Kinds, Places
  <2>2. ~Linked(list, d)
    BY <1>2 DEF Wait, IInv, OnlyLiveQueued
  <2>3. QueueOK(list', alive')
    BY <1>2, <2>2, BreadthFirstWellFormed
       DEF Wait, IInv, TypeOK, OnlyLiveQueued, QueueOK
  <2>4. /\ lastRunnable' \in BOOLEAN
        /\ ~IsEmpty(list') => lastRunnable'
        /\ firing' \subseteq Event
    BY <1>2 DEF Wait, IInv, TypeOK, WorkIsAnnounced
  <2> QED
    BY <1>2, <2>1, <2>3, <2>4, PushFrame DEF Wait
<1> QED
  BY <1>1, <1>2

LEMMA TurnKeepsIInv == IInv /\ Turn => IInv'
<1> SUFFICES ASSUME IInv, Turn  PROVE IInv'
  OBVIOUS
<1> DEFINE e == list.nxt[HeadSlot]
           g == CountTurn(Top)
           f == [g EXCEPT !.at = "fire", !.event = e]
<1>1. /\ list \in ListType /\ WellFormed(list) /\ ~IsEmpty(list)
      /\ e \in Event /\ Linked(list, e) /\ QueueOK(list', alive')
  BY PopWellFormed DEF IInv, TypeOK, Turn, QueueOK, OnlyLiveQueued
<1>2. Busy /\ Depth \in DOMAIN stack /\ Top \in Frame /\ FrameOK(Top)
  BY DEF Turn, WantsTurn, At, Busy, Depth, IInv, TypeOK, Top, FramesOK
<1>3. Top.left \in (Nat \ {0}) \cup {Unlimited}
  BY <1>2 DEF Turn, WantsTurn, At, Frame, FrameOK
<1>4. g \in Frame /\ g.done = Top.done /\ g.kind = Top.kind
      /\ (g.kind = "wait" => g.left = Unlimited)
  BY <1>2, <1>3, LoopAssumption DEF CountTurn, Frame, FrameOK
<1> HIDE DEF g
<1>5. f \in Frame /\ f.done = Top.done /\ FrameOK(f) /\ f.event = e
  BY <1>1, <1>4 DEF Frame, FrameOK, Places
<1>6. stack' = [stack EXCEPT ![Depth] = f]
  BY <1>2 DEF Turn, g, Top
<1>7. \A j \in DOMAIN stack : stack[j].done # e
  BY DEF Turn, IsDone
<1>8. /\ firing' \subseteq Event /\ lastRunnable' \in BOOLEAN
      /\ UNCHANGED running /\ lastRunnable'
      /\ \A i \in DOMAIN stack : stack[i].done \in alive' \cup {Null}
  BY <1>1 DEF Turn, IInv, TypeOK, OnlyLiveQueued, WorkIsAnnounced
<1> HIDE DEF f, e
<1> QED
  BY <1>1, <1>2, <1>5, <1>6, <1>7, <1>8, SetTop

\* BoolEvent::fire marks a wait somewhere on the stack.
LEMMA TurnDoneKeepsIInv == IInv /\ TurnDone => IInv'
<1> SUFFICES ASSUME IInv, TurnDone  PROVE IInv'
  OBVIOUS
<1> DEFINE e == list.nxt[HeadSlot]
           g(i) == IF i = Depth THEN CountTurn(stack[i]) ELSE stack[i]
           f(i) == [g(i) EXCEPT !.fired = @ \/ stack[i].done = e]
<1>1. /\ e \in Event /\ QueueOK(list', alive') /\ ~IsEmpty(list)
  BY PopWellFormed DEF IInv, TypeOK, TurnDone, QueueOK, OnlyLiveQueued
<1>2. Busy /\ Depth \in DOMAIN stack /\ Top \in Frame /\ FrameOK(Top)
  BY DEF TurnDone, WantsTurn, At, Busy, Depth, IInv, TypeOK, Top, FramesOK
<1>3. Top.left \in (Nat \ {0}) \cup {Unlimited}
  BY <1>2 DEF TurnDone, WantsTurn, At, Frame, FrameOK
<1>4. ASSUME NEW i \in DOMAIN stack
      PROVE  /\ g(i) \in Frame /\ FrameOK(g(i))
             /\ g(i).done = stack[i].done /\ g(i).at = stack[i].at
             /\ g(i).event = stack[i].event
  <2>1. stack[i] \in Frame /\ FrameOK(stack[i])
    BY DEF IInv, TypeOK, FramesOK
  <2> QED
    BY <1>2, <1>3, <2>1, LoopAssumption DEF CountTurn, Frame, FrameOK, Top
<1> HIDE DEF g
<1>5. ASSUME NEW i \in DOMAIN stack
      PROVE  /\ f(i) \in Frame /\ FrameOK(f(i))
             /\ f(i).done = stack[i].done /\ f(i).at = stack[i].at
             /\ f(i).event = stack[i].event
  BY <1>4 DEF Frame, FrameOK
<1>6. stack' = [i \in DOMAIN stack |-> f(i)]
  BY DEF TurnDone, g
<1> HIDE DEF f
<1>7. /\ stack' \in Seq(Frame) /\ DOMAIN stack' = DOMAIN stack /\ stack' # << >>
      /\ \A i \in DOMAIN stack : stack'[i] = f(i)
  <2>1. /\ stack \in Seq(Frame) /\ Depth \in Nat /\ DOMAIN stack = 1 .. Depth
        /\ Depth # 0
    BY <1>2 DEF IInv, TypeOK, Depth
  <2>2. stack' = [i \in 1 .. Depth |-> f(i)]
    BY <1>6, <2>1
  <2>3. \A i \in 1 .. Depth : f(i) \in Frame
    BY <1>5, <2>1
  <2>4. stack' \in Seq(Frame)
    BY <2>1, <2>2, <2>3, IsASeq
  <2>5. DOMAIN stack' = 1 .. Depth /\ \A i \in 1 .. Depth : stack'[i] = f(i)
    BY <2>2
  <2>6. stack' # << >>
    BY <2>1, <2>5
  <2> QED
    BY <2>1, <2>4, <2>5, <2>6
<1>8. TypeOK'
  BY <1>1, <1>7 DEF IInv, TypeOK, TurnDone, QueueOK
<1>9. FramesOK'
  BY <1>5, <1>7 DEF IInv, FramesOK
<1>10. OnlyLiveQueued'
  <2>1. UNCHANGED alive
    BY DEF TurnDone
  <2>2. \A i \in DOMAIN stack : stack'[i].done \in alive' \cup {Null}
    BY <1>5, <1>7, <2>1 DEF IInv, OnlyLiveQueued
  <2> QED
    BY <1>1, <1>7, <2>2 DEF OnlyLiveQueued, QueueOK
<1>11. WellFormed(list') /\ WorkIsAnnounced' /\ IdleNotRunning'
  BY <1>1, <1>7 DEF IInv, WorkIsAnnounced, IdleNotRunning, Busy, TurnDone, QueueOK
<1> QED
  BY <1>8, <1>9, <1>10, <1>11 DEF IInv

\* The event of the last frame, when that is in fire().
LEMMA FiredEvent ==
  ASSUME IInv, Busy, Top.at = "fire"
  PROVE  /\ Depth \in DOMAIN stack /\ Top \in Frame /\ FrameOK(Top)
         /\ Top.event \in Event
         /\ \A j \in DOMAIN stack : stack[j].done # Top.event
  BY DEF IInv, TypeOK, FramesOK, FrameOK, Busy, Depth, Top

LEMMA FireReturnKeepsIInv ==
  ASSUME IInv, NEW returnsSelf \in BOOLEAN, FireReturn(returnsSelf)
  PROVE  IInv'
<1> DEFINE e == Top.event
           r == ResetInsertPoint(list)
           f == [Top EXCEPT !.at = "loop", !.event = Null]
<1>1. /\ Busy /\ Top.at = "fire" /\ Depth \in DOMAIN stack /\ Top \in Frame
      /\ FrameOK(Top) /\ e \in Event /\ \A j \in DOMAIN stack : stack[j].done # e
  BY FiredEvent DEF FireReturn
<1>2. f \in Frame /\ FrameOK(f) /\ f.done = Top.done /\ f.at # "fire"
  BY <1>1 DEF Frame, FrameOK, Places
<1>3. stack' = [stack EXCEPT ![Depth] = f]
  BY <1>1 DEF FireReturn, Top
<1>4. /\ r \in ListType /\ WellFormed(r)
      /\ \A x \in Event : Linked(r, x) => x \in alive
      /\ IsEmpty(r) <=> IsEmpty(list)
  BY ResetWellFormed DEF IInv, TypeOK, OnlyLiveQueued
<1> HIDE DEF f, r
<1>5. QueueOK(list', alive') /\ (~IsEmpty(list') => ~IsEmpty(list))
  BY <1>1, <1>4, UnlinkWellFormed DEF FireReturn, QueueOK, IInv, TypeOK, r
<1>6. /\ firing' \subseteq Event /\ lastRunnable' \in BOOLEAN /\ UNCHANGED running
      /\ ~IsEmpty(list') => lastRunnable'
      /\ \A i \in DOMAIN stack : stack[i].done \in alive' \cup {Null}
  BY <1>1, <1>5 DEF FireReturn, IInv, TypeOK, OnlyLiveQueued, WorkIsAnnounced
<1> QED
  BY <1>1, <1>2, <1>3, <1>5, <1>6, SetTop

LEMMA ThrowKeepsIInv == IInv /\ FireThrow => IInv'
<1> SUFFICES ASSUME IInv, FireThrow  PROVE IInv'
  OBVIOUS
<1>1. Busy /\ Top.at = "fire" /\ firing' \subseteq Event /\ lastRunnable' \in BOOLEAN
  BY DEF FireThrow, IInv, TypeOK
<1> QED
  BY <1>1, PopFrameKeepsIInv
     DEF FireThrow, IInv, TypeOK, OnlyLiveQueued, WorkIsAnnounced, QueueOK

LEMMA ReturnKeepsIInv == IInv /\ (RunReturn \/ PortThrow \/ WaitReturn) => IInv'
<1> SUFFICES ASSUME IInv, RunReturn \/ PortThrow \/ WaitReturn  PROVE IInv'
  OBVIOUS
<1>1. QueueOK(list, alive) /\ Busy /\ PopFrame(list, alive)
  BY DEF QueueOK, IInv, TypeOK, OnlyLiveQueued, RunReturn, PortThrow, WaitReturn, At
<1>2. /\ firing' \subseteq Event /\ lastRunnable' \in BOOLEAN
      /\ ~IsEmpty(list) => lastRunnable'
  BY DEF IInv, TypeOK, WorkIsAnnounced, RunReturn, PortThrow, WaitReturn
<1> QED
  BY <1>1, <1>2, PopFrameKeepsIInv DEF IInv, OnlyLiveQueued

LEMMA WaitStepsKeepIInv == IInv /\ (PortWait \/ PortReturn \/ WaitGet) => IInv'
<1> SUFFICES ASSUME IInv, PortWait \/ PortReturn \/ WaitGet  PROVE IInv'
  OBVIOUS
<1>1. Busy /\ Depth \in DOMAIN stack /\ Top \in Frame /\ FrameOK(Top)
  BY DEF PortWait, PortReturn, WaitGet, At, Busy, Depth, IInv, TypeOK, Top, FramesOK
<1>2. PICK p \in {"loop", "port", "get"} :
          stack' = [stack EXCEPT ![Depth] = [Top EXCEPT !.at = p]]
  BY <1>1 DEF PortWait, PortReturn, WaitGet, Top
<1> DEFINE f == [Top EXCEPT !.at = p]
<1>3. f \in Frame /\ FrameOK(f) /\ f.done = Top.done /\ f.at # "fire"
  BY <1>1 DEF Frame, FrameOK, Places
<1> HIDE DEF f
<1>4. /\ QueueOK(list', alive') /\ UNCHANGED << list, alive, firing, running >>
      /\ firing' \subseteq Event /\ lastRunnable' \in BOOLEAN
      /\ ~IsEmpty(list') => lastRunnable'
  BY DEF PortWait, PortReturn, WaitGet, QueueOK, IInv, TypeOK, OnlyLiveQueued,
         WorkIsAnnounced
<1> QED
  BY <1>1, <1>2, <1>3, <1>4, SetTop DEF f, IInv, OnlyLiveQueued

-----------------------------------------------------------------------------
\* IInv is inductive: one case per action.
THEOREM Invariance == Spec => []IInv
<1>1. Init => IInv
  BY InitIInv
<1>2. IInv /\ [Next]_vars => IInv'
  <2> SUFFICES ASSUME IInv, [Next]_vars  PROVE IInv'
    OBVIOUS
  <2>1. CASE UserStep
    BY <2>1, UserKeepsIInv, CallsKeepIInv DEF UserStep
  <2>2. CASE CallbackEnds
    BY <2>2, FireReturnKeepsIInv, ThrowKeepsIInv, ReturnKeepsIInv,
       WaitStepsKeepIInv DEF CallbackEnds
  <2>3. CASE LoopStep
    BY <2>3, TurnKeepsIInv, TurnDoneKeepsIInv, ReturnKeepsIInv,
       WaitStepsKeepIInv DEF LoopStep
  <2>4. CASE UNCHANGED vars
    BY <2>4 DEF vars, IInv, TypeOK, FramesOK, OnlyLiveQueued, WorkIsAnnounced,
                IdleNotRunning, Busy
  <2> QED
    BY <2>1, <2>2, <2>3, <2>4 DEF Next
<1> QED
  BY <1>1, <1>2, PTL DEF Spec

\* Every variable of the loop keeps its type: the turn counter of run() does
\* not underflow, and the stack has a frame for every call in progress.
THEOREM TypeCorrect == Spec => []TypeOK
  BY Invariance, PTL DEF IInv

\* The intrusive queue is one well-formed list, whatever mixture of arming,
\* firing, destroying, throwing and nesting the program does: no dangling
\* tail, insert point or neighbour, and no armed event is out of reach.
THEOREM QueueIsSound == Spec => []ListOK
<1>1. IInv => ListOK
  BY DEF IInv, WellFormed, ListOK
<1> QED
  BY <1>1, Invariance, PTL

\* turn() never fires a destroyed event: every exit of a frame and every
\* destructor unlinks the event that goes away.
THEOREM QueueHoldsLiveEvents == Spec => []OnlyLiveQueued
  BY Invariance, PTL DEF IInv

\* A queue with work in it has been announced to the port.
THEOREM PortHearsOfWork == Spec => []WorkIsAnnounced
  BY Invariance, PTL DEF IInv

\* No exception leaves "running" set behind it.
THEOREM WaitIsPossibleAgain == Spec => []IdleNotRunning
  BY Invariance, PTL DEF IInv

-----------------------------------------------------------------------------
(* The loop implements the queue.                                          *)

\* The operations of the abstract queue under their two names.
LEMMA SameQueue ==
  /\ EventQ!Empty = QP!Empty
  /\ \A q : EventQ!Pop(q) = QP!Pop(q) /\ EventQ!Rewind(q) = QP!Rewind(q)
  /\ \A q, e : /\ EventQ!DepthFirst(q, e) = QP!DepthFirst(q, e)
               /\ EventQ!BreadthFirst(q, e) = QP!BreadthFirst(q, e)
               /\ EventQ!Drop(q, e) = QP!Drop(q, e)
<1>1. \A q : EventQ!Queued(q) = QP!Queued(q)
  BY DEF EventQ!Queued, QP!Queued
<1>2. \A q, e : EventQ!DepthFirst(q, e) = QP!DepthFirst(q, e)
  BY <1>1 DEF EventQ!DepthFirst, QP!DepthFirst, EventQ!InsertAt, QP!InsertAt
<1>3. \A q, e : EventQ!BreadthFirst(q, e) = QP!BreadthFirst(q, e)
  BY <1>1 DEF EventQ!BreadthFirst, QP!BreadthFirst
<1>4. \A q, e : EventQ!Drop(q, e) = QP!Drop(q, e)
  BY <1>1 DEF EventQ!Drop, QP!Drop, EventQ!RemoveAt, QP!RemoveAt
<1>5. \A q : EventQ!Pop(q) = QP!Pop(q) /\ EventQ!Rewind(q) = QP!Rewind(q)
  BY DEF EventQ!Pop, QP!Pop, EventQ!Rewind, QP!Rewind
<1> QED
  BY <1>2, <1>3, <1>4, <1>5 DEF EventQ!Empty, QP!Empty

\* The callback of a step that changes the last frame, or adds one.
LEMMA CallbackAfter ==
  ASSUME stack \in Seq(Frame), NEW f \in Frame
  PROVE  /\ Busy /\ stack' = [stack EXCEPT ![Depth] = f]
            => Callback' = IF f.at = "fire" THEN f.event ELSE Null
         /\ stack' = Append(stack, f) => Callback' = IF f.at = "fire" THEN f.event ELSE Null
<1>1. ASSUME Busy, stack' = [stack EXCEPT ![Depth] = f]
      PROVE  Busy' /\ Top' = f
  BY <1>1 DEF Busy, Top, Depth
<1>2. ASSUME stack' = Append(stack, f)
      PROVE  Busy' /\ Top' = f
  BY <1>2 DEF Busy, Top, Depth
<1> QED  BY <1>1, <1>2 DEF Callback

LEMMA CallbackType == IInv => Callback \in Event \cup {Null}
<1> SUFFICES ASSUME IInv, Busy, Top.at = "fire"  PROVE Top.event \in Event
  BY DEF Callback
<1> QED  BY FiredEvent

\* What a step of the program does to the list and to the callback, whichever it is.
ListStep ==
    \/ list' = list
    \/ /\ \E e \in Event : /\ ~Linked(list, e)
                           /\ list' \in {LinkDepthFirst(list, e), LinkBreadthFirst(list, e)}
       /\ Callback' \in {Callback, Null}
    \/ /\ ~IsEmpty(list) /\ list' = PopFront(list)
       /\ Callback = Null /\ Callback' \in {list.nxt[HeadSlot], Null}
    \/ /\ Callback # Null /\ Callback' = Null
       /\ list' \in {ResetInsertPoint(list), Unlink(ResetInsertPoint(list), Callback)}
    \/ \E e \in Event : list' = Unlink(list, e)

LEMMA StepOnList == IInv /\ Next => ListStep
<1> SUFFICES ASSUME IInv, Next  PROVE ListStep
  OBVIOUS
<1>1. list \in ListType /\ WellFormed(list) /\ OnlyLiveQueued /\ stack \in Seq(Frame)
  BY DEF IInv, TypeOK
<1>2. Busy => Top.done \in Event \cup {Null}
  <2>1. ASSUME Busy  PROVE Depth \in DOMAIN stack /\ stack \in Seq(Frame)
    BY <2>1 DEF Busy, Depth, IInv, TypeOK
  <2>2. ASSUME Busy  PROVE Top \in Frame
    BY <2>1, <2>2 DEF Top
  <2> QED  BY <2>2 DEF Frame
<1>3. \A e \in Event : list' = Unlink(list, e) => ListStep
  BY DEF ListStep
<1>4. CASE UserStep
  <2>1. \A e \in Event : Construct(e) => list' = list
    BY DEF Construct
  <2>2. \A e \in Event : ArmDepthFirst(e) \/ ArmBreadthFirst(e) => ListStep
    BY DEF ArmDepthFirst, ArmBreadthFirst, ListStep, Callback, Busy, Top, Depth
  <2>3. \A e \in Event : Destroy(e) => ListStep
    BY <1>3 DEF Destroy
  <2>4. \A n \in TurnCounts : Run(n) => list' = list
    BY DEF Run
  <2>5. ASSUME NEW d \in Event, NEW ready \in BOOLEAN, Wait(d, ready)  PROVE ListStep
    <3>1. ~Linked(list, d)
      BY <1>1, <2>5 DEF Wait, OnlyLiveQueued
    <3>2. Callback' = Null
      <4>1. WaitFrame(d) \in Frame /\ WaitFrame(d).at # "fire"
        BY DEF WaitFrame, Frame, Kinds, Places
      <4> QED  BY <1>1, <2>5, <4>1, CallbackAfter DEF Wait
    <3> QED  BY <2>5, <3>1, <3>2 DEF Wait, ListStep
  <2> QED  BY <1>4, <2>1, <2>2, <2>3, <2>4, <2>5 DEF UserStep, ListStep
<1>5. ASSUME NEW returnsSelf \in BOOLEAN, FireReturn(returnsSelf)  PROVE ListStep
  <2> DEFINE f == [Top EXCEPT !.at = "loop", !.event = Null]
  <2>1. /\ Top.event \in Event /\ Top \in Frame /\ Busy /\ Top.at = "fire"
        /\ stack' = [stack EXCEPT ![Depth] = f]
    BY <1>5, FiredEvent DEF FireReturn, Top
  <2>2. f \in Frame /\ f.at # "fire"
    BY <2>1 DEF Frame, Places
  <2> HIDE DEF f
  <2>3. Callback' = Null
    BY <1>1, <2>1, <2>2, CallbackAfter
  <2>4. Callback = Top.event /\ Callback # Null
    BY <2>1, ListAssumption DEF Callback
  <2> QED  BY <1>5, <2>3, <2>4 DEF FireReturn, ListStep
<1>6. CASE FireThrow \/ PortThrow \/ WaitReturn \/ RunReturn
  <2>1. Busy /\ PopFrame(list, alive)
    BY <1>6 DEF FireThrow, PortThrow, WaitReturn, RunReturn, At
  <2> QED  BY <1>2, <1>3, <2>1 DEF PopFrame, ListStep
<1>7. CASE Turn \/ TurnDone
  <2> DEFINE e == list.nxt[HeadSlot]
  <2>1. /\ Busy /\ Top.at = "loop" /\ ~IsEmpty(list) /\ list' = PopFront(list)
        /\ Depth \in DOMAIN stack /\ stack[Depth] = Top /\ Top \in Frame /\ Depth = Len(stack)
    <3>1. Busy /\ Top.at = "loop" /\ ~IsEmpty(list) /\ list' = PopFront(list)
      BY <1>7 DEF Turn, TurnDone, WantsTurn, At
    <3> QED  BY <1>1, <3>1 DEF Busy, Top, Depth
  <2>2. Callback = Null
    BY <2>1 DEF Callback
  <2>3. Callback' \in {e, Null}
    <3>1. CASE Turn
      <4> DEFINE f == [CountTurn(Top) EXCEPT !.at = "fire", !.event = e]
      <4>1. stack' = [stack EXCEPT ![Depth] = f]
        BY <2>1, <3>1 DEF Turn
      <4>2. Top' = [CountTurn(Top) EXCEPT !.at = "fire", !.event = e]
        BY <1>1, <2>1, <4>1 DEF Top, Depth
      <4>3. CountTurn(Top) \in [{"kind", "at", "event", "left", "done", "fired"} ->
                                 {CountTurn(Top)[x] : x \in {"kind", "at", "event", "left", "done", "fired"}}]
        BY <2>1 DEF CountTurn, Frame
      <4>4. Top'.event = e
        <5> DEFINE c == CountTurn(Top)
        <5>1. "event" \in DOMAIN c /\ Top' = [c EXCEPT !.at = "fire", !.event = e]
          BY <4>2, <4>3
        <5> HIDE DEF c
        <5> QED  BY <5>1
      <4> QED  BY <4>4 DEF Callback
    <3>2. CASE TurnDone
      <4>1. stack' = [i \in DOMAIN stack |->
                        [(IF i = Depth THEN CountTurn(stack[i]) ELSE stack[i])
                            EXCEPT !.fired = @ \/ stack[i].done = e]]
        BY <3>2 DEF TurnDone
      <4>2. /\ Len(stack') = Len(stack)
            /\ stack'[Depth] = [CountTurn(Top) EXCEPT !.fired = @ \/ Top.done = e]
        BY <1>1, <2>1, <4>1
      <4>3. Top' = [CountTurn(Top) EXCEPT !.fired = @ \/ Top.done = e]
        BY <4>2 DEF Top, Depth
      <4>4. Top'.at = "loop"
        BY <2>1, <4>3 DEF CountTurn, Frame
      <4> QED  BY <4>4 DEF Callback
    <3> QED  BY <1>7, <3>1, <3>2
  <2> QED  BY <2>1, <2>2, <2>3 DEF ListStep
<1>8. CASE PortReturn \/ PortWait \/ WaitGet
  BY <1>8 DEF PortReturn, PortWait, WaitGet, ListStep
<1> QED
  BY <1>4, <1>5, <1>6, <1>7, <1>8 DEF Next, CallbackEnds, LoopStep

\* The list stands for the queue that the refinement mapping reads off it.
Mapped == Represents(list, AsQueue(list))

\* A list that represents Q after the step: Q is the queue after the step.
LEMMA QueueAfter ==
  ASSUME list' \in ListType, NEW Q, Represents(list', Q)
  PROVE  AsQueue(list') = Q /\ Mapped'
<1>1. AsQueue(list') = Q
  BY RepresentsAsQueue
<1> QED
  BY <1>1 DEF Mapped

LEMMA StepOfQueue ==
  ASSUME IInv, Mapped, ListStep, list' \in ListType, Callback' \in Event \cup {Null}
  PROVE  Mapped' /\ [EventQ!Next]_<< AsQueue(list), Callback >>
<1> DEFINE Q == AsQueue(list)
<1>1. list \in ListType /\ Represents(list, Q) /\ WellFormed(list)
  BY DEF IInv, TypeOK, Mapped
<1> HIDE DEF Q
<1>2. CASE list' = list
  <2>1. AsQueue(list') = AsQueue(list) /\ Mapped'
    BY <1>2 DEF Mapped
  <2> QED  BY <2>1 DEF EventQ!Next, EventQ!Nest
<1>3. ASSUME NEW e \in Event, ~Linked(list, e),
             list' \in {LinkDepthFirst(list, e), LinkBreadthFirst(list, e)},
             Callback' \in {Callback, Null}
      PROVE  Mapped' /\ EventQ!Next
  <2>1. PICK R \in {QP!DepthFirst(Q, e), QP!BreadthFirst(Q, e)} : Represents(list', R)
    BY <1>1, <1>3, ArmRepresents
  <2>2. AsQueue(list') = R /\ Mapped'
    BY <2>1, QueueAfter
  <2>3. AsQueue(list') \in {EventQ!DepthFirst(Q, e), EventQ!BreadthFirst(Q, e)}
    BY <2>1, <2>2, SameQueue
  <2> QED  BY <1>3, <2>2, <2>3 DEF EventQ!Next, EventQ!Arm, Q
<1>4. CASE /\ ~IsEmpty(list) /\ list' = PopFront(list)
           /\ Callback = Null /\ Callback' \in {list.nxt[HeadSlot], Null}
  <2>1. Q.order # << >> /\ Represents(list', QP!Pop(Q))
    BY <1>1, <1>4, PopRepresents
  <2>2. AsQueue(list') = EventQ!Pop(Q) /\ Mapped'
    BY <2>1, QueueAfter, SameQueue
  <2>3. Head(Q.order) = list.nxt[HeadSlot]
    <3>1. Chain(list, Q) /\ Len(Q.order) \in Nat \ {0} /\ 0 \in 0 .. Len(Q.order)
      BY <1>1, <2>1, QP!QueueFacts DEF Represents, Chain
    <3>2. list.nxt[SlotAt(Q, 0)] = Q.order[1]
      BY <3>1 DEF Chain
    <3> QED  BY <3>1, <3>2 DEF SlotAt
  <2> QED  BY <1>4, <2>1, <2>2, <2>3 DEF EventQ!Next, EventQ!Take, Q
<1>5. CASE Callback # Null /\ Callback' = Null /\ list' = ResetInsertPoint(list)
  <2>1. Represents(list', QP!Rewind(Q))
    BY <1>1, <1>5, ResetRepresents
  <2>2. AsQueue(list') = EventQ!Rewind(Q) /\ Mapped'
    BY <2>1, QueueAfter, SameQueue
  <2> QED  BY <1>5, <2>2 DEF EventQ!Next, EventQ!Return, Q
<1>6. CASE /\ Callback # Null /\ Callback' = Null
           /\ list' = Unlink(ResetInsertPoint(list), Callback)
  <2>1. /\ ResetInsertPoint(list) \in ListType /\ Callback \in Event
        /\ Represents(ResetInsertPoint(list), QP!Rewind(Q))
    BY <1>1, <1>6, ResetRepresents, ResetWellFormed, CallbackType
  <2>2. Represents(list', QP!Drop(QP!Rewind(Q), Callback))
    BY <1>6, <2>1, UnlinkRepresents
  <2>3. AsQueue(list') = EventQ!Drop(EventQ!Rewind(Q), Callback) /\ Mapped'
    BY <2>2, QueueAfter, SameQueue
  <2> QED  BY <1>6, <2>3 DEF EventQ!Next, EventQ!Return, Q
<1>7. ASSUME NEW e \in Event, list' = Unlink(list, e)
      PROVE  Mapped' /\ EventQ!Next
  <2>1. Represents(list', QP!Drop(Q, e))
    BY <1>1, <1>7, UnlinkRepresents
  <2>2. AsQueue(list') = EventQ!Drop(Q, e) /\ Mapped'
    BY <2>1, QueueAfter, SameQueue
  <2> QED  BY <2>2 DEF EventQ!Next, EventQ!Destroy, Q
<1> QED
  BY <1>2, <1>3, <1>4, <1>5, <1>6, <1>7 DEF ListStep

\* The intrusive list implements the promised queue (async-inl.h:104-118): whatever
\* a program arms, fires and destroys, in callbacks or out of them, the events are in
\* the order that the documentation of armDepthFirst() and armBreadthFirst() promises.
THEOREM ListImplementsQueue == Spec => EventQ!Spec
<1>0. IInv' => Callback' \in Event \cup {Null}
  <2>1. (IInv => Callback \in Event \cup {Null})'
    BY CallbackType, PTL
  <2> QED  BY <2>1
<1>1. Init => Mapped /\ EventQ!Init
  <2> SUFFICES ASSUME Init  PROVE Mapped /\ EventQ!Init
    OBVIOUS
  <2>1. Represents(list, QP!Empty) /\ list \in ListType
    BY EmptyRepresents, EmptyWellFormed DEF Init
  <2>2. AsQueue(list) = QP!Empty
    BY <2>1, RepresentsAsQueue
  <2>3. Callback = Null
    BY DEF Init, Callback, Busy
  <2> QED  BY <2>1, <2>2, <2>3, SameQueue DEF EventQ!Init, Mapped
<1>2. IInv /\ IInv' /\ Mapped /\ [Next]_vars => Mapped' /\ [EventQ!Next]_<< AsQueue(list), Callback >>
  <2> SUFFICES ASSUME IInv, IInv', Mapped, [Next]_vars
               PROVE  Mapped' /\ [EventQ!Next]_<< AsQueue(list), Callback >>
    OBVIOUS
  <2>1. ListStep
    BY StepOnList DEF vars, ListStep
  <2> QED  BY <1>0, <2>1, StepOfQueue DEF IInv, TypeOK
<1>3. Spec => []IInv
  BY Invariance
<1> QED
  BY <1>1, <1>2, <1>3, PTL DEF Spec, EventQ!Spec

-----------------------------------------------------------------------------
(* The program of MCEventLoop, disciplined or not, is a program.           *)

LEMMA LoopIsSpec == LoopSpec => Spec
<1>1. LoopInit => Init
  BY DEF LoopInit
<1>2. [LoopNext]_<< vars, disciplined >> => [Next]_vars
  BY DEF LoopNext, BreadthFirstStep, Next, UserStep
<1> QED
  BY <1>1, <1>2, PTL DEF LoopSpec, Spec

\* The run's refinement: the list implements the promised queue, for any number of
\* events and any depth of nesting (async.cpp:252-282, 358-418).
THEOREM QueueImplemented == LoopSpec => ImplementsQueue
  BY LoopIsSpec, ListImplementsQueue DEF ImplementsQueue
=============================================================================
