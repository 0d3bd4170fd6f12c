---------------------------- MODULE ForkHubProofs ----------------------------
(***************************************************************************)
(* The fork hub, for any number of branches: its list, its reference count *)
(* and its queue entry are sound, the consumers are told in order, and it  *)
(* implements Fork.                                                        *)
(***************************************************************************)
EXTENDS ForkHub, SequenceTheorems, FiniteSetTheorems, TLAPS

\* The lemmas about the event queue; EQ and Q are the same operations.
EQ == INSTANCE EventQueueProofs WITH Event <- Branch \cup {Hub}

(***************************************************************************)
(* The inductive invariant.  Branches are numbered as they are made and    *)
(* appended, so the list is in the order of the numbers: that says where   *)
(* every pointer leads without walking them.                               *)
(***************************************************************************)
\* The branches in the hub's list, and those that count as references to it.
Linked == {b \in Branch : branch[b].prevPtr # None}
Holders == {b \in Alive : branch[b].hub}

\* The branches whose consumer waits in the cell, or did.
Awaited == {b \in Branch : branch[b].cell = b}

Before(b) ==
    LET p == branch[b].prevPtr
    IN  \/ p = HeadSlot /\ \A c \in Linked : c >= b
        \/ p \in Linked /\ p < b /\ \A c \in Linked : c <= p \/ c >= b

After(b) ==
    LET n == branch[b].next
    IN  \/ n = None /\ \A c \in Linked : c <= b
        \/ n \in Linked /\ n > b /\ \A c \in Linked : c <= b \/ c >= n

ListInv ==
    /\ \A b \in Linked : Before(b) /\ After(b)
    /\ \A b \in Branch \ Linked : branch[b].next = None
    /\ \/ hub.head = None /\ Linked = {}
       \/ hub.head \in Linked /\ \A c \in Linked : c >= hub.head
    /\ \/ hub.tail \in {None, HeadSlot} /\ Linked = {}
       \/ hub.tail \in Linked /\ \A c \in Linked : c <= hub.tail

\* The reference count, and what the hub and its queue entry live for.
HubInv ==
    /\ hub.refs = Cardinality(Holders) + IF hub.handle THEN 1 ELSE 0
    /\ hub.alive <=> hub.refs > 0
    /\ Hub \in Q!Queued(queue) => hub.alive /\ hub.inner = "ready"
    /\ hub.tail = None <=> hub.inner = "taken"

\* One branch: made, linked until the hub tells it, then queued once.
BranchInv(b) ==
    LET r == branch[b]
    IN  /\ b > hub.made => r = NoBranch
        /\ ~r.alive => ~r.hub
        /\ r.prevPtr # None <=> r.alive /\ hub.inner # "taken"
        /\ r.cell \in {None, b, AlreadyReady}
        /\ r.cell = b => r.attached
        /\ r.alive /\ r.cell = None => hub.inner # "taken" /\ ~r.attached
        /\ r.cell = AlreadyReady => hub.inner = "taken"
        /\ r.alive /\ ~r.hub => r.fires > 0
        /\ r.fires > 0 => hub.inner = "taken" /\ r.fires = 1 /\ r.attached
        /\ b \in Q!Queued(queue) =>
              r.alive /\ r.attached /\ r.fires = 0 /\ hub.inner = "taken"
        /\ r.alive /\ r.cell = b /\ hub.inner = "taken" /\ r.fires = 0 =>
              b \in Q!Queued(queue)

\* The events of S are in the order of their numbers in q.
Ordered(q, S) ==
    \A i, j \in 1 .. Len(q.order) :
        i < j /\ q.order[i] \in S /\ q.order[j] \in S => q.order[i] < q.order[j]

QueueOK(q) == q \in EQ!QueueOf(Branch \cup {Hub}) /\ EQ!Distinct(q)

OrderInv ==
    /\ Ordered(queue, Awaited)
    /\ \A b, c \in Awaited \cap Alive : b < c /\ branch[c].fires > 0 => branch[b].fires > 0

IInv ==
    /\ QueueOK(queue)
    /\ hub \in HubType
    /\ branch \in [Branch -> BranchType]
    /\ ListInv
    /\ HubInv
    /\ \A b \in Branch : BranchInv(b)
    /\ OrderInv

-----------------------------------------------------------------------------
(* The queue.                                                              *)

LEMMA SameQueue ==
  /\ Q!Empty = EQ!Empty
  /\ \A q : Q!Pop(q) = EQ!Pop(q) /\ Q!Rewind(q) = EQ!Rewind(q) /\ Q!Queued(q) = EQ!Queued(q)
  /\ \A q, e : /\ Q!DepthFirst(q, e) = EQ!DepthFirst(q, e)
               /\ Q!BreadthFirst(q, e) = EQ!BreadthFirst(q, e)
               /\ Q!Drop(q, e) = EQ!Drop(q, e)
<1>1. \A q : Q!Queued(q) = EQ!Queued(q)
  BY DEF Q!Queued, EQ!Queued
<1>2. \A q, e : Q!DepthFirst(q, e) = EQ!DepthFirst(q, e)
  BY <1>1 DEF Q!DepthFirst, EQ!DepthFirst, Q!InsertAt, EQ!InsertAt
<1>3. \A q, e : Q!BreadthFirst(q, e) = EQ!BreadthFirst(q, e)
  BY <1>1 DEF Q!BreadthFirst, EQ!BreadthFirst
<1>4. \A q, e : Q!Drop(q, e) = EQ!Drop(q, e)
  BY <1>1 DEF Q!Drop, EQ!Drop, Q!RemoveAt, EQ!RemoveAt
<1>5. \A q : Q!Pop(q) = EQ!Pop(q) /\ Q!Rewind(q) = EQ!Rewind(q)
  BY DEF Q!Pop, EQ!Pop, Q!Rewind, EQ!Rewind
<1> QED
  BY <1>1, <1>2, <1>3, <1>4, <1>5 DEF Q!Empty, EQ!Empty

LEMMA QueueFacts ==
  ASSUME NEW q, QueueOK(q)
  PROVE  /\ Len(q.order) \in Nat /\ DOMAIN q.order = 1 .. Len(q.order)
         /\ q.order \in Seq(Branch \cup {Hub}) /\ q.ins \in 0 .. Len(q.order)
         /\ Q!Queued(q) \subseteq Branch \cup {Hub}
         /\ \A i \in 1 .. Len(q.order) : q.order[i] \in Q!Queued(q)
         /\ \A e \in Q!Queued(q) : \E i \in 1 .. Len(q.order) : q.order[i] = e
         /\ \A i, j \in 1 .. Len(q.order) : q.order[i] = q.order[j] => i = j
<1>1. /\ Len(q.order) \in Nat /\ DOMAIN q.order = 1 .. Len(q.order)
      /\ q.order \in Seq(Branch \cup {Hub}) /\ q.ins \in 0 .. Len(q.order)
  BY EQ!QueueFacts DEF QueueOK
<1>2. Q!Queued(q) = {q.order[i] : i \in 1 .. Len(q.order)}
  BY <1>1 DEF Q!Queued
<1>3. \A i \in 1 .. Len(q.order) : q.order[i] \in Branch \cup {Hub}
  BY <1>1
<1> QED
  BY <1>1, <1>2, <1>3 DEF QueueOK, EQ!Distinct

\* Fewer events of S in q: still in order.
LEMMA OrderedOn ==
  ASSUME NEW q, QueueOK(q), NEW S, NEW T, Ordered(q, S), T \cap Q!Queued(q) \subseteq S
  PROVE  Ordered(q, T)
  BY QueueFacts DEF Ordered

LEMMA EmptyQueue == QueueOK(Q!Empty) /\ Q!Queued(Q!Empty) = {} /\ \A S : Ordered(Q!Empty, S)
<1>1. QueueOK(Q!Empty) /\ Q!Queued(Q!Empty) = {}
  BY SameQueue, EQ!EmptyFacts DEF QueueOK
<1>2. Len(Q!Empty.order) = 0
  BY DEF Q!Empty
<1> QED
  BY <1>1, <1>2 DEF Ordered

LEMMA BreadthFirstOp ==
  ASSUME NEW q, QueueOK(q), NEW e \in Branch \cup {Hub}, e \notin Q!Queued(q)
  PROVE  LET r == Q!BreadthFirst(q, e)
         IN  /\ QueueOK(r) /\ Q!Queued(r) = Q!Queued(q) \cup {e}
             /\ \A S : e \notin S /\ Ordered(q, S) => Ordered(r, S)
<1> DEFINE r == Q!BreadthFirst(q, e)
           n == Len(q.order)
<1>1. n \in Nat
  BY QueueFacts
<1>2. QueueOK(r) /\ Q!Queued(r) = Q!Queued(q) \cup {e}
  BY SameQueue, EQ!BreadthFirstFacts DEF QueueOK
<1>3. Len(r.order) = n + 1
  BY SameQueue, EQ!BreadthFirstFacts DEF QueueOK
<1>4. \A j \in 1 .. n + 1 : r.order[j] = IF j <= n THEN q.order[j] ELSE e
  BY SameQueue, EQ!BreadthFirstFacts DEF QueueOK
<1> HIDE DEF r
<1>5. ASSUME NEW S, e \notin S, Ordered(q, S)  PROVE Ordered(r, S)
  <2> DEFINE f == [j \in 1 .. n + 1 |-> j]
  <2>1. \A j \in 1 .. n + 1 : r.order[j] \in S => f[j] \in 1 .. n /\ r.order[j] = q.order[f[j]]
    BY <1>1, <1>4, <1>5
  <2>2. \A i, j \in 1 .. n + 1 : i < j => f[i] < f[j]
    OBVIOUS
  <2> HIDE DEF f
  <2> QED  BY <1>3, <1>5, <2>1, <2>2 DEF Ordered
<1> QED
  BY <1>2, <1>5 DEF r

LEMMA DepthFirstOp ==
  ASSUME NEW q, QueueOK(q), NEW e \in Branch \cup {Hub}, e \notin Q!Queued(q)
  PROVE  LET r == Q!DepthFirst(q, e)
         IN  /\ QueueOK(r) /\ Q!Queued(r) = Q!Queued(q) \cup {e}
             /\ \A S : e \notin S /\ Ordered(q, S) => Ordered(r, S)
<1> DEFINE r == Q!DepthFirst(q, e)
           n == Len(q.order)
           k == q.ins
<1>1. n \in Nat /\ k \in Nat /\ k <= n
  BY QueueFacts
<1>2. QueueOK(r) /\ Q!Queued(r) = Q!Queued(q) \cup {e}
  BY SameQueue, EQ!DepthFirstFacts DEF QueueOK
<1>3. Len(r.order) = n + 1
  BY SameQueue, EQ!DepthFirstFacts DEF QueueOK
<1>4. \A j \in 1 .. n + 1 : r.order[j] = IF j <= k THEN q.order[j]
                                         ELSE IF j = k + 1 THEN e ELSE q.order[j - 1]
  BY SameQueue, EQ!DepthFirstFacts DEF QueueOK
<1> HIDE DEF r
<1>5. ASSUME NEW S, e \notin S, Ordered(q, S)  PROVE Ordered(r, S)
  <2> DEFINE f == [j \in 1 .. n + 1 |-> IF j <= k THEN j ELSE j - 1]
  <2>1. \A j \in 1 .. n + 1 : r.order[j] \in S => f[j] \in 1 .. n /\ r.order[j] = q.order[f[j]]
    BY <1>1, <1>4, <1>5
  <2>2. \A i, j \in 1 .. n + 1 : i < j /\ i # k + 1 /\ j # k + 1 => f[i] < f[j]
    BY <1>1
  <2>3. \A j \in 1 .. n + 1 : r.order[j] \in S => j # k + 1
    BY <1>1, <1>4, <1>5
  <2> HIDE DEF f
  <2> QED  BY <1>3, <1>5, <2>1, <2>2, <2>3 DEF Ordered
<1> QED
  BY <1>2, <1>5 DEF r

LEMMA DropOp ==
  ASSUME NEW q, QueueOK(q), NEW e
  PROVE  LET r == Q!Drop(q, e)
         IN  /\ QueueOK(r) /\ Q!Queued(r) = Q!Queued(q) \ {e}
             /\ \A S : Ordered(q, S) => Ordered(r, S)
<1> DEFINE r == Q!Drop(q, e)
           n == Len(q.order)
<1>1. n \in Nat
  BY QueueFacts
<1>2. CASE e \notin Q!Queued(q)
  BY <1>2 DEF Q!Drop
<1>3. CASE e \in Q!Queued(q)
  <2>1. PICK k \in 1 .. n : q.order[k] = e
    BY <1>3, QueueFacts
  <2>2. QueueOK(r) /\ Q!Queued(r) = Q!Queued(q) \ {e}
    BY <2>1, SameQueue, EQ!DropFacts DEF QueueOK
  <2>3. Len(r.order) = n - 1
    BY <2>1, SameQueue, EQ!DropFacts DEF QueueOK
  <2>4. \A j \in 1 .. n - 1 : r.order[j] = IF j < k THEN q.order[j] ELSE q.order[j + 1]
    BY <2>1, SameQueue, EQ!DropFacts DEF QueueOK
  <2> HIDE DEF r
  <2>5. ASSUME NEW S, Ordered(q, S)  PROVE Ordered(r, S)
    <3> DEFINE f == [j \in 1 .. n - 1 |-> IF j < k THEN j ELSE j + 1]
    <3>1. \A j \in 1 .. n - 1 : f[j] \in 1 .. n /\ r.order[j] = q.order[f[j]]
      BY <1>1, <2>4
    <3>2. \A i, j \in 1 .. n - 1 : i < j => f[i] < f[j]
      BY <1>1
    <3> HIDE DEF f
    <3> QED  BY <2>3, <2>5, <3>1, <3>2 DEF Ordered
  <2> QED  BY <2>2, <2>5 DEF r
<1> QED
  BY <1>2, <1>3

LEMMA PopOp ==
  ASSUME NEW q, QueueOK(q), q.order # << >>
  PROVE  LET r == Q!Pop(q)
             e == Head(q.order)
         IN  /\ QueueOK(r) /\ e \in Q!Queued(q) /\ Q!Queued(r) = Q!Queued(q) \ {e}
             /\ \A S : Ordered(q, S) => Ordered(r, S)
             /\ \A S : Ordered(q, S) /\ e \in S =>
                    \A x \in Q!Queued(q) \cap S : x = e \/ e < x
<1> DEFINE r == Q!Pop(q)
           n == Len(q.order)
           e == Head(q.order)
<1>1. n \in Nat /\ n >= 1 /\ q.order[1] = e /\ 1 \in 1 .. n
  BY QueueFacts, EQ!PopFacts DEF QueueOK
<1>2. QueueOK(r) /\ Q!Queued(r) = Q!Queued(q) \ {e}
  BY <1>1, SameQueue, EQ!PopFacts DEF QueueOK
<1>3. Len(r.order) = n - 1
  BY SameQueue, EQ!PopFacts DEF QueueOK
<1>4. \A j \in 1 .. n - 1 : r.order[j] = q.order[j + 1]
  BY SameQueue, EQ!PopFacts DEF QueueOK
<1> HIDE DEF r
<1>5. ASSUME NEW S, Ordered(q, S)  PROVE Ordered(r, S)
  <2> DEFINE f == [j \in 1 .. n - 1 |-> j + 1]
  <2>1. \A j \in 1 .. n - 1 : f[j] \in 1 .. n /\ r.order[j] = q.order[f[j]]
    BY <1>1, <1>4
  <2>2. \A i, j \in 1 .. n - 1 : i < j => f[i] < f[j]
    BY <1>1
  <2> HIDE DEF f
  <2> QED  BY <1>3, <1>5, <2>1, <2>2 DEF Ordered
<1>6. e \in Q!Queued(q)
  BY <1>1, QueueFacts
<1>7. ASSUME NEW S, Ordered(q, S), e \in S, NEW x \in Q!Queued(q) \cap S  PROVE x = e \/ e < x
  <2>1. PICK k \in 1 .. n : q.order[k] = x
    BY QueueFacts
  <2>2. k = 1 \/ 1 < k
    BY <1>1
  <2> QED  BY <1>1, <1>7, <2>1, <2>2 DEF Ordered
<1> QED
  BY <1>2, <1>5, <1>6, <1>7 DEF r

LEMMA RewindOp ==
  ASSUME NEW q, QueueOK(q)
  PROVE  LET r == Q!Rewind(q)
         IN  /\ QueueOK(r) /\ Q!Queued(r) = Q!Queued(q)
             /\ \A S : Ordered(q, S) => Ordered(r, S)
<1>1. QueueOK(Q!Rewind(q)) /\ Q!Queued(Q!Rewind(q)) = Q!Queued(q)
  BY SameQueue, EQ!RewindFacts DEF QueueOK
<1>2. Q!Rewind(q).order = q.order
  BY SameQueue, EQ!RewindFacts DEF QueueOK
<1> QED
  BY <1>1, <1>2 DEF Ordered

LEMMA DropHubOp ==
  ASSUME NEW q, QueueOK(q), NEW h
  PROVE  LET r == DropHub(q, h)
         IN  /\ QueueOK(r)
             /\ Q!Queued(r) = IF h.alive THEN Q!Queued(q) ELSE Q!Queued(q) \ {Hub}
             /\ \A S : Ordered(q, S) => Ordered(r, S)
  BY DropOp DEF DropHub

-----------------------------------------------------------------------------
(* What a step has to show of the parts of the invariant it does not touch. *)

LEMMA ListSame ==
  ASSUME ListInv, hub'.head = hub.head, hub'.tail = hub.tail,
         \A b \in Branch : /\ branch'[b].next = branch[b].next
                           /\ branch'[b].prevPtr = branch[b].prevPtr
  PROVE  ListInv' /\ Linked' = Linked
<1>1. Linked' = Linked
  BY DEF Linked
<1>2. \A b \in Linked : b \in Branch
  BY DEF Linked
<1> QED
  BY <1>1, <1>2 DEF ListInv, Before, After

LEMMA HoldersFinite == IsFiniteSet(Holders) /\ Cardinality(Holders) \in Nat
<1>1. IsFiniteSet(Branch)
  BY ForkAssumption, FS_Interval DEF Branch
<1>2. Holders \in SUBSET Branch
  BY DEF Holders, Alive
<1> QED
  BY <1>1, <1>2, FS_Subset, FS_CardinalityType

LEMMA BranchesSame ==
  ASSUME \A b \in Branch : BranchInv(b), UNCHANGED branch, hub'.made = hub.made,
         hub.inner = "taken" <=> hub'.inner = "taken",
         \A b \in Branch : b \in Q!Queued(queue') <=> b \in Q!Queued(queue)
  PROVE  /\ (\A b \in Branch : BranchInv(b))'
         /\ Awaited' = Awaited /\ Alive' = Alive /\ Holders' = Holders
  BY DEF BranchInv, Awaited, Alive, Holders

LEMMA FiresSame ==
  ASSUME OrderInv, Awaited' \cap Alive' \subseteq Awaited \cap Alive,
         \A b \in Awaited' \cap Alive' : branch'[b].fires = branch[b].fires,
         Ordered(queue', Awaited')
  PROVE  OrderInv'
  BY DEF OrderInv

\* What BranchInv says of hub.inner and queue for the branches at large.
LEMMA QueuedBranches ==
  ASSUME IInv
  PROVE  /\ hub.inner # "taken" =>
               /\ Q!Queued(queue) \subseteq {Hub}
               /\ Linked = Alive
               /\ \A b \in Branch : branch[b].fires = 0
         /\ hub.inner = "taken" => Linked = {}
         /\ Linked \subseteq Holders
         /\ \A b \in Linked : b \in Branch /\ b <= hub.made
<1>1. \A b \in Branch : BranchInv(b) /\ branch[b] \in BranchType
  BY DEF IInv
<1>2. /\ hub.inner # "taken" => Linked = Alive
      /\ hub.inner = "taken" => Linked = {}
  BY <1>1 DEF BranchInv, Linked, Alive
<1>3. \A b \in Branch : branch[b].fires \in 0 .. 2
  BY <1>1 DEF BranchType
<1>4. hub.inner # "taken" => \A b \in Branch : branch[b].fires = 0 /\ b \notin Q!Queued(queue)
  BY <1>1, <1>3 DEF BranchInv
<1>5. Q!Queued(queue) \subseteq Branch \cup {Hub}
  BY QueueFacts DEF IInv
<1>6. Linked \subseteq Holders
  <2>1. \A b \in Branch : branch[b].prevPtr # None => branch[b].alive /\ hub.inner # "taken"
    BY <1>1 DEF BranchInv
  <2>2. \A b \in Branch : branch[b].alive /\ hub.inner # "taken" => branch[b].hub
    BY <1>1, <1>4 DEF BranchInv, BranchType
  <2> QED  BY <2>1, <2>2 DEF Linked, Holders, Alive
<1>7. \A b \in Linked : b \in Branch /\ b <= hub.made
  <2> SUFFICES ASSUME NEW b \in Linked  PROVE b \in Branch /\ b <= hub.made
    OBVIOUS
  <2>1. b \in Branch /\ branch[b].prevPtr # None
    BY DEF Linked
  <2>2. ~(b > hub.made)
    BY <1>1, <2>1 DEF BranchInv, NoBranch
  <2>3. hub.made \in Nat
    BY ForkAssumption DEF IInv, HubType
  <2> QED  BY <2>1, <2>2, <2>3 DEF Branch
<1> QED
  BY <1>2, <1>4, <1>5, <1>6, <1>7

\* As long as someone holds the hub it is alive.
LEMMA HubAlive ==
  ASSUME IInv
  PROVE  /\ hub.refs \in Nat
         /\ hub.handle \/ Holders # {} => hub.refs > 0 /\ hub.alive
         /\ ~hub.alive => Holders = {} /\ ~hub.handle
<1>1. Cardinality(Holders) \in Nat /\ (Holders # {} => Cardinality(Holders) # 0)
  BY HoldersFinite, FS_EmptySet
<1>2. hub.refs \in Nat /\ hub.handle \in BOOLEAN /\ hub.alive \in BOOLEAN
  BY DEF IInv, HubType
<1>3. hub.refs = Cardinality(Holders) + IF hub.handle THEN 1 ELSE 0
  BY DEF IInv, HubInv
<1>4. hub.alive <=> hub.refs > 0
  BY DEF IInv, HubInv
<1> QED
  BY <1>1, <1>2, <1>3, <1>4

-----------------------------------------------------------------------------
(* The steps that leave the branches alone.                                *)

\* Nothing that Fork speaks of happens.
Quiet == Alive' = Alive /\ (hub'.inner = "taken" <=> hub.inner = "taken")

LEMMA InnerReadyKeepsIInv == IInv /\ InnerReady => IInv' /\ Quiet
<1> SUFFICES ASSUME IInv, InnerReady  PROVE IInv' /\ Quiet
  OBVIOUS
<1>1. /\ hub \in HubType /\ hub' = [hub EXCEPT !.inner = "ready"] /\ UNCHANGED branch
      /\ hub.alive /\ hub.inner = "pending" /\ QueueOK(queue)
  BY DEF InnerReady, IInv
<1>2. Hub \notin Q!Queued(queue) /\ Hub \notin Awaited
  BY <1>1, ForkAssumption DEF IInv, HubInv, Awaited
<1>3. /\ QueueOK(queue') /\ Q!Queued(queue') = Q!Queued(queue) \cup {Hub}
      /\ Ordered(queue', Awaited)
  BY <1>1, <1>2, DepthFirstOp DEF InnerReady, IInv, OrderInv
<1>4. hub' \in HubType /\ hub'.inner = "ready" /\ hub'.alive = hub.alive /\ hub'.refs = hub.refs
      /\ hub'.handle = hub.handle /\ hub'.made = hub.made /\ hub'.head = hub.head
      /\ hub'.tail = hub.tail
  BY <1>1 DEF HubType, Phases
<1>5. ListInv'
  BY <1>1, <1>4, ListSame DEF IInv
<1>6. \A b \in Branch : b \in Q!Queued(queue') <=> b \in Q!Queued(queue)
  BY <1>3, ForkAssumption
<1>7. /\ (\A b \in Branch : BranchInv(b))'
      /\ Awaited' = Awaited /\ Alive' = Alive /\ Holders' = Holders
  <2>1. \A b \in Branch : BranchInv(b)
    BY DEF IInv
  <2> QED  BY <1>1, <1>4, <1>6, <2>1, BranchesSame
<1>8. HubInv'
  BY <1>1, <1>4, <1>7 DEF IInv, HubInv
<1>9. OrderInv'
  BY <1>1, <1>3, <1>7, FiresSame DEF IInv
<1> QED
  BY <1>1, <1>3, <1>4, <1>5, <1>7, <1>8, <1>9 DEF IInv, Quiet

LEMMA HubTakeKeepsIInv == IInv /\ HubTake => IInv' /\ Quiet
<1> SUFFICES ASSUME IInv, HubTake  PROVE IInv' /\ Quiet
  OBVIOUS
<1>1. /\ hub \in HubType /\ hub' = [hub EXCEPT !.inner = "taking"] /\ UNCHANGED branch
      /\ QueueOK(queue) /\ queue.order # << >> /\ Head(queue.order) = Hub
  BY ForkAssumption DEF HubTake, IInv, First
<1>2. /\ QueueOK(queue') /\ Hub \in Q!Queued(queue)
      /\ Q!Queued(queue') = Q!Queued(queue) \ {Hub} /\ Ordered(queue', Awaited)
  BY <1>1, PopOp DEF HubTake, IInv, OrderInv
<1>3. hub.inner = "ready"
  BY <1>2 DEF IInv, HubInv
<1>4. hub' \in HubType /\ hub'.inner = "taking" /\ hub'.alive = hub.alive /\ hub'.refs = hub.refs
      /\ hub'.handle = hub.handle /\ hub'.made = hub.made /\ hub'.head = hub.head
      /\ hub'.tail = hub.tail
  BY <1>1 DEF HubType, Phases
<1>5. ListInv'
  BY <1>1, <1>4, ListSame DEF IInv
<1>6. \A b \in Branch : b \in Q!Queued(queue') <=> b \in Q!Queued(queue)
  BY <1>2, ForkAssumption
<1>7. /\ (\A b \in Branch : BranchInv(b))'
      /\ Awaited' = Awaited /\ Alive' = Alive /\ Holders' = Holders
  <2>1. \A b \in Branch : BranchInv(b)
    BY DEF IInv
  <2> QED  BY <1>1, <1>3, <1>4, <1>6, <2>1, BranchesSame
<1>8. HubInv'
  BY <1>2, <1>3, <1>4, <1>7 DEF IInv, HubInv
<1>9. OrderInv'
  BY <1>1, <1>2, <1>7, FiresSame DEF IInv
<1> QED
  BY <1>1, <1>2, <1>3, <1>4, <1>5, <1>7, <1>8, <1>9 DEF IInv, Quiet

LEMMA UnrefOp ==
  ASSUME NEW h \in HubType, h.refs > 0
  PROVE  LET k == Unref(h)
         IN  /\ k \in HubType /\ k.refs = h.refs - 1
             /\ k.alive <=> h.refs # 1
             /\ k.handle = h.handle /\ k.inner = h.inner /\ k.made = h.made
             /\ k.head = h.head /\ k.tail = h.tail
<1> DEFINE a == h.refs # 1
           k == Unref(h)
<1>1. k = [h EXCEPT !.refs = @ - 1, !.alive = a]
  BY DEF Unref
<1>2. a \in BOOLEAN /\ h.refs \in Nat
  BY DEF HubType
<1>3. h.refs - 1 \in Nat
  BY <1>2
<1> HIDE DEF a, k
<1>4. k \in HubType
  BY <1>1, <1>2, <1>3 DEF HubType
<1>5. k.alive = a
  BY <1>1 DEF HubType
<1>6. /\ k.refs = h.refs - 1
      /\ k.handle = h.handle /\ k.inner = h.inner /\ k.made = h.made
      /\ k.head = h.head /\ k.tail = h.tail
  BY <1>1 DEF HubType
<1> QED
  BY <1>4, <1>5, <1>6 DEF a, k

LEMMA DropHandleKeepsIInv == IInv /\ DropHandle => IInv' /\ Quiet
<1> SUFFICES ASSUME IInv, DropHandle  PROVE IInv' /\ Quiet
  OBVIOUS
<1>1. /\ hub \in HubType /\ hub.handle /\ UNCHANGED branch /\ QueueOK(queue)
      /\ hub' = Unref([hub EXCEPT !.handle = FALSE]) /\ queue' = DropHub(queue, hub')
  BY DEF DropHandle, IInv
<1>2. hub.refs \in Nat /\ hub.refs > 0
  BY <1>1, HubAlive
<1>3. /\ hub' \in HubType /\ hub'.refs = hub.refs - 1 /\ ~hub'.handle
      /\ hub'.alive <=> hub.refs # 1
      /\ hub'.inner = hub.inner /\ hub'.made = hub.made /\ hub'.head = hub.head
      /\ hub'.tail = hub.tail
  <2> DEFINE h == [hub EXCEPT !.handle = FALSE]
  <2>1. /\ h \in HubType /\ h.refs = hub.refs /\ ~h.handle /\ h.inner = hub.inner
        /\ h.made = hub.made /\ h.head = hub.head /\ h.tail = hub.tail
    BY <1>1 DEF HubType
  <2> HIDE DEF h
  <2> QED  BY <1>1, <1>2, <2>1, UnrefOp DEF h
<1>4. /\ QueueOK(queue') /\ Ordered(queue', Awaited)
      /\ Q!Queued(queue') = IF hub'.alive THEN Q!Queued(queue) ELSE Q!Queued(queue) \ {Hub}
  BY <1>1, DropHubOp DEF IInv, OrderInv
<1>5. ListInv'
  BY <1>1, <1>3, ListSame DEF IInv
<1>6. \A b \in Branch : b \in Q!Queued(queue') <=> b \in Q!Queued(queue)
  BY <1>4, ForkAssumption
<1>7. /\ (\A b \in Branch : BranchInv(b))'
      /\ Awaited' = Awaited /\ Alive' = Alive /\ Holders' = Holders
  <2>1. \A b \in Branch : BranchInv(b)
    BY DEF IInv
  <2> QED  BY <1>1, <1>3, <1>6, <2>1, BranchesSame
<1>8. HubInv'
  <2>1. hub'.refs = Cardinality(Holders') + IF hub'.handle THEN 1 ELSE 0
    BY <1>1, <1>2, <1>3, <1>7, HoldersFinite DEF IInv, HubInv
  <2>2. hub'.alive <=> hub'.refs > 0
    BY <1>2, <1>3
  <2> QED  BY <1>3, <1>4, <2>1, <2>2 DEF IInv, HubInv
<1>9. OrderInv'
  BY <1>1, <1>4, <1>7, FiresSame DEF IInv
<1> QED
  BY <1>1, <1>3, <1>4, <1>5, <1>7, <1>8, <1>9 DEF IInv, Quiet

-----------------------------------------------------------------------------
(* The steps of one branch.                                                *)

LEMMA OtherBranch ==
  ASSUME NEW c \in Branch, BranchInv(c), branch'[c] = branch[c],
         hub.inner = "taken" <=> hub'.inner = "taken",
         c > hub'.made => c > hub.made,
         c \in Q!Queued(queue') <=> c \in Q!Queued(queue)
  PROVE  BranchInv(c)'
  BY DEF BranchInv

LEMMA GetKeepsIInv == ASSUME IInv, NEW b \in Branch, Get(b)  PROVE IInv' /\ Quiet
<1>1. /\ hub \in HubType /\ branch \in [Branch -> BranchType] /\ QueueOK(queue)
      /\ branch[b].alive /\ branch[b].hub /\ branch[b].fires > 0
      /\ branch' = [branch EXCEPT ![b] = [branch[b] EXCEPT !.hub = FALSE]]
      /\ hub' = Unref(hub) /\ queue' = DropHub(queue, hub')
  BY DEF Get, IInv
<1>2. b \in Holders
  BY <1>1 DEF Holders, Alive
<1>3. hub.refs \in Nat /\ hub.refs > 0
  BY <1>2, HubAlive
<1>4. /\ hub' \in HubType /\ hub'.refs = hub.refs - 1
      /\ hub'.alive <=> hub.refs # 1
      /\ hub'.handle = hub.handle /\ hub'.inner = hub.inner /\ hub'.made = hub.made
      /\ hub'.head = hub.head /\ hub'.tail = hub.tail
  BY <1>1, <1>3, UnrefOp
<1>5. /\ QueueOK(queue') /\ Ordered(queue', Awaited)
      /\ Q!Queued(queue') = IF hub'.alive THEN Q!Queued(queue) ELSE Q!Queued(queue) \ {Hub}
  BY <1>1, DropHubOp DEF IInv, OrderInv
<1>6. \A c \in Branch : c \in Q!Queued(queue') <=> c \in Q!Queued(queue)
  BY <1>5, ForkAssumption
<1> DEFINE r == [branch[b] EXCEPT !.hub = FALSE]
<1>7. /\ r \in BranchType /\ ~r.hub /\ r.alive /\ r.next = branch[b].next
      /\ r.prevPtr = branch[b].prevPtr /\ r.cell = branch[b].cell
      /\ r.attached = branch[b].attached /\ r.fires = branch[b].fires
  BY <1>1 DEF BranchType
<1> HIDE DEF r
<1>8. /\ branch' \in [Branch -> BranchType] /\ branch'[b] = r
      /\ \A c \in Branch : c # b => branch'[c] = branch[c]
  BY <1>1, <1>7 DEF r
<1>9. ListInv'
  <2>1. \A c \in Branch : branch'[c].next = branch[c].next /\ branch'[c].prevPtr = branch[c].prevPtr
    BY <1>7, <1>8
  <2> QED  BY <1>4, <2>1, ListSame DEF IInv
<1>10. \A c \in Branch : BranchInv(c)'
  <2>1. \A c \in Branch : c # b => BranchInv(c)'
    BY <1>4, <1>6, <1>8, OtherBranch DEF IInv
  <2>2. BranchInv(b)'
    <3>1. BranchInv(b) /\ ~(b > hub.made)
      <4>1. BranchInv(b)
        BY DEF IInv
      <4> QED  BY <1>1, <4>1 DEF BranchInv, NoBranch
    <3> QED  BY <1>1, <1>4, <1>6, <1>7, <1>8, <3>1 DEF BranchInv
  <2> QED  BY <2>1, <2>2
<1>11. HubInv'
  <2>1. Holders' = Holders \ {b}
    BY <1>7, <1>8 DEF Holders, Alive
  <2>2. Cardinality(Holders') = Cardinality(Holders) - 1
    BY <1>2, <2>1, HoldersFinite, FS_RemoveElement
  <2>3. hub'.refs = Cardinality(Holders') + IF hub'.handle THEN 1 ELSE 0
    BY <1>3, <1>4, <2>2, HoldersFinite DEF IInv, HubInv
  <2>4. hub'.alive <=> hub'.refs > 0
    BY <1>3, <1>4
  <2> QED  BY <1>4, <1>5, <2>3, <2>4 DEF IInv, HubInv
<1>12. Awaited' = Awaited /\ Alive' = Alive
  BY <1>1, <1>7, <1>8 DEF Awaited, Alive
<1>13. OrderInv'
  <2>1. \A c \in Branch : branch'[c].fires = branch[c].fires
    BY <1>7, <1>8
  <2> QED  BY <1>5, <1>12, <2>1, FiresSame DEF IInv, Alive
<1> QED
  BY <1>4, <1>5, <1>8, <1>9, <1>10, <1>11, <1>12, <1>13 DEF IInv, Quiet

LEMMA FireConsumerKeepsIInv == ASSUME IInv, NEW b \in Branch, FireConsumer(b)  PROVE IInv' /\ Quiet
<1>1. /\ hub \in HubType /\ branch \in [Branch -> BranchType] /\ QueueOK(queue)
      /\ queue.order # << >> /\ Head(queue.order) = b /\ UNCHANGED hub
  BY ForkAssumption DEF FireConsumer, IInv, First
<1>2. /\ QueueOK(queue') /\ b \in Q!Queued(queue) /\ Q!Queued(queue') = Q!Queued(queue) \ {b}
      /\ Ordered(queue', Awaited)
      /\ b \in Awaited => \A x \in Q!Queued(queue) \cap Awaited : x = b \/ b < x
  BY <1>1, PopOp DEF FireConsumer, IInv, OrderInv
<1>3. /\ branch[b].alive /\ branch[b].attached /\ branch[b].fires = 0 /\ hub.inner = "taken"
      /\ BranchInv(b)
  BY <1>2 DEF IInv, BranchInv
<1> DEFINE r == [branch[b] EXCEPT !.fires = 1]
<1>4. /\ r \in BranchType /\ r.hub = branch[b].hub /\ r.alive /\ r.next = branch[b].next
      /\ r.prevPtr = branch[b].prevPtr /\ r.cell = branch[b].cell
      /\ r.attached /\ r.fires = 1
  <2>1. branch[b] \in BranchType /\ 1 \in 0 .. 2
    BY <1>1
  <2>2. r \in BranchType
    BY <2>1 DEF BranchType
  <2> QED  BY <1>3, <2>1, <2>2 DEF BranchType
<1>5. branch' = [branch EXCEPT ![b] = r]
  BY <1>1, <1>3 DEF FireConsumer
<1> HIDE DEF r
<1>6. /\ branch' \in [Branch -> BranchType] /\ branch'[b] = r
      /\ \A c \in Branch : c # b => branch'[c] = branch[c]
  BY <1>1, <1>4, <1>5
<1>7. ListInv'
  <2>1. \A c \in Branch : branch'[c].next = branch[c].next /\ branch'[c].prevPtr = branch[c].prevPtr
    BY <1>4, <1>6
  <2> QED  BY <1>1, <2>1, ListSame DEF IInv
<1>8. \A c \in Branch : BranchInv(c)'
  <2>1. \A c \in Branch : c # b => BranchInv(c)'
    BY <1>1, <1>2, <1>6, OtherBranch DEF IInv
  <2>2. ~(b > hub.made)
    BY <1>3 DEF BranchInv, NoBranch
  <2>3. hub' = hub /\ branch'[b] = r /\ b \notin Q!Queued(queue')
    BY <1>1, <1>2, <1>6
  <2>4. BranchInv(b)'
    BY <1>3, <1>4, <2>2, <2>3 DEF BranchInv
  <2> QED  BY <2>1, <2>4
<1>9. Awaited' = Awaited /\ Alive' = Alive /\ Holders' = Holders
  BY <1>3, <1>4, <1>6 DEF Awaited, Alive, Holders
<1>10. HubInv'
  BY <1>1, <1>2, <1>9 DEF IInv, HubInv
<1>11. OrderInv'
  <2> SUFFICES ASSUME NEW x \in Awaited \cap Alive, NEW c \in Awaited \cap Alive,
                      x < c, branch'[c].fires > 0
               PROVE  branch'[x].fires > 0
    BY <1>2, <1>9 DEF OrderInv
  <2>1. CASE c = b
    <3>1. x \in Branch /\ x # b /\ BranchInv(x) /\ branch[x].cell = x /\ branch[x].alive
      BY <2>1 DEF Awaited, Alive, Branch, IInv
    <3>2. x \notin Q!Queued(queue)
      BY <1>2, <2>1, <3>1 DEF Branch
    <3>3. branch[x].fires # 0 /\ branch[x].fires \in 0 .. 2
      BY <1>1, <1>3, <3>1, <3>2 DEF BranchInv, BranchType
    <3> QED  BY <1>6, <3>1, <3>3
  <2>2. CASE c # b
    <3>1. branch[c].fires > 0
      BY <1>6, <2>2 DEF Awaited
    <3>2. branch[x].fires > 0
      BY <3>1 DEF IInv, OrderInv
    <3> QED  BY <1>4, <1>6, <3>2 DEF Awaited
  <2> QED  BY <2>1, <2>2
<1> QED
  BY <1>1, <1>2, <1>6, <1>7, <1>8, <1>9, <1>10, <1>11 DEF IInv, Quiet

LEMMA AttachKeepsIInv == ASSUME IInv, NEW b \in Branch, Attach(b)  PROVE IInv' /\ Quiet
<1>1. /\ hub \in HubType /\ branch \in [Branch -> BranchType] /\ QueueOK(queue) /\ UNCHANGED hub
      /\ branch[b].alive /\ ~branch[b].attached /\ BranchInv(b) /\ ListInv /\ HubInv /\ OrderInv
      /\ Ordered(queue, Awaited)
  BY DEF Attach, IInv, OrderInv
<1> DEFINE late == branch[b].cell = AlreadyReady
           v == IF late THEN AlreadyReady ELSE b
           r == [branch[b] EXCEPT !.attached = TRUE, !.cell = v]
<1>2. branch' = [branch EXCEPT ![b] = r]
  BY <1>1 DEF Attach, Q!InitCell, BranchType
<1>3. /\ r \in BranchType /\ r.hub = branch[b].hub /\ r.alive /\ r.next = branch[b].next
      /\ r.prevPtr = branch[b].prevPtr /\ r.cell = v
      /\ r.attached /\ r.fires = branch[b].fires
  <2>1. v \in Branch \cup {AlreadyReady}
    OBVIOUS
  <2> HIDE DEF v
  <2> QED  BY <1>1, <2>1 DEF BranchType
<1>4. queue' = IF late THEN Q!BreadthFirst(queue, b) ELSE queue
  BY DEF Attach, Q!InitQueue
<1>5. /\ b \notin Q!Queued(queue) /\ b \notin Awaited /\ ~(b > hub.made)
      /\ branch[b].fires = 0 /\ (late <=> hub.inner = "taken")
  <2>1. b \notin Q!Queued(queue) /\ branch[b].cell # b /\ ~(b > hub.made) /\ ~(branch[b].fires > 0)
    BY <1>1 DEF BranchInv, NoBranch
  <2>2. branch[b].fires \in 0 .. 2
    BY <1>1 DEF BranchType
  <2>3. late <=> hub.inner = "taken"
    BY <1>1, <2>1 DEF BranchInv
  <2> QED  BY <2>1, <2>2, <2>3 DEF Awaited
<1> HIDE DEF r
<1>6. /\ branch' \in [Branch -> BranchType] /\ branch'[b] = r
      /\ \A c \in Branch : c # b => branch'[c] = branch[c]
  BY <1>1, <1>2, <1>3
<1>7. /\ QueueOK(queue')
      /\ Q!Queued(queue') = IF late THEN Q!Queued(queue) \cup {b} ELSE Q!Queued(queue)
      /\ Ordered(queue', Awaited)
  BY <1>1, <1>4, <1>5, BreadthFirstOp
<1>8. ListInv'
  <2>1. \A c \in Branch : branch'[c].next = branch[c].next /\ branch'[c].prevPtr = branch[c].prevPtr
    BY <1>3, <1>6
  <2> QED  BY <1>1, <2>1, ListSame
<1>9. \A c \in Branch : BranchInv(c)'
  <2>1. \A c \in Branch : c # b => BranchInv(c)'
    BY <1>1, <1>6, <1>7, OtherBranch DEF IInv
  <2>2. BranchInv(b)'
    BY <1>1, <1>3, <1>5, <1>6, <1>7, ForkAssumption DEF BranchInv
  <2> QED  BY <2>1, <2>2
<1>10. Alive' = Alive /\ Holders' = Holders
  BY <1>1, <1>3, <1>6 DEF Alive, Holders
<1>11. HubInv'
  BY <1>1, <1>7, <1>10, ForkAssumption DEF HubInv
<1>12. Awaited' \subseteq Awaited \cup {b} /\ (late => Awaited' = Awaited)
  BY <1>3, <1>5, <1>6, ForkAssumption DEF Awaited
<1>13. Ordered(queue', Awaited')
  BY <1>5, <1>7, <1>12, OrderedOn
<1>14. OrderInv'
  <2>1. \A c \in Branch : branch'[c].fires = branch[c].fires
    BY <1>3, <1>6
  <2>2. CASE late
    BY <1>1, <1>10, <1>12, <1>13, <2>1, <2>2, FiresSame DEF Alive
  <2>3. CASE ~late
    <3>1. \A c \in Branch : ~(branch[c].fires > 0)
      BY <1>5, <2>3, QueuedBranches
    <3> QED  BY <1>13, <2>1, <3>1 DEF OrderInv, Alive
  <2> QED  BY <2>2, <2>3
<1> QED
  BY <1>1, <1>6, <1>7, <1>8, <1>9, <1>10, <1>11, <1>14 DEF IInv, Quiet

-----------------------------------------------------------------------------
(* addBranch(), and the destructor of a branch.                            *)

\* The new branch goes to the end of the list, if the hub still has one.
LEMMA AddToList ==
  ASSUME ListInv, NEW b \in Branch, NEW t, t = hub.tail,
         branch[b].next = None, branch[b].prevPtr = None,
         \A c \in Linked : c < b,
         branch'[b].next = None, branch'[b].prevPtr = t,
         \A x \in Branch : x # b => branch'[x].prevPtr = branch[x].prevPtr,
         \A x \in Branch : x # b => branch'[x].next = IF x = t THEN b ELSE branch[x].next,
         hub'.head = IF t = HeadSlot THEN b ELSE hub.head,
         hub'.tail = IF t = None THEN hub.tail ELSE b
  PROVE  ListInv' /\ Linked' = IF t = None THEN Linked ELSE Linked \cup {b}
<1>0. b \notin Linked /\ \A x : x \in Linked <=> x \in Branch /\ branch[x].prevPtr # None
  BY DEF Linked
<1>1. Linked' = IF t = None THEN Linked ELSE Linked \cup {b}
  BY <1>0 DEF Linked
<1>2. CASE t = None
  BY <1>0, <1>1, <1>2, ForkAssumption, ListSame DEF ListInv
<1>3. CASE t = HeadSlot
  <2>1. Linked = {} /\ Linked' = {b} /\ t # None /\ t \notin Branch
    BY <1>1, <1>3, ForkAssumption DEF ListInv, Linked
  <2>2. Before(b)' /\ After(b)'
    BY <1>3, <2>1 DEF Before, After, Branch
  <2>3. \A x \in Branch \ Linked' : branch'[x].next = None
    BY <2>1 DEF ListInv
  <2>4. hub'.head = b /\ hub'.tail = b
    BY <1>3, <2>1
  <2> QED  BY <2>1, <2>2, <2>3, <2>4 DEF ListInv, Branch
<1>4. CASE t \in Linked
  <2>1. t # None /\ t # HeadSlot /\ t \in Branch /\ t # b /\ t < b /\ Linked' = Linked \cup {b}
    BY <1>0, <1>1, <1>4, ForkAssumption
  <2>2. \A c \in Linked : c <= t
    BY <1>4, <2>1, ForkAssumption DEF ListInv
  <2>3. b \in Int /\ \A c \in Linked : c \in Int /\ c \in Branch /\ c # b /\ c < b
    BY <1>0 DEF Branch
  <2>4. ASSUME NEW c \in Linked  PROVE Before(c)'
    <3>1. Before(c)
      BY DEF ListInv
    <3>2. branch'[c].prevPtr = branch[c].prevPtr
      BY <2>3
    <3> QED  BY <2>1, <2>3, <3>1, <3>2 DEF Before
  <2>5. ASSUME NEW c \in Linked  PROVE After(c)'
    <3>1. After(c)
      BY DEF ListInv
    <3>2. CASE c = t
      <4>1. branch'[c].next = b
        BY <2>1, <2>3, <3>2
      <4> QED  BY <2>1, <2>2, <2>3, <3>2, <4>1 DEF After
    <3>3. CASE c # t
      <4>1. branch'[c].next = branch[c].next
        BY <2>3, <3>3
      <4>2. branch[c].next \in Linked
        BY <1>4, <2>2, <2>3, <3>1, <3>3 DEF After
      <4> QED  BY <2>1, <2>3, <3>1, <4>1, <4>2, ForkAssumption DEF After
    <3> QED  BY <3>2, <3>3
  <2>6. Before(b)' /\ After(b)'
    BY <1>4, <2>1, <2>2, <2>3 DEF Before, After
  <2>7. \A x \in Branch \ Linked' : branch'[x].next = None
    BY <1>4, <2>1 DEF ListInv
  <2>8. hub'.head \in Linked' /\ \A c \in Linked' : c >= hub'.head
    <3>1. hub.head \in Linked /\ \A c \in Linked : c >= hub.head
      BY <1>4 DEF ListInv
    <3> QED  BY <2>1, <2>3, <3>1
  <2>9. hub'.tail = b /\ \A c \in Linked' : c <= b
    BY <2>1, <2>3
  <2> QED  BY <1>1, <2>1, <2>4, <2>5, <2>6, <2>7, <2>8, <2>9 DEF ListInv
<1> QED
  BY <1>1, <1>2, <1>3, <1>4 DEF ListInv

LEMMA AddBranchKeepsIInv ==
  ASSUME IInv, AddBranch
  PROVE  /\ IInv'
         /\ \E b \in Branch : /\ Alive' = Alive \cup {b} /\ \A c \in Alive : c < b
                             /\ hub'.inner = hub.inner
<1>0. PICK b, t : b = hub.made + 1 /\ t = hub.tail
  OBVIOUS
<1> DEFINE c == IF t = None THEN AlreadyReady ELSE None
           hd == IF t = HeadSlot THEN b ELSE hub.head
           tl == IF t = None THEN hub.tail ELSE b
           new == [NoBranch EXCEPT !.alive = TRUE, !.hub = TRUE, !.prevPtr = t, !.cell = c]
<1>1. /\ hub \in HubType /\ branch \in [Branch -> BranchType] /\ QueueOK(queue)
      /\ b \in Branch /\ hub.handle /\ UNCHANGED queue /\ BranchInv(b) /\ ListInv /\ HubInv
      /\ t \in Slot \cup {None} /\ hub.made \in Nat
  BY <1>0 DEF AddBranch, AddAt, IInv, HubType
<1>2. b > hub.made /\ branch[b] = NoBranch /\ b \notin Q!Queued(queue)
  BY <1>0, <1>1 DEF BranchInv, NoBranch
<1>3. /\ new \in BranchType /\ new.alive /\ new.hub /\ new.next = None /\ new.prevPtr = t
      /\ new.cell = c /\ ~new.attached /\ new.fires = 0
  <2>1. NoBranch \in BranchType /\ ~NoBranch.attached /\ NoBranch.fires = 0 /\ NoBranch.next = None
    BY DEF NoBranch, BranchType
  <2>2. c \in Branch \cup {None, AlreadyReady} /\ t \in Slot \cup {None}
    BY <1>1
  <2> HIDE DEF c
  <2>3. new \in BranchType
    BY <2>1, <2>2 DEF BranchType
  <2> QED  BY <2>1, <2>3 DEF BranchType
<1>4. /\ branch' = [x \in Branch |-> IF x = b THEN new
                                     ELSE IF x = t THEN [branch[x] EXCEPT !.next = b]
                                     ELSE branch[x]]
      /\ hub' = [hub EXCEPT !.made = b, !.refs = @ + 1, !.head = hd, !.tail = tl]
  BY <1>0 DEF AddBranch, AddAt
<1>5. /\ hub' \in HubType /\ hub'.alive = hub.alive /\ hub'.handle = hub.handle
      /\ hub'.refs = hub.refs + 1 /\ hub'.inner = hub.inner /\ hub'.made = b
      /\ hub'.head = hd /\ hub'.tail = tl
  <2>1. /\ b \in 0 .. MaxBranches /\ hd \in Branch \cup {None} /\ tl \in Slot \cup {None}
    BY <1>1 DEF Branch, Slot, HubType
  <2>2. hub.refs + 1 \in Nat
    BY <1>1 DEF HubType
  <2> HIDE DEF hd, tl
  <2>3. hub' \in HubType
    BY <1>1, <1>4, <2>1, <2>2 DEF HubType
  <2> QED  BY <1>1, <1>4, <2>3 DEF HubType
<1> HIDE DEF new
<1>6. /\ branch'[b] = new
      /\ \A x \in Branch : x # b =>
            branch'[x] = IF x = t THEN [branch[x] EXCEPT !.next = b] ELSE branch[x]
  BY <1>1, <1>4
<1>7. \A x \in Branch : x # b =>
          /\ branch'[x] \in BranchType
          /\ branch'[x].next = (IF x = t THEN b ELSE branch[x].next)
          /\ branch'[x].alive = branch[x].alive /\ branch'[x].hub = branch[x].hub
          /\ branch'[x].prevPtr = branch[x].prevPtr /\ branch'[x].cell = branch[x].cell
          /\ branch'[x].attached = branch[x].attached /\ branch'[x].fires = branch[x].fires
  <2> SUFFICES ASSUME NEW x \in Branch, x # b
               PROVE  /\ branch'[x] \in BranchType
                      /\ branch'[x].next = (IF x = t THEN b ELSE branch[x].next)
                      /\ branch'[x].alive = branch[x].alive /\ branch'[x].hub = branch[x].hub
                      /\ branch'[x].prevPtr = branch[x].prevPtr
                      /\ branch'[x].cell = branch[x].cell
                      /\ branch'[x].attached = branch[x].attached
                      /\ branch'[x].fires = branch[x].fires
    OBVIOUS
  <2>1. CASE x = t
    <3>1. branch[x] \in BranchType /\ branch'[x] = [branch[x] EXCEPT !.next = b]
      BY <1>1, <1>6, <2>1
    <3> QED  BY <1>1, <2>1, <3>1 DEF BranchType
  <2>2. CASE x # t
    BY <1>1, <1>6, <2>2
  <2> QED  BY <2>1, <2>2
<1>8. branch' \in [Branch -> BranchType]
  <2>1. \A x \in Branch : branch'[x] \in BranchType
    BY <1>3, <1>6, <1>7
  <2> QED  BY <1>4, <2>1
<1>9. ListInv'
  <2>1. branch[b].next = None /\ branch[b].prevPtr = None
    BY <1>2 DEF NoBranch
  <2>2. \A y \in Linked : y < b
    <3>1. \A y \in Linked : y \in Branch /\ y <= hub.made
      BY QueuedBranches
    <3> QED  BY <1>0, <1>1, <1>2, <3>1 DEF Branch
  <2> QED  BY <1>0, <1>1, <1>3, <1>5, <1>6, <1>7, <2>1, <2>2, AddToList
<1>10. t = None <=> hub.inner = "taken"
  BY <1>0, <1>1 DEF HubInv
<1>11. \A y \in Branch : BranchInv(y)'
  <2>1. BranchInv(b)'
    <3>1. None \notin Branch /\ None # AlreadyReady /\ AlreadyReady \notin Branch
      BY ForkAssumption
    <3>2. ~(b > hub'.made)
      BY <1>1, <1>5 DEF Branch
    <3> QED  BY <1>1, <1>2, <1>3, <1>5, <1>6, <1>10, <3>1, <3>2 DEF BranchInv
  <2>2. ASSUME NEW y \in Branch, y # b  PROVE BranchInv(y)'
    <3>1. BranchInv(y)
      BY DEF IInv
    <3>2. y > hub'.made => branch'[y] = NoBranch
      <4>1. y > hub'.made => y > hub.made
        BY <1>0, <1>1, <1>5 DEF Branch
      <4>2. y > hub.made => y # t
        <5>1. t \in Branch => t \in Linked
          BY <1>0, <1>1, ForkAssumption DEF ListInv
        <5>2. t \in Branch => t <= hub.made
          BY <5>1, QueuedBranches
        <5> QED  BY <1>1, <5>2 DEF Branch
      <4> QED  BY <1>6, <2>2, <3>1, <4>1, <4>2 DEF BranchInv
    <3> QED  BY <1>1, <1>5, <1>7, <2>2, <3>1, <3>2 DEF BranchInv
  <2> QED  BY <2>1, <2>2
<1>12. Alive' = Alive \cup {b} /\ Holders' = Holders \cup {b} /\ Awaited' = Awaited /\ b \notin Holders
       /\ b \notin Awaited
  <2>1. new.cell # b /\ branch[b].cell # b /\ ~branch[b].hub
    BY <1>1, <1>2, <1>3, ForkAssumption DEF NoBranch
  <2> QED  BY <1>1, <1>2, <1>3, <1>6, <1>7, <2>1 DEF Alive, Holders, Awaited, NoBranch
<1>13. HubInv'
  <2>1. Cardinality(Holders') = Cardinality(Holders) + 1
    BY <1>12, HoldersFinite, FS_AddElement
  <2>2. hub'.refs = Cardinality(Holders') + IF hub'.handle THEN 1 ELSE 0
    BY <1>1, <1>5, <2>1, HoldersFinite, HubAlive DEF HubInv
  <2>3. hub'.alive /\ hub'.refs > 0
    BY <1>1, <1>5, HubAlive
  <2>4. hub'.tail = None <=> hub'.inner = "taken"
    BY <1>0, <1>1, <1>5, <1>10, ForkAssumption
  <2> QED  BY <1>1, <1>5, <2>2, <2>3, <2>4 DEF HubInv
<1>14. OrderInv'
  <2>1. Ordered(queue', Awaited')
    BY <1>1, <1>12 DEF IInv, OrderInv
  <2>2. Awaited' \cap Alive' \subseteq Awaited \cap Alive
    BY <1>12
  <2>3. \A y \in Awaited' \cap Alive' : branch'[y].fires = branch[y].fires
    BY <1>7, <1>12 DEF Awaited
  <2> QED  BY <2>1, <2>2, <2>3, FiresSame DEF IInv
<1>15. \A y \in Alive : y < b
  <2>1. \A y \in Branch : y > hub.made => ~branch[y].alive
    BY DEF IInv, BranchInv, NoBranch
  <2> QED  BY <1>0, <1>1, <2>1 DEF Alive, Branch
<1> QED
  BY <1>1, <1>5, <1>8, <1>9, <1>11, <1>12, <1>13, <1>14, <1>15 DEF IInv

\* A linked branch leaves the list, from wherever it is.
LEMMA UnlinkFromList ==
  ASSUME ListInv, NEW b \in Linked, NEW p, NEW n, p = branch[b].prevPtr, n = branch[b].next,
         branch'[b].next = None, branch'[b].prevPtr = None,
         \A x \in Branch : x # b => branch'[x].prevPtr = IF x = n THEN p ELSE branch[x].prevPtr,
         \A x \in Branch : x # b => branch'[x].next = IF x = p THEN n ELSE branch[x].next,
         hub'.head = IF p = HeadSlot THEN n ELSE hub.head,
         hub'.tail = IF n = None THEN p ELSE hub.tail
  PROVE  ListInv' /\ Linked' = Linked \ {b}
<1> USE ForkAssumption
<1>0. b \in Branch /\ \A x : x \in Linked <=> x \in Branch /\ branch[x].prevPtr # None
  BY DEF Linked
<1>1. Before(b) /\ After(b)
  BY DEF ListInv
<1>2. \A c \in Linked : c \in Branch /\ c \in Int
  BY <1>0 DEF Branch
<1>3. /\ p = HeadSlot \/ p \in Linked
      /\ p # None
      /\ p = HeadSlot => p \notin Branch /\ \A c \in Linked : c >= b
      /\ p \in Linked => p # HeadSlot /\ p < b /\ \A c \in Linked : c <= p \/ c >= b
  BY <1>0, <1>1 DEF Before
<1>4. /\ n = None \/ n \in Linked
      /\ n = None => n \notin Branch /\ \A c \in Linked : c <= b
      /\ n \in Linked => n # None /\ n > b /\ \A c \in Linked : c <= b \/ c >= n
  BY <1>0, <1>1 DEF After
<1>5. n # b /\ p # b
  BY <1>0, <1>2, <1>3, <1>4
<1>6. Linked' = Linked \ {b}
  <2>1. \A x \in Branch : x # b => (branch'[x].prevPtr # None <=> branch[x].prevPtr # None)
    BY <1>0, <1>3, <1>4
  <2> QED  BY <1>0, <2>1 DEF Linked
<1>7. ASSUME NEW x \in Linked, x # b  PROVE Before(x)'
  <2>1. Before(x)
    BY DEF ListInv
  <2>2. CASE x = n
    <3>1. branch'[x].prevPtr = p
      BY <1>2, <1>7, <2>2
    <3>2. CASE p = HeadSlot
      <4>1. \A c \in Linked \ {b} : c >= x
        BY <1>2, <1>3, <1>4, <2>2, <3>2
      <4> QED  BY <1>6, <3>1, <3>2, <4>1 DEF Before
    <3>3. CASE p \in Linked
      <4>1. p \in Linked \ {b} /\ p < x
        BY <1>2, <1>3, <1>4, <1>5, <2>2, <3>3
      <4>2. \A c \in Linked \ {b} : c <= p \/ c >= x
        BY <1>2, <1>3, <1>4, <2>2, <3>3
      <4> QED  BY <1>6, <3>1, <4>1, <4>2 DEF Before
    <3> QED  BY <1>3, <3>2, <3>3
  <2>3. CASE x # n
    <3>1. branch'[x].prevPtr = branch[x].prevPtr
      BY <1>2, <1>7, <2>3
    <3>2. branch[x].prevPtr # b
      <4> SUFFICES ASSUME branch[x].prevPtr = b  PROVE FALSE
        OBVIOUS
      <4>1. b < x /\ \A c \in Linked : c <= b \/ c >= x
        BY <1>0, <2>1 DEF Before
      <4>2. n \in Linked
        BY <1>2, <1>4, <4>1
      <4>3. n >= x /\ x >= n
        BY <1>2, <1>4, <4>1, <4>2
      <4> QED  BY <1>2, <2>3, <4>2, <4>3
    <3> QED  BY <1>6, <2>1, <3>1, <3>2 DEF Before
  <2> QED  BY <2>2, <2>3
<1>8. ASSUME NEW x \in Linked, x # b  PROVE After(x)'
  <2>1. After(x)
    BY DEF ListInv
  <2>2. CASE x = p
    <3>1. branch'[x].next = n
      BY <1>2, <1>8, <2>2
    <3>2. CASE n = None
      <4>1. \A c \in Linked \ {b} : c <= x
        BY <1>2, <1>3, <1>4, <2>2, <3>2
      <4> QED  BY <1>6, <3>1, <3>2, <4>1 DEF After
    <3>3. CASE n \in Linked
      <4>1. n \in Linked \ {b} /\ n > x
        BY <1>2, <1>3, <1>4, <1>5, <2>2, <3>3
      <4>2. \A c \in Linked \ {b} : c <= x \/ c >= n
        BY <1>2, <1>3, <1>4, <2>2, <3>3
      <4> QED  BY <1>6, <3>1, <4>1, <4>2 DEF After
    <3> QED  BY <1>4, <3>2, <3>3
  <2>3. CASE x # p
    <3>1. branch'[x].next = branch[x].next
      BY <1>2, <1>8, <2>3
    <3>2. branch[x].next # b
      <4> SUFFICES ASSUME branch[x].next = b  PROVE FALSE
        OBVIOUS
      <4>1. b > x /\ \A c \in Linked : c <= x \/ c >= b
        BY <1>0, <2>1 DEF After
      <4>2. p \in Linked
        BY <1>2, <1>3, <4>1
      <4>3. p >= x /\ x >= p
        BY <1>2, <1>3, <4>1, <4>2
      <4> QED  BY <1>2, <2>3, <4>2, <4>3
    <3> QED  BY <1>6, <2>1, <3>1, <3>2 DEF After
  <2> QED  BY <2>2, <2>3
<1>9. \A x \in Branch \ Linked' : branch'[x].next = None
  <2>1. \A x \in Branch : x \notin Linked => x # p /\ x # b
    BY <1>3
  <2> QED  BY <1>6, <2>1 DEF ListInv
<1>10. \/ hub'.head = None /\ Linked' = {}
       \/ hub'.head \in Linked' /\ \A c \in Linked' : c >= hub'.head
  <2>0. hub.head \in Linked /\ \A c \in Linked : c >= hub.head
    BY DEF ListInv
  <2>1. CASE p = HeadSlot /\ n = None
    <3>1. \A c \in Linked : c = b
      BY <1>2, <1>3, <1>4, <2>1
    <3> QED  BY <1>6, <2>1, <3>1
  <2>2. CASE p = HeadSlot /\ n \in Linked
    <3>1. n \in Linked \ {b} /\ \A c \in Linked \ {b} : c >= n
      BY <1>2, <1>3, <1>4, <1>5, <2>2
    <3> QED  BY <1>6, <2>2, <3>1
  <2>3. CASE p \in Linked
    <3>1. hub.head # b
      BY <1>2, <1>3, <2>0, <2>3
    <3> QED  BY <1>3, <1>6, <2>0, <2>3, <3>1
  <2> QED  BY <1>3, <1>4, <2>1, <2>2, <2>3
<1>11. \/ hub'.tail \in {None, HeadSlot} /\ Linked' = {}
       \/ hub'.tail \in Linked' /\ \A c \in Linked' : c <= hub'.tail
  <2>0. hub.tail \in Linked /\ \A c \in Linked : c <= hub.tail
    BY DEF ListInv
  <2>1. CASE n = None /\ p = HeadSlot
    <3>1. \A c \in Linked : c = b
      BY <1>2, <1>3, <1>4, <2>1
    <3> QED  BY <1>6, <2>1, <3>1
  <2>2. CASE n = None /\ p \in Linked
    <3>1. p \in Linked \ {b} /\ \A c \in Linked \ {b} : c <= p
      BY <1>2, <1>3, <1>4, <1>5, <2>2
    <3> QED  BY <1>6, <2>2, <3>1
  <2>3. CASE n \in Linked
    <3>1. hub.tail # b
      BY <1>2, <1>4, <2>0, <2>3
    <3> QED  BY <1>4, <1>6, <2>0, <2>3, <3>1
  <2> QED  BY <1>3, <1>4, <2>1, <2>2, <2>3
<1> QED
  BY <1>6, <1>7, <1>8, <1>9, <1>10, <1>11 DEF ListInv

\* What ~ForkBranchBase does to the fields: the two neighbours, and its own.
LEMMA UnlinkedFields ==
  ASSUME IInv, NEW b \in Branch, branch[b].alive,
         NEW p, NEW n, p = branch[b].prevPtr, n = branch[b].next
  PROVE  LET h == Unlinked(b)[1]
             br == Unlinked(b)[2]
         IN  /\ h \in HubType /\ h.alive = hub.alive /\ h.handle = hub.handle
             /\ h.refs = hub.refs /\ h.inner = hub.inner /\ h.made = hub.made
             /\ h.head = (IF p = HeadSlot THEN n ELSE hub.head)
             /\ h.tail = (IF p # None /\ n = None THEN p ELSE hub.tail)
             /\ br \in [Branch -> BranchType]
             /\ ~br[b].alive /\ ~br[b].hub /\ br[b].next = None /\ br[b].prevPtr = None
             /\ br[b].cell = branch[b].cell /\ br[b].fires = branch[b].fires
             /\ br[b].attached = branch[b].attached
             /\ \A x \in Branch : x # b =>
                   /\ br[x].prevPtr = (IF x = n THEN p ELSE branch[x].prevPtr)
                   /\ br[x].next = (IF x = p THEN n ELSE branch[x].next)
                   /\ br[x].alive = branch[x].alive /\ br[x].hub = branch[x].hub
                   /\ br[x].cell = branch[x].cell /\ br[x].attached = branch[x].attached
                   /\ br[x].fires = branch[x].fires
             /\ p = None => n = None
             /\ p # None => p # n /\ b \in Linked
<1> DEFINE h == Unlinked(b)[1]
           br == Unlinked(b)[2]
           hd == IF p = HeadSlot THEN n ELSE hub.head
           tl == IF n = None THEN p ELSE hub.tail
<1> USE ForkAssumption
<1>1. /\ hub \in HubType /\ branch \in [Branch -> BranchType] /\ ListInv
      /\ branch[b] \in BranchType /\ p \in Slot \cup {None} /\ n \in Branch \cup {None}
  BY DEF IInv, BranchType
<1>2. CASE p = None
  <2> DEFINE r == [branch[b] EXCEPT !.alive = FALSE, !.hub = FALSE]
  <2>1. n = None
    BY <1>1, <1>2 DEF ListInv, Linked
  <2>2. r \in BranchType /\ ~r.alive /\ ~r.hub /\ r.next = None /\ r.prevPtr = None
        /\ r.cell = branch[b].cell /\ r.fires = branch[b].fires
        /\ r.attached = branch[b].attached
    BY <1>1, <1>2, <2>1 DEF BranchType
  <2>3. h = hub /\ br = [branch EXCEPT ![b] = r]
    BY <1>2 DEF Unlinked
  <2> HIDE DEF r, h, br
  <2>4. br \in [Branch -> BranchType] /\ br[b] = r /\ \A x \in Branch : x # b => br[x] = branch[x]
    BY <1>1, <2>2, <2>3
  <2> QED  BY <1>1, <1>2, <2>1, <2>2, <2>3, <2>4 DEF h, br
<1>3. CASE p # None
  <2>1. b \in Linked /\ Before(b) /\ After(b)
    BY <1>3 DEF Linked, IInv, ListInv
  <2>2. p # n /\ p # b /\ n # b
    BY <2>1 DEF Before, After, Linked, Branch
  <2> DEFINE r == [branch[b] EXCEPT !.alive = FALSE, !.hub = FALSE, !.next = None, !.prevPtr = None]
             rp == [branch[p] EXCEPT !.next = n]
             rn == [branch[n] EXCEPT !.prevPtr = p]
  <2>3. r \in BranchType /\ ~r.alive /\ ~r.hub /\ r.next = None /\ r.prevPtr = None
        /\ r.cell = branch[b].cell /\ r.fires = branch[b].fires
        /\ r.attached = branch[b].attached
    BY <1>1 DEF BranchType
  <2>4. h = [hub EXCEPT !.head = hd, !.tail = tl]
    BY <1>3 DEF Unlinked
  <2>5. br = [x \in Branch |-> CASE x = b -> r [] x = p -> rp [] x = n -> rn [] OTHER -> branch[x]]
    BY <1>3 DEF Unlinked
  <2>6. hd \in Branch \cup {None} /\ tl \in Slot \cup {None}
    BY <1>1 DEF HubType
  <2>7. p \in Branch => /\ rp \in BranchType /\ rp.next = n /\ rp.prevPtr = branch[p].prevPtr
                        /\ rp.alive = branch[p].alive /\ rp.hub = branch[p].hub
                        /\ rp.cell = branch[p].cell /\ rp.attached = branch[p].attached
                        /\ rp.fires = branch[p].fires
    <3> SUFFICES ASSUME p \in Branch, branch[p] \in BranchType
                 PROVE  /\ rp \in BranchType /\ rp.next = n /\ rp.prevPtr = branch[p].prevPtr
                        /\ rp.alive = branch[p].alive /\ rp.hub = branch[p].hub
                        /\ rp.cell = branch[p].cell /\ rp.attached = branch[p].attached
                        /\ rp.fires = branch[p].fires
      BY <1>1
    <3> QED  BY <1>1 DEF BranchType
  <2>8. n \in Branch => /\ rn \in BranchType /\ rn.next = branch[n].next /\ rn.prevPtr = p
                        /\ rn.alive = branch[n].alive /\ rn.hub = branch[n].hub
                        /\ rn.cell = branch[n].cell /\ rn.attached = branch[n].attached
                        /\ rn.fires = branch[n].fires
    <3> SUFFICES ASSUME n \in Branch, branch[n] \in BranchType
                 PROVE  /\ rn \in BranchType /\ rn.next = branch[n].next /\ rn.prevPtr = p
                        /\ rn.alive = branch[n].alive /\ rn.hub = branch[n].hub
                        /\ rn.cell = branch[n].cell /\ rn.attached = branch[n].attached
                        /\ rn.fires = branch[n].fires
      BY <1>1
    <3> QED  BY <1>1 DEF BranchType
  <2> HIDE DEF r, rp, rn, h, br, hd, tl
  <2>9. /\ h \in HubType /\ h.alive = hub.alive /\ h.handle = hub.handle
        /\ h.refs = hub.refs /\ h.inner = hub.inner /\ h.made = hub.made
        /\ h.head = hd /\ h.tail = tl
    <3>1. h \in HubType
      BY <1>1, <2>4, <2>6 DEF HubType
    <3> QED  BY <1>1, <2>4, <3>1 DEF HubType
  <2>10. br[b] = r
    BY <2>2, <2>5
  <2>11. \A x \in Branch : x # b =>
            br[x] = IF x = p THEN rp ELSE IF x = n THEN rn ELSE branch[x]
    BY <2>2, <2>5
  <2>12. br \in [Branch -> BranchType]
    <3>1. \A x \in Branch : br[x] \in BranchType
      BY <1>1, <2>3, <2>7, <2>8, <2>10, <2>11
    <3> QED  BY <2>5, <3>1
  <2>13. \A x \in Branch : x # b =>
                   /\ br[x].prevPtr = (IF x = n THEN p ELSE branch[x].prevPtr)
                   /\ br[x].next = (IF x = p THEN n ELSE branch[x].next)
                   /\ br[x].alive = branch[x].alive /\ br[x].hub = branch[x].hub
                   /\ br[x].cell = branch[x].cell /\ br[x].attached = branch[x].attached
                   /\ br[x].fires = branch[x].fires
    <3> SUFFICES ASSUME NEW x \in Branch, x # b
                 PROVE  /\ br[x].prevPtr = (IF x = n THEN p ELSE branch[x].prevPtr)
                        /\ br[x].next = (IF x = p THEN n ELSE branch[x].next)
                        /\ br[x].alive = branch[x].alive /\ br[x].hub = branch[x].hub
                        /\ br[x].cell = branch[x].cell /\ br[x].attached = branch[x].attached
                        /\ br[x].fires = branch[x].fires
      OBVIOUS
    <3>1. CASE x = p
      BY <2>2, <2>7, <2>11, <3>1
    <3>2. CASE x = n
      BY <2>2, <2>8, <2>11, <3>2
    <3>3. CASE x # p /\ x # n
      BY <2>11, <3>3
    <3> QED  BY <3>1, <3>2, <3>3
  <2> QED  BY <1>3, <2>1, <2>2, <2>3, <2>9, <2>10, <2>12, <2>13 DEF h, br, hd, tl
<1> QED
  BY <1>2, <1>3

LEMMA DropBranchKeepsIInv ==
  ASSUME IInv, NEW b \in Branch, DropBranch(b)
  PROVE  IInv' /\ b \in Alive /\ Alive' = Alive \ {b} /\ hub'.inner = hub.inner
<1>0. PICK p, n : p = branch[b].prevPtr /\ n = branch[b].next
  OBVIOUS
<1> DEFINE h == Unlinked(b)[1]
<1>1. /\ hub \in HubType /\ branch \in [Branch -> BranchType] /\ QueueOK(queue)
      /\ branch[b].alive /\ branch' = Unlinked(b)[2] /\ BranchInv(b) /\ ListInv /\ HubInv
      /\ hub' = (IF branch[b].hub THEN Unref(h) ELSE hub)
      /\ queue' = DropHub(Q!Drop(queue, b), hub')
  BY DEF DropBranch, IInv
<1>2. /\ h \in HubType /\ h.alive = hub.alive /\ h.handle = hub.handle
      /\ h.refs = hub.refs /\ h.inner = hub.inner /\ h.made = hub.made
      /\ h.head = (IF p = HeadSlot THEN n ELSE hub.head)
      /\ h.tail = (IF p # None /\ n = None THEN p ELSE hub.tail)
      /\ p = None => n = None
      /\ p # None => p # n /\ b \in Linked
  BY <1>0, <1>1, UnlinkedFields
<1>3. /\ branch' \in [Branch -> BranchType]
      /\ ~branch'[b].alive /\ ~branch'[b].hub
      /\ branch'[b].next = None /\ branch'[b].prevPtr = None
      /\ branch'[b].cell = branch[b].cell /\ branch'[b].fires = branch[b].fires
      /\ branch'[b].attached = branch[b].attached
  BY <1>0, <1>1, UnlinkedFields
<1>4. \A x \in Branch : x # b =>
          /\ branch'[x].prevPtr = (IF x = n THEN p ELSE branch[x].prevPtr)
          /\ branch'[x].next = (IF x = p THEN n ELSE branch[x].next)
          /\ branch'[x].alive = branch[x].alive /\ branch'[x].hub = branch[x].hub
          /\ branch'[x].cell = branch[x].cell /\ branch'[x].attached = branch[x].attached
          /\ branch'[x].fires = branch[x].fires
  BY <1>0, <1>1, UnlinkedFields
<1> HIDE DEF h
\* A branch that has delivered is not in the list.
<1>5. ~branch[b].hub => p = None
  BY <1>0, <1>1 DEF BranchInv
<1>6. branch[b].hub => b \in Holders /\ hub.refs \in Nat /\ hub.refs > 0
  <2>1. branch[b].hub => b \in Holders
    BY <1>1 DEF Holders, Alive
  <2> QED  BY <2>1, HubAlive
<1>7. /\ hub' \in HubType /\ hub'.handle = hub.handle /\ hub'.inner = hub.inner
      /\ hub'.made = hub.made
      /\ hub'.head = (IF p = HeadSlot THEN n ELSE hub.head)
      /\ hub'.tail = (IF p # None /\ n = None THEN p ELSE hub.tail)
      /\ branch[b].hub => hub'.refs = hub.refs - 1 /\ (hub'.alive <=> hub.refs # 1)
      /\ ~branch[b].hub => hub'.refs = hub.refs /\ hub'.alive = hub.alive
  <2>1. CASE branch[b].hub
    <3>1. LET k == Unref(h)
          IN  /\ k \in HubType /\ k.refs = h.refs - 1
              /\ k.alive <=> h.refs # 1
              /\ k.handle = h.handle /\ k.inner = h.inner /\ k.made = h.made
              /\ k.head = h.head /\ k.tail = h.tail
      BY <1>2, <1>6, <2>1, UnrefOp
    <3> QED  BY <1>1, <1>2, <2>1, <3>1
  <2>2. CASE ~branch[b].hub
    BY <1>1, <1>2, <1>5, <2>2, ForkAssumption
  <2> QED  BY <2>1, <2>2
<1>8. /\ QueueOK(queue') /\ Ordered(queue', Awaited)
      /\ Q!Queued(queue') = IF hub'.alive THEN Q!Queued(queue) \ {b}
                            ELSE (Q!Queued(queue) \ {b}) \ {Hub}
  <2> DEFINE q == Q!Drop(queue, b)
  <2>1. QueueOK(q) /\ Ordered(q, Awaited) /\ Q!Queued(q) = Q!Queued(queue) \ {b}
    BY <1>1, DropOp DEF IInv, OrderInv
  <2>2. queue' = DropHub(q, hub')
    BY <1>1
  <2> HIDE DEF q
  <2> QED  BY <2>1, <2>2, DropHubOp
<1>9. ListInv' /\ Linked' = Linked \ {b}
  <2>1. CASE p = None
    <3>1. \A x \in Branch : /\ branch'[x].next = branch[x].next
                            /\ branch'[x].prevPtr = branch[x].prevPtr
      <4> SUFFICES ASSUME NEW x \in Branch
                   PROVE  branch'[x].next = branch[x].next /\ branch'[x].prevPtr = branch[x].prevPtr
        OBVIOUS
      <4>1. n = None /\ None \notin Branch
        BY <1>2, <2>1, ForkAssumption
      <4>2. CASE x = b
        BY <1>0, <1>3, <2>1, <4>1, <4>2
      <4>3. CASE x # b
        BY <1>4, <2>1, <4>1, <4>3
      <4> QED  BY <4>2, <4>3
    <3>2. b \notin Linked
      BY <1>0, <2>1 DEF Linked
    <3> QED  BY <1>1, <1>7, <2>1, <3>1, <3>2, ListSame, ForkAssumption
  <2>2. CASE p # None
    BY <1>0, <1>1, <1>2, <1>3, <1>4, <1>7, <2>2, UnlinkFromList
  <2> QED  BY <2>1, <2>2
<1>10. \A y \in Branch : BranchInv(y)'
  <2>1. BranchInv(b)'
    <3>1. ~(b > hub.made)
      BY <1>1 DEF BranchInv, NoBranch
    <3>2. b \notin Q!Queued(queue')
      BY <1>8
    <3> QED  BY <1>1, <1>3, <1>7, <3>1, <3>2 DEF BranchInv
  <2>2. ASSUME NEW y \in Branch, y # b  PROVE BranchInv(y)'
    <3>1. BranchInv(y)
      BY DEF IInv
    <3>2. y \in Q!Queued(queue') <=> y \in Q!Queued(queue)
      BY <1>8, <2>2, ForkAssumption
    <3>3. branch'[y].prevPtr # None <=> branch[y].prevPtr # None
      BY <1>9, <2>2 DEF Linked
    <3>4. y > hub.made => branch'[y] = NoBranch
      <4>1. y \in Linked => ~(y > hub.made)
        BY <3>1 DEF BranchInv, Linked, NoBranch
      <4>2. y > hub.made => branch[y] = NoBranch
        BY <3>1 DEF BranchInv
      <4>3. p \in Branch => p \in Linked
        BY <1>0, <1>2, ForkAssumption DEF ListInv, Before, Linked, IInv
      <4>4. n \in Branch => n \in Linked
        BY <1>0, <1>2, ForkAssumption DEF ListInv, After, Linked, IInv
      <4>5. y # p /\ y # n => branch'[y] = branch[y]
        BY <1>0, <1>1, <1>2, <2>2 DEF Unlinked
      <4> QED  BY <4>1, <4>2, <4>3, <4>4, <4>5
    <3> QED  BY <1>4, <1>7, <2>2, <3>1, <3>2, <3>3, <3>4 DEF BranchInv
  <2> QED  BY <2>1, <2>2
<1>11. Alive' = Alive \ {b} /\ Holders' = Holders \ {b} /\ Awaited' = Awaited
  BY <1>3, <1>4 DEF Alive, Holders, Awaited
<1>12. HubInv'
  <2>1. hub'.refs = Cardinality(Holders') + IF hub'.handle THEN 1 ELSE 0
    <3>1. CASE branch[b].hub
      <4>1. Cardinality(Holders') = Cardinality(Holders) - 1
        BY <1>6, <1>11, <3>1, HoldersFinite, FS_RemoveElement
      <4> QED  BY <1>1, <1>6, <1>7, <3>1, <4>1, HoldersFinite DEF HubInv
    <3>2. CASE ~branch[b].hub
      <4>1. Holders' = Holders
        BY <1>11, <3>2 DEF Holders
      <4> QED  BY <1>1, <1>7, <3>2, <4>1 DEF HubInv
    <3> QED  BY <3>1, <3>2
  <2>2. hub'.alive <=> hub'.refs > 0
    BY <1>1, <1>6, <1>7 DEF HubInv
  <2>3. Hub \in Q!Queued(queue') => hub'.alive /\ hub'.inner = "ready"
    BY <1>1, <1>7, <1>8 DEF HubInv
  <2>4. hub'.tail = None <=> hub'.inner = "taken"
    <3>1. p # None => hub.inner # "taken"
      BY <1>0, <1>1 DEF BranchInv
    <3>2. hub.tail = None <=> hub.inner = "taken"
      BY <1>1 DEF HubInv
    <3> QED  BY <1>7, <3>1, <3>2
  <2> QED  BY <2>1, <2>2, <2>3, <2>4 DEF HubInv
<1>13. OrderInv'
  <2>1. Awaited' \cap Alive' \subseteq Awaited \cap Alive
    BY <1>11
  <2>2. \A y \in Awaited' \cap Alive' : branch'[y].fires = branch[y].fires
    BY <1>4, <1>11 DEF Alive
  <2> QED  BY <1>8, <1>11, <2>1, <2>2, FiresSame DEF IInv
<1> QED
  BY <1>1, <1>3, <1>7, <1>8, <1>9, <1>10, <1>11, <1>12, <1>13 DEF IInv, Alive

-----------------------------------------------------------------------------
(* The list, walked from the head, is the linked branches in their order.  *)

LEMMA WalkFacts ==
  ASSUME hub \in HubType, branch \in [Branch -> BranchType]
  PROVE  /\ Walk[0] = hub.head
         /\ \A i \in 1 .. MaxBranches :
                Walk[i] = IF Walk[i - 1] = None THEN None ELSE branch[Walk[i - 1]].next
<1> DEFINE X == Branch \cup {None}
           D == 0 .. MaxBranches
           g == [i \in 1 .. MaxBranches |->
                    [y \in X |-> IF y = None THEN None ELSE branch[y].next]]
           step(f, i) == IF i = 0 THEN hub.head
                         ELSE IF f[i - 1] = None THEN None ELSE branch[f[i - 1]].next
<1>1. g \in [1 .. MaxBranches -> [X -> X]] /\ hub.head \in X
  BY DEF BranchType, HubType
<1>2. MaxBranches \in Nat
  BY ForkAssumption
<1>3. PICK f \in [D -> X] : f[0] = hub.head /\ \A i \in 1 .. MaxBranches : f[i] = g[i][f[i - 1]]
  <2> HIDE DEF X, g
  <2>1. PICK x, h : x = hub.head /\ h = g
    OBVIOUS
  <2>2. x \in X /\ h \in [1 .. MaxBranches -> [X -> X]]
    BY <1>1, <2>1
  <2>3. PICK f : EQ!Iterates(f, X, x, h, MaxBranches)
    BY <1>2, <2>2, EQ!Iterate
  <2> QED  BY <2>1, <2>3 DEF EQ!Iterates
<1>4. f = [i \in D |-> step(f, i)]
  <2>1. ASSUME NEW i \in D  PROVE f[i] = step(f, i)
    <3>1. CASE i = 0
      BY <1>3, <3>1
    <3>2. CASE i # 0
      <4>1. i \in 1 .. MaxBranches /\ i - 1 \in D
        BY <1>2, <3>2
      <4>2. f[i - 1] \in X /\ f[i] = g[i][f[i - 1]]
        BY <1>3, <4>1
      <4> QED  BY <3>2, <4>2
    <3> QED  BY <3>1, <3>2
  <2>2. f = [i \in D |-> f[i]]
    OBVIOUS
  <2> HIDE DEF step
  <2> QED  BY <2>1, <2>2
<1> DEFINE w == Walk
<1>5. w = CHOOSE h : h = [i \in D |-> step(h, i)]
  BY DEF Walk
<1> HIDE DEF w, step
<1>6. w = [i \in D |-> step(w, i)]
  BY <1>4, <1>5
<1>7. \A i \in D : w[i] = step(w, i)
  BY <1>6
<1>8. 0 \in D /\ \A i \in 1 .. MaxBranches : i \in D /\ i # 0
  BY <1>2
<1>9. w[0] = hub.head /\ \A i \in 1 .. MaxBranches :
          w[i] = IF w[i - 1] = None THEN None ELSE branch[w[i - 1]].next
  BY <1>7, <1>8 DEF step
<1> QED
  BY <1>9 DEF w

\* A set of numbers that has, with each, the smaller ones.
LEMMA InitialSegment ==
  ASSUME NEW N \in Nat, NEW S \in SUBSET (1 .. N), \A i \in S : \A j \in 1 .. i : j \in S
  PROVE  \E n \in 0 .. N : S = 1 .. n
<1> DEFINE T == {k \in Nat : k <= N => \E n \in 0 .. k : S \cap (1 .. k) = 1 .. n}
<1>1. 0 \in T
  <2>1. 1 .. 0 = {} /\ 0 \in 0 .. 0
    OBVIOUS
  <2> QED  BY <2>1
<1>2. ASSUME NEW k \in Nat, k \in T  PROVE k + 1 \in T
  <2> SUFFICES ASSUME k + 1 <= N  PROVE \E n \in 0 .. k + 1 : S \cap (1 .. k + 1) = 1 .. n
    OBVIOUS
  <2>1. PICK n \in 0 .. k : S \cap (1 .. k) = 1 .. n
    BY <1>2
  <2>2. CASE k + 1 \in S
    <3>1. S \cap (1 .. k + 1) = 1 .. k + 1
      BY <2>2
    <3> QED  BY <3>1
  <2>3. CASE k + 1 \notin S
    <3>1. S \cap (1 .. k + 1) = S \cap (1 .. k)
      BY <2>3
    <3>2. n \in 0 .. k + 1
      OBVIOUS
    <3> QED  BY <2>1, <3>1, <3>2
  <2> QED  BY <2>2, <2>3
<1> HIDE DEF T
<1>3. N \in T
  BY <1>1, <1>2, EQ!Induction
<1>4. S \cap (1 .. N) = S /\ N <= N
  <2>1. S \subseteq 1 .. N
    OBVIOUS
  <2>2. N <= N
    OBVIOUS
  <2> QED  BY <2>1, <2>2
<1>5. \E n \in 0 .. N : S \cap (1 .. N) = 1 .. n
  BY <1>3, <1>4 DEF T
<1> QED
  BY <1>4, <1>5

\* The sequence s is the set L of branches in the order of their numbers.
Enumerates(s, L) ==
    /\ s \in Seq(Branch)
    /\ \A i, j \in 1 .. Len(s) : i < j => s[i] < s[j]
    /\ L = {s[i] : i \in 1 .. Len(s)}

LEMMA WaitingFacts ==
  ASSUME hub \in HubType, branch \in [Branch -> BranchType], ListInv
  PROVE  Enumerates(Waiting, Linked)
<1> DEFINE N == MaxBranches
           w == Walk
           Reached(i) == \A c \in Linked : \/ w[i] # None /\ c >= w[i]
                                           \/ \E j \in 0 .. i - 1 : w[j] = c
           Good(i) == /\ w[i] # None => w[i] \in Linked /\ w[i] >= i + 1
                      /\ Reached(i)
                      /\ w[i] # None => \A j \in 0 .. i - 1 : w[j] \in Linked /\ w[j] < w[i]
           T == {i \in Nat : i <= N => Good(i)}
<1>0. N \in Nat /\ None \notin Branch /\ Linked \subseteq Branch
  BY ForkAssumption DEF Linked
<1>1. /\ w[0] = hub.head
      /\ \A i \in 1 .. N : w[i] = IF w[i - 1] = None THEN None ELSE branch[w[i - 1]].next
  BY WalkFacts
<1>2. /\ \A b \in Linked : After(b)
      /\ \/ hub.head = None /\ Linked = {}
         \/ hub.head \in Linked /\ \A c \in Linked : c >= hub.head
  BY DEF ListInv
<1>3. \A b \in Linked : b \in 1 .. N
  BY <1>0 DEF Branch
<1> HIDE DEF w, N
<1>4. 0 \in T
  <2>1. 0 .. 0 - 1 = {}
    OBVIOUS
  <2> QED  BY <1>0, <1>1, <1>2, <1>3, <2>1
<1>5. ASSUME NEW i \in Nat, i \in T  PROVE i + 1 \in T
  <2> SUFFICES ASSUME i + 1 <= N, Good(i)  PROVE Good(i + 1)
    BY <1>0, <1>5
  <2>1. w[i + 1] = IF w[i] = None THEN None ELSE branch[w[i]].next
    <3>1. i + 1 \in 1 .. N /\ (i + 1) - 1 = i
      BY <1>0
    <3> QED  BY <1>1, <3>1
  <2>2. \A j \in 0 .. i - 1 : j \in 0 .. (i + 1) - 1
    OBVIOUS
  <2>3. i \in 0 .. (i + 1) - 1 /\ \A j \in 0 .. (i + 1) - 1 : j = i \/ j \in 0 .. i - 1
    OBVIOUS
  <2>4. CASE w[i] = None
    BY <2>1, <2>2, <2>4
  <2>5. CASE w[i] # None
    <3> DEFINE b == w[i]
               n == w[i + 1]
    <3>1. b \in Linked /\ b >= i + 1 /\ b \in Nat /\ n = branch[b].next
      BY <1>3, <2>1, <2>5
    <3>2. \/ n = None /\ \A c \in Linked : c <= b
          \/ n \in Linked /\ n > b /\ \A c \in Linked : c <= b \/ c >= n
      BY <1>2, <3>1 DEF After
    <3>3. n # None => n \in Linked /\ n \in Nat /\ n > b
      BY <1>3, <3>2
    <3>4. n # None => n \in Linked /\ n >= (i + 1) + 1
      BY <3>1, <3>3
    <3>5. ASSUME NEW c \in Linked
          PROVE  (n # None /\ c >= n) \/ \E j \in 0 .. (i + 1) - 1 : w[j] = c
      <4>1. c \in Nat
        BY <1>3
      <4>2. CASE c > b
        <5>1. ~(c <= b)
          BY <3>1, <4>1, <4>2
        <5>2. n \in Linked /\ c >= n
          BY <3>2, <5>1
        <5> QED  BY <1>0, <5>2
      <4>3. CASE c = b
        BY <2>3, <4>3
      <4>4. CASE c < b
        <5>1. \E j \in 0 .. i - 1 : w[j] = c
          BY <3>1, <4>1, <4>4
        <5> QED  BY <2>2, <5>1
      <4> QED  BY <3>1, <4>1, <4>2, <4>3, <4>4
    <3>6. ASSUME n # None, NEW j \in 0 .. (i + 1) - 1  PROVE w[j] \in Linked /\ w[j] < n
      <4>1. n \in Nat /\ n > b
        BY <3>3, <3>6
      <4>2. CASE j = i
        BY <2>5, <3>1, <4>1, <4>2
      <4>3. CASE j \in 0 .. i - 1
        <5>1. w[j] \in Linked /\ w[j] < b
          BY <2>5, <4>3
        <5>2. w[j] \in Nat
          BY <1>3, <5>1
        <5> QED  BY <3>1, <4>1, <5>1, <5>2
      <4> QED  BY <2>3, <4>2, <4>3
    <3> HIDE DEF b
    <3> QED  BY <3>4, <3>5, <3>6
  <2> QED  BY <2>4, <2>5
<1> HIDE DEF T
<1>6. \A i \in Nat : i \in T
  BY <1>4, <1>5, EQ!Induction
<1>7. \A i \in 0 .. N : Good(i)
  BY <1>0, <1>6 DEF T
<1>8. w[N] = None
  <2>1. Good(N) /\ N \in 0 .. N
    BY <1>0, <1>7
  <2> QED  BY <1>0, <1>3, <2>1
<1> DEFINE I == {i \in 1 .. N : w[i - 1] # None}
<1>9. \A i \in I : \A j \in 1 .. i : j \in I
  <2> SUFFICES ASSUME NEW i \in I, NEW j \in 1 .. i, j # i  PROVE j \in I
    OBVIOUS
  <2>1. i - 1 \in 0 .. N /\ j - 1 \in 0 .. (i - 1) - 1 /\ j \in 1 .. N
    BY <1>0
  <2>2. w[j - 1] \in Linked
    BY <1>7, <2>1
  <2> QED  BY <1>0, <2>1, <2>2
<1>10. PICK n \in 0 .. N : I = 1 .. n
  <2>1. I \in SUBSET (1 .. N)
    OBVIOUS
  <2> HIDE DEF I
  <2> QED  BY <1>0, <1>9, <2>1, InitialSegment
<1>11. Waiting = [i \in 1 .. n |-> w[i - 1]]
  <2>1. Cardinality(I) = n
    <3>1. 1 \in Int /\ n \in Int /\ n >= 0
      BY <1>0
    <3>2. Cardinality(1 .. n) = IF 1 > n THEN 0 ELSE n - 1 + 1
      BY <3>1, FS_Interval
    <3> HIDE DEF I
    <3> QED  BY <1>10, <3>1, <3>2
  <2>2. Waiting = [i \in 1 .. Cardinality(I) |-> w[i - 1]]
    BY DEF Waiting, w, N
  <2> QED  BY <2>1, <2>2
<1>12. n \in Nat /\ n <= N /\ w[n] = None
  <2>1. n \in Nat /\ n <= N
    BY <1>0
  <2>2. CASE n = N
    BY <1>8, <2>1, <2>2
  <2>3. CASE n # N
    <3>1. n + 1 \in 1 .. N /\ n + 1 \notin 1 .. n /\ (n + 1) - 1 = n
      BY <1>0, <2>1, <2>3
    <3>2. n + 1 \notin I
      <4> HIDE DEF I
      <4> QED  BY <1>10, <3>1
    <3> QED  BY <2>1, <3>1, <3>2
  <2> QED  BY <2>1, <2>2, <2>3
<1>13. \A i \in 1 .. n : i - 1 \in 0 .. N /\ w[i - 1] # None
  <2>1. \A i \in 1 .. n : i \in I
    BY <1>10
  <2> QED  BY <1>0, <1>12, <2>1
<1> HIDE DEF I
<1>14. \A i \in 1 .. n : w[i - 1] \in Linked
  BY <1>7, <1>13
<1> DEFINE s == Waiting
<1>15. Len(s) = n /\ \A i \in 1 .. n : s[i] = w[i - 1]
  BY <1>11, <1>12
<1>16. s \in Seq(Branch)
  BY <1>0, <1>11, <1>12, <1>14
<1> HIDE DEF s
<1>17. \A i, j \in 1 .. n : i < j => s[i] < s[j]
  <2> SUFFICES ASSUME NEW i \in 1 .. n, NEW j \in 1 .. n, i < j  PROVE s[i] < s[j]
    OBVIOUS
  <2>1. i - 1 \in 0 .. (j - 1) - 1
    BY <1>12
  <2>2. w[i - 1] < w[j - 1]
    BY <1>7, <1>13, <2>1
  <2> QED  BY <1>15, <2>2
<1>18. \A c \in Linked : \E i \in 1 .. n : s[i] = c
  <2> TAKE c \in Linked
  <2>1. PICK j \in 0 .. n - 1 : w[j] = c
    <3>1. Good(n)
      BY <1>7
    <3> QED  BY <1>12, <3>1
  <2>2. j + 1 \in 1 .. n /\ (j + 1) - 1 = j
    BY <1>12
  <2> QED  BY <1>15, <2>1, <2>2
<1>19. \A i \in 1 .. n : s[i] \in Linked
  BY <1>14, <1>15
<1>20. Linked = {s[i] : i \in 1 .. n}
  BY <1>18, <1>19
<1> QED
  BY <1>15, <1>16, <1>17, <1>20 DEF Enumerates, s

\* There is one such sequence.
LEMMA SameSoFar ==
  ASSUME NEW L, NEW s, NEW t, Enumerates(s, L), Enumerates(t, L), NEW k \in Nat,
         \A i \in 1 .. k : i <= Len(s) => i <= Len(t) /\ s[i] = t[i],
         \A i \in 1 .. k : i <= Len(t) => i <= Len(s) /\ s[i] = t[i],
         k + 1 <= Len(s)
  PROVE  k + 1 <= Len(t) /\ s[k + 1] = t[k + 1]
<1> DEFINE m == Len(s)
           n == Len(t)
<1>1. /\ m \in Nat /\ n \in Nat /\ k + 1 \in 1 .. m
      /\ \A i \in 1 .. m : s[i] \in Nat /\ s[i] \in L
      /\ \A i \in 1 .. n : t[i] \in Nat /\ t[i] \in L
      /\ \A i, j \in 1 .. m : i < j => s[i] < s[j]
      /\ \A i, j \in 1 .. n : i < j => t[i] < t[j]
  <2>1. m \in Nat /\ n \in Nat /\ \A b \in Branch : b \in Nat
    BY DEF Enumerates, Branch
  <2>2. /\ \A i \in 1 .. m : s[i] \in Branch /\ s[i] \in L
        /\ \A i \in 1 .. n : t[i] \in Branch /\ t[i] \in L
    <3> HIDE DEF m, n
    <3>1. /\ s \in Seq(Branch) /\ t \in Seq(Branch) /\ m = Len(s) /\ n = Len(t)
          /\ L = {s[i] : i \in 1 .. m} /\ L = {t[i] : i \in 1 .. n}
      BY DEF Enumerates, m, n
    <3>2. /\ \A i \in 1 .. m : s[i] \in Branch
          /\ \A i \in 1 .. n : t[i] \in Branch
      BY <3>1
    <3> QED  BY <3>1, <3>2
  <2>3. k + 1 \in 1 .. m
    BY <2>1
  <2> QED  BY <2>1, <2>2, <2>3 DEF Enumerates
<1>2. PICK j \in 1 .. n : t[j] = s[k + 1]
  BY <1>1 DEF Enumerates
<1>3. j >= k + 1
  <2> SUFFICES ASSUME j <= k  PROVE FALSE
    BY <1>1
  <2>1. j \in 1 .. k /\ j \in 1 .. m /\ j < k + 1
    BY <1>1
  <2>2. s[j] = t[j] /\ s[j] < s[k + 1]
    BY <1>1, <2>1
  <2> QED  BY <1>1, <1>2, <2>1, <2>2
<1>4. k + 1 \in 1 .. n
  BY <1>1, <1>3
<1>5. PICK i \in 1 .. m : s[i] = t[k + 1]
  BY <1>1, <1>4 DEF Enumerates
<1>6. i >= k + 1
  <2> SUFFICES ASSUME i <= k  PROVE FALSE
    BY <1>1
  <2>1. i \in 1 .. k /\ i \in 1 .. n /\ i < k + 1
    BY <1>1, <1>4
  <2>2. s[i] = t[i] /\ t[i] < t[k + 1]
    BY <1>1, <1>4, <2>1
  <2> QED  BY <1>1, <1>4, <1>5, <2>1, <2>2
<1>7. t[k + 1] <= t[j]
  <2>1. k + 1 = j \/ k + 1 < j
    BY <1>1, <1>3
  <2> QED  BY <1>1, <1>4, <2>1
<1>8. s[k + 1] <= s[i]
  <2>1. k + 1 = i \/ k + 1 < i
    BY <1>1, <1>6
  <2> QED  BY <1>1, <2>1
<1> QED
  BY <1>1, <1>2, <1>4, <1>5, <1>7, <1>8

LEMMA OneEnumeration ==
  ASSUME NEW L, NEW s, NEW t, Enumerates(s, L), Enumerates(t, L)
  PROVE  s = t
<1> DEFINE Same(i) == /\ i <= Len(s) => i <= Len(t) /\ s[i] = t[i]
                      /\ i <= Len(t) => i <= Len(s) /\ s[i] = t[i]
           T == {k \in Nat : \A i \in 1 .. k : Same(i)}
<1>1. 0 \in T
  <2>1. 1 .. 0 = {}
    OBVIOUS
  <2> HIDE DEF Same
  <2> QED  BY <2>1
<1>2. ASSUME NEW k \in Nat, k \in T  PROVE k + 1 \in T
  <2>1. \A i \in 1 .. k : i <= Len(s) => i <= Len(t) /\ s[i] = t[i]
    BY <1>2
  <2>2. \A i \in 1 .. k : i <= Len(t) => i <= Len(s) /\ s[i] = t[i]
    BY <1>2
  <2>3. k + 1 <= Len(s) => k + 1 <= Len(t) /\ s[k + 1] = t[k + 1]
    BY <2>1, <2>2, SameSoFar
  <2>4. k + 1 <= Len(t) => k + 1 <= Len(s) /\ t[k + 1] = s[k + 1]
    <3>1. \A i \in 1 .. k : i <= Len(t) => i <= Len(s) /\ t[i] = s[i]
      BY <2>2
    <3>2. \A i \in 1 .. k : i <= Len(s) => i <= Len(t) /\ t[i] = s[i]
      BY <2>1
    <3> QED  BY <3>1, <3>2, SameSoFar
  <2>5. Same(k + 1)
    BY <2>3, <2>4
  <2>6. \A i \in 1 .. k + 1 : i = k + 1 \/ i \in 1 .. k
    OBVIOUS
  <2> HIDE DEF Same
  <2> QED  BY <1>2, <2>5, <2>6
<1> HIDE DEF T
<1>3. \A k \in Nat : k \in T
  BY <1>1, <1>2, EQ!Induction
<1>4. s \in Seq(Branch) /\ t \in Seq(Branch) /\ Len(s) \in Nat /\ Len(t) \in Nat
  BY DEF Enumerates
<1>5. \A i \in Nat : i >= 1 => Same(i)
  <2> HIDE DEF Same
  <2>1. \A i \in Nat : i >= 1 => i \in 1 .. i
    OBVIOUS
  <2> QED  BY <1>3, <2>1 DEF T
<1>6. Len(s) = Len(t)
  <2>1. Len(s) >= 1 => Len(s) <= Len(t)
    BY <1>4, <1>5
  <2>2. Len(t) >= 1 => Len(t) <= Len(s)
    BY <1>4, <1>5
  <2> QED  BY <1>4, <2>1, <2>2
<1>7. \A i \in 1 .. Len(s) : s[i] = t[i]
  BY <1>4, <1>5
<1> QED
  BY <1>4, <1>6, <1>7, SeqEqual

-----------------------------------------------------------------------------
(* fire(): the consumers of the list are armed in its order.               *)

\* DepthFirst as ArmConsumers uses it: e may be queued already.
LEMMA ArmedQueue ==
  ASSUME NEW c, NEW q \in EQ!QueueOf(Branch \cup {Hub})
  PROVE  Q!ArmQueue(q, c) \in EQ!QueueOf(Branch \cup {Hub})
<1>1. CASE c \in Branch \cup {Hub} /\ c \notin EQ!Queued(q)
  <2>1. EQ!DepthFirst(q, c) \in EQ!QueueOf(Branch \cup {Hub})
    BY <1>1, EQ!DepthFirstFacts
  <2> QED  BY <1>1, <2>1, SameQueue DEF Q!ArmQueue
<1>2. CASE c \in Branch \cup {Hub} /\ c \in EQ!Queued(q)
  <2>1. EQ!DepthFirst(q, c) = q
    BY <1>2 DEF EQ!DepthFirst
  <2> QED  BY <1>2, <2>1, SameQueue DEF Q!ArmQueue
<1>3. CASE c \notin Branch \cup {Hub}
  BY <1>3 DEF Q!ArmQueue
<1> QED
  BY <1>1, <1>2, <1>3

\* Arming one consumer more, with a greater number than all that are queued.
LEMMA ArmNext ==
  ASSUME NEW q, QueueOK(q), q.ins = Len(q.order), Ordered(q, Branch),
         Q!Queued(q) \subseteq Branch, NEW c, c \in Branch \cup {None},
         c \in Branch => \A x \in Q!Queued(q) : x < c
  PROVE  LET r == Q!ArmQueue(q, c)
         IN  /\ QueueOK(r) /\ r.ins = Len(r.order) /\ Ordered(r, Branch)
             /\ Q!Queued(r) = Q!Queued(q) \cup ({c} \cap Branch)
<1> DEFINE r == Q!ArmQueue(q, c)
           n == Len(q.order)
<1>1. CASE c = None
  BY <1>1, ForkAssumption DEF Q!ArmQueue
<1>2. CASE c \in Branch
  <2>1. c \notin Q!Queued(q) /\ c \in Branch \cup {Hub}
    BY <1>2 DEF Branch
  <2>2. r = EQ!DepthFirst(q, c)
    BY <2>1, SameQueue DEF Q!ArmQueue
  <2> HIDE DEF r
  <2>3. q \in EQ!QueueOf(Branch \cup {Hub}) /\ EQ!Distinct(q) /\ c \notin EQ!Queued(q) /\ n \in Nat
    BY <2>1, SameQueue, QueueFacts DEF QueueOK
  <2>4. r \in EQ!QueueOf(Branch \cup {Hub}) /\ EQ!Distinct(r)
    BY <2>1, <2>2, <2>3, EQ!DepthFirstFacts
  <2>5. r.ins = q.ins + 1 /\ Len(r.order) = n + 1
    BY <2>1, <2>2, <2>3, EQ!DepthFirstFacts
  <2>6. \A j \in 1 .. n + 1 : r.order[j] = IF j <= q.ins THEN q.order[j]
                                           ELSE IF j = q.ins + 1 THEN c ELSE q.order[j - 1]
    BY <2>1, <2>2, <2>3, EQ!DepthFirstFacts
  <2>7. Q!Queued(r) = Q!Queued(q) \cup {c}
    BY <2>1, <2>2, <2>3, EQ!DepthFirstFacts, SameQueue
  <2>8. \A j \in 1 .. n + 1 : r.order[j] = IF j <= n THEN q.order[j] ELSE c
    BY <2>3, <2>6
  <2>9. Ordered(r, Branch)
    <3> SUFFICES ASSUME NEW i \in 1 .. n + 1, NEW j \in 1 .. n + 1, i < j,
                        r.order[i] \in Branch, r.order[j] \in Branch
                 PROVE  r.order[i] < r.order[j]
      BY <2>5 DEF Ordered
    <3>1. i \in 1 .. n /\ i <= n
      BY <2>3
    <3>2. r.order[i] = q.order[i] /\ q.order[i] \in Q!Queued(q)
      BY <2>8, <3>1, QueueFacts
    <3>3. CASE j <= n
      <4>1. j \in 1 .. n /\ r.order[j] = q.order[j]
        BY <2>3, <2>8, <3>3
      <4> QED  BY <3>1, <3>2, <4>1 DEF Ordered
    <3>4. CASE ~(j <= n)
      <4>1. r.order[j] = c
        BY <2>8, <3>4
      <4> QED  BY <1>2, <3>2, <4>1
    <3> QED  BY <3>3, <3>4
  <2>10. r.ins = Len(r.order)
    BY <2>3, <2>5
  <2> QED  BY <1>2, <2>4, <2>7, <2>9, <2>10 DEF QueueOK, r
<1> QED
  BY <1>1, <1>2

LEMMA ArmConsumersFacts ==
  ASSUME NEW s, NEW L, Enumerates(s, L), queue \in EQ!QueueOf(Branch \cup {Hub}),
         Q!Queued(queue) = {}, \A b \in L : branch[b].cell \in {None, b}
  PROVE  LET r == ArmConsumers(s)
         IN  /\ QueueOK(r) /\ Ordered(r, Branch)
             /\ Q!Queued(r) = {b \in L : branch[b].cell = b}
<1> DEFINE n == Len(s)
           X == EQ!QueueOf(Branch \cup {Hub})
           D == 0 .. n
           step(f, i) == IF i = 0 THEN queue ELSE Q!ArmQueue(f[i - 1], branch[s[i]].cell)
           g == [i \in 1 .. n |-> [q \in X |-> Q!ArmQueue(q, branch[s[i]].cell)]]
<1>1. /\ n \in Nat /\ \A i \in 1 .. n : s[i] \in L /\ s[i] \in Branch
      /\ \A i, j \in 1 .. n : i < j => s[i] < s[j]
      /\ \A b \in L : \E i \in 1 .. n : s[i] = b
      /\ L \subseteq Branch
  <2>1. s \in Seq(Branch) /\ n \in Nat /\ L = {s[i] : i \in 1 .. n}
    BY DEF Enumerates
  <2>2. \A i \in 1 .. n : s[i] \in Branch
    BY <2>1
  <2>3. \A i, j \in 1 .. n : i < j => s[i] < s[j]
    BY DEF Enumerates
  <2> QED  BY <2>1, <2>2, <2>3
<1>2. g \in [1 .. n -> [X -> X]]
  <2>1. \A i \in 1 .. n, q \in X : Q!ArmQueue(q, branch[s[i]].cell) \in X
    BY ArmedQueue
  <2> HIDE DEF X
  <2> QED  BY <2>1
<1>3. PICK f \in [D -> X] : f[0] = queue /\ \A i \in 1 .. n : f[i] = g[i][f[i - 1]]
  <2>1. PICK x, h, m : x = queue /\ h = g /\ m = n
    OBVIOUS
  <2> HIDE DEF X, g, n
  <2>2. x \in X /\ m \in Nat /\ h \in [1 .. m -> [X -> X]]
    BY <1>1, <1>2, <2>1 DEF X
  <2>3. PICK f : EQ!Iterates(f, X, x, h, m)
    BY <2>2, EQ!Iterate
  <2> QED  BY <2>1, <2>3 DEF EQ!Iterates
<1> HIDE DEF X, n
<1>4. f = [i \in D |-> step(f, i)]
  <2>1. ASSUME NEW i \in D  PROVE f[i] = step(f, i)
    <3>1. CASE i = 0
      BY <1>3, <3>1
    <3>2. CASE i # 0
      <4>1. i \in 1 .. n /\ i - 1 \in D
        BY <1>1, <3>2
      <4>2. f[i - 1] \in X /\ f[i] = g[i][f[i - 1]]
        BY <1>3, <4>1
      <4> QED  BY <3>2, <4>1, <4>2
    <3> QED  BY <3>1, <3>2
  <2>2. f = [i \in D |-> f[i]]
    OBVIOUS
  <2> HIDE DEF step
  <2> QED  BY <2>1, <2>2
<1> DEFINE w == CHOOSE h : h = [i \in D |-> step(h, i)]
<1>5. ArmConsumers(s) = w[n]
  BY DEF ArmConsumers, n
<1> HIDE DEF w, step, g
<1>6. w = [i \in D |-> step(w, i)]
  BY <1>4 DEF w
<1>7. w[0] = queue /\ \A i \in 1 .. n : w[i] = Q!ArmQueue(w[i - 1], branch[s[i]].cell)
  <2>1. \A i \in D : w[i] = step(w, i)
    BY <1>6
  <2>2. 0 \in D /\ \A i \in 1 .. n : i \in D /\ i # 0
    BY <1>1
  <2> QED  BY <2>1, <2>2 DEF step
<1> DEFINE Armed(i) == {b \in L : branch[b].cell = b /\ \E j \in 1 .. i : s[j] = b}
           Good(q, i) == /\ QueueOK(q) /\ q.ins = Len(q.order) /\ Ordered(q, Branch)
                         /\ Q!Queued(q) = Armed(i)
           T == {i \in Nat : i <= n => Good(w[i], i)}
<1>8. 0 \in T
  <2>1. Len(queue.order) = 0 /\ queue.ins = 0
    <3>1. Len(queue.order) \in Nat /\ DOMAIN queue.order = 1 .. Len(queue.order)
          /\ queue.ins \in 0 .. Len(queue.order)
      BY EQ!QueueFacts
    <3>2. 1 \notin DOMAIN queue.order
      BY DEF Q!Queued
    <3> QED  BY <3>1, <3>2
  <2>2. QueueOK(queue) /\ Ordered(queue, Branch)
    <3>1. DOMAIN queue.order = {}
      BY <2>1, EQ!QueueFacts
    <3> QED  BY <2>1, <3>1 DEF QueueOK, EQ!Distinct, Ordered
  <2>3. Armed(0) = {}
    OBVIOUS
  <2> HIDE DEF Armed
  <2> QED  BY <1>7, <2>1, <2>2, <2>3
<1>9. ASSUME NEW i \in Nat, i \in T  PROVE i + 1 \in T
  <2> SUFFICES ASSUME i + 1 <= n  PROVE Good(w[i + 1], i + 1)
    OBVIOUS
  <2>1. i + 1 \in 1 .. n /\ (i + 1) - 1 = i /\ i <= n
    BY <1>1
  <2>2. Good(w[i], i)
    BY <1>9, <2>1
  <2>3. PICK q, b, c : q = w[i] /\ b = s[i + 1] /\ c = branch[b].cell
    OBVIOUS
  <2>4. b \in L /\ b \in Branch /\ c \in {None, b} /\ w[i + 1] = Q!ArmQueue(q, c)
    BY <1>1, <1>7, <2>1, <2>3
  <2>5. \A x \in Armed(i) : x < b
    <3> SUFFICES ASSUME NEW j \in 1 .. i  PROVE s[j] < b
      OBVIOUS
    <3>1. j \in 1 .. n /\ j < i + 1
      BY <1>1, <2>1
    <3> QED  BY <1>1, <2>1, <2>3, <3>1
  <2>6. Armed(i) \subseteq Branch
    BY <1>1
  <2>7. Armed(i + 1) = Armed(i) \cup ({c} \cap Branch)
    <3>1. \A j \in 1 .. i + 1 : j = i + 1 \/ j \in 1 .. i
      OBVIOUS
    <3>2. (1 .. i) \subseteq 1 .. i + 1 /\ i + 1 \in 1 .. i + 1
      OBVIOUS
    <3>3. {c} \cap Branch = IF c = b THEN {b} ELSE {}
      BY <2>4, ForkAssumption
    <3> QED  BY <2>3, <2>4, <3>1, <3>2, <3>3
  <2>8. QueueOK(q) /\ q.ins = Len(q.order) /\ Ordered(q, Branch) /\ Q!Queued(q) = Armed(i)
    BY <2>2, <2>3
  <2> HIDE DEF Armed
  <2>9. LET r == Q!ArmQueue(q, c)
        IN  /\ QueueOK(r) /\ r.ins = Len(r.order) /\ Ordered(r, Branch)
            /\ Q!Queued(r) = Q!Queued(q) \cup ({c} \cap Branch)
    <3>1. c \in Branch \cup {None} /\ (c \in Branch => \A x \in Q!Queued(q) : x < c)
      BY <2>4, <2>5, <2>8, ForkAssumption
    <3> QED  BY <2>6, <2>8, <3>1, ArmNext
  <2> QED  BY <2>4, <2>7, <2>8, <2>9
<1> HIDE DEF T
<1>10. n \in T
  BY <1>1, <1>8, <1>9, EQ!Induction
<1>11. Good(w[n], n)
  BY <1>1, <1>10 DEF T
<1>12. Armed(n) = {b \in L : branch[b].cell = b}
  BY <1>1
<1> QED
  BY <1>5, <1>11, <1>12

\* What the rest of fire() finds: no one is queued, and all that live are in the list.
LEMMA SignalStart ==
  ASSUME IInv, hub.inner = "taking"
  PROVE  /\ Enumerates(Waiting, Linked) /\ \A b \in Branch : Contains(Waiting, b) <=> b \in Linked
         /\ Q!Queued(queue) = {} /\ Linked = Alive
         /\ \A b \in Branch : branch[b].fires = 0
         /\ \A b \in Linked : branch[b].cell \in {None, b}
         /\ QueueOK(ArmConsumers(Waiting)) /\ Ordered(ArmConsumers(Waiting), Branch)
         /\ Q!Queued(ArmConsumers(Waiting)) = {b \in Linked : branch[b].cell = b}
<1>1. Enumerates(Waiting, Linked)
  BY WaitingFacts DEF IInv
<1>2. \A b \in Branch : Contains(Waiting, b) <=> b \in Linked
  BY <1>1 DEF Enumerates, Contains
<1>3. Q!Queued(queue) \subseteq {Hub} /\ Linked = Alive /\ \A b \in Branch : branch[b].fires = 0
  BY QueuedBranches
<1>4. Q!Queued(queue) = {}
  BY <1>3 DEF IInv, HubInv
<1>5. \A b \in Linked : branch[b].cell \in {None, b}
  BY DEF IInv, BranchInv, Linked
<1>6. queue \in EQ!QueueOf(Branch \cup {Hub})
  BY DEF IInv, QueueOK
<1>7. LET r == ArmConsumers(Waiting)
      IN  /\ QueueOK(r) /\ Ordered(r, Branch)
          /\ Q!Queued(r) = {b \in Linked : branch[b].cell = b}
  BY <1>1, <1>4, <1>5, <1>6, ArmConsumersFacts
<1> QED
  BY <1>1, <1>2, <1>3, <1>4, <1>5, <1>7

LEMMA HubSignalFields ==
  ASSUME IInv, HubSignal
  PROVE  /\ hub' \in HubType /\ hub'.alive = hub.alive /\ hub'.handle = hub.handle
         /\ hub'.refs = hub.refs /\ hub'.made = hub.made /\ hub'.inner = "taken"
         /\ hub'.head = None /\ hub'.tail = None
         /\ branch' \in [Branch -> BranchType]
         /\ \A b \in Branch \ Linked : branch'[b] = branch[b]
         /\ \A b \in Linked :
               /\ branch'[b].next = None /\ branch'[b].prevPtr = None
               /\ branch'[b].alive = branch[b].alive /\ branch'[b].hub = branch[b].hub
               /\ branch'[b].cell = (IF branch[b].cell = None THEN AlreadyReady ELSE branch[b].cell)
               /\ branch'[b].attached = branch[b].attached /\ branch'[b].fires = branch[b].fires
         /\ Linked' = {}
<1> DEFINE cell(b) == IF branch[b].cell = None THEN AlreadyReady ELSE branch[b].cell
           r(b) == [branch[b] EXCEPT !.cell = cell(b), !.next = None, !.prevPtr = None]
<1>1. hub \in HubType /\ branch \in [Branch -> BranchType] /\ hub.inner = "taking"
  BY DEF IInv, HubSignal, Signal
<1>2. hub' = [hub EXCEPT !.inner = "taken", !.head = None, !.tail = None]
  BY DEF HubSignal, Signal
<1>3. branch' = [b \in Branch |-> IF b \in Linked THEN r(b) ELSE branch[b]]
  <2>1. \A b \in Branch : Contains(Waiting, b) <=> b \in Linked
    BY <1>1, SignalStart
  <2>2. branch' = [b \in Branch |-> IF Contains(Waiting, b) THEN r(b) ELSE branch[b]]
    BY DEF HubSignal, Signal, Q!ArmCell
  <2> HIDE DEF r
  <2> QED  BY <2>1, <2>2
<1>4. ASSUME NEW b \in Branch
      PROVE  /\ r(b) \in BranchType /\ r(b).next = None /\ r(b).prevPtr = None
             /\ r(b).alive = branch[b].alive /\ r(b).hub = branch[b].hub
             /\ r(b).cell = cell(b)
             /\ r(b).attached = branch[b].attached /\ r(b).fires = branch[b].fires
  <2>1. branch[b] \in BranchType
    BY <1>1
  <2>2. cell(b) \in Branch \cup {None, AlreadyReady}
    BY <2>1 DEF BranchType
  <2> HIDE DEF cell
  <2> QED  BY <2>1, <2>2 DEF BranchType
<1>5. /\ hub' \in HubType /\ hub'.alive = hub.alive /\ hub'.handle = hub.handle
      /\ hub'.refs = hub.refs /\ hub'.made = hub.made /\ hub'.inner = "taken"
      /\ hub'.head = None /\ hub'.tail = None
  <2>1. hub' \in HubType
    BY <1>1, <1>2 DEF HubType, Phases
  <2> QED  BY <1>1, <1>2, <2>1 DEF HubType
<1> HIDE DEF r
<1>6. branch' \in [Branch -> BranchType]
  BY <1>1, <1>3, <1>4
<1>7. \A b \in Branch \ Linked : branch'[b] = branch[b]
  BY <1>3
<1>8. \A b \in Linked : b \in Branch /\ branch'[b] = r(b)
  BY <1>3 DEF Linked
<1>9. Linked' = {}
  <2>1. ASSUME NEW b \in Branch  PROVE branch'[b].prevPtr = None
    <3>1. CASE b \in Linked
      BY <1>4, <1>8, <3>1
    <3>2. CASE b \notin Linked
      BY <1>7, <3>2 DEF Linked
    <3> QED  BY <3>1, <3>2
  <2> QED  BY <2>1 DEF Linked
<1> QED
  BY <1>4, <1>5, <1>6, <1>7, <1>8, <1>9

LEMMA HubSignalKeepsIInv ==
  ASSUME IInv, HubSignal
  PROVE  IInv' /\ Alive' = Alive /\ hub.inner = "taking" /\ hub'.inner = "taken"
<1>1. /\ Q!Queued(queue) = {} /\ Linked = Alive
      /\ \A b \in Branch : branch[b].fires = 0
      /\ \A b \in Linked : branch[b].cell \in {None, b}
      /\ hub.inner = "taking"
  BY SignalStart DEF HubSignal, Signal
<1>2. /\ hub' \in HubType /\ hub'.alive = hub.alive /\ hub'.handle = hub.handle
      /\ hub'.refs = hub.refs /\ hub'.made = hub.made /\ hub'.inner = "taken"
      /\ hub'.head = None /\ hub'.tail = None
      /\ branch' \in [Branch -> BranchType] /\ Linked' = {}
  BY HubSignalFields
<1>3. /\ \A b \in Branch \ Linked : branch'[b] = branch[b]
      /\ \A b \in Linked :
            /\ branch'[b].next = None /\ branch'[b].prevPtr = None
            /\ branch'[b].alive = branch[b].alive /\ branch'[b].hub = branch[b].hub
            /\ branch'[b].cell = (IF branch[b].cell = None THEN AlreadyReady ELSE branch[b].cell)
            /\ branch'[b].attached = branch[b].attached /\ branch'[b].fires = branch[b].fires
  BY HubSignalFields
<1>4. /\ QueueOK(queue') /\ Ordered(queue', Branch)
      /\ Q!Queued(queue') = {b \in Linked : branch[b].cell = b}
  <2> DEFINE q == ArmConsumers(Waiting)
  <2>1. QueueOK(q) /\ Ordered(q, Branch) /\ Q!Queued(q) = {b \in Linked : branch[b].cell = b}
    BY <1>1, SignalStart
  <2>2. queue' = Q!Rewind(q)
    BY DEF HubSignal, Signal
  <2> HIDE DEF q
  <2> QED  BY <2>1, <2>2, RewindOp
<1>5. \A b \in Linked : b \in Branch
  BY DEF Linked
<1>6. ListInv'
  <2>1. \A b \in Branch : branch'[b].next = None
    BY <1>3 DEF IInv, ListInv
  <2> QED  BY <1>2, <2>1 DEF ListInv
<1>7. Alive' = Alive /\ Holders' = Holders
  BY <1>3 DEF Alive, Holders
<1>8. HubInv'
  BY <1>2, <1>4, <1>5, <1>7, ForkAssumption DEF IInv, HubInv
<1>9. \A b \in Branch : BranchInv(b)'
  <2> SUFFICES ASSUME NEW b \in Branch, BranchInv(b)  PROVE BranchInv(b)'
    BY DEF IInv
  <2>1. branch[b] \in BranchType /\ branch'[b].prevPtr = None
    BY <1>2 DEF IInv, Linked
  <2>2. CASE b \in Linked
    <3>1. branch[b].alive /\ ~(b > hub.made)
      BY <1>1, <2>2 DEF BranchInv, Alive, NoBranch
    <3>2. branch[b].cell \in {None, b} /\ b # AlreadyReady /\ b # None
      BY <1>1, <2>2, ForkAssumption
    <3>3. b \in Q!Queued(queue') <=> branch[b].cell = b
      BY <1>4, <2>2
    <3>4. branch'[b].cell = (IF branch[b].cell = None THEN AlreadyReady ELSE b)
      BY <1>3, <2>2, <3>2
    <3>5. AlreadyReady # None
      BY ForkAssumption
    <3> QED  BY <1>1, <1>2, <1>3, <2>1, <2>2, <3>1, <3>2, <3>3, <3>4, <3>5 DEF BranchInv
  <2>3. CASE b \notin Linked
    <3>1. branch'[b] = branch[b] /\ ~branch[b].alive /\ b \notin Q!Queued(queue')
      BY <1>1, <1>3, <1>4, <2>3 DEF Alive
    <3> QED  BY <1>1, <1>2, <2>1, <3>1 DEF BranchInv
  <2> QED  BY <2>2, <2>3
<1>10. OrderInv'
  <2>1. \A b \in Branch : branch'[b].fires = 0
    BY <1>1, <1>3
  <2>2. Awaited' \subseteq Branch
    BY DEF Awaited
  <2>3. Ordered(queue', Awaited')
    BY <1>4, <2>2 DEF Ordered
  <2> QED  BY <2>1, <2>2, <2>3 DEF OrderInv
<1> QED
  BY <1>1, <1>2, <1>4, <1>6, <1>7, <1>8, <1>9, <1>10 DEF IInv

LEMMA InitIInv == Init => IInv
<1> SUFFICES ASSUME Init  PROVE IInv
  OBVIOUS
<1>1. PICK ready \in BOOLEAN :
        /\ hub = [alive |-> TRUE, handle |-> TRUE, refs |-> 1,
                  inner |-> IF ready THEN "ready" ELSE "pending",
                  made |-> 0, head |-> None, tail |-> HeadSlot]
        /\ queue = IF ready THEN Q!BreadthFirst(Q!Empty, Hub) ELSE Q!Empty
        /\ branch = [b \in Branch |-> NoBranch]
  BY DEF Init
<1>2. QueueOK(queue) /\ Q!Queued(queue) = (IF ready THEN {Hub} ELSE {}) /\ Ordered(queue, Awaited)
  <2>1. Awaited = {}
    BY <1>1, ForkAssumption DEF Awaited, NoBranch
  <2>2. QueueOK(Q!Empty) /\ Q!Queued(Q!Empty) = {} /\ Ordered(Q!Empty, Awaited)
    BY EmptyQueue
  <2>3. QueueOK(queue) /\ Q!Queued(queue) = (IF ready THEN {Hub} ELSE {})
    <3>1. LET r == Q!BreadthFirst(Q!Empty, Hub)
          IN  QueueOK(r) /\ Q!Queued(r) = Q!Queued(Q!Empty) \cup {Hub}
      BY <2>2, BreadthFirstOp
    <3>2. CASE ready
      BY <1>1, <2>2, <3>1, <3>2
    <3>3. CASE ~ready
      BY <1>1, <2>2, <3>3
    <3> QED  BY <3>2, <3>3
  <2> QED  BY <2>1, <2>3 DEF Ordered
<1>3. hub \in HubType
  <2>1. (IF ready THEN "ready" ELSE "pending") \in Phases /\ 0 \in 0 .. MaxBranches
    BY ForkAssumption DEF Phases
  <2> QED  BY <1>1, <2>1 DEF HubType, Slot
<1>4. NoBranch \in BranchType
  BY DEF NoBranch, BranchType
<1>5. branch \in [Branch -> BranchType] /\ \A b \in Branch : branch[b] = NoBranch
  BY <1>1, <1>4
<1>6. Linked = {} /\ Holders = {} /\ Awaited = {} /\ Alive = {}
  BY <1>5, ForkAssumption DEF Linked, Holders, Awaited, Alive, NoBranch
<1>7. ListInv
  BY <1>1, <1>5, <1>6 DEF ListInv, NoBranch
<1>8. HubInv
  <2>1. Cardinality(Holders) = 0
    BY <1>6, FS_EmptySet
  <2> QED  BY <1>1, <1>2, <2>1, ForkAssumption DEF HubInv
<1>9. \A b \in Branch : BranchInv(b)
  <2>1. \A b \in Branch : b # Hub
    BY ForkAssumption
  <2> QED  BY <1>1, <1>2, <1>5, <2>1, ForkAssumption DEF BranchInv, NoBranch
<1>10. OrderInv
  BY <1>2, <1>6 DEF OrderInv
<1> QED
  BY <1>2, <1>3, <1>5, <1>7, <1>8, <1>9, <1>10 DEF IInv

LEMMA StutterKeepsIInv == IInv /\ UNCHANGED vars => IInv' /\ Quiet
<1> SUFFICES ASSUME IInv, UNCHANGED << queue, hub, branch >>  PROVE IInv' /\ Quiet
  BY DEF vars
<1>1. ListInv' /\ Linked' = Linked
  BY ListSame DEF IInv
<1>2. /\ (\A b \in Branch : BranchInv(b))'
      /\ Awaited' = Awaited /\ Alive' = Alive /\ Holders' = Holders
  BY BranchesSame DEF IInv
<1>3. OrderInv'
  BY <1>2, FiresSame DEF IInv, OrderInv
<1>4. HubInv'
  BY <1>2 DEF IInv, HubInv
<1> QED
  BY <1>1, <1>2, <1>3, <1>4 DEF IInv, Quiet

\* Every step keeps the invariant.
LEMMA NextKeepsIInv == IInv /\ [Next]_vars => IInv'
<1> QED
  BY AddBranchKeepsIInv, InnerReadyKeepsIInv, HubTakeKeepsIInv, DropHandleKeepsIInv, GetKeepsIInv,
     FireConsumerKeepsIInv, AttachKeepsIInv, DropBranchKeepsIInv, HubSignalKeepsIInv,
     StutterKeepsIInv
     DEF Next, Turn, User

\* The inductive invariant holds, for any number of branches (async.cpp:629-674).
THEOREM Invariance == Spec => []IInv
  BY InitIInv, NextKeepsIInv, PTL DEF Spec

-----------------------------------------------------------------------------
(* The properties of the run.                                              *)

LEMMA SoundNow == IInv => HubIsSound
<1> SUFFICES ASSUME IInv  PROVE HubIsSound
  OBVIOUS
<1> DEFINE s == Waiting
           n == Len(s)
           slots == << HeadSlot >> \o s
<1>1. TypeOK
  BY QueueFacts DEF IInv, TypeOK
<1>2. Enumerates(s, Linked)
  BY WaitingFacts DEF IInv
<1>3. ListInv /\ HubInv
  BY DEF IInv
<1>4. /\ s \in Seq(Branch) /\ n \in Nat /\ DOMAIN s = 1 .. n
      /\ Linked = {s[i] : i \in 1 .. n}
  BY <1>2 DEF Enumerates
<1>5. \A i \in 1 .. n : s[i] \in Branch /\ s[i] \in Nat
  <2>1. \A i \in 1 .. n : s[i] \in Branch
    BY <1>4
  <2> QED  BY <2>1 DEF Branch
<1>6. \A i, j \in 1 .. n : i < j => s[i] < s[j]
  BY <1>2 DEF Enumerates
<1> HIDE DEF s
<1>7. /\ \A i \in 1 .. n : s[i] \in Linked
      /\ \A c \in Linked : \E i \in 1 .. n : s[i] = c
  BY <1>4
<1>8. ToSet(s) = Linked
  BY <1>4 DEF ToSet
<1>9. Linked \subseteq Alive
  BY QueuedBranches DEF Holders
<1>10. /\ slots \in Seq(Slot) /\ Len(slots) = n + 1
       /\ \A i \in 1 .. n + 1 : slots[i] = IF i = 1 THEN HeadSlot ELSE s[i - 1]
  <2>1. << HeadSlot >> \in Seq(Slot) /\ s \in Seq(Slot)
    <3>1. << HeadSlot >> \in Seq(Slot)
      BY DEF Slot
    <3>2. \A i \in 1 .. n : s[i] \in Slot
      BY <1>5 DEF Slot
    <3> QED  BY <1>4, <3>1, <3>2
  <2>2. Len(<< HeadSlot >>) = 1 /\ << HeadSlot >>[1] = HeadSlot
    OBVIOUS
  <2>3. /\ slots \in Seq(Slot) /\ Len(slots) = 1 + n
        /\ \A i \in 1 .. 1 + n : slots[i] = IF i <= 1 THEN << HeadSlot >>[i] ELSE s[i - 1]
    <3>1. /\ slots \in Seq(Slot) /\ Len(slots) = Len(<< HeadSlot >>) + Len(s)
          /\ \A i \in 1 .. Len(<< HeadSlot >>) + Len(s) :
                 slots[i] = IF i <= Len(<< HeadSlot >>) THEN << HeadSlot >>[i]
                            ELSE s[i - Len(<< HeadSlot >>)]
      BY <2>1, ConcatProperties
    <3> HIDE DEF slots
    <3> QED  BY <2>2, <3>1
  <2> HIDE DEF slots
  <2> QED  BY <1>4, <2>2, <2>3
<1> HIDE DEF slots
<1>11. ASSUME NEW i \in 1 .. n  PROVE branch[s[i]].prevPtr = slots[i]
  <2>1. PICK b, p : b = s[i] /\ p = branch[b].prevPtr
    OBVIOUS
  <2>2. b \in Linked /\ b \in Nat
    BY <1>5, <1>7, <2>1
  <2>3. \/ p = HeadSlot /\ \A c \in Linked : c >= b
        \/ p \in Linked /\ p < b /\ \A c \in Linked : c <= p \/ c >= b
    BY <1>3, <2>1, <2>2 DEF ListInv, Before
  <2>4. i \in Nat /\ i \in 1 .. n + 1
    BY <1>4
  <2>5. CASE i = 1
    <3>1. ~(p \in Linked /\ p < b)
      <4> SUFFICES ASSUME p \in Linked, p < b  PROVE FALSE
        OBVIOUS
      <4>1. PICK k \in 1 .. n : s[k] = p
        BY <1>7
      <4>2. k = 1 \/ 1 < k
        OBVIOUS
      <4>3. b <= p
        BY <1>5, <1>6, <2>1, <2>2, <2>5, <4>1, <4>2
      <4> QED  BY <1>5, <2>2, <4>1, <4>3
    <3> QED  BY <1>10, <2>1, <2>3, <2>4, <2>5, <3>1
  <2>6. CASE i # 1
    <3>1. i - 1 \in 1 .. n /\ i - 1 < i
      BY <2>4, <2>6
    <3>2. PICK a : a = s[i - 1]
      OBVIOUS
    <3>3. a \in Linked /\ a \in Nat /\ a < b
      BY <1>5, <1>6, <1>7, <2>1, <3>1, <3>2
    <3>4. p \in Linked /\ p < b /\ a <= p
      BY <2>2, <2>3, <3>3
    <3>5. PICK k \in 1 .. n : s[k] = p
      BY <1>7, <3>4
    <3>6. ~(i - 1 < k)
      <4> SUFFICES ASSUME i - 1 < k  PROVE FALSE
        OBVIOUS
      <4>1. i = k \/ i < k
        BY <2>4
      <4>2. b <= s[k]
        BY <1>5, <1>6, <2>1, <2>2, <4>1
      <4> QED  BY <1>5, <2>2, <3>4, <3>5, <4>2
    <3>7. ~(k < i - 1)
      <4>1. k < i - 1 => p < a
        BY <1>6, <3>1, <3>2, <3>5
      <4> QED  BY <1>5, <3>3, <3>4, <3>5, <4>1
    <3>8. k = i - 1
      BY <2>4, <3>6, <3>7
    <3> QED  BY <1>10, <2>1, <2>4, <2>6, <3>5, <3>8
  <2> QED  BY <2>5, <2>6
<1>12. hub.tail \in {None, Last(slots)}
  <2>0. Last(slots) = IF n = 0 THEN HeadSlot ELSE s[n]
    <3>1. n + 1 \in 1 .. n + 1 /\ (n + 1 = 1 <=> n = 0) /\ (n + 1) - 1 = n
      BY <1>4
    <3> QED  BY <1>10, <3>1 DEF Last
  <2>1. CASE hub.tail \in {None, HeadSlot} /\ Linked = {}
    <3>1. n = 0
      <4> SUFFICES ASSUME n # 0  PROVE FALSE
        OBVIOUS
      <4>1. 1 \in 1 .. n
        BY <1>4
      <4> QED  BY <1>7, <2>1, <4>1
    <3> QED  BY <2>0, <2>1, <3>1
  <2>2. CASE hub.tail \in Linked /\ \A c \in Linked : c <= hub.tail
    <3>1. PICK k \in 1 .. n : s[k] = hub.tail
      BY <1>7, <2>2
    <3>2. n \in 1 .. n /\ n # 0 /\ (k = n \/ k < n)
      <4> HIDE DEF n
      <4>1. k \in Nat /\ k >= 1 /\ k <= n
        BY <1>4
      <4> QED  BY <1>4, <4>1
    <3>3. ~(k < n)
      BY <1>5, <1>6, <1>7, <2>2, <3>1, <3>2
    <3> QED  BY <2>0, <3>1, <3>2, <3>3
  <2> QED  BY <1>3, <2>1, <2>2 DEF ListInv
<1>13. hub.tail = None => Linked = {}
  <2>1. None \notin Linked
    BY ForkAssumption DEF Linked
  <2> QED  BY <1>3, <2>1, ForkAssumption DEF ListInv
<1>14. \A i \in DOMAIN s : branch[s[i]].prevPtr = slots[i]
  BY <1>4, <1>11
<1>15. /\ hub.refs = Cardinality({b \in Alive : branch[b].hub}) + IF hub.handle THEN 1 ELSE 0
       /\ hub.alive <=> hub.refs > 0
       /\ Hub \in Q!Queued(queue) => hub.alive
  BY <1>3 DEF HubInv, Holders
<1>16. Linked = {b \in Branch : branch[b].prevPtr # None}
  BY DEF Linked
<1> QED
  BY <1>1, <1>8, <1>9, <1>12, <1>13, <1>14, <1>15, <1>16 DEF HubIsSound, s, slots

\* The hub is there as long as someone needs it, and the list that addBranch(),
\* ~ForkBranchBase and fire() patch holds just the living branches that were not told,
\* oldest first, each pointer its neighbour's (async.cpp:583-674).
THEOREM ForkListIsSound == Spec => []HubIsSound
  BY Invariance, SoundNow, PTL

\* A consumer fires once and finds a living hub that has its result; consumers that
\* waited for the hub fire in the order of their branches (async.cpp:645-659,
\* async-inl.h, ForkBranch::get).
THEOREM BranchesFireInOrder == Spec => []FiredInOrder
<1>1. IInv => FiredInOrder
  <2> SUFFICES ASSUME IInv  PROVE FiredInOrder
    OBVIOUS
  <2>1. ASSUME NEW b \in Alive, branch[b].fires > 0
        PROVE  branch[b].fires = 1 /\ (branch[b].hub => hub.alive /\ hub.inner = "taken")
    <3>1. branch[b].fires = 1 /\ hub.inner = "taken"
      BY <2>1 DEF IInv, BranchInv, Alive
    <3>2. branch[b].hub => b \in Holders
      BY DEF Holders
    <3> QED  BY <3>1, <3>2, HubAlive
  <2>2. ASSUME NEW b \in Alive, NEW c \in Alive,
               b < c, branch[b].cell = b, branch[c].cell = c, branch[c].fires > 0
        PROVE  branch[b].fires > 0
    BY <2>2 DEF IInv, OrderInv, Awaited, Alive
  <2> QED  BY <2>1, <2>2 DEF FiredInOrder
<1> QED
  BY <1>1, Invariance, PTL

-----------------------------------------------------------------------------
(* The hub implements Fork.                                                *)

\* What Fork sees: the branches wait until the result is taken, then all are told.
SeenByFork ==
    /\ Enumerates(Waiting, IF hub.inner = "taken" THEN {} ELSE Alive)
    /\ Told = IF hub.inner = "taken" THEN Alive ELSE {}
    /\ hub.tail = None <=> hub.inner = "taken"

LEMMA Seen == IInv => SeenByFork
<1> SUFFICES ASSUME IInv  PROVE SeenByFork
  OBVIOUS
<1>1. Enumerates(Waiting, Linked)
  BY WaitingFacts DEF IInv
<1>2. Linked = IF hub.inner = "taken" THEN {} ELSE Alive
  BY QueuedBranches
<1>3. ASSUME NEW b \in Alive
      PROVE  hub.inner = "taken" <=> \/ branch[b].cell = AlreadyReady
                                     \/ b \in Q!Queued(queue)
                                     \/ branch[b].fires > 0
  <2>1. b \in Branch /\ BranchInv(b) /\ branch[b].alive /\ branch[b].fires \in 0 .. 2
    BY DEF IInv, Alive, BranchType
  <2>2. branch[b].fires > 0 \/ branch[b].fires = 0
    BY <2>1
  <2> QED  BY <2>1, <2>2 DEF BranchInv
<1>4. Told = IF hub.inner = "taken" THEN Alive ELSE {}
  BY <1>3 DEF Told
<1> QED
  BY <1>1, <1>2, <1>4 DEF IInv, HubInv, SeenByFork

LEMMA EmptyEnumeration == ASSUME NEW s  PROVE Enumerates(s, {}) <=> s = << >>
<1>1. ASSUME Enumerates(s, {})  PROVE s = << >>
  <2>1. s \in Seq(Branch) /\ {} = {s[i] : i \in 1 .. Len(s)} /\ Len(s) \in Nat
    BY <1>1 DEF Enumerates
  <2>2. ~(Len(s) >= 1)
    <3>1. Len(s) >= 1 => 1 \in 1 .. Len(s)
      BY <2>1
    <3> QED  BY <2>1, <3>1
  <2> QED  BY <2>1, <2>2
<1>2. Enumerates(<< >>, {})
  BY DEF Enumerates
<1> QED
  BY <1>1, <1>2

LEMMA AppendEnumeration ==
  ASSUME NEW s, NEW L, Enumerates(s, L), NEW b \in Branch, \A c \in L : c < b
  PROVE  Enumerates(Append(s, b), L \cup {b})
<1> DEFINE n == Len(s)
           t == Append(s, b)
<1>1. s \in Seq(Branch) /\ n \in Nat /\ L = {s[i] : i \in 1 .. n}
  BY DEF Enumerates
<1>2. t \in Seq(Branch) /\ Len(t) = n + 1
      /\ \A i \in 1 .. n + 1 : t[i] = IF i <= n THEN s[i] ELSE b
  BY <1>1, AppendProperties
<1> HIDE DEF t
<1>3. \A i \in 1 .. n : i \in 1 .. n + 1 /\ t[i] = s[i] /\ s[i] \in L
  BY <1>1, <1>2
<1>4. n + 1 \in 1 .. n + 1 /\ t[n + 1] = b /\ \A i \in 1 .. n + 1 : i = n + 1 \/ i \in 1 .. n
  BY <1>1, <1>2
<1>5. \A i, j \in 1 .. n + 1 : i < j => t[i] < t[j]
  <2> SUFFICES ASSUME NEW i \in 1 .. n + 1, NEW j \in 1 .. n + 1, i < j  PROVE t[i] < t[j]
    OBVIOUS
  <2>1. i \in 1 .. n
    BY <1>1
  <2>2. CASE j \in 1 .. n
    BY <1>3, <2>1, <2>2 DEF Enumerates
  <2>3. CASE j = n + 1
    BY <1>3, <1>4, <2>1, <2>3
  <2> QED  BY <1>4, <2>2, <2>3
<1>6. L \cup {b} = {t[i] : i \in 1 .. n + 1}
  <2>1. \A i \in 1 .. n + 1 : t[i] \in L \cup {b}
    BY <1>3, <1>4
  <2>2. \A c \in L \cup {b} : \E i \in 1 .. n + 1 : t[i] = c
    BY <1>1, <1>3, <1>4
  <2> QED  BY <2>1, <2>2
<1> QED
  BY <1>2, <1>5, <1>6 DEF Enumerates, t

LEMMA RemoveEnumeration ==
  ASSUME NEW s, NEW L, Enumerates(s, L), NEW b \in L
  PROVE  \E k \in DOMAIN s : s[k] = b /\ Enumerates(RemoveAt(s, k), L \ {b})
<1> DEFINE n == Len(s)
<1>1. s \in Seq(Branch) /\ n \in Nat /\ L = {s[i] : i \in 1 .. n} /\ DOMAIN s = 1 .. n
  BY DEF Enumerates
<1>2. PICK k \in 1 .. n : s[k] = b
  BY <1>1
<1> DEFINE t == RemoveAt(s, k)
           old(i) == IF i < k THEN i ELSE i + 1
<1>3. t = EQ!RemoveAt(s, k)
  BY DEF RemoveAt, EQ!RemoveAt
<1>4. t \in Seq(Branch) /\ Len(t) = n - 1
      /\ \A i \in 1 .. n - 1 : t[i] = IF i < k THEN s[i] ELSE s[i + 1]
  BY <1>1, <1>3, EQ!Removed
<1> HIDE DEF t
<1>5. \A i \in 1 .. n - 1 : old(i) \in 1 .. n /\ old(i) # k /\ t[i] = s[old(i)]
  BY <1>1, <1>4
<1>6. \A i, j \in 1 .. n - 1 : i < j => old(i) < old(j)
  BY <1>1
<1>7. \A j \in 1 .. n : j # k => \E i \in 1 .. n - 1 : old(i) = j
  <2> SUFFICES ASSUME NEW j \in 1 .. n, j # k  PROVE \E i \in 1 .. n - 1 : old(i) = j
    OBVIOUS
  <2> WITNESS (IF j < k THEN j ELSE j - 1) \in 1 .. n - 1
  <2> QED  BY <1>1
<1> HIDE DEF old
<1>8. \A i, j \in 1 .. n - 1 : i < j => t[i] < t[j]
  BY <1>5, <1>6 DEF Enumerates
<1>9. \A j \in 1 .. n : s[j] = b => j = k
  <2>1. \A i, j \in 1 .. n : i < j => s[i] < s[j]
    BY DEF Enumerates
  <2>2. b \in Nat
    <3>1. s[k] \in Branch
      BY <1>1
    <3> QED  BY <1>2, <3>1 DEF Branch
  <2> QED  BY <1>1, <1>2, <2>1, <2>2
<1>10. L \ {b} = {t[i] : i \in 1 .. n - 1}
  <2>1. \A i \in 1 .. n - 1 : t[i] \in L \ {b}
    BY <1>1, <1>5, <1>9
  <2>2. \A c \in L \ {b} : \E i \in 1 .. n - 1 : t[i] = c
    <3> TAKE c \in L \ {b}
    <3>1. PICK j \in 1 .. n : s[j] = c
      BY <1>1
    <3>2. PICK i \in 1 .. n - 1 : old(i) = j
      BY <1>2, <1>7, <3>1
    <3> QED  BY <1>5, <3>1, <3>2
  <2> QED  BY <2>1, <2>2
<1>11. Enumerates(t, L \ {b})
  BY <1>4, <1>8, <1>10 DEF Enumerates
<1> QED
  BY <1>1, <1>2, <1>11 DEF t

LEMMA SeenNext == IInv' => SeenByFork'
  BY Seen, PTL

LEMMA SameSequenceOps ==
  /\ \A s : F!ToSet(s) = ToSet(s)
  /\ \A s, e : F!Contains(s, e) <=> Contains(s, e)
  /\ \A s, i : F!RemoveAt(s, i) = RemoveAt(s, i)
  BY DEF F!ToSet, ToSet, F!Contains, Contains, F!RemoveAt, RemoveAt

LEMMA StepRefines == IInv /\ IInv' /\ [Next]_vars => [F!Next]_<< Waiting, Told, (hub.tail = None) >>
<1> SUFFICES ASSUME IInv, IInv', [Next]_vars
             PROVE  [F!Next]_<< Waiting, Told, (hub.tail = None) >>
  OBVIOUS
\* The values that Fork sees, before and after the step.
<1> DEFINE taken == hub.inner = "taken"
<1>1. /\ Enumerates(Waiting, IF taken THEN {} ELSE Alive)
      /\ Told = IF taken THEN Alive ELSE {}
      /\ hub.tail = None <=> taken
  BY Seen DEF SeenByFork
<1>2. /\ Enumerates(Waiting', IF taken' THEN {} ELSE Alive')
      /\ Told' = IF taken' THEN Alive' ELSE {}
      /\ hub'.tail = None <=> taken'
  BY SeenNext DEF SeenByFork
<1>3. ToSet(Waiting) = IF taken THEN {} ELSE Alive
  <2>1. Waiting \in Seq(Branch) /\ DOMAIN Waiting = 1 .. Len(Waiting)
    BY <1>1 DEF Enumerates
  <2> QED  BY <1>1, <2>1 DEF Enumerates, ToSet
<1>4. \A e : Contains(Waiting, e) <=> e \in ToSet(Waiting)
  <2>1. DOMAIN Waiting = 1 .. Len(Waiting)
    BY <1>1 DEF Enumerates
  <2> QED  BY <2>1 DEF Contains, ToSet
<1>5. CASE Quiet
  <2>1. Waiting' = Waiting
    BY <1>1, <1>2, <1>5, OneEnumeration DEF Quiet
  <2> QED  BY <1>1, <1>2, <1>5, <2>1 DEF Quiet
<1>6. CASE AddBranch
  <2>1. PICK b \in Branch : /\ Alive' = Alive \cup {b} /\ \A c \in Alive : c < b
                            /\ hub'.inner = hub.inner
    BY <1>6, AddBranchKeepsIInv
  <2>2. b \notin Alive
    BY <2>1 DEF Branch
  <2>3. b \notin Told \cup ToSet(Waiting)
    BY <1>1, <1>3, <2>2
  <2>4. CASE taken
    <3>1. Told' = Told \cup {b} /\ Waiting' = Waiting
      BY <1>1, <1>2, <2>1, <2>4, EmptyEnumeration
    <3>2. F!Add(b)
      BY <1>1, <1>2, <2>1, <2>3, <2>4, <3>1, SameSequenceOps DEF F!Add
    <3> QED  BY <3>2 DEF F!Next
  <2>5. CASE ~taken
    <3>1. Told' = Told
      BY <1>1, <1>2, <2>1, <2>5
    <3>2. Enumerates(Append(Waiting, b), Alive \cup {b})
      BY <1>1, <2>1, <2>5, AppendEnumeration
    <3>3. Waiting' = Append(Waiting, b)
      BY <1>2, <2>1, <2>5, <3>2, OneEnumeration
    <3>4. F!Add(b)
      BY <1>1, <1>2, <2>1, <2>3, <2>5, <3>1, <3>3, SameSequenceOps DEF F!Add
    <3> QED  BY <3>4 DEF F!Next
  <2> QED  BY <2>4, <2>5
<1>7. ASSUME NEW b \in Branch, DropBranch(b)  PROVE F!Next
  <2>1. b \in Alive /\ Alive' = Alive \ {b} /\ hub'.inner = hub.inner
    BY <1>7, DropBranchKeepsIInv
  <2>2. CASE taken
    <3>1. Told' = Told \ {b} /\ Waiting' = Waiting /\ ~Contains(Waiting, b)
      BY <1>1, <1>2, <1>3, <1>4, <2>1, <2>2, EmptyEnumeration
    <3>2. F!Forget(b)
      BY <1>1, <1>2, <2>1, <2>2, <3>1, SameSequenceOps DEF F!Forget
    <3> QED  BY <3>2 DEF F!Next
  <2>3. CASE ~taken
    <3>1. Told' = Told \ {b} /\ Contains(Waiting, b)
      BY <1>1, <1>2, <1>3, <1>4, <2>1, <2>3
    <3>2. PICK k \in DOMAIN Waiting :
              Waiting[k] = b /\ Enumerates(RemoveAt(Waiting, k), Alive \ {b})
      BY <1>1, <2>1, <2>3, RemoveEnumeration
    <3>3. Waiting' = RemoveAt(Waiting, k)
      BY <1>2, <2>1, <2>3, <3>2, OneEnumeration
    <3>4. \E i \in DOMAIN Waiting : Waiting[i] = b /\ Waiting' = F!RemoveAt(Waiting, i)
      BY <3>2, <3>3, SameSequenceOps
    <3>5. F!Contains(Waiting, b) /\ UNCHANGED (hub.tail = None)
      BY <1>1, <1>2, <2>1, <3>1, SameSequenceOps
    <3>6. F!Forget(b)
      BY <3>1, <3>4, <3>5 DEF F!Forget
    <3> QED  BY <3>6 DEF F!Next
  <2> QED  BY <2>2, <2>3
<1>8. CASE HubSignal
  <2>1. Alive' = Alive /\ ~taken /\ taken'
    BY <1>8, HubSignalKeepsIInv
  <2>2. Waiting' = << >>
    BY <1>2, <2>1, EmptyEnumeration
  <2>3. Told' = Told \cup ToSet(Waiting)
    BY <1>1, <1>2, <1>3, <2>1
  <2>4. F!Resolve
    BY <1>1, <1>2, <2>1, <2>2, <2>3, SameSequenceOps DEF F!Resolve
  <2> QED  BY <2>4 DEF F!Next
<1> QED
  BY <1>5, <1>6, <1>7, <1>8, InnerReadyKeepsIInv, HubTakeKeepsIInv, DropHandleKeepsIInv,
     GetKeepsIInv, FireConsumerKeepsIInv, AttachKeepsIInv, StutterKeepsIInv
     DEF Next, Turn, User

LEMMA InitRefines == Init => F!Init
<1> SUFFICES ASSUME Init  PROVE F!Init
  OBVIOUS
<1>1. SeenByFork
  BY InitIInv, Seen
<1>2. hub.inner # "taken" /\ Alive = {}
  BY DEF Init, Alive, NoBranch
<1>3. Waiting = << >>
  BY <1>1, <1>2, EmptyEnumeration DEF SeenByFork
<1> QED
  BY <1>1, <1>2, <1>3 DEF SeenByFork, F!Init

\* The promise of fork(), for any number of branches: those that wait are told in the
\* order in which they were added, later ones are ready from the start, and dropping
\* one is of no consequence to the others (async.cpp:583-674).
THEOREM ForkImplemented == Spec => ImplementsFork
  BY Invariance, InitRefines, StepRefines, PTL DEF Spec, ImplementsFork, F!Spec
=============================================================================
