-------------------------- MODULE EventQueueProofs --------------------------
(***************************************************************************)
(* What the operations of the event queue do to its elements, for any      *)
(* queue of any events; and induction over the natural numbers, for the    *)
(* proofs about queues that need it.                                       *)
(***************************************************************************)
EXTENDS EventQueue, SequenceTheorems, WellFoundedInduction, TLAPS

\* Induction, stated with a set, which the provers can instantiate: what is left out
\* of T would have a least element.
LEMMA Induction ==
  ASSUME NEW T, 0 \in T, \A n \in Nat : n \in T => n + 1 \in T
  PROVE  \A n \in Nat : n \in T
<1> DEFINE R == {p \in Nat \X Nat : p[1] < p[2]}
           Out == Nat \ T
<1>1. IsWellFoundedOn(R, Nat)
  BY NatLessThanWellFounded DEF OpToRel
<1>2. \A m, n \in Nat : m < n => << m, n >> \in R
  OBVIOUS
<1> SUFFICES ASSUME Out # {}  PROVE FALSE
  OBVIOUS
<1> HIDE DEF R
<1>3. PICK x \in Out : \A y \in Out : << y, x >> \notin R
  <2>1. Out \subseteq Nat
    OBVIOUS
  <2> HIDE DEF Out
  <2> QED  BY <1>1, <2>1, WFMin
<1>4. x - 1 \in Nat /\ x - 1 \notin T
  <2>1. x \in Nat \ {0}
    OBVIOUS
  <2>2. (x - 1) + 1 = x /\ x - 1 \in Nat
    BY <2>1
  <2> QED  BY <2>2
<1>5. << x - 1, x >> \in R
  BY <1>2, <1>4
<1> QED
  BY <1>3, <1>4, <1>5

\* f starts with x, and g[i] gives its i-th value from the one before.
Iterates(f, X, x, g, n) ==
    f \in [0 .. n -> X] /\ f[0] = x /\ \A i \in 1 .. n : f[i] = g[i][f[i - 1]]

LEMMA Iterate ==
  ASSUME NEW n \in Nat, NEW X, NEW x \in X, NEW g \in [1 .. n -> [X -> X]]
  PROVE  \E f : Iterates(f, X, x, g, n)
<1> DEFINE Sol(f, k) == f[0] = x /\ \A i \in 1 .. k : f[i] = g[i][f[i - 1]]
           T == {k \in Nat : k <= n => \E f \in [0 .. k -> X] : Sol(f, k)}
<1>1. 0 \in T
  <2> DEFINE f == [i \in 0 .. 0 |-> x]
  <2>1. f \in [0 .. 0 -> X] /\ Sol(f, 0)
    OBVIOUS
  <2> HIDE DEF Sol, f
  <2> QED  BY <2>1
<1>2. ASSUME NEW k \in Nat, k \in T  PROVE k + 1 \in T
  <2> SUFFICES ASSUME k + 1 <= n  PROVE \E f \in [0 .. k + 1 -> X] : Sol(f, k + 1)
    OBVIOUS
  <2>1. PICK f \in [0 .. k -> X] : Sol(f, k)
    BY <1>2
  <2> DEFINE h == [i \in 0 .. k + 1 |-> IF i <= k THEN f[i] ELSE g[k + 1][f[k]]]
  <2>2. f[k] \in X /\ g[k + 1] \in [X -> X]
    <3>1. k \in 0 .. k /\ k + 1 \in 1 .. n
      OBVIOUS
    <3> QED  BY <3>1
  <2>3. h \in [0 .. k + 1 -> X]
    <3>1. \A i \in 0 .. k + 1 : i <= k => i \in 0 .. k
      OBVIOUS
    <3>2. g[k + 1][f[k]] \in X
      BY <2>2
    <3> QED  BY <3>1, <3>2
  <2>4. h[0] = x
    BY <2>1
  <2>5. ASSUME NEW i \in 1 .. k + 1  PROVE h[i] = g[i][h[i - 1]]
    <3>1. i - 1 \in 0 .. k + 1 /\ i - 1 <= k /\ i \in 0 .. k + 1 /\ i - 1 \in 0 .. k
      OBVIOUS
    <3>2. h[i - 1] = f[i - 1]
      BY <3>1
    <3>3. CASE i <= k
      BY <2>1, <3>1, <3>2, <3>3
    <3>4. CASE ~(i <= k)
      <4>1. i - 1 = k /\ i = k + 1
        BY <3>4
      <4> QED  BY <3>1, <3>2, <3>4, <4>1
    <3> QED  BY <3>3, <3>4
  <2>6. Sol(h, k + 1)
    BY <2>4, <2>5
  <2> HIDE DEF Sol, h
  <2> QED  BY <2>3, <2>6
<1> HIDE DEF T
<1>3. n \in T
  BY <1>1, <1>2, Induction
<1>4. PICK f \in [0 .. n -> X] : Sol(f, n)
  BY <1>3 DEF T
<1> QED
  BY <1>4 DEF Iterates

\* InsertAt() puts one element in front of the one at its place.
LEMMA Inserted ==
  ASSUME NEW S, NEW s \in Seq(S), NEW e \in S, NEW i \in 0 .. Len(s)
  PROVE  LET t == InsertAt(s, i + 1, e)
         IN  /\ t \in Seq(S) /\ Len(t) = Len(s) + 1
             /\ \A j \in 1 .. Len(s) + 1 :
                    t[j] = IF j <= i THEN s[j] ELSE IF j = i + 1 THEN e ELSE s[j - 1]
<1> DEFINE a == SubSeq(s, 1, i)
           b == SubSeq(s, i + 1, Len(s))
           c == a \o << e >>
<1>0. Len(s) \in Nat
  OBVIOUS
<1>1. a \in Seq(S) /\ Len(a) = i /\ \A j \in 1 .. i : a[j] = s[j]
  <2>1. \A j \in 1 .. i : s[j] \in S
    OBVIOUS
  <2> QED  BY <2>1, SubSeqProperties
<1>2. b \in Seq(S) /\ Len(b) = Len(s) - i /\ \A j \in 1 .. Len(s) - i : b[j] = s[i + j]
  <2>1. \A j \in i + 1 .. Len(s) : s[j] \in S
    OBVIOUS
  <2>2. /\ b \in Seq(S)
        /\ Len(b) = IF i + 1 <= Len(s) THEN Len(s) - (i + 1) + 1 ELSE 0
        /\ \A j \in 1 .. Len(s) - (i + 1) + 1 : b[j] = s[(i + 1) + j - 1]
    BY <1>0, <2>1, SubSeqProperties
  <2> HIDE DEF b
  <2> QED  BY <1>0, <2>2
<1>3. InsertAt(s, i + 1, e) = c \o b
  <2>1. (i + 1) - 1 = i
    OBVIOUS
  <2> QED  BY <2>1 DEF InsertAt
<1> HIDE DEF a, b
<1>4. << e >> \in Seq(S) /\ Len(<< e >>) = 1 /\ << e >>[1] = e
  OBVIOUS
<1>5. /\ c \in Seq(S) /\ Len(c) = i + 1
      /\ \A j \in 1 .. i + 1 : c[j] = IF j <= i THEN s[j] ELSE e
  <2>1. /\ c \in Seq(S) /\ Len(c) = Len(a) + Len(<< e >>)
        /\ \A j \in 1 .. Len(a) + Len(<< e >>) :
               c[j] = IF j <= Len(a) THEN a[j] ELSE << e >>[j - Len(a)]
    BY <1>1, <1>4, ConcatProperties
  <2> HIDE DEF c
  <2> QED  BY <1>1, <1>4, <2>1
<1> HIDE DEF c
<1> DEFINE t == c \o b
<1>6. /\ t \in Seq(S) /\ Len(t) = Len(c) + Len(b)
      /\ \A j \in 1 .. Len(c) + Len(b) : t[j] = IF j <= Len(c) THEN c[j] ELSE b[j - Len(c)]
  BY <1>2, <1>5, ConcatProperties
<1> HIDE DEF t
<1>7. t \in Seq(S) /\ Len(t) = Len(s) + 1
  BY <1>0, <1>2, <1>5, <1>6
<1>8. ASSUME NEW j \in 1 .. Len(s) + 1
      PROVE  t[j] = IF j <= i THEN s[j] ELSE IF j = i + 1 THEN e ELSE s[j - 1]
  <2>0. i \in Nat /\ j \in Nat /\ i <= Len(s) /\ 1 <= j /\ j <= Len(s) + 1
    BY <1>0
  <2>1. t[j] = IF j <= i + 1 THEN c[j] ELSE b[j - (i + 1)]
    BY <1>0, <1>2, <1>5, <1>6, <2>0
  <2>2. CASE j <= i + 1
    BY <1>5, <2>0, <2>1, <2>2
  <2>3. CASE j > i + 1
    <3>1. j - (i + 1) \in 1 .. Len(s) - i /\ i + (j - (i + 1)) = j - 1
      BY <1>0, <2>0, <2>3
    <3> QED  BY <1>2, <2>0, <2>1, <2>3, <3>1
  <2> QED  BY <2>0, <2>2, <2>3
<1>9. InsertAt(s, i + 1, e) = t
  BY <1>3 DEF t
<1> QED
  BY <1>7, <1>8, <1>9

\* RemoveAt() leaves out one element.
LEMMA Removed ==
  ASSUME NEW S, NEW s \in Seq(S), NEW i \in 1 .. Len(s)
  PROVE  LET t == RemoveAt(s, i)
         IN  /\ t \in Seq(S) /\ Len(t) = Len(s) - 1
             /\ \A j \in 1 .. Len(s) - 1 : t[j] = IF j < i THEN s[j] ELSE s[j + 1]
<1> DEFINE a == SubSeq(s, 1, i - 1)
           b == SubSeq(s, i + 1, Len(s))
           t == a \o b
<1>0. Len(s) \in Nat
  OBVIOUS
<1>1. a \in Seq(S) /\ Len(a) = i - 1 /\ \A j \in 1 .. i - 1 : a[j] = s[j]
  <2>1. \A j \in 1 .. i - 1 : s[j] \in S
    OBVIOUS
  <2> QED  BY <2>1, SubSeqProperties
<1>2. b \in Seq(S) /\ Len(b) = Len(s) - i /\ \A j \in 1 .. Len(s) - i : b[j] = s[i + j]
  <2>1. \A j \in i + 1 .. Len(s) : s[j] \in S
    OBVIOUS
  <2>2. /\ b \in Seq(S)
        /\ Len(b) = IF i + 1 <= Len(s) THEN Len(s) - (i + 1) + 1 ELSE 0
        /\ \A j \in 1 .. Len(s) - (i + 1) + 1 : b[j] = s[(i + 1) + j - 1]
    BY <1>0, <2>1, SubSeqProperties
  <2> HIDE DEF b
  <2> QED  BY <1>0, <2>2
<1>3. RemoveAt(s, i) = t
  BY DEF RemoveAt
<1> HIDE DEF a, b
<1>4. /\ t \in Seq(S) /\ Len(t) = Len(a) + Len(b)
      /\ \A j \in 1 .. Len(a) + Len(b) : t[j] = IF j <= Len(a) THEN a[j] ELSE b[j - Len(a)]
  BY <1>1, <1>2, ConcatProperties
<1> HIDE DEF t
<1>5. t \in Seq(S) /\ Len(t) = Len(s) - 1
  BY <1>0, <1>1, <1>2, <1>4
<1>6. ASSUME NEW j \in 1 .. Len(s) - 1
      PROVE  t[j] = IF j < i THEN s[j] ELSE s[j + 1]
  <2>0. i \in Nat /\ j \in Nat /\ 1 <= i /\ i <= Len(s) /\ 1 <= j /\ j <= Len(s) - 1
    BY <1>0
  <2>1. t[j] = IF j <= i - 1 THEN a[j] ELSE b[j - (i - 1)]
    BY <1>0, <1>1, <1>2, <1>4, <2>0
  <2>2. CASE j < i
    BY <1>1, <2>0, <2>1, <2>2
  <2>3. CASE j >= i
    <3>1. j - (i - 1) \in 1 .. Len(s) - i /\ i + (j - (i - 1)) = j + 1
      BY <1>0, <2>0, <2>3
    <3> QED  BY <1>2, <2>0, <2>1, <2>3, <3>1
  <2> QED  BY <2>0, <2>2, <2>3
<1> QED
  BY <1>3, <1>5, <1>6

-----------------------------------------------------------------------------
\* A queue of elements of S.
QueueOf(S) == {q \in [order : Seq(S), ins : Nat] : q.ins <= Len(q.order)}

\* Nothing is in it twice.
Distinct(q) == \A i, j \in DOMAIN q.order : q.order[i] = q.order[j] => i = j

LEMMA QueueFacts ==
  ASSUME NEW S, NEW q \in QueueOf(S)
  PROVE  /\ q = [order |-> q.order, ins |-> q.ins]
         /\ q.order \in Seq(S) /\ Len(q.order) \in Nat /\ DOMAIN q.order = 1 .. Len(q.order)
         /\ q.ins \in 0 .. Len(q.order) /\ q.ins \in Nat
         /\ \A i \in 1 .. Len(q.order) : q.order[i] \in S /\ q.order[i] \in Queued(q)
  BY DEF QueueOf, Queued

LEMMA EmptyFacts == \A S : Empty \in QueueOf(S) /\ Distinct(Empty) /\ Queued(Empty) = {}
  BY DEF Empty, QueueOf, Distinct, Queued

\* Who is queued by an operation that inserts e at the place k.
LEMMA InsertedOne ==
  ASSUME NEW S, NEW q \in QueueOf(S), NEW r \in QueueOf(S), NEW e \in S, e \notin Queued(q),
         NEW k \in 1 .. Len(q.order) + 1, Len(r.order) = Len(q.order) + 1,
         \A j \in 1 .. Len(q.order) + 1 :
             r.order[j] = IF j < k THEN q.order[j] ELSE IF j = k THEN e ELSE q.order[j - 1]
  PROVE  Queued(r) = Queued(q) \cup {e} /\ (Distinct(q) => Distinct(r))
<1> DEFINE n == Len(q.order)
           old(j) == IF j < k THEN j ELSE j - 1
<1>1. /\ n \in Nat /\ DOMAIN q.order = 1 .. n /\ DOMAIN r.order = 1 .. n + 1
      /\ \A i \in 1 .. n : q.order[i] \in Queued(q)
  BY QueueFacts
<1>2. \A j \in 1 .. n + 1 : j # k => old(j) \in 1 .. n /\ r.order[j] = q.order[old(j)]
  BY <1>1
<1>3. r.order[k] = e
  BY <1>1
<1>4. \A i \in 1 .. n : \E j \in 1 .. n + 1 : j # k /\ r.order[j] = q.order[i]
  <2> TAKE i \in 1 .. n
  <2> DEFINE j == IF i < k THEN i ELSE i + 1
  <2>1. j \in 1 .. n + 1 /\ j # k /\ old(j) = i
    BY <1>1
  <2> HIDE DEF j, old
  <2> QED  BY <1>2, <2>1
<1>5. Queued(r) = Queued(q) \cup {e}
  <2>1. \A j \in 1 .. n + 1 : r.order[j] \in Queued(q) \cup {e}
    <3> HIDE DEF old
    <3> QED  BY <1>1, <1>2, <1>3
  <2>2. Queued(q) \subseteq Queued(r)
    <3> HIDE DEF old
    <3>1. \A i \in 1 .. n : \E j \in DOMAIN r.order : r.order[j] = q.order[i]
      BY <1>1, <1>4
    <3> QED  BY <1>1, <3>1 DEF Queued
  <2>3. e \in Queued(r)
    BY <1>1, <1>3 DEF Queued
  <2> QED  BY <1>1, <2>1, <2>2, <2>3 DEF Queued
<1>6. ASSUME Distinct(q)  PROVE Distinct(r)
  <2>1. SUFFICES ASSUME NEW i \in 1 .. n + 1, NEW j \in 1 .. n + 1, r.order[i] = r.order[j]
                 PROVE  i = j
    BY <1>1 DEF Distinct
  <2>2. i = k <=> j = k
    <3> HIDE DEF old
    <3> QED  BY <1>1, <1>2, <1>3, <2>1
  <2>3. CASE i # k
    <3>1. old(i) = old(j)
      <4> HIDE DEF old
      <4> QED  BY <1>1, <1>2, <1>6, <2>1, <2>2, <2>3 DEF Distinct
    <3> QED  BY <1>1, <2>2, <2>3, <3>1
  <2> QED  BY <2>2, <2>3
<1> QED
  BY <1>5, <1>6

LEMMA DepthFirstFacts ==
  ASSUME NEW S, NEW q \in QueueOf(S), NEW e \in S, e \notin Queued(q)
  PROVE  LET r == DepthFirst(q, e)
         IN  /\ r \in QueueOf(S)
             /\ r.ins = q.ins + 1 /\ Len(r.order) = Len(q.order) + 1
             /\ \A j \in 1 .. Len(q.order) + 1 :
                    r.order[j] = IF j <= q.ins THEN q.order[j]
                                 ELSE IF j = q.ins + 1 THEN e ELSE q.order[j - 1]
             /\ Queued(r) = Queued(q) \cup {e}
             /\ Distinct(q) => Distinct(r)
<1> DEFINE s == InsertAt(q.order, q.ins + 1, e)
           r == DepthFirst(q, e)
<1>0. q.order \in Seq(S) /\ Len(q.order) \in Nat /\ q.ins \in 0 .. Len(q.order) /\ q.ins \in Nat
  BY QueueFacts
<1>1. /\ s \in Seq(S) /\ Len(s) = Len(q.order) + 1
      /\ \A j \in 1 .. Len(q.order) + 1 :
             s[j] = IF j <= q.ins THEN q.order[j]
                    ELSE IF j = q.ins + 1 THEN e ELSE q.order[j - 1]
  <2> DEFINE o == q.order
             i == q.ins
  <2>1. o \in Seq(S) /\ i \in 0 .. Len(o)
    BY <1>0
  <2> HIDE DEF o, i
  <2> DEFINE t == InsertAt(o, i + 1, e)
  <2>2. t \in Seq(S) /\ Len(t) = Len(o) + 1
    BY <2>1, Inserted
  <2>3. \A j \in 1 .. Len(o) + 1 :
            t[j] = IF j <= i THEN o[j] ELSE IF j = i + 1 THEN e ELSE o[j - 1]
    BY <2>1, Inserted
  <2> QED  BY <2>2, <2>3 DEF o, i
<1>2. r = [order |-> s, ins |-> q.ins + 1]
  BY DEF DepthFirst
<1> HIDE DEF s, r
<1>3. r.order = s /\ r.ins = q.ins + 1
  BY <1>2
<1>4. r \in QueueOf(S)
  BY <1>0, <1>1, <1>2 DEF QueueOf
<1>5. q.ins + 1 \in 1 .. Len(q.order) + 1
  BY <1>0
<1>6. \A j \in 1 .. Len(q.order) + 1 :
          r.order[j] = IF j < q.ins + 1 THEN q.order[j]
                       ELSE IF j = q.ins + 1 THEN e ELSE q.order[j - 1]
  BY <1>0, <1>1, <1>3
<1>7. Len(r.order) = Len(q.order) + 1
  BY <1>1, <1>3
<1>8. Queued(r) = Queued(q) \cup {e} /\ (Distinct(q) => Distinct(r))
  BY <1>4, <1>5, <1>6, <1>7, InsertedOne
<1> QED
  BY <1>1, <1>3, <1>4, <1>7, <1>8 DEF r

LEMMA BreadthFirstFacts ==
  ASSUME NEW S, NEW q \in QueueOf(S), NEW e \in S, e \notin Queued(q)
  PROVE  LET r == BreadthFirst(q, e)
         IN  /\ r \in QueueOf(S)
             /\ r.ins = q.ins /\ r.order = Append(q.order, e)
             /\ Len(r.order) = Len(q.order) + 1
             /\ \A j \in 1 .. Len(q.order) + 1 :
                    r.order[j] = IF j <= Len(q.order) THEN q.order[j] ELSE e
             /\ Queued(r) = Queued(q) \cup {e}
             /\ Distinct(q) => Distinct(r)
<1> DEFINE s == Append(q.order, e)
           r == BreadthFirst(q, e)
<1>0. /\ q = [order |-> q.order, ins |-> q.ins]
      /\ q.order \in Seq(S) /\ Len(q.order) \in Nat /\ q.ins \in 0 .. Len(q.order) /\ q.ins \in Nat
  BY QueueFacts
<1>1. /\ s \in Seq(S) /\ Len(s) = Len(q.order) + 1
      /\ \A j \in 1 .. Len(q.order) + 1 : s[j] = IF j <= Len(q.order) THEN q.order[j] ELSE e
  BY <1>0, AppendProperties
<1>2. r = [order |-> s, ins |-> q.ins]
  BY <1>0 DEF BreadthFirst
<1> HIDE DEF r
<1>3. r.order = s /\ r.ins = q.ins
  BY <1>2
<1> HIDE DEF s
<1>4. r \in QueueOf(S)
  BY <1>0, <1>1, <1>2 DEF QueueOf
<1>5. Len(q.order) + 1 \in 1 .. Len(q.order) + 1
  BY <1>0
<1>7. Len(r.order) = Len(q.order) + 1
  BY <1>1, <1>3
<1>8. Queued(r) = Queued(q) \cup {e} /\ (Distinct(q) => Distinct(r))
  <2> DEFINE k == Len(q.order) + 1
  <2>1. \A j \in 1 .. Len(q.order) + 1 :
            r.order[j] = IF j < k THEN q.order[j] ELSE IF j = k THEN e ELSE q.order[j - 1]
    BY <1>0, <1>1, <1>3
  <2>2. k \in 1 .. Len(q.order) + 1
    BY <1>5
  <2> HIDE DEF k
  <2> QED  BY <1>4, <1>7, <2>1, <2>2, InsertedOne
<1> QED
  BY <1>1, <1>3, <1>4, <1>7, <1>8 DEF r, s

\* Who is queued by an operation that takes out what is at the place k.
LEMMA RemovedOne ==
  ASSUME NEW S, NEW q \in QueueOf(S), NEW r \in QueueOf(S), Distinct(q),
         NEW k \in 1 .. Len(q.order), Len(r.order) = Len(q.order) - 1,
         \A j \in 1 .. Len(q.order) - 1 :
             r.order[j] = IF j < k THEN q.order[j] ELSE q.order[j + 1]
  PROVE  Queued(r) = Queued(q) \ {q.order[k]} /\ Distinct(r)
<1> DEFINE n == Len(q.order)
           old(j) == IF j < k THEN j ELSE j + 1
<1>1. n \in Nat /\ DOMAIN q.order = 1 .. n /\ DOMAIN r.order = 1 .. n - 1
  BY QueueFacts
<1>2. \A j \in 1 .. n - 1 : old(j) \in 1 .. n /\ old(j) # k /\ r.order[j] = q.order[old(j)]
  BY <1>1
<1>3. \A i \in 1 .. n : i # k => \E j \in 1 .. n - 1 : r.order[j] = q.order[i]
  <2> SUFFICES ASSUME NEW i \in 1 .. n, i # k
               PROVE  \E j \in 1 .. n - 1 : r.order[j] = q.order[i]
    OBVIOUS
  <2> DEFINE j == IF i < k THEN i ELSE i - 1
  <2>1. j \in 1 .. n - 1 /\ old(j) = i
    BY <1>1
  <2> HIDE DEF j, old
  <2> QED  BY <1>2, <2>1
<1>4. \A i \in 1 .. n : q.order[i] = q.order[k] => i = k
  BY <1>1 DEF Distinct
<1>5. Queued(r) = Queued(q) \ {q.order[k]}
  <2> HIDE DEF old
  <2>1. \A j \in 1 .. n - 1 : r.order[j] \in Queued(q) /\ r.order[j] # q.order[k]
    BY <1>1, <1>2, <1>4 DEF Queued
  <2>2. \A i \in 1 .. n : i # k => q.order[i] \in Queued(r)
    BY <1>1, <1>3 DEF Queued
  <2> QED  BY <1>1, <2>1, <2>2 DEF Queued
<1>6. Distinct(r)
  <2>1. SUFFICES ASSUME NEW i \in 1 .. n - 1, NEW j \in 1 .. n - 1, r.order[i] = r.order[j]
                 PROVE  i = j
    BY <1>1 DEF Distinct
  <2>2. old(i) = old(j)
    <3>1. /\ old(i) \in 1 .. n /\ old(j) \in 1 .. n
          /\ q.order[old(i)] = q.order[old(j)]
      BY <1>2, <2>1
    <3> HIDE DEF old
    <3> QED  BY <1>1, <3>1 DEF Distinct
  <2> QED  BY <1>1, <2>2
<1> QED
  BY <1>5, <1>6

LEMMA PopFacts ==
  ASSUME NEW S, NEW q \in QueueOf(S), q.order # << >>
  PROVE  LET r == Pop(q)
         IN  /\ r \in QueueOf(S)
             /\ Len(q.order) >= 1 /\ q.order[1] = Head(q.order)
             /\ r.ins = 0 /\ Len(r.order) = Len(q.order) - 1
             /\ \A j \in 1 .. Len(q.order) - 1 : r.order[j] = q.order[j + 1]
             /\ Distinct(q) => Queued(r) = Queued(q) \ {q.order[1]} /\ Distinct(r)
<1> DEFINE s == Tail(q.order)
           r == Pop(q)
<1>0. q.order \in Seq(S) /\ Len(q.order) \in Nat
  BY QueueFacts
<1>1. /\ s \in Seq(S) /\ Len(s) = Len(q.order) - 1 /\ Len(q.order) >= 1
      /\ \A j \in 1 .. Len(q.order) - 1 : s[j] = q.order[j + 1]
  BY <1>0, EmptySeq, HeadTailProperties
<1>2. r = [order |-> s, ins |-> 0]
  BY DEF Pop
<1> HIDE DEF s, r
<1>3. r.order = s /\ r.ins = 0
  BY <1>2
<1>4. r \in QueueOf(S)
  BY <1>0, <1>1, <1>2 DEF QueueOf
<1>5. 1 \in 1 .. Len(q.order)
  BY <1>0, <1>1
<1>6. \A j \in 1 .. Len(q.order) - 1 :
          r.order[j] = IF j < 1 THEN q.order[j] ELSE q.order[j + 1]
  BY <1>0, <1>1, <1>3
<1>7. Len(r.order) = Len(q.order) - 1
  BY <1>1, <1>3
<1>8. Distinct(q) => Queued(r) = Queued(q) \ {q.order[1]} /\ Distinct(r)
  BY <1>4, <1>5, <1>6, <1>7, RemovedOne
<1> QED
  BY <1>0, <1>1, <1>3, <1>4, <1>7, <1>8 DEF r

LEMMA RewindFacts ==
  ASSUME NEW S, NEW q \in QueueOf(S)
  PROVE  LET r == Rewind(q)
         IN  /\ r \in QueueOf(S) /\ r.order = q.order /\ r.ins = 0
             /\ Queued(r) = Queued(q) /\ (Distinct(q) => Distinct(r))
<1>1. q.order \in Seq(S) /\ Len(q.order) \in Nat
  BY QueueFacts
<1>2. Rewind(q) = [order |-> q.order, ins |-> 0]
  BY QueueFacts DEF Rewind
<1> QED
  BY <1>1, <1>2 DEF QueueOf, Queued, Distinct

\* Drop() of an event that is queued, at the place k.
LEMMA DropFacts ==
  ASSUME NEW S, NEW q \in QueueOf(S), Distinct(q), NEW k \in 1 .. Len(q.order)
  PROVE  LET r == Drop(q, q.order[k])
         IN  /\ r \in QueueOf(S) /\ Distinct(r)
             /\ r.ins = IF k <= q.ins THEN q.ins - 1 ELSE q.ins
             /\ Len(r.order) = Len(q.order) - 1
             /\ \A j \in 1 .. Len(q.order) - 1 :
                    r.order[j] = IF j < k THEN q.order[j] ELSE q.order[j + 1]
             /\ Queued(r) = Queued(q) \ {q.order[k]}
<1> DEFINE e == q.order[k]
           p == CHOOSE i \in DOMAIN q.order : q.order[i] = e
           s == RemoveAt(q.order, k)
           r == Drop(q, e)
<1>0. /\ q.order \in Seq(S) /\ Len(q.order) \in Nat /\ DOMAIN q.order = 1 .. Len(q.order)
      /\ q.ins \in 0 .. Len(q.order) /\ q.ins \in Nat /\ e \in Queued(q)
  BY QueueFacts
<1>1. p = k
  <2>1. \A i \in DOMAIN q.order : q.order[i] = e => i = k
    BY <1>0 DEF Distinct
  <2>2. p \in DOMAIN q.order /\ q.order[p] = e
    BY <1>0
  <2> QED  BY <2>1, <2>2
<1>2. /\ s \in Seq(S) /\ Len(s) = Len(q.order) - 1
      /\ \A j \in 1 .. Len(q.order) - 1 : s[j] = IF j < k THEN q.order[j] ELSE q.order[j + 1]
  BY <1>0, Removed
<1>3. r = [order |-> s, ins |-> IF k <= q.ins THEN q.ins - 1 ELSE q.ins]
  BY <1>0, <1>1 DEF Drop
<1> HIDE DEF s, r, p
<1>4. r.order = s /\ r.ins = IF k <= q.ins THEN q.ins - 1 ELSE q.ins
  BY <1>3
<1>5. r \in QueueOf(S)
  BY <1>0, <1>2, <1>3 DEF QueueOf
<1>6. Len(r.order) = Len(q.order) - 1
  BY <1>2, <1>4
<1>7. \A j \in 1 .. Len(q.order) - 1 :
          r.order[j] = IF j < k THEN q.order[j] ELSE q.order[j + 1]
  BY <1>2, <1>4
<1>8. Queued(r) = Queued(q) \ {q.order[k]} /\ Distinct(r)
  BY <1>5, <1>6, <1>7, RemovedOne
<1> QED
  BY <1>4, <1>5, <1>6, <1>7, <1>8 DEF r

\* Arming an event that may be queued already.
LEMMA ArmedFacts ==
  ASSUME NEW S, NEW q \in QueueOf(S), Distinct(q), NEW e \in S
  PROVE  /\ DepthFirst(q, e) \in QueueOf(S) /\ Distinct(DepthFirst(q, e))
         /\ Queued(DepthFirst(q, e)) = Queued(q) \cup {e}
         /\ BreadthFirst(q, e) \in QueueOf(S) /\ Distinct(BreadthFirst(q, e))
         /\ Queued(BreadthFirst(q, e)) = Queued(q) \cup {e}
<1>1. CASE e \in Queued(q)
  <2>1. DepthFirst(q, e) = q /\ BreadthFirst(q, e) = q
    BY <1>1 DEF DepthFirst, BreadthFirst
  <2> QED  BY <1>1, <2>1
<1>2. CASE e \notin Queued(q)
  <2>1. /\ DepthFirst(q, e) \in QueueOf(S) /\ Distinct(DepthFirst(q, e))
        /\ Queued(DepthFirst(q, e)) = Queued(q) \cup {e}
    BY <1>2, DepthFirstFacts
  <2>2. /\ BreadthFirst(q, e) \in QueueOf(S) /\ Distinct(BreadthFirst(q, e))
        /\ Queued(BreadthFirst(q, e)) = Queued(q) \cup {e}
    BY <1>2, BreadthFirstFacts
  <2> QED  BY <2>1, <2>2
<1> QED
  BY <1>1, <1>2

\* Taking out an event that need not be queued.
LEMMA DroppedFacts ==
  ASSUME NEW S, NEW q \in QueueOf(S), Distinct(q), NEW e
  PROVE  /\ Drop(q, e) \in QueueOf(S) /\ Distinct(Drop(q, e))
         /\ Queued(Drop(q, e)) = Queued(q) \ {e}
<1>1. CASE e \in Queued(q)
  <2>1. PICK k \in 1 .. Len(q.order) : q.order[k] = e
    BY <1>1, QueueFacts DEF Queued
  <2> QED  BY <2>1, DropFacts
<1>2. CASE e \notin Queued(q)
  <2>1. Drop(q, e) = q
    BY <1>2 DEF Drop
  <2> QED  BY <1>2, <2>1
<1> QED
  BY <1>1, <1>2
=============================================================================
