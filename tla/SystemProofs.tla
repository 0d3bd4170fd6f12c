---------------------------- MODULE SystemProofs ----------------------------
(***************************************************************************)
(* What connects a program with its system: the list of a WinEventPort and *)
(* what a call of wait() or poll() makes of it, for any finite set of      *)
(* observers and any handles; and the command line with which it is        *)
(* started, for any options, any handlers and any number of arguments.     *)
(*                                                                         *)
(* The command line: what was handed out and what is still required are    *)
(* sums over the handlers, in their order.  A handler that was passed has  *)
(* all that it takes, or what was left then was required by those behind   *)
(* it (Filled); and if anybody has got more than is required, what is left *)
(* is enough for the others.                                               *)
(***************************************************************************)
EXTENDS WinEventPort, CommandLine, SequenceTheorems, FiniteSetTheorems, TLAPS

\* Induction, and what is left of a sequence without one element.
EQ == INSTANCE EventQueueProofs WITH Event <- Observer, queue <- call

(***************************************************************************)
(* The inductive invariant: some sequence of the waiting observers says    *)
(* where every pointer leads; and what a call has still to look at waits,  *)
(* each observer once, for the handle that the snapshot has.               *)
(***************************************************************************)
SlotAt(s, i) == IF i = 0 THEN HeadSlot ELSE s[i]
NextAt(s, i) == IF i = Len(s) THEN None ELSE s[i + 1]

Distinct(s) == \A i, j \in 1 .. Len(s) : s[i] = s[j] => i = j

Chain(s) ==
    /\ Distinct(s)
    /\ head = NextAt(s, 0) /\ tail = SlotAt(s, Len(s))
    /\ \A i \in 1 .. Len(s) : /\ obs[s[i]].prev = SlotAt(s, i - 1)
                              /\ obs[s[i]].next = NextAt(s, i)
    /\ \A o \in Observer : obs[o].state = "waiting" <=> \E i \in 1 .. Len(s) : s[i] = o
    /\ \A o \in Observer : obs[o].state # "waiting" => obs[o].prev = None /\ obs[o].next = None

HasChain == \E s \in Seq(Observer) : Chain(s)

CallType ==
    [kind : {None, "wait", "poll"}, events : Seq(Observer),
     handles : Seq(Handle \cup {None}), at : Nat]

CallOK ==
    /\ call.at \in 0 .. Len(call.handles) + 1 /\ Len(call.events) = Len(call.handles)
    /\ Distinct(call.events)
    /\ \A i \in 1 .. Len(call.events) : i >= call.at =>
          /\ obs[call.events[i]].state = "waiting"
          /\ obs[call.events[i]].handle = call.handles[i]

Types ==
    /\ obs \in [Observer -> ObserverType]
    /\ signalled \subseteq Handle /\ abandoned \subseteq Mutex
    /\ failed \in BOOLEAN /\ call \in CallType

IInv == Types /\ HasChain /\ CallOK

-----------------------------------------------------------------------------
(* The list, walked from the head, is that sequence.                       *)

LEMMA ChainFacts ==
  ASSUME Types, NEW s \in Seq(Observer), Chain(s)
  PROVE  /\ Len(s) \in Nat /\ Len(s) <= Cardinality(Observer) /\ Cardinality(Observer) \in Nat
         /\ \A i \in 1 .. Len(s) : s[i] \in Observer
         /\ \A i \in 0 .. Len(s) : SlotAt(s, i) \in Slot
         /\ \A i, j \in 0 .. Len(s) : SlotAt(s, i) = SlotAt(s, j) => i = j
         /\ \A i \in 0 .. Len(s) : NextAt(s, i) \in Observer \cup {None}
         /\ \A i, j \in 0 .. Len(s) : NextAt(s, i) = NextAt(s, j) => i = j
         /\ \A i \in 0 .. Len(s) : NextAt(s, i) = None <=> i = Len(s)
<1> DEFINE n == Len(s)
<1>1. n \in Nat /\ DOMAIN s = 1 .. n /\ Cardinality(Observer) \in Nat
  BY PortAssumption, FS_CardinalityType
<1>2. \A i \in 1 .. n : s[i] \in Observer
  OBVIOUS
<1>3. \A i, j \in 1 .. n : s[i] = s[j] => i = j
  BY DEF Chain, Distinct
<1>4. n <= Cardinality(Observer)
  <2>1. s \in Injection(1 .. n, Observer)
    <3>1. s \in [1 .. n -> Observer]
      BY <1>1
    <3> QED  BY <1>3, <3>1 DEF Injection, IsInjective
  <2>2. Cardinality(1 .. n) <= Cardinality(Observer)
    BY <2>1, PortAssumption, FS_Injection
  <2>3. Cardinality(1 .. n) = n
    <3>1. 1 \in Int /\ n \in Int
      BY <1>1
    <3>2. Cardinality(1 .. n) = IF 1 > n THEN 0 ELSE n - 1 + 1
      BY <3>1, FS_Interval
    <3> QED  BY <1>1, <3>2
  <2> QED  BY <2>2, <2>3
<1> HIDE DEF n
<1>5. \A i \in 0 .. n : i # 0 => i \in 1 .. n
  BY <1>1
<1>6. \A i \in 0 .. n : SlotAt(s, i) \in Slot
  BY <1>2, <1>5 DEF SlotAt, Slot
<1>7. \A i, j \in 0 .. n : SlotAt(s, i) = SlotAt(s, j) => i = j
  BY <1>2, <1>3, <1>5, PortAssumption DEF SlotAt
<1>8. \A i \in 0 .. n : i # n => i + 1 \in 1 .. n
  BY <1>1
<1>9. \A i \in 0 .. n : NextAt(s, i) \in Observer \cup {None} /\ (NextAt(s, i) = None <=> i = n)
  BY <1>2, <1>8, PortAssumption DEF NextAt, n
<1>10. ASSUME NEW i \in 0 .. n, NEW j \in 0 .. n, NextAt(s, i) = NextAt(s, j)  PROVE i = j
  <2>1. CASE i = n \/ j = n
    BY <1>9, <1>10, <2>1
  <2>2. CASE i # n /\ j # n
    <3>1. s[i + 1] = s[j + 1]
      BY <1>10, <2>2 DEF NextAt, n
    <3>2. i + 1 = j + 1
      BY <1>3, <1>8, <2>2, <3>1
    <3> QED  BY <1>1, <3>2
  <2> QED  BY <2>1, <2>2
<1> QED
  BY <1>1, <1>2, <1>4, <1>6, <1>7, <1>9, <1>10 DEF n

LEMMA WalkFacts ==
  ASSUME Types, NEW s \in Seq(Observer), Chain(s)
  PROVE  \A i \in 0 .. Cardinality(Observer) :
             Walk[i] = IF i <= Len(s) THEN NextAt(s, i) ELSE None
<1> DEFINE N == Cardinality(Observer)
           D == 0 .. N
           n == Len(s)
           w == Walk
           g == [i \in D |-> IF i <= n THEN NextAt(s, i) ELSE None]
           step(f, i) == IF i = 0 THEN head
                         ELSE IF f[i - 1] = None THEN None ELSE obs[f[i - 1]].next
<1>1. N \in Nat /\ n \in Nat /\ n <= N
  BY ChainFacts
<1>2. ASSUME NEW i \in D  PROVE g[i] = step(g, i)
  <2>0. i \in Nat /\ i <= N
    BY <1>1
  <2>1. CASE i = 0
    BY <1>1, <2>0, <2>1 DEF Chain
  <2>2. ASSUME i # 0  PROVE g[i] = step(g, i)
    <3>1. i - 1 \in D /\ i - 1 \in Nat /\ i >= 1 /\ (i - 1) + 1 = i
      BY <1>1, <2>0, <2>2
    <3>2. g[i - 1] = IF i - 1 <= n THEN NextAt(s, i - 1) ELSE None
      BY <3>1
    <3>3. CASE i <= n
      <4>1. i - 1 \in 0 .. n /\ i - 1 # n /\ i - 1 <= n /\ i \in 1 .. n
        BY <1>1, <2>0, <3>1, <3>3
      <4>2. NextAt(s, i - 1) = s[i]
        BY <3>1, <4>1 DEF NextAt
      <4>3. s[i] \in Observer /\ obs[s[i]].next = NextAt(s, i)
        BY <4>1, ChainFacts DEF Chain
      <4>4. g[i] = NextAt(s, i) /\ g[i - 1] = s[i] /\ s[i] # None
        BY <3>2, <3>3, <4>1, <4>2, <4>3, PortAssumption
      <4> HIDE DEF g
      <4> QED  BY <2>2, <4>3, <4>4
    <3>4. CASE ~(i <= n)
      <4>1. g[i - 1] = None
        <5>1. CASE i - 1 = n
          BY <3>2, <5>1 DEF NextAt
        <5>2. CASE i - 1 # n
          <6>1. ~(i - 1 <= n)
            BY <1>1, <2>0, <3>1, <3>4, <5>2
          <6> QED  BY <3>2, <6>1
        <5> QED  BY <5>1, <5>2
      <4> QED  BY <2>2, <3>4, <4>1
    <3> QED  BY <3>3, <3>4
  <2> QED  BY <2>1, <2>2
<1>3. g = [i \in D |-> step(g, i)]
  <2>1. g = [i \in D |-> g[i]]
    OBVIOUS
  <2> HIDE DEF g, step
  <2> QED  BY <1>2, <2>1
<1>4. w = CHOOSE f : f = [i \in D |-> step(f, i)]
  BY DEF Walk
<1> HIDE DEF g, step, w
<1>5. w = [i \in D |-> step(w, i)]
  BY <1>3, <1>4
<1> DEFINE T == {i \in Nat : i <= N => w[i] = g[i]}
<1>6. 0 \in T
  BY <1>1, <1>3, <1>5 DEF step
<1>7. ASSUME NEW i \in Nat, i \in T  PROVE i + 1 \in T
  <2> SUFFICES ASSUME i + 1 <= N  PROVE w[i + 1] = g[i + 1]
    OBVIOUS
  <2>1. i + 1 \in D /\ i + 1 # 0 /\ (i + 1) - 1 = i /\ w[i] = g[i]
    BY <1>1, <1>7
  <2>2. w[i + 1] = step(w, i + 1) /\ g[i + 1] = step(g, i + 1)
    BY <1>3, <1>5, <2>1
  <2> QED  BY <2>1, <2>2 DEF step
<1> HIDE DEF T
<1>8. \A i \in Nat : i \in T
  BY <1>6, <1>7, EQ!Induction
<1>9. \A i \in D : w[i] = g[i]
  BY <1>1, <1>8 DEF T
<1> QED
  BY <1>9 DEF g, w

LEMMA ListedIs ==
  ASSUME Types, NEW s \in Seq(Observer), Chain(s)
  PROVE  Listed = s
<1> DEFINE N == Cardinality(Observer)
           n == Len(s)
           w == Walk
           I == {i \in 1 .. N : w[i - 1] # None}
<1>1. N \in Nat /\ n \in Nat /\ n <= N /\ DOMAIN s = 1 .. n
  BY ChainFacts
<1>2. \A i \in 1 .. N : w[i - 1] = IF i <= n THEN s[i] ELSE None
  <2> SUFFICES ASSUME NEW i \in 1 .. N  PROVE w[i - 1] = IF i <= n THEN s[i] ELSE None
    OBVIOUS
  <2>1. i - 1 \in 0 .. N /\ (i - 1) + 1 = i /\ (i <= n <=> i - 1 <= n /\ i - 1 # n)
    BY <1>1
  <2>2. w[i - 1] = IF i - 1 <= n THEN NextAt(s, i - 1) ELSE None
    BY <2>1, WalkFacts
  <2> HIDE DEF w
  <2> QED  BY <2>1, <2>2 DEF NextAt
<1> HIDE DEF w
<1>3. I = 1 .. n
  <2>1. \A i \in 1 .. n : s[i] # None
    BY ChainFacts, PortAssumption
  <2>2. \A i \in 1 .. N : w[i - 1] # None <=> i <= n
    BY <1>1, <1>2, <2>1
  <2> QED  BY <1>1, <2>2
<1>4. Listed = [i \in 1 .. Cardinality(I) |-> w[i - 1]]
  BY DEF Listed, w
<1> HIDE DEF I, n
<1>5. Cardinality(I) = n
  <2>1. 1 \in Int /\ n \in Int
    BY <1>1
  <2>2. Cardinality(1 .. n) = IF 1 > n THEN 0 ELSE n - 1 + 1
    BY <2>1, FS_Interval
  <2> QED  BY <1>1, <1>3, <2>2
<1>6. \A i \in 1 .. n : w[i - 1] = s[i]
  BY <1>1, <1>2
<1>7. s = [i \in 1 .. n |-> s[i]]
  BY <1>1 DEF n
<1> QED
  BY <1>4, <1>5, <1>6, <1>7
-----------------------------------------------------------------------------
(* What the operations make of the list.                                   *)

\* The constructor puts o behind the others.
LEMMA AppendChain ==
  ASSUME Types, NEW s \in Seq(Observer), Chain(s),
         NEW o \in Observer, NEW h \in Handle, WaitFor(o, h)
  PROVE  /\ obs' \in [Observer -> ObserverType] /\ HasChain'
         /\ obs'[o].state = "waiting"
         /\ \A x \in Observer \ {o} : obs'[x].state = obs[x].state /\ obs'[x].handle = obs[x].handle
<1> DEFINE n == Len(s)
           t == Append(s, o)
           r == [state |-> "waiting", handle |-> h, next |-> None, prev |-> tail]
<1>1. /\ n \in Nat /\ \A i \in 1 .. n : s[i] \in Observer
      /\ \A i, j \in 1 .. n : s[i] = s[j] => i = j
  BY ChainFacts DEF Chain, Distinct
<1>2. tail = SlotAt(s, n) /\ tail \in Slot
  <2>1. n \in 0 .. n
    BY <1>1
  <2> QED  BY <2>1, ChainFacts DEF Chain
<1>3. \A i \in 1 .. n : s[i] # o
  BY DEF Chain, WaitFor
<1>4. /\ obs' = [x \in Observer |-> IF x = o THEN r
                                    ELSE IF x = tail THEN [obs[x] EXCEPT !.next = o] ELSE obs[x]]
      /\ head' = IF tail = HeadSlot THEN o ELSE head
      /\ tail' = o
  BY DEF WaitFor
<1>5. r \in ObserverType /\ r.state = "waiting" /\ r.next = None /\ r.prev = tail
  BY <1>2 DEF ObserverType
<1> HIDE DEF r
<1>6. \A x \in Observer : obs[x] \in ObserverType
  BY DEF Types
<1>7. \A x \in Observer : LET y == [obs[x] EXCEPT !.next = o]
                         IN  /\ y \in ObserverType /\ y.state = obs[x].state
                             /\ y.handle = obs[x].handle /\ y.prev = obs[x].prev /\ y.next = o
  BY <1>6 DEF ObserverType
<1>8. /\ obs' \in [Observer -> ObserverType] /\ obs'[o] = r
      /\ \A x \in Observer \ {o} :
            /\ obs'[x].state = obs[x].state /\ obs'[x].handle = obs[x].handle
            /\ obs'[x].prev = obs[x].prev
            /\ obs'[x].next = IF x = tail THEN o ELSE obs[x].next
  <2>1. obs'[o] = r /\ \A x \in Observer \ {o} :
            obs'[x] = IF x = tail THEN [obs[x] EXCEPT !.next = o] ELSE obs[x]
    BY <1>4
  <2>2. \A x \in Observer : obs'[x] \in ObserverType
    BY <1>5, <1>6, <1>7, <2>1
  <2>3. obs' = [x \in Observer |-> obs'[x]]
    BY <1>4
  <2> QED  BY <1>7, <2>1, <2>2, <2>3
<1>9. t \in Seq(Observer) /\ Len(t) = n + 1 /\ \A i \in 1 .. n + 1 : t[i] = IF i <= n THEN s[i] ELSE o
  <2>1. t \in Seq(Observer) /\ Len(t) = n + 1 /\ t[n + 1] = o /\ \A i \in 1 .. n : t[i] = s[i]
    BY AppendProperties
  <2> HIDE DEF t
  <2>2. \A i \in 1 .. n + 1 : (i <= n => i \in 1 .. n) /\ (~(i <= n) => i = n + 1)
    BY <1>1
  <2> QED  BY <2>1, <2>2
<1> HIDE DEF t
<1>10. Distinct(t)
  <2>1. \A i \in 1 .. n + 1 : (i <= n => i \in 1 .. n) /\ (~(i <= n) => i = n + 1)
    BY <1>1
  <2> HIDE DEF n
  <2> QED  BY <1>1, <1>3, <1>9, <2>1 DEF Distinct
<1>11. \A i \in 0 .. n : SlotAt(t, i) = SlotAt(s, i)
  BY <1>1, <1>9 DEF SlotAt
<1>12. \A i \in 0 .. n + 1 : NextAt(t, i) = IF i = n + 1 THEN None ELSE IF i = n THEN o ELSE NextAt(s, i)
  <2> HIDE DEF n
  <2>1. ASSUME NEW i \in 0 .. n + 1, i # n + 1  PROVE i + 1 \in 1 .. n + 1 /\ (i # n => i + 1 <= n)
                                                    /\ (i = n => ~(i + 1 <= n))
    BY <1>1, <2>1
  <2>2. \A i \in 0 .. n + 1 : i # n => NextAt(s, i) = s[i + 1]
    BY DEF NextAt, n
  <2> QED  BY <1>9, <2>1, <2>2 DEF NextAt
<1>13. Chain(t)'
  <2>1. Distinct(t)' /\ Len(t)' = n + 1
    BY <1>9, <1>10 DEF Distinct
  <2>2. head' = NextAt(t, 0)
    <3>1. 0 \in 0 .. n + 1 /\ 0 # n + 1
      BY <1>1
    <3>2. tail = HeadSlot <=> n = 0
      BY <1>1, <1>2, PortAssumption DEF SlotAt
    <3>3. NextAt(t, 0) = IF n = 0 THEN o ELSE NextAt(s, 0)
      BY <1>12, <3>1
    <3> QED  BY <1>4, <3>2, <3>3 DEF Chain
  <2>3. tail' = SlotAt(t, n + 1)
    <3>1. n + 1 # 0 /\ n + 1 \in 1 .. n + 1 /\ ~(n + 1 <= n)
      BY <1>1
    <3> QED  BY <1>4, <1>9, <3>1 DEF SlotAt
  <2>4. ASSUME NEW i \in 1 .. n + 1
        PROVE  obs'[t[i]].prev = SlotAt(t, i - 1) /\ obs'[t[i]].next = NextAt(t, i)
    <3>0. i - 1 \in 0 .. n /\ i \in 0 .. n + 1
      BY <1>1
    <3>1. CASE i = n + 1
      <4>1. t[i] = o /\ i - 1 = n
        BY <1>1, <1>9, <3>1
      <4>2. obs'[t[i]] = r
        BY <1>8, <4>1
      <4>3. SlotAt(t, i - 1) = tail
        BY <1>2, <1>11, <3>0, <4>1
      <4>4. NextAt(t, i) = None
        BY <1>12, <3>0, <3>1
      <4> QED  BY <1>5, <4>2, <4>3, <4>4
    <3>2. CASE i # n + 1
      <4>1. i \in 1 .. n /\ i <= n
        BY <1>1, <3>2
      <4>2. t[i] = s[i] /\ s[i] \in Observer \ {o}
        BY <1>1, <1>3, <1>9, <4>1
      <4>3. obs[s[i]].prev = SlotAt(s, i - 1) /\ obs[s[i]].next = NextAt(s, i)
        BY <4>1 DEF Chain
      <4>4. s[i] = tail <=> i = n
        <5>1. n \in 0 .. n /\ i \in 0 .. n /\ s[i] = SlotAt(s, i)
          BY <1>1, <4>1 DEF SlotAt
        <5> QED  BY <1>2, <5>1, ChainFacts
      <4>5. obs'[t[i]].prev = SlotAt(t, i - 1)
        BY <1>8, <1>11, <3>0, <4>2, <4>3
      <4>6. NextAt(t, i) = IF i = n THEN o ELSE NextAt(s, i)
        BY <1>12, <3>0, <3>2
      <4> QED  BY <1>8, <4>2, <4>3, <4>4, <4>5, <4>6
    <3> QED  BY <3>1, <3>2
  <2>5. \A x \in Observer : obs'[x].state = "waiting" <=> \E i \in 1 .. n + 1 : t[i] = x
    <3>1. n + 1 \in 1 .. n + 1 /\ t[n + 1] = o
      BY <1>1, <1>9
    <3>2. \A i \in 1 .. n : i \in 1 .. n + 1 /\ t[i] = s[i]
      BY <1>1, <1>9
    <3>3. \A i \in 1 .. n + 1 : i = n + 1 \/ i \in 1 .. n
      BY <1>1
    <3>4. obs'[o].state = "waiting"
      BY <1>5, <1>8
    <3>5. \A x \in Observer \ {o} : obs'[x].state = "waiting" <=> \E i \in 1 .. n : s[i] = x
      BY <1>8 DEF Chain
    <3> HIDE DEF n
    <3> QED  BY <3>1, <3>2, <3>3, <3>4, <3>5
  <2>6. \A x \in Observer : obs'[x].state # "waiting" => obs'[x].prev = None /\ obs'[x].next = None
    <3>1. \A x \in Observer \ {o} : x = tail => obs[x].state = "waiting"
      <4>1. tail = HeadSlot \/ (n \in 1 .. n /\ tail = s[n])
        BY <1>1, <1>2 DEF SlotAt
      <4> QED  BY <4>1, PortAssumption DEF Chain
    <3> QED  BY <1>5, <1>8, <3>1 DEF Chain
  <2> QED
    BY <2>1, <2>2, <2>3, <2>4, <2>5, <2>6 DEF Chain, SlotAt, NextAt
<1> QED
  BY <1>5, <1>8, <1>9, <1>13 DEF HasChain

\* removeFromList() and the destructor take the observer at place k out.
LEMMA UnlinkChain ==
  ASSUME Types, NEW s \in Seq(Observer), Chain(s), NEW k \in 1 .. Len(s),
         NEW new \in ObserverType,
         new.state # "waiting" /\ new.next = None /\ new.prev = None,
         Unlink(s[k], new)
  PROVE  /\ obs' \in [Observer -> ObserverType] /\ HasChain'
         /\ obs'[s[k]] = new
         /\ \A x \in Observer \ {s[k]} :
                obs'[x].state = obs[x].state /\ obs'[x].handle = obs[x].handle
<1> DEFINE n == Len(s)
           m == n - 1
           o == s[k]
           next == NextAt(s, k)
           prev == SlotAt(s, k - 1)
           t == RemoveAt(s, k)
<1>1. /\ n \in Nat /\ k \in Nat /\ 1 <= k /\ k <= n /\ m \in Nat
      /\ k \in 0 .. n /\ k - 1 \in 0 .. n /\ k \in 1 .. n
      /\ \A i \in 1 .. n : s[i] \in Observer /\ SlotAt(s, i) = s[i]
      /\ \A i, j \in 1 .. n : s[i] = s[j] => i = j
  <2>1. n \in Nat /\ k \in 1 .. n
    BY ChainFacts
  <2>2. \A i \in 1 .. n : s[i] \in Observer /\ SlotAt(s, i) = s[i]
    BY <2>1, ChainFacts DEF SlotAt
  <2>3. \A i, j \in 1 .. n : s[i] = s[j] => i = j
    BY DEF Chain, Distinct
  <2> HIDE DEF n
  <2> QED  BY <2>1, <2>2, <2>3
<1>2. /\ o \in Observer
      /\ \A i, j \in 0 .. n : SlotAt(s, i) = SlotAt(s, j) => i = j
      /\ \A i, j \in 0 .. n : NextAt(s, i) = NextAt(s, j) => i = j
      /\ \A i \in 0 .. n : SlotAt(s, i) \in Slot /\ NextAt(s, i) \in Observer \cup {None}
      /\ \A i \in 0 .. n : NextAt(s, i) = None <=> i = n
  BY <1>1, ChainFacts
<1>3. \A i \in 1 .. n : NextAt(s, i - 1) = s[i]
  <2>1. \A i \in 1 .. n : i - 1 # n /\ (i - 1) + 1 = i
    BY <1>1
  <2> QED  BY <2>1 DEF NextAt
<1>4. obs[o].next = next /\ obs[o].prev = prev
  BY <1>1 DEF Chain
<1>5. /\ obs' = [x \in Observer |-> CASE x = o -> new
                                      [] x = prev -> [obs[x] EXCEPT !.next = next]
                                      [] x = next -> [obs[x] EXCEPT !.prev = prev]
                                      [] OTHER -> obs[x]]
      /\ head' = IF prev = HeadSlot THEN next ELSE head
      /\ tail' = IF next = None THEN prev ELSE tail
  BY <1>4 DEF Unlink
<1>6. \A x \in Observer : obs[x] \in ObserverType
  BY DEF Types
<1>7. next \in Observer \cup {None} /\ prev \in Slot
  BY <1>1, <1>2
<1>8. prev # o /\ next # o /\ (prev \in Observer => prev # next)
  <2>1. prev # o
    <3>1. SlotAt(s, k) = o /\ k - 1 # k
      BY <1>1
    <3> QED  BY <1>1, <1>2, <3>1
  <2>2. next # o
    <3>1. NextAt(s, k - 1) = o /\ k - 1 # k
      BY <1>1, <1>3
    <3> QED  BY <1>1, <1>2, <3>1
  <2>3. ASSUME prev \in Observer  PROVE prev # next
    <3>1. k - 1 \in 1 .. n
      <4>1. k - 1 # 0
        BY <2>3, PortAssumption DEF SlotAt
      <4> QED  BY <1>1, <4>1
    <3>2. prev = NextAt(s, (k - 1) - 1) /\ (k - 1) - 1 \in 0 .. n /\ (k - 1) - 1 # k
      BY <1>1, <1>3, <3>1
    <3> QED  BY <1>1, <1>2, <3>2
  <2> QED  BY <2>1, <2>2, <2>3
<1> HIDE DEF n, o, next, prev
<1>9. \A x \in Observer :
        LET y == [obs[x] EXCEPT !.next = next]
            z == [obs[x] EXCEPT !.prev = prev]
        IN  /\ y \in ObserverType /\ y.state = obs[x].state
            /\ y.handle = obs[x].handle /\ y.prev = obs[x].prev /\ y.next = next
            /\ z \in ObserverType /\ z.state = obs[x].state
            /\ z.handle = obs[x].handle /\ z.next = obs[x].next /\ z.prev = prev
  BY <1>6, <1>7 DEF ObserverType
<1>10. /\ obs' \in [Observer -> ObserverType] /\ obs'[o] = new
       /\ \A x \in Observer \ {o} :
             /\ obs'[x].state = obs[x].state /\ obs'[x].handle = obs[x].handle
             /\ obs'[x].next = IF x = prev THEN next ELSE obs[x].next
             /\ obs'[x].prev = IF x = next THEN prev ELSE obs[x].prev
  <2>1. obs'[o] = new
    BY <1>2, <1>5, <1>8
  <2>2. ASSUME NEW x \in Observer \ {o}
        PROVE  /\ obs'[x] \in ObserverType
               /\ obs'[x].state = obs[x].state /\ obs'[x].handle = obs[x].handle
               /\ obs'[x].next = IF x = prev THEN next ELSE obs[x].next
               /\ obs'[x].prev = IF x = next THEN prev ELSE obs[x].prev
    <3>1. CASE x = prev
      <4>1. obs'[x] = [obs[x] EXCEPT !.next = next] /\ x # next
        BY <1>5, <1>8, <3>1
      <4> QED  BY <1>9, <3>1, <4>1
    <3>2. CASE x # prev /\ x = next
      <4>1. obs'[x] = [obs[x] EXCEPT !.prev = prev]
        BY <1>5, <3>2
      <4> QED  BY <1>9, <3>2, <4>1
    <3>3. CASE x # prev /\ x # next
      <4>1. obs'[x] = obs[x]
        BY <1>5, <3>3
      <4> QED  BY <1>6, <3>3, <4>1
    <3> QED  BY <3>1, <3>2, <3>3
  <2>3. obs' = [x \in Observer |-> obs'[x]]
    BY <1>5
  <2>4. \A x \in Observer : obs'[x] \in ObserverType
    BY <2>1, <2>2
  <2> QED  BY <2>1, <2>2, <2>3, <2>4
<1>11. /\ t \in Seq(Observer) /\ Len(t) = m
       /\ \A j \in 1 .. m : t[j] = IF j < k THEN s[j] ELSE s[j + 1]
  <2>1. /\ RemoveAt(s, k) \in Seq(Observer) /\ Len(RemoveAt(s, k)) = Len(s) - 1
        /\ \A j \in 1 .. Len(s) - 1 : RemoveAt(s, k)[j] = IF j < k THEN s[j] ELSE s[j + 1]
    BY EQ!Removed DEF EQ!RemoveAt, RemoveAt
  <2> QED  BY <2>1 DEF n
<1> HIDE DEF t
<1> DEFINE Up(j) == IF j < k THEN j ELSE j + 1
           Behind(j) == IF j + 1 < k THEN j ELSE j + 1
<1>12. \A j \in 0 .. m : Up(j) \in 0 .. n /\ Behind(j) \in 0 .. n /\ Up(j) # k
  BY <1>1
<1>13. \A j \in 0 .. m : SlotAt(t, j) = SlotAt(s, Up(j))
  <2> SUFFICES ASSUME NEW j \in 0 .. m  PROVE SlotAt(t, j) = SlotAt(s, Up(j))
    OBVIOUS
  <2>1. CASE j = 0
    <3>1. Up(j) = 0
      BY <1>1, <2>1
    <3> QED  BY <2>1, <3>1 DEF SlotAt
  <2>2. CASE j # 0
    <3>1. j \in 1 .. m /\ Up(j) # 0
      BY <1>1, <2>2
    <3> QED  BY <1>11, <2>2, <3>1 DEF SlotAt
  <2> QED  BY <2>1, <2>2
<1>14. \A j \in 0 .. m : NextAt(t, j) = NextAt(s, Behind(j))
  <2> SUFFICES ASSUME NEW j \in 0 .. m  PROVE NextAt(t, j) = NextAt(s, Behind(j))
    OBVIOUS
  <2>1. CASE j = m
    <3>1. Behind(j) = n
      BY <1>1, <2>1
    <3> QED  BY <1>11, <2>1, <3>1 DEF NextAt, n
  <2>2. CASE j # m
    <3>1. j + 1 \in 1 .. m /\ Behind(j) # n
      BY <1>1, <2>2
    <3>2. NextAt(t, j) = IF j + 1 < k THEN s[j + 1] ELSE s[(j + 1) + 1]
      BY <1>11, <2>2, <3>1 DEF NextAt
    <3>3. NextAt(s, Behind(j)) = s[Behind(j) + 1]
      BY <3>1 DEF NextAt, n
    <3> QED  BY <3>2, <3>3
  <2> QED  BY <2>1, <2>2
<1>15. Chain(t)'
  <2>1. Distinct(t) /\ Len(t) = m
    <3>1. ASSUME NEW i \in 1 .. m, NEW j \in 1 .. m, t[i] = t[j]  PROVE i = j
      <4>1. Up(i) \in 1 .. n /\ Up(j) \in 1 .. n /\ (Up(i) = Up(j) => i = j)
        BY <1>1
      <4>2. t[i] = s[Up(i)] /\ t[j] = s[Up(j)]
        BY <1>11
      <4> HIDE DEF Up
      <4> QED  BY <1>1, <3>1, <4>1, <4>2
    <3> QED  BY <1>11, <3>1 DEF Distinct
  <2>2. head' = NextAt(t, 0)
    <3>1. 0 \in 0 .. m /\ Behind(0) = IF k = 1 THEN 1 ELSE 0
      BY <1>1
    <3>2. prev = HeadSlot <=> k = 1
      <4>1. SlotAt(s, 0) = HeadSlot /\ 0 \in 0 .. n /\ (k - 1 = 0 <=> k = 1)
        BY <1>1 DEF SlotAt
      <4> QED  BY <1>1, <1>2, <4>1 DEF prev
    <3>3. NextAt(t, 0) = NextAt(s, Behind(0))
      BY <1>14, <3>1
    <3>4. head = NextAt(s, 0)
      BY DEF Chain
    <3> HIDE DEF Behind
    <3> QED  BY <1>5, <3>1, <3>2, <3>3, <3>4 DEF next
  <2>3. tail' = SlotAt(t, m)
    <3>1. m \in 0 .. m /\ Up(m) = IF k = n THEN k - 1 ELSE n
      BY <1>1
    <3>2. next = None <=> k = n
      BY <1>1, <1>2 DEF next
    <3>3. SlotAt(t, m) = SlotAt(s, Up(m))
      BY <1>13, <3>1
    <3>4. tail = SlotAt(s, n)
      BY DEF Chain, n
    <3> HIDE DEF Up
    <3> QED  BY <1>5, <3>1, <3>2, <3>3, <3>4 DEF prev
  <2>4. ASSUME NEW j \in 1 .. m
        PROVE  obs'[t[j]].prev = SlotAt(t, j - 1) /\ obs'[t[j]].next = NextAt(t, j)
    <3> DEFINE u == Up(j)
               x == s[u]
    <3>1. /\ j \in 0 .. m /\ j - 1 \in 0 .. m /\ u \in 1 .. n /\ u # k
          /\ u \in 0 .. n /\ u - 1 \in 0 .. n
      BY <1>1
    <3>2. t[j] = x
      BY <1>11
    <3>3. (u = k - 1 => Behind(j) = k) /\ (u # k - 1 => Behind(j) = u)
      BY <1>1
    <3>4. (u - 1 = k => Up(j - 1) = k - 1) /\ (u - 1 # k => Up(j - 1) = u - 1)
      BY <1>1
    <3> HIDE DEF Up, Behind
    <3>5. NextAt(t, j) = NextAt(s, Behind(j)) /\ SlotAt(t, j - 1) = SlotAt(s, Up(j - 1))
      BY <1>13, <1>14, <3>1
    <3> HIDE DEF u
    <3>6. obs[x].prev = SlotAt(s, u - 1) /\ obs[x].next = NextAt(s, u)
      BY <3>1 DEF Chain, n
    <3>7. x = SlotAt(s, u) /\ x = NextAt(s, u - 1) /\ x \in Observer
      BY <1>1, <1>3, <3>1
    <3>8. x # o
      BY <1>1, <3>1 DEF o
    <3>9. x = prev <=> u = k - 1
      BY <1>1, <1>2, <3>1, <3>7 DEF prev
    <3>10. x = next <=> u - 1 = k
      BY <1>1, <1>2, <3>1, <3>7 DEF next
    <3> HIDE DEF x
    <3>11. obs'[x].next = NextAt(t, j)
      <4>1. obs'[x].next = IF x = prev THEN next ELSE obs[x].next
        BY <1>10, <3>7, <3>8
      <4> QED  BY <3>3, <3>5, <3>6, <3>9, <4>1 DEF next
    <3>12. obs'[x].prev = SlotAt(t, j - 1)
      <4>1. obs'[x].prev = IF x = next THEN prev ELSE obs[x].prev
        BY <1>10, <3>7, <3>8
      <4> QED  BY <3>4, <3>5, <3>6, <3>10, <4>1 DEF prev
    <3> QED  BY <3>2, <3>11, <3>12
  <2>5. \A x \in Observer : obs'[x].state = "waiting" <=> \E j \in 1 .. m : t[j] = x
    <3>1. \A j \in 1 .. m : t[j] = s[Up(j)] /\ Up(j) \in 1 .. n /\ Up(j) # k
      BY <1>1, <1>11
    <3>2. \A i \in 1 .. n : i # k => \E j \in 1 .. m : Up(j) = i
      <4> SUFFICES ASSUME NEW i \in 1 .. n, i # k  PROVE \E j \in 1 .. m : Up(j) = i
        OBVIOUS
      <4>1. CASE i < k
        <5>1. i \in 1 .. m /\ Up(i) = i
          BY <1>1, <4>1
        <5> QED  BY <5>1
      <4>2. CASE ~(i < k)
        <5>1. i - 1 \in 1 .. m /\ Up(i - 1) = i
          BY <1>1, <4>2
        <5> QED  BY <5>1
      <4> QED  BY <4>1, <4>2
    <3> HIDE DEF Up
    <3>3. \A x \in Observer : obs[x].state = "waiting" <=> \E i \in 1 .. n : s[i] = x
      BY DEF Chain, n
    <3>4. ~ \E j \in 1 .. m : t[j] = o
      BY <1>1, <3>1 DEF o
    <3>5. \A x \in Observer \ {o} : (\E j \in 1 .. m : t[j] = x) <=> (\E i \in 1 .. n : s[i] = x)
      <4> SUFFICES ASSUME NEW x \in Observer \ {o}
                   PROVE  (\E j \in 1 .. m : t[j] = x) <=> (\E i \in 1 .. n : s[i] = x)
        OBVIOUS
      <4>1. ASSUME NEW i \in 1 .. n, s[i] = x  PROVE \E j \in 1 .. m : t[j] = x
        <5>1. i # k
          BY <4>1 DEF o
        <5> QED  BY <3>1, <3>2, <4>1, <5>1
      <4> QED  BY <3>1, <4>1
    <3>6. obs'[o].state # "waiting"
      BY <1>10
    <3> QED  BY <1>10, <3>3, <3>4, <3>5, <3>6
  <2>6. \A x \in Observer : obs'[x].state # "waiting" => obs'[x].prev = None /\ obs'[x].next = None
    <3>1. \A x \in Observer : x = prev => obs[x].state = "waiting"
      <4>1. prev = HeadSlot \/ (k - 1 \in 1 .. n /\ prev = s[k - 1])
        BY <1>1 DEF SlotAt, prev
      <4> QED  BY <4>1, PortAssumption DEF Chain, n
    <3>2. \A x \in Observer : x = next => obs[x].state = "waiting"
      <4>1. next = None \/ (k + 1 \in 1 .. n /\ next = s[k + 1])
        <5>1. k # n => k + 1 \in 1 .. n
          BY <1>1
        <5> QED  BY <5>1 DEF NextAt, next, n
      <4> QED  BY <4>1, PortAssumption DEF Chain, n
    <3>3. \A x \in Observer : obs[x].state # "waiting" => obs[x].prev = None /\ obs[x].next = None
      BY DEF Chain
    <3> QED  BY <1>10, <3>1, <3>2, <3>3
  <2> QED
    BY <2>1, <2>2, <2>3, <2>4, <2>5, <2>6 DEF Chain, SlotAt, NextAt
<1> QED
  BY <1>10, <1>11, <1>15 DEF HasChain, o
-----------------------------------------------------------------------------
(* What every step keeps, and which promises it fulfils.                   *)

\* What OneSignalOnePromise says of a step.
OneSignalStep ==
    \A h \in Handle :
       /\ h \in AutoReset => (Cardinality(Fulfils(h)) = IF h \in signalled \ signalled' THEN 1 ELSE 0)
       /\ Fulfils(h) # {} => h \in signalled \ abandoned

\* A step that fulfils nothing and takes no signal of an AutoReset event.
LEMMA Quiet ==
  ASSUME \A h \in AutoReset : h \in signalled => h \in signalled',
         \A o \in Observer : obs[o].state = "waiting" => obs'[o].state # "fulfilled"
  PROVE  OneSignalStep
<1>1. \A h \in Handle : Fulfils(h) = {}
  BY DEF Fulfils
<1>2. Cardinality({}) = 0
  BY FS_EmptySet
<1>3. \A h \in AutoReset : h \notin signalled \ signalled'
  OBVIOUS
<1> QED
  BY <1>1, <1>2, <1>3 DEF OneSignalStep

\* With no call there is nothing to look at.
LEMMA NoCallOK ==
  /\ NoCall \in CallType
  /\ call = NoCall => CallOK
<1>1. NoCall \in CallType
  BY DEF NoCall, CallType
<1>2. call = NoCall => /\ call.at = 0 /\ Len(call.handles) = 0 /\ Len(call.events) = 0
  BY DEF NoCall
<1>3. \A i \in 1 .. 0 : FALSE
  OBVIOUS
<1> QED
  BY <1>1, <1>2, <1>3 DEF CallOK, Distinct

LEMMA NoCallOKNext == call' = NoCall => CallOK'
<1>1. call' = NoCall => /\ call'.at = 0 /\ Len(call'.handles) = 0 /\ Len(call'.events) = 0
  BY DEF NoCall
<1>2. \A i \in 1 .. 0 : FALSE
  OBVIOUS
<1> QED
  BY <1>1, <1>2 DEF CallOK, Distinct

\* A step that leaves the observers alone.
LEMMA ListKept ==
  ASSUME IInv, UNCHANGED << head, tail, obs >>
  PROVE  HasChain' /\ obs' \in [Observer -> ObserverType]
BY DEF IInv, Types, HasChain, Chain

LEMMA WaitForStep ==
  ASSUME IInv, NEW o \in Observer, NEW h \in Handle, WaitFor(o, h)
  PROVE  IInv' /\ OneSignalStep
<1>1. PICK s \in Seq(Observer) : Chain(s)
  BY DEF IInv, HasChain
<1>2. Types /\ call = NoCall /\ UNCHANGED << signalled, abandoned, call, failed >>
  BY DEF IInv, WaitFor
<1>3. /\ obs' \in [Observer -> ObserverType] /\ HasChain'
      /\ obs'[o].state = "waiting"
      /\ \A x \in Observer \ {o} : obs'[x].state = obs[x].state /\ obs'[x].handle = obs[x].handle
  BY <1>1, <1>2, AppendChain
<1>4. CallOK'
  BY <1>2, NoCallOKNext
<1>5. OneSignalStep
  BY <1>2, <1>3, Quiet
<1> QED
  BY <1>2, <1>3, <1>4, <1>5 DEF IInv, Types

LEMMA DestroyStep ==
  ASSUME IInv, NEW o \in Observer, Destroy(o)
  PROVE  IInv' /\ OneSignalStep
<1>1. PICK s \in Seq(Observer) : Chain(s)
  BY DEF IInv, HasChain
<1>2. /\ Types /\ call = NoCall /\ UNCHANGED << signalled, abandoned, call, failed >>
      /\ obs \in [Observer -> ObserverType]
  BY DEF IInv, Types, Destroy
<1>3. Free \in ObserverType /\ Free.state = "free" /\ Free.next = None /\ Free.prev = None
  BY DEF Free, ObserverType
<1>4. /\ obs' \in [Observer -> ObserverType] /\ HasChain'
      /\ obs'[o].state = "free"
      /\ \A x \in Observer \ {o} : obs'[x].state = obs[x].state
  <2>1. CASE obs[o].prev # None
    <3>1. PICK k \in 1 .. Len(s) : s[k] = o
      BY <1>1, <2>1 DEF Chain
    <3>2. Unlink(s[k], Free)
      BY <2>1, <3>1 DEF Destroy
    <3> QED  BY <1>1, <1>2, <1>3, <3>1, <3>2, UnlinkChain
  <2>2. CASE obs[o].prev = None
    <3>1. obs' = [obs EXCEPT ![o] = Free] /\ head' = head /\ tail' = tail
      BY <2>2 DEF Destroy
    <3>2. obs'[o] = Free /\ \A x \in Observer \ {o} : obs'[x] = obs[x]
      BY <1>2, <3>1
    <3>3. obs' \in [Observer -> ObserverType]
      BY <1>2, <1>3, <3>1
    <3>4. \A i \in 1 .. Len(s) : s[i] \in Observer \ {o}
      <4> SUFFICES ASSUME NEW i \in 1 .. Len(s), s[i] = o  PROVE FALSE
        OBVIOUS
      <4>1. /\ Len(s) \in Nat /\ i - 1 \in 0 .. Len(s)
            /\ \A j \in 0 .. Len(s) : SlotAt(s, j) \in Slot
        BY <1>1, <1>2, ChainFacts
      <4>2. obs[o].prev = SlotAt(s, i - 1)
        BY <1>1 DEF Chain
      <4> QED  BY <2>2, <4>1, <4>2, PortAssumption DEF Slot
    <3>5. Chain(s)'
      <4>1. obs[o].state # "waiting"
        BY <1>1, <3>4 DEF Chain
      <4> QED  BY <1>1, <1>3, <3>1, <3>2, <3>4, <4>1 DEF Chain
    <3> QED  BY <1>3, <3>2, <3>3, <3>5 DEF HasChain
  <2> QED  BY <2>1, <2>2
<1>5. CallOK'
  BY <1>2, NoCallOKNext
<1>6. OneSignalStep
  BY <1>2, <1>4, Quiet
<1> QED
  BY <1>2, <1>4, <1>5, <1>6 DEF IInv, Types

\* The snapshot is the list: every observer in it waits.
LEMMA EnterStep ==
  ASSUME IInv, NEW kind \in {"wait", "poll"}, Enter(kind)
  PROVE  IInv' /\ OneSignalStep
<1>1. PICK s \in Seq(Observer) : Chain(s)
  BY DEF IInv, HasChain
<1> DEFINE handles == [i \in DOMAIN s |-> obs[s[i]].handle]
           c == [kind |-> kind, events |-> s, handles |-> handles, at |-> 0]
<1>2. Types /\ Listed = s
  BY <1>1, ListedIs DEF IInv
<1>3. UNCHANGED << head, tail, obs, signalled, abandoned >> /\ call = NoCall
  BY DEF Enter
<1>4. (call' = c /\ failed' = failed) \/ (call' = call /\ failed' = TRUE)
  BY <1>2 DEF Enter
<1>5. HasChain' /\ obs' \in [Observer -> ObserverType]
  BY <1>3, ListKept
<1>6. \A i \in 1 .. Len(s) : /\ s[i] \in Observer /\ obs[s[i]].state = "waiting"
                             /\ obs[s[i]].handle \in Handle \cup {None}
  <2>1. \A i \in 1 .. Len(s) : s[i] \in Observer
    OBVIOUS
  <2> QED  BY <1>1, <1>2, <2>1 DEF Chain, Types, ObserverType
<1>7. DOMAIN s = 1 .. Len(s) /\ Len(s) \in Nat
  OBVIOUS
<1>8. handles \in Seq(Handle \cup {None}) /\ Len(handles) = Len(s)
  BY <1>6, <1>7
<1>9. \A i \in 1 .. Len(s) : handles[i] = obs[s[i]].handle
  BY <1>7
<1> HIDE DEF handles
<1>10. c \in CallType
  BY <1>8 DEF CallType
<1>11. CASE call' = c /\ failed' = failed
  <2>1. call'.events = s /\ call'.handles = handles /\ call'.at = 0
    BY <1>11
  <2>2. CallOK'
    BY <1>1, <1>3, <1>6, <1>7, <1>8, <1>9, <2>1 DEF CallOK, Chain, Distinct
  <2>3. Types'
    BY <1>2, <1>3, <1>5, <1>10, <1>11 DEF Types
  <2>4. OneSignalStep
    BY <1>3, Quiet
  <2> QED  BY <1>5, <2>2, <2>3, <2>4 DEF IInv
<1>12. CASE call' = call /\ failed' = TRUE
  <2>1. CallOK'
    BY <1>3, <1>12, NoCallOKNext
  <2>2. Types'
    BY <1>2, <1>3, <1>5, <1>12 DEF Types
  <2>3. OneSignalStep
    BY <1>3, Quiet
  <2> QED  BY <1>5, <2>1, <2>2, <2>3 DEF IInv
<1> QED
  BY <1>4, <1>11, <1>12

\* A handle that the call has still to look at is signalled.
LEMMA TakeStep ==
  ASSUME IInv, NEW i \in DOMAIN call.handles, i >= call.at, Take(i, i),
         call' = [call EXCEPT !.at = i + 1], failed' = failed
  PROVE  IInv' /\ OneSignalStep
<1>1. PICK s \in Seq(Observer) : Chain(s)
  BY DEF IInv, HasChain
<1>2. /\ Types /\ call \in CallType /\ obs \in [Observer -> ObserverType]
      /\ signalled \subseteq Handle
  BY DEF IInv, Types
<1>3. /\ call.handles \in Seq(Handle \cup {None}) /\ call.events \in Seq(Observer)
      /\ Len(call.events) = Len(call.handles) /\ call.at \in Nat
  BY <1>2 DEF CallType, IInv, CallOK
<1>4. i \in 1 .. Len(call.events) /\ Len(call.events) \in Nat
  BY <1>3
<1>5. PICK o \in Observer : o = call.events[i]
  BY <1>3, <1>4
<1>6. PICK h : h = call.handles[i]
  OBVIOUS
<1>7. obs[o].state = "waiting" /\ obs[o].handle = h
  BY <1>4, <1>5, <1>6 DEF IInv, CallOK
<1>8. PICK new : new = [obs[o] EXCEPT !.state = "fulfilled", !.next = None, !.prev = None]
  OBVIOUS
<1>9. /\ new \in ObserverType /\ new.state = "fulfilled" /\ new.next = None /\ new.prev = None
  <2>1. obs[o] \in ObserverType
    BY <1>2
  <2> QED  BY <1>8, <2>1 DEF ObserverType
<1>10. PICK k \in 1 .. Len(s) : s[k] = o
  BY <1>1, <1>7 DEF Chain
<1>11. /\ h \in signalled \ abandoned /\ abandoned' = abandoned
       /\ signalled' = IF h \in AutoReset THEN signalled \ {h} ELSE signalled
       /\ Unlink(s[k], new)
  BY <1>5, <1>6, <1>8, <1>10 DEF Take
<1>12. /\ obs' \in [Observer -> ObserverType] /\ HasChain'
       /\ obs'[o] = new
       /\ \A x \in Observer \ {o} : obs'[x].state = obs[x].state /\ obs'[x].handle = obs[x].handle
  BY <1>1, <1>2, <1>9, <1>10, <1>11, UnlinkChain
<1>13. /\ call' \in CallType /\ call'.events = call.events /\ call'.handles = call.handles
       /\ call'.at = i + 1
  BY <1>2, <1>4 DEF CallType
<1>14. CallOK'
  <2>1. call'.at \in 0 .. Len(call'.handles) + 1
    BY <1>3, <1>4, <1>13
  <2>2. Distinct(call.events)
    BY DEF IInv, CallOK
  <2>3. ASSUME NEW j \in 1 .. Len(call.events), j >= i + 1
        PROVE  /\ obs'[call.events[j]].state = "waiting"
               /\ obs'[call.events[j]].handle = call.handles[j]
    <3>1. j # i /\ j >= call.at
      BY <1>3, <1>4, <2>3
    <3>2. call.events[j] \in Observer \ {o}
      BY <1>3, <1>4, <1>5, <2>2, <3>1 DEF Distinct
    <3>3. obs[call.events[j]].state = "waiting" /\ obs[call.events[j]].handle = call.handles[j]
      BY <3>1 DEF IInv, CallOK
    <3> QED  BY <1>12, <3>2, <3>3
  <2> QED  BY <1>3, <1>13, <2>1, <2>2, <2>3 DEF CallOK, Distinct
<1>15. Types'
  BY <1>2, <1>11, <1>12, <1>13 DEF Types
<1>16. OneSignalStep
  <2>1. Fulfils(h) = {o}
    BY <1>7, <1>9, <1>12 DEF Fulfils
  <2>2. \A g \in Handle : g # h => Fulfils(g) = {}
    BY <1>7, <1>12 DEF Fulfils
  <2>3. Cardinality({o}) = 1 /\ Cardinality({}) = 0
    BY FS_EmptySet, FS_Singleton
  <2>4. \A g \in AutoReset : g \in signalled \ signalled' <=> g = h
    BY <1>11
  <2> QED  BY <1>11, <2>1, <2>2, <2>3, <2>4 DEF OneSignalStep
<1> QED
  BY <1>12, <1>14, <1>15, <1>16 DEF IInv

\* A step that leaves the list and the signals alone, and ends the call or looks at
\* the next handle.
LEMMA PassStep ==
  ASSUME IInv, UNCHANGED << head, tail, obs, signalled >>, abandoned' \subseteq Mutex,
         failed' \in BOOLEAN,
         \/ call' = NoCall
         \/ call.at \in DOMAIN call.handles /\ call' = [call EXCEPT !.at = @ + 1]
  PROVE  IInv' /\ OneSignalStep
<1>1. HasChain' /\ obs' \in [Observer -> ObserverType]
  BY ListKept
<1>2. OneSignalStep
  BY Quiet
<1>3. CASE call' = NoCall
  <2>1. CallOK' /\ NoCall \in CallType
    BY <1>3, NoCallOK, NoCallOKNext
  <2> QED  BY <1>1, <1>2, <1>3, <2>1 DEF IInv, Types
<1>4. CASE call.at \in DOMAIN call.handles /\ call' = [call EXCEPT !.at = @ + 1]
  <2>1. /\ call \in CallType /\ call.at \in Nat /\ Len(call.handles) \in Nat
        /\ call.at \in 1 .. Len(call.handles)
    BY <1>4 DEF IInv, Types, CallType
  <2>2. /\ call' \in CallType /\ call'.events = call.events /\ call'.handles = call.handles
        /\ call'.at = call.at + 1
    BY <1>4, <2>1 DEF CallType
  <2>3. CallOK'
    <3>1. call'.at \in 0 .. Len(call'.handles) + 1
      BY <2>1, <2>2
    <3>2. \A j \in 1 .. Len(call.events) : j >= call.at + 1 => j >= call.at
      BY <2>1
    <3> QED  BY <2>2, <3>1, <3>2 DEF IInv, CallOK, Distinct
  <2> QED  BY <1>1, <1>2, <2>2, <2>3 DEF IInv, Types
<1> QED  BY <1>3, <1>4

LEMMA StepKeeps ==
  ASSUME IInv, Next
  PROVE  IInv' /\ OneSignalStep
<1>1. CASE \E o \in Observer : \E h \in Handle : WaitFor(o, h)
  BY <1>1, WaitForStep
<1>2. CASE \E o \in Observer : Destroy(o)
  BY <1>2, DestroyStep
<1>3. CASE \E h \in Handle : Signal(h) \/ Abandon(h) \/ ResetEvent(h)
  <2>1. PICK h \in Handle : Signal(h) \/ Abandon(h) \/ ResetEvent(h)
    BY <1>3
  <2>2. UNCHANGED << head, tail, obs, call, failed >>
    BY <2>1 DEF Signal, Abandon, ResetEvent
  <2>3. /\ signalled' \subseteq Handle /\ abandoned' \subseteq Mutex
        /\ \A g \in AutoReset : g \in signalled => g \in signalled'
    BY <2>1 DEF Signal, Abandon, ResetEvent, IInv, Types
  <2>4. CallOK'
    BY <2>2 DEF IInv, CallOK
  <2>5. HasChain' /\ obs' \in [Observer -> ObserverType]
    BY <2>2, ListKept
  <2>6. OneSignalStep
    BY <2>2, <2>3, Quiet
  <2> QED  BY <2>2, <2>3, <2>4, <2>5, <2>6 DEF IInv, Types
<1>4. CASE \E kind \in {"wait", "poll"} : Enter(kind)
  BY <1>4, EnterStep
<1>5. abandoned \subseteq Mutex /\ failed \in BOOLEAN
  BY DEF IInv, Types
<1>6. CASE WaitMany
  <2>1. PICK i \in DOMAIN call.handles :
           \/ Take(i, i) /\ call' = [call EXCEPT !.at = i + 1] /\ failed' = failed
           \/ Inherit(i) /\ Returns
    BY <1>6 DEF WaitMany
  <2>2. i >= call.at
    BY <1>6 DEF WaitMany, IInv, Types, CallType
  <2>3. CASE Inherit(i) /\ Returns
    BY <1>5, <2>3, PassStep DEF Inherit, Returns
  <2> QED  BY <2>1, <2>2, <2>3, TakeStep
<1>7. CASE Scan
  <2> DEFINE i == call.at
  <2>1. i \in DOMAIN call.handles /\ call' = [call EXCEPT !.at = i + 1] /\ failed' = failed
    BY <1>7 DEF Scan
  <2>2. CASE Take(i, i)
    <3>1. PICK j \in DOMAIN call.handles : j = i
      BY <2>1
    <3>2. j >= call.at /\ Take(j, j) /\ call' = [call EXCEPT !.at = j + 1]
      BY <2>1, <2>2, <3>1 DEF IInv, Types, CallType
    <3> QED  BY <2>1, <3>2, TakeStep
  <2>3. CASE Inherit(i) \/ UNCHANGED << head, tail, obs, signalled, abandoned >>
    BY <1>5, <2>1, <2>3, PassStep DEF Inherit
  <2> QED  BY <1>7, <2>2, <2>3 DEF Scan
<1>8. CASE Timeout \/ ScanEnd
  BY <1>5, <1>8, PassStep DEF Timeout, ScanEnd, Returns
<1> QED
  BY <1>1, <1>2, <1>3, <1>4, <1>6, <1>7, <1>8 DEF Next, Run, User

LEMMA InitOK == Init => IInv
<1> SUFFICES ASSUME Init  PROVE IInv
  OBVIOUS
<1>1. Free \in ObserverType /\ Free.state = "free" /\ Free.next = None /\ Free.prev = None
  BY DEF Free, ObserverType
<1>2. Types
  BY <1>1, NoCallOK DEF Init, Types
<1>3. << >> \in Seq(Observer) /\ Len(<< >>) = 0 /\ \A i \in 1 .. 0 : FALSE
  OBVIOUS
<1>4. Chain(<< >>)
  BY <1>1, <1>3 DEF Init, Chain, Distinct, NextAt, SlotAt
<1>5. CallOK
  BY NoCallOK DEF Init
<1> QED
  BY <1>2, <1>3, <1>4, <1>5 DEF IInv, HasChain

LEMMA Invariance == Spec => []IInv
<1>1. IInv /\ UNCHANGED vars => IInv'
  BY DEF vars, IInv, Types, HasChain, Chain, CallOK
<1>2. IInv /\ [Next]_vars => IInv'
  BY <1>1, StepKeeps
<1> QED
  BY <1>2, InitOK, PTL DEF Spec

-----------------------------------------------------------------------------
(* What is promised.                                                       *)

LEMMA InvGives ==
  ASSUME IInv
  PROVE  ListOK
<1>1. PICK s \in Seq(Observer) : Chain(s)
  BY DEF IInv, HasChain
<1> DEFINE n == Len(s)
           slots == << HeadSlot >> \o s
<1>2. Types /\ Listed = s
  BY <1>1, ListedIs DEF IInv
<1>3. /\ n \in Nat /\ DOMAIN s = 1 .. n /\ 0 \in 0 .. n /\ n \in 0 .. n
      /\ \A i \in 0 .. n : SlotAt(s, i) \in Slot
      /\ \A i \in 0 .. n : NextAt(s, i) \in Observer \cup {None}
  BY <1>1, <1>2, ChainFacts
<1>4. Len(slots) = n + 1 /\ \A i \in 1 .. n + 1 : slots[i] = SlotAt(s, i - 1)
  <2>1. << HeadSlot >> \in Seq(Slot) /\ s \in Seq(Slot) /\ Len(<< HeadSlot >>) = 1
    <3>1. \A i \in 1 .. n : s[i] \in Slot
      BY DEF Slot
    <3> QED  BY <1>3, <3>1 DEF Slot
  <2>2. /\ Len(slots) = Len(<< HeadSlot >>) + Len(s)
        /\ \A i \in 1 .. Len(<< HeadSlot >>) + Len(s) :
               slots[i] = IF i <= Len(<< HeadSlot >>) THEN << HeadSlot >>[i]
                          ELSE s[i - Len(<< HeadSlot >>)]
    BY <2>1, ConcatProperties
  <2>3. << HeadSlot >>[1] = HeadSlot
    OBVIOUS
  <2> HIDE DEF slots, n
  <2>4. \A i \in 1 .. n + 1 : (i <= 1 <=> i = 1) /\ (i = 1 <=> i - 1 = 0)
    BY <1>3
  <2>5. Len(slots) = 1 + n /\ 1 + n = n + 1
    BY <1>3, <2>1, <2>2 DEF n
  <2>6. \A i \in 1 .. n + 1 : slots[i] = IF i <= 1 THEN << HeadSlot >>[i] ELSE s[i - 1]
    BY <2>1, <2>2, <2>5 DEF n
  <2> QED  BY <2>3, <2>4, <2>5, <2>6 DEF SlotAt
<1>5. head \in Observer \cup {None} /\ tail \in Slot
  BY <1>1, <1>3 DEF Chain
<1>6. TypeOK
  BY <1>2, <1>5 DEF TypeOK, Types, CallType, IInv, CallOK
<1>7. ToSet(Listed) = {o \in Observer : obs[o].state = "waiting"}
  <2>1. ToSet(s) = {s[i] : i \in 1 .. n}
    BY <1>3 DEF ToSet
  <2>2. \A i \in 1 .. n : s[i] \in Observer
    OBVIOUS
  <2>3. ToSet(s) \subseteq Observer
    BY <2>1, <2>2
  <2>4. \A o \in Observer : obs[o].state = "waiting" <=> \E i \in 1 .. n : s[i] = o
    BY <1>1 DEF Chain
  <2>5. \A o \in Observer : o \in ToSet(s) <=> obs[o].state = "waiting"
    BY <2>1, <2>4
  <2>6. ToSet(s) = {o \in Observer : obs[o].state = "waiting"}
    BY <2>3, <2>5
  <2> QED  BY <1>2, <2>6
<1>8. IsInjective(Listed)
  BY <1>1, <1>2, <1>3 DEF IsInjective, Chain, Distinct
<1>9. \A i \in DOMAIN s : obs[s[i]].prev = slots[i]
  <2>1. \A i \in 1 .. n : i \in 1 .. n + 1
    BY <1>3
  <2>2. \A i \in 1 .. n : obs[s[i]].prev = SlotAt(s, i - 1)
    BY <1>1 DEF Chain
  <2> HIDE DEF n, slots
  <2> QED  BY <1>3, <1>4, <2>1, <2>2
<1>10. tail = Last(slots)
  <2>1. n + 1 \in 1 .. n + 1 /\ (n + 1) - 1 = n
    BY <1>3
  <2>2. tail = SlotAt(s, n)
    BY <1>1 DEF Chain
  <2> HIDE DEF n, slots
  <2> QED  BY <1>4, <2>1, <2>2 DEF Last
<1>11. \A i \in DOMAIN call.events : i >= call.at => obs[call.events[i]].state = "waiting"
  <2>1. DOMAIN call.events = 1 .. Len(call.events)
    BY <1>2 DEF Types, CallType
  <2> QED  BY <2>1 DEF IInv, CallOK
<1> HIDE DEF slots
<1> QED
  BY <1>2, <1>6, <1>7, <1>8, <1>9, <1>10, <1>11 DEF ListOK, slots

\* For any number of promises and handles: the list of the port holds just the
\* observers that wait, once each, with pointers that are each other's inverse and
\* the tail at its end, however waitFor(), removeFromList() and the destructors
\* follow each other; and what a call has still to look at is in the list.
THEOREM ListIsSound == Spec => []ListOK
BY Invariance, InvGives, PTL

\* For any number of promises and handles, however other threads signal and reset
\* them: the signal that a wait takes from an AutoReset event fulfils exactly one promise,
\* one that waits for that handle, and none is fulfilled without a signal.
THEOREM OneSignal == Spec => OneSignalOnePromise
<1>1. IInv /\ [Next]_vars => [OneSignalStep]_vars
  BY StepKeeps
<1>2. OneSignalOnePromise <=> [][OneSignalStep]_vars
  BY PTL DEF OneSignalOnePromise, OneSignalStep
<1> QED
  BY <1>1, <1>2, Invariance, PTL DEF Spec

-----------------------------------------------------------------------------
(* A program that reads its command line, for any options, any handlers    *)
(* that can be given what they require, and any number of arguments.       *)

(* Sums: p[i] is the sum of the first i numbers.                           *)

IsSums(p, f, n) ==
    /\ p \in [0 .. n -> Int] /\ p[0] = 0
    /\ \A i \in 1 .. n : p[i] = p[i - 1] + f[i]

LEMMA SumsExist == \A n \in Nat : \A f \in [1 .. n -> Int] : \E p : IsSums(p, f, n)
<1> DEFINE T == {n \in Nat : \A f \in [1 .. n -> Int] : \E p : IsSums(p, f, n)}
<1>1. 0 \in T
  <2>1. \A f : IsSums([i \in 0 .. 0 |-> 0], f, 0)
    BY DEF IsSums
  <2> QED  BY <2>1
<1>2. ASSUME NEW n \in Nat, n \in T  PROVE n + 1 \in T
  <2> SUFFICES ASSUME NEW f \in [1 .. n + 1 -> Int]
               PROVE  \E p : IsSums(p, f, n + 1)
    OBVIOUS
  <2> DEFINE e == [i \in 1 .. n |-> f[i]]
  <2>1. e \in [1 .. n -> Int] /\ \A i \in 1 .. n : e[i] = f[i]
    OBVIOUS
  <2> HIDE DEF e
  <2>2. PICK p : IsSums(p, e, n)
    BY <1>2, <2>1
  <2> DEFINE q == [i \in 0 .. n + 1 |-> IF i = n + 1 THEN p[n] + f[n + 1] ELSE p[i]]
  <2>3. /\ q[n + 1] = p[n] + f[n + 1] /\ \A i \in 0 .. n : q[i] = p[i]
        /\ q \in [0 .. n + 1 -> Int]
    BY <2>2 DEF IsSums
  <2> HIDE DEF q
  <2>4. \A i \in 1 .. n + 1 : q[i] = q[i - 1] + f[i]
    BY <2>1, <2>2, <2>3 DEF IsSums
  <2>5. IsSums(q, f, n + 1)
    BY <2>2, <2>3, <2>4 DEF IsSums
  <2> QED  BY <2>5
<1> HIDE DEF T
<1>3. \A n \in Nat : n \in T
  BY <1>1, <1>2, EQ!Induction
<1> QED  BY <1>3 DEF T

Sums(f, n) == CHOOSE p : IsSums(p, f, n)

LEMMA SumsFacts ==
  ASSUME NEW n \in Nat, NEW f \in [1 .. n -> Int]
  PROVE  /\ Sums(f, n) \in [0 .. n -> Int] /\ Sums(f, n)[0] = 0
         /\ \A i \in 1 .. n : Sums(f, n)[i] = Sums(f, n)[i - 1] + f[i]
<1>1. IsSums(Sums(f, n), f, n)
  BY SumsExist DEF Sums
<1> QED  BY <1>1 DEF IsSums

\* The fold by which Total is defined takes the numbers from the last to the first.
LEMMA TotalIsSum ==
  ASSUME NEW n \in Nat, NEW f \in [1 .. n -> Int]
  PROVE  Total(f) = Sums(f, n)[n]
<1> DEFINE Largest(s) == CHOOSE x \in s : \A y \in s : x >= y
           Folds(g, S) == g = [s \in SUBSET S |-> IF s = {} THEN 0
                               ELSE g[s \ {Largest(s)}] + f[Largest(s)]]
           F == CHOOSE g : Folds(g, 1 .. n)
<1>1. \A m \in Nat : \A s \in SUBSET (1 .. m + 1) : m + 1 \in s => Largest(s) = m + 1
  <2> TAKE m \in Nat
  <2> TAKE s \in SUBSET (1 .. m + 1)
  <2> HAVE m + 1 \in s
  <2>1. \A y \in s : y \in Int /\ m + 1 >= y
    OBVIOUS
  <2>2. Largest(s) \in s /\ Largest(s) >= m + 1
    BY <2>1
  <2> HIDE DEF Largest
  <2>3. Largest(s) \in Int /\ m + 1 >= Largest(s) /\ m + 1 \in Int
    BY <2>1, <2>2
  <2> QED  BY <2>2, <2>3
<1> HIDE DEF Largest
<1>2. \A m \in Nat : \E g : Folds(g, 1 .. m)
  <2> DEFINE T == {m \in Nat : \E g : Folds(g, 1 .. m)}
  <2>1. 0 \in T
    <3> DEFINE g == [s \in SUBSET (1 .. 0) |-> 0]
    <3>1. 1 .. 0 = {}
      OBVIOUS
    <3>2. \A s \in SUBSET (1 .. 0) : s = {}
      BY <3>1
    <3>3. Folds(g, 1 .. 0)
      BY <3>2
    <3> QED  BY <3>3
  <2>2. ASSUME NEW m \in Nat, m \in T  PROVE m + 1 \in T
    <3>1. PICK g : Folds(g, 1 .. m)
      BY <2>2
    <3> DEFINE h == [s \in SUBSET (1 .. m + 1) |->
                        IF m + 1 \in s THEN g[s \ {m + 1}] + f[m + 1] ELSE g[s]]
    <3>2. ASSUME NEW s \in SUBSET (1 .. m + 1)
          PROVE  h[s] = IF s = {} THEN 0 ELSE h[s \ {Largest(s)}] + f[Largest(s)]
      <4>1. CASE m + 1 \in s
        <5>1. Largest(s) = m + 1 /\ s # {}
          BY <1>1, <4>1
        <5>2. h[s] = g[s \ {m + 1}] + f[m + 1]
          BY <4>1
        <5>3. h[s \ {m + 1}] = g[s \ {m + 1}]
          OBVIOUS
        <5> HIDE DEF h
        <5> QED  BY <5>1, <5>2, <5>3
      <4>2. CASE m + 1 \notin s
        <5>1. s \in SUBSET (1 .. m) /\ h[s] = g[s]
          BY <4>2
        <5>2. h[s \ {Largest(s)}] = g[s \ {Largest(s)}]
          BY <4>2
        <5>3. g[s] = IF s = {} THEN 0 ELSE g[s \ {Largest(s)}] + f[Largest(s)]
          BY <3>1, <5>1
        <5> HIDE DEF h
        <5> QED  BY <5>1, <5>2, <5>3
      <4> QED  BY <4>1, <4>2
    <3>3. h = [s \in SUBSET (1 .. m + 1) |-> h[s]]
      OBVIOUS
    <3> HIDE DEF h
    <3>4. Folds(h, 1 .. m + 1)
      BY <3>2, <3>3
    <3> HIDE DEF Folds
    <3> QED  BY <3>4
  <2> HIDE DEF T
  <2>3. \A m \in Nat : m \in T
    BY <2>1, <2>2, EQ!Induction
  <2> QED  BY <2>3 DEF T
<1>3. Folds(F, 1 .. n)
  <2> HIDE DEF Folds
  <2> QED  BY <1>2
<1>4. Total(f) = F[1 .. n]
  <2>1. DOMAIN f = 1 .. n
    OBVIOUS
  <2> QED  BY <2>1 DEF Total, FoldLeft, MapThenFoldSet, Max, F, Largest
<1> HIDE DEF F
<1> DEFINE T == {m \in Nat : m <= n => F[1 .. m] = Sums(f, n)[m]}
<1>5. 0 \in T
  <2>1. 1 .. 0 = {}
    OBVIOUS
  <2> QED  BY <1>3, <2>1, SumsFacts
<1>6. ASSUME NEW m \in Nat, m \in T  PROVE m + 1 \in T
  <2> SUFFICES ASSUME m + 1 <= n  PROVE F[1 .. m + 1] = Sums(f, n)[m + 1]
    OBVIOUS
  <2>1. 1 .. m + 1 \in SUBSET (1 .. n) /\ 1 .. m + 1 # {} /\ m + 1 \in 1 .. m + 1
    OBVIOUS
  <2>2. Largest(1 .. m + 1) = m + 1
    BY <1>1, <2>1
  <2>3. (1 .. m + 1) \ {m + 1} = 1 .. m
    OBVIOUS
  <2>4. F[1 .. m + 1] = F[1 .. m] + f[m + 1]
    BY <1>3, <2>1, <2>2, <2>3
  <2>5. m + 1 \in 1 .. n /\ (m + 1) - 1 = m
    OBVIOUS
  <2>6. Sums(f, n)[m + 1] = Sums(f, n)[m] + f[m + 1]
    BY <2>5, SumsFacts
  <2> QED  BY <1>6, <2>4, <2>6
<1> HIDE DEF T
<1>7. \A m \in Nat : m \in T
  BY <1>5, <1>6, EQ!Induction
<1> QED  BY <1>4, <1>7 DEF T

LEMMA SameDifference ==
  \A a, b, x, y \in Int : a - b <= x - y /\ x - y <= a - b => x - y = a - b
OBVIOUS

LEMMA TermByTerm ==
  \A a, b, c, d, x, y \in Int : a - b <= c - d /\ x <= y => (a + x) - b <= (c + y) - d
OBVIOUS

LEMMA SumsCompared ==
  ASSUME NEW n \in Nat, NEW f \in [1 .. n -> Int], NEW g \in [1 .. n -> Int],
         NEW m \in 0 .. n, NEW l \in m .. n, \A i \in m + 1 .. l : f[i] <= g[i]
  PROVE  Sums(f, n)[l] - Sums(f, n)[m] <= Sums(g, n)[l] - Sums(g, n)[m]
<1> DEFINE p == Sums(f, n)
           q == Sums(g, n)
           T == {k \in Nat : m + k <= l => p[m + k] - p[m] <= q[m + k] - q[m]}
<1>1. /\ p \in [0 .. n -> Int] /\ \A i \in 1 .. n : p[i] = p[i - 1] + f[i]
      /\ q \in [0 .. n -> Int] /\ \A i \in 1 .. n : q[i] = q[i - 1] + g[i]
  BY SumsFacts
<1> HIDE DEF p, q
<1>2. 0 \in T
  BY <1>1
<1>3. ASSUME NEW k \in Nat, k \in T  PROVE k + 1 \in T
  <2> SUFFICES ASSUME m + (k + 1) <= l
               PROVE  p[m + (k + 1)] - p[m] <= q[m + (k + 1)] - q[m]
    OBVIOUS
  <2> DEFINE i == m + (k + 1)
  <2>1. i \in 1 .. n /\ i \in m + 1 .. l /\ i - 1 = m + k /\ m + k \in 0 .. n
    OBVIOUS
  <2> HIDE DEF i
  <2>2. p[i] = p[m + k] + f[i] /\ q[i] = q[m + k] + g[i] /\ f[i] <= g[i]
    BY <1>1, <2>1
  <2>3. /\ p[m + k] \in Int /\ q[m + k] \in Int /\ p[m] \in Int /\ q[m] \in Int
        /\ f[i] \in Int /\ g[i] \in Int
    BY <1>1, <2>1
  <2>4. p[m + k] - p[m] <= q[m + k] - q[m]
    BY <1>3
  <2>5. p[i] - p[m] <= q[i] - q[m]
    <3>1. (p[m + k] + f[i]) - p[m] <= (q[m + k] + g[i]) - q[m]
      BY <2>2, <2>3, <2>4, TermByTerm
    <3> QED  BY <2>2, <3>1
  <2> QED  BY <2>5 DEF i
<1> HIDE DEF T
<1>4. \A k \in Nat : k \in T
  BY <1>2, <1>3, EQ!Induction
<1>5. l - m \in Nat /\ m + (l - m) = l /\ l <= l
  OBVIOUS
<1>6. l - m \in T
  BY <1>4, <1>5
<1>7. p[l] - p[m] <= q[l] - q[m]
  BY <1>5, <1>6 DEF T
<1> QED  BY <1>7 DEF p, q

LEMMA SumAdded ==
  ASSUME NEW n \in Nat, NEW f \in [1 .. n -> Int], NEW s \in 1 .. n,
         NEW g \in [1 .. n -> Int], g[s] = f[s] + 1, \A i \in 1 .. n : i # s => g[i] = f[i]
  PROVE  \A k \in 0 .. n : Sums(g, n)[k] = Sums(f, n)[k] + IF k >= s THEN 1 ELSE 0
<1> TAKE k \in 0 .. n
<1> DEFINE p == Sums(f, n)
           q == Sums(g, n)
<1>1. /\ p \in [0 .. n -> Int] /\ p[0] = 0 /\ p[s] = p[s - 1] + f[s]
      /\ q \in [0 .. n -> Int] /\ q[0] = 0 /\ q[s] = q[s - 1] + g[s]
  BY SumsFacts
<1>2. g[s] = f[s] + 1 /\ \A i \in 1 .. n : i # s => g[i] = f[i]
  OBVIOUS
<1>3. ASSUME NEW m \in 0 .. n, NEW l \in m .. n, s \notin m + 1 .. l
      PROVE  q[l] - q[m] = p[l] - p[m]
  <2>1. \A i \in m + 1 .. l : f[i] <= g[i] /\ g[i] <= f[i]
    BY <1>2, <1>3
  <2>2. p[l] - p[m] <= q[l] - q[m]
    BY <2>1, SumsCompared
  <2>3. q[l] - q[m] <= p[l] - p[m]
    BY <2>1, SumsCompared
  <2>4. p[l] \in Int /\ q[l] \in Int /\ p[m] \in Int /\ q[m] \in Int
    <3>1. l \in 0 .. n
      OBVIOUS
    <3> QED  BY <1>1, <3>1
  <2> HIDE DEF p, q
  <2> QED  BY <2>2, <2>3, <2>4, SameDifference
<1> HIDE DEF p, q
<1>4. s \in 0 .. n /\ s - 1 \in 0 .. n /\ 0 \in 0 .. n
  OBVIOUS
<1>5. /\ p[k] \in Int /\ q[k] \in Int /\ p[s] \in Int /\ q[s] \in Int
      /\ p[s - 1] \in Int /\ q[s - 1] \in Int /\ f[s] \in Int
  BY <1>1, <1>4
<1>6. CASE k >= s
  <2>1. k \in s .. n /\ s \notin s + 1 .. k /\ s - 1 \in 0 .. n /\ s \notin 0 + 1 .. s - 1
    BY <1>6
  <2>2. q[k] - q[s] = p[k] - p[s]
    BY <1>3, <1>4, <2>1
  <2>3. q[s - 1] - q[0] = p[s - 1] - p[0]
    BY <1>3, <1>4, <2>1
  <2>4. q[s - 1] = p[s - 1]
    BY <1>1, <1>5, <2>3
  <2>5. q[s] = p[s] + 1
    BY <1>1, <1>2, <1>5, <2>4
  <2>6. q[k] = p[k] + 1
    <3> DEFINE x == q[k]
               y == p[k]
               z == p[s]
    <3>1. x \in Int /\ y \in Int /\ z \in Int /\ x - (z + 1) = y - z
      BY <1>5, <2>2, <2>5
    <3> HIDE DEF x, y, z
    <3>2. x = y + 1
      BY <3>1
    <3> QED  BY <3>2 DEF x, y
  <2> QED  BY <1>6, <2>6 DEF p, q
<1>7. CASE ~(k >= s)
  <2>1. k \in 0 .. n /\ s \notin 0 + 1 .. k
    BY <1>7
  <2>2. q[k] - q[0] = p[k] - p[0]
    BY <1>3, <1>4, <2>1
  <2>3. q[k] = p[k] + 0
    BY <1>1, <1>5, <2>2
  <2> QED  BY <1>7, <2>3 DEF p, q
<1> QED  BY <1>6, <1>7

-----------------------------------------------------------------------------
(* Sharing a arguments among n handlers: handler i requires least[i] and   *)
(* takes at most most[i] of them, and has got c[i].                        *)

\* c is a way to share m arguments; Shares(m) are these.
Fits(c, m, least, most, n) ==
    /\ c \in [1 .. n -> Int] /\ Sums(c, n)[n] = m
    /\ \A i \in 1 .. n : least[i] <= c[i] /\ c[i] <= most[i]

\* A handler that was passed has all that it takes, or what was left was required.
Filled(c, a, least, most, n, i) ==
    \/ c[i] = most[i]
    \/ a - Sums(c, n)[i] <= Sums(least, n)[n] - Sums(least, n)[i]

LEMMA FirstGetMost ==
  ASSUME NEW n \in Nat, NEW least \in [1 .. n -> Int], NEW most \in [1 .. n -> Int],
         NEW c \in [1 .. n -> Int], NEW a \in Int, Fits(c, a, least, most, n),
         \A i \in 1 .. n : Filled(c, a, least, most, n, i),
         NEW d, Fits(d, a, least, most, n), NEW s \in 1 .. n, d[s] > c[s]
  PROVE  \E r \in 1 .. s - 1 : d[r] < c[r]
<1> SUFFICES ASSUME \A r \in 1 .. s - 1 : ~(d[r] < c[r])  PROVE FALSE
  OBVIOUS
<1>1. d \in [1 .. n -> Int]
  BY DEF Fits
<1>2. \A r \in 0 + 1 .. s - 1 : c[r] <= d[r]
  <2> TAKE r \in 0 + 1 .. s - 1
  <2>1. r \in 1 .. s - 1 /\ r \in 1 .. n
    OBVIOUS
  <2>2. ~(d[r] < c[r]) /\ c[r] \in Int /\ d[r] \in Int
    BY <1>1, <2>1
  <2> QED  BY <2>2
<1>3. \A r \in s + 1 .. n : least[r] <= d[r]
  BY DEF Fits
<1>4. s - 1 \in 0 .. n /\ s \in 0 .. n /\ n \in 0 .. n /\ 0 \in 0 .. n /\ n \in s .. n
      /\ s - 1 \in 0 .. n
  OBVIOUS
<1>5. Sums(c, n)[s - 1] - Sums(c, n)[0] <= Sums(d, n)[s - 1] - Sums(d, n)[0]
  BY <1>1, <1>2, <1>4, SumsCompared
<1>6. Sums(least, n)[n] - Sums(least, n)[s] <= Sums(d, n)[n] - Sums(d, n)[s]
  BY <1>1, <1>3, <1>4, SumsCompared
<1> DEFINE p == Sums(c, n)
           q == Sums(d, n)
           l == Sums(least, n)
<1>7. /\ p[0] = 0 /\ p[s] = p[s - 1] + c[s] /\ p[s - 1] \in Int /\ c[s] \in Int
      /\ q[0] = 0 /\ q[s] = q[s - 1] + d[s] /\ q[s - 1] \in Int /\ d[s] \in Int
      /\ q[n] = a /\ l[n] \in Int /\ l[s] \in Int
  BY <1>1, <1>4, SumsFacts DEF Fits
<1>8. c[s] # most[s]
  <2>1. d[s] <= most[s] /\ most[s] \in Int
    BY DEF Fits
  <2> HIDE DEF p, q, l
  <2> QED  BY <1>7, <2>1
<1>9. a - p[s] <= l[n] - l[s]
  BY <1>8 DEF Filled
<1> HIDE DEF p, q, l
<1>10. p[s - 1] <= q[s - 1] /\ l[n] - l[s] <= q[n] - q[s]
  <2>1. p[s - 1] <= q[s - 1]
    <3>1. p[s - 1] - p[0] <= q[s - 1] - q[0]
      BY <1>5 DEF p, q
    <3> QED  BY <1>7, <3>1
  <2>2. l[n] - l[s] <= q[n] - q[s]
    BY <1>6 DEF l, q
  <2> QED  BY <2>1, <2>2
<1>11. c[s] < d[s] /\ a \in Int
  BY <1>7
<1>12. p[s] < q[s] /\ p[s] \in Int /\ q[s] \in Int
  <2> DEFINE x == p[s - 1]
             y == q[s - 1]
  <2>1. /\ p[s] = x + c[s] /\ q[s] = y + d[s] /\ c[s] < d[s] /\ x <= y
        /\ x \in Int /\ y \in Int /\ c[s] \in Int /\ d[s] \in Int
    BY <1>7, <1>10, <1>11
  <2> HIDE DEF x, y
  <2> QED  BY <2>1
<1> QED
  <2> DEFINE ps == p[s]  qs == q[s]  ln == l[n]  ls == l[s]
  <2>1. /\ ps \in Int /\ qs \in Int /\ ln \in Int /\ ls \in Int /\ a \in Int /\ ps < qs
        /\ a - ps <= ln - ls /\ ln - ls <= a - qs
    BY <1>7, <1>9, <1>10, <1>11, <1>12
  <2> HIDE DEF ps, qs, ln, ls
  <2> QED  BY <2>1

\* If arguments are left when all handlers were passed, no way to share them exists.
LEMMA TooManyForAll ==
  ASSUME NEW n \in Nat, NEW least \in [1 .. n -> Int], NEW most \in [1 .. n -> Int],
         NEW c \in [1 .. n -> Int], NEW a \in Int, Sums(c, n)[n] < a,
         \A i \in 1 .. n : least[i] <= c[i],
         \A i \in 1 .. n : Filled(c, a, least, most, n, i),
         NEW d, Fits(d, a, least, most, n)
  PROVE  FALSE
<1>1. d \in [1 .. n -> Int] /\ 0 \in 0 .. n /\ n \in 0 .. n /\ 0 + 1 = 1
  BY DEF Fits
<1> DEFINE p == Sums(c, n)
           q == Sums(d, n)
           l == Sums(least, n)
<1>2. CASE \A i \in 1 .. n : c[i] = most[i]
  <2>1. \A i \in 0 + 1 .. n : d[i] <= c[i]
    BY <1>2 DEF Fits
  <2>2. q[n] - q[0] <= p[n] - p[0]
    BY <1>1, <2>1, SumsCompared
  <2>3. q[n] = a /\ q[0] = 0 /\ p[0] = 0 /\ p[n] \in Int
    BY <1>1, SumsFacts DEF Fits
  <2>4. p[n] < a
    OBVIOUS
  <2> HIDE DEF p, q
  <2> QED  BY <2>2, <2>3, <2>4
<1>3. CASE \E i \in 1 .. n : c[i] # most[i]
  <2>1. PICK i \in 1 .. n : c[i] # most[i]
    BY <1>3
  <2>2. a - p[i] <= l[n] - l[i]
    BY <2>1 DEF Filled
  <2>3. i \in 0 .. n /\ n \in i .. n /\ \A j \in i + 1 .. n : least[j] <= c[j]
    OBVIOUS
  <2>4. l[n] - l[i] <= p[n] - p[i]
    BY <2>3, SumsCompared
  <2>5. p[n] < a /\ p[n] \in Int /\ p[i] \in Int /\ l[n] \in Int /\ l[i] \in Int
    BY <1>1, <2>3, SumsFacts
  <2> HIDE DEF p, l
  <2> QED  BY <2>2, <2>4, <2>5
<1> QED  BY <1>2, <1>3

\* If handler s lacks an argument and nobody has got more than is required, no way exists.
LEMMA TooFewForAll ==
  ASSUME NEW n \in Nat, NEW least \in [1 .. n -> Int], NEW most \in [1 .. n -> Int],
         NEW c \in [1 .. n -> Int], NEW a \in Int, Sums(c, n)[n] = a,
         \A i \in 1 .. n : c[i] <= least[i],
         NEW s \in 1 .. n, c[s] < least[s],
         NEW d, Fits(d, a, least, most, n)
  PROVE  FALSE
<1>1. d \in [1 .. n -> Int] /\ s \in 0 .. n /\ s - 1 \in 0 .. n /\ 0 \in 0 .. n /\ n \in s .. n
  BY DEF Fits
<1> DEFINE p == Sums(c, n)
           q == Sums(d, n)
<1>2. \A i \in 1 .. n : c[i] <= d[i] /\ c[i] \in Int /\ d[i] \in Int
  BY <1>1 DEF Fits
<1>3. c[s] < d[s]
  BY <1>1 DEF Fits
<1>4. p[s - 1] - p[0] <= q[s - 1] - q[0]
  <2>1. \A i \in 0 + 1 .. s - 1 : c[i] <= d[i]
    BY <1>2
  <2> QED  BY <1>1, <2>1, SumsCompared
<1>5. p[n] - p[s] <= q[n] - q[s]
  <2>1. \A i \in s + 1 .. n : c[i] <= d[i]
    BY <1>2
  <2> QED  BY <1>1, <2>1, SumsCompared
<1>6. /\ p[0] = 0 /\ p[s] = p[s - 1] + c[s] /\ p[s - 1] \in Int /\ c[s] \in Int
      /\ q[0] = 0 /\ q[s] = q[s - 1] + d[s] /\ q[s - 1] \in Int /\ d[s] \in Int
      /\ q[n] = a /\ p[n] = a
  BY <1>1, SumsFacts DEF Fits
<1> HIDE DEF p, q
<1>7. p[s] < q[s] /\ p[s] \in Int /\ q[s] \in Int
  <2>1. p[s - 1] <= q[s - 1]
    BY <1>4, <1>6
  <2> DEFINE x == p[s - 1]
             y == q[s - 1]
  <2>2. /\ p[s] = x + c[s] /\ q[s] = y + d[s] /\ c[s] < d[s] /\ x <= y
        /\ x \in Int /\ y \in Int /\ c[s] \in Int /\ d[s] \in Int
    BY <1>3, <1>6, <2>1
  <2> HIDE DEF x, y
  <2> QED  BY <2>2
<1> DEFINE ps == p[s]  pn == p[n]  qs == q[s]  qn == q[n]
<1>8. /\ pn - ps <= qn - qs /\ ps < qs /\ qn = a /\ pn = a
      /\ ps \in Int /\ qs \in Int /\ a \in Int
  BY <1>5, <1>6, <1>7
<1> HIDE DEF ps, pn, qs, qn
<1> QED  BY <1>8

\* What of the c[i] arguments is required.
Used(c, least, n) == [i \in 1 .. n |-> IF c[i] < least[i] THEN c[i] ELSE least[i]]

\* While handler s is at its counter i: t of a arguments are handed out, and "needed" more
\* are required.  If anybody got more than he requires, what is left is enough for the others.
Sharing(n, least, most, c, t, s, i, a, needed) ==
    /\ c \in [1 .. n -> Nat] /\ t \in Nat /\ a \in Nat /\ t <= a
    /\ s \in 1 .. n + 1 /\ i \in Nat
    /\ Sums(c, n)[n] = t
    /\ needed = Sums(least, n)[n] - Sums(Used(c, least, n), n)[n]
    /\ (\E r \in 1 .. n : c[r] > least[r]) => needed <= a - t
    /\ \A r \in 1 .. n :
          /\ r < s => /\ least[r] <= c[r] /\ c[r] <= most[r]
                      /\ Filled(c, a, least, most, n, r)
          /\ r = s => c[r] = i /\ i <= most[r]
          /\ r > s => c[r] = 0

Limits(n, least, most) ==
    /\ n \in Nat /\ least \in [1 .. n -> Nat] /\ most \in [1 .. n -> Nat]
    /\ \A i \in 1 .. n : least[i] <= most[i]

LEMMA NatsAreInts == \A n, f : f \in [1 .. n -> Nat] => f \in [1 .. n -> Int]
  OBVIOUS

LEMMA NeededFacts ==
  ASSUME NEW n, NEW least, NEW most, Limits(n, least, most),
         NEW c, NEW t, NEW s, NEW i, NEW a, NEW needed,
         Sharing(n, least, most, c, t, s, i, a, needed)
  PROVE  needed \in Nat /\ (s <= n /\ i < least[s] => needed > 0)
<1> DEFINE u == Used(c, least, n)
           p == Sums(u, n)
           q == Sums(least, n)
<1>1. /\ n \in Nat /\ least \in [1 .. n -> Nat] /\ least \in [1 .. n -> Int]
      /\ c \in [1 .. n -> Nat] /\ 0 \in 0 .. n /\ n \in 0 .. n /\ s \in 1 .. n + 1 /\ i \in Nat
      /\ needed = q[n] - p[n] /\ (s <= n => c[s] = i)
  BY DEF Limits, Sharing
<1>2. u \in [1 .. n -> Int] /\ \A r \in 1 .. n : u[r] = IF c[r] < least[r] THEN c[r] ELSE least[r]
  BY <1>1 DEF Used
<1>3. \A r \in 1 .. n : u[r] <= least[r]
  BY <1>1, <1>2
<1> HIDE DEF u
<1>4. ASSUME NEW m \in 0 .. n, NEW l \in m .. n  PROVE p[l] - p[m] <= q[l] - q[m]
  <2>1. \A r \in m + 1 .. l : u[r] <= least[r]
    <3>1. \A r \in m + 1 .. l : r \in 1 .. n
      BY <1>1
    <3> QED  BY <1>3, <3>1
  <2> QED  BY <1>1, <1>2, <2>1, SumsCompared
<1>5. /\ p \in [0 .. n -> Int] /\ p[0] = 0 /\ \A r \in 1 .. n : p[r] = p[r - 1] + u[r]
      /\ q \in [0 .. n -> Int] /\ q[0] = 0 /\ \A r \in 1 .. n : q[r] = q[r - 1] + least[r]
  BY <1>1, <1>2, SumsFacts
<1> HIDE DEF p, q
<1>6. p[n] - p[0] <= q[n] - q[0]
  BY <1>1, <1>4
<1>7. needed \in Nat
  BY <1>1, <1>5, <1>6
<1>8. ASSUME s <= n, i < least[s]  PROVE needed > 0
  <2>1. s \in 1 .. n /\ s - 1 \in 0 .. n /\ s \in 0 .. n /\ n \in s .. n /\ s - 1 \in 0 .. n
    BY <1>1, <1>8
  <2> DEFINE a0 == p[s - 1]
             b0 == q[s - 1]
             pn == p[n]
             qn == q[n]
             y == least[s]
  <2>2. p[s - 1] - p[0] <= q[s - 1] - q[0] /\ p[n] - p[s] <= q[n] - q[s]
    BY <1>1, <1>4, <2>1
  <2>3. p[s] = a0 + i /\ q[s] = b0 + y
    BY <1>1, <1>2, <1>5, <1>8, <2>1
  <2>4. /\ a0 \in Int /\ b0 \in Int /\ pn \in Int /\ qn \in Int /\ i \in Int /\ y \in Int
        /\ a0 - 0 <= b0 - 0 /\ pn - (a0 + i) <= qn - (b0 + y) /\ i < y
    BY <1>1, <1>5, <1>8, <2>1, <2>2, <2>3
  <2> HIDE DEF a0, b0, pn, qn, y
  <2>5. qn - pn > 0
    BY <2>4
  <2> QED  BY <1>1, <2>5 DEF pn, qn
<1> QED  BY <1>7, <1>8

LEMMA NothingShared ==
  ASSUME NEW n, NEW least, NEW most, Limits(n, least, most), NEW a \in Nat
  PROVE  Sharing(n, least, most, [i \in 1 .. n |-> 0], 0, 1, 0, a, Sums(least, n)[n])
<1> DEFINE c == [i \in 1 .. n |-> 0]
<1>1. /\ n \in Nat /\ c \in [1 .. n -> Nat] /\ c \in [1 .. n -> Int] /\ 0 \in 0 .. n /\ n \in 0 .. n
      /\ least \in [1 .. n -> Nat] /\ least \in [1 .. n -> Int] /\ 0 + 1 = 1
      /\ \A i \in 1 .. n : c[i] = 0 /\ least[i] \in Nat
  BY DEF Limits
<1> HIDE DEF c
<1>2. Used(c, least, n) = c
  BY <1>1 DEF Used
<1>3. Sums(c, n)[n] = 0
  <2> DEFINE T == {k \in Nat : k <= n => Sums(c, n)[k] = 0}
  <2>1. 0 \in T
    BY <1>1, SumsFacts
  <2>2. ASSUME NEW k \in Nat, k \in T  PROVE k + 1 \in T
    <3> SUFFICES ASSUME k + 1 <= n  PROVE Sums(c, n)[k + 1] = 0
      OBVIOUS
    <3>1. k + 1 \in 1 .. n /\ (k + 1) - 1 = k
      BY <1>1
    <3>2. Sums(c, n)[k + 1] = Sums(c, n)[k] + c[k + 1]
      BY <1>1, <3>1, SumsFacts
    <3> QED  BY <1>1, <2>2, <3>1, <3>2
  <2> HIDE DEF T
  <2>3. \A k \in Nat : k \in T
    BY <2>1, <2>2, EQ!Induction
  <2> QED  BY <1>1, <2>3 DEF T
<1>4. Sums(least, n)[n] \in Int
  BY <1>1, SumsFacts
<1>5. \A r \in 1 .. n : /\ ~(c[r] > least[r]) /\ ~(r < 1) /\ (r = 1 => c[r] = 0 /\ 0 <= most[r])
                        /\ (r > 1 => c[r] = 0)
  BY <1>1 DEF Limits
<1>6. Sharing(n, least, most, c, 0, 1, 0, a, Sums(least, n)[n])
  BY <1>1, <1>2, <1>3, <1>4, <1>5 DEF Sharing
<1> QED  BY <1>6 DEF c

LEMMA OneMore ==
  ASSUME NEW n, NEW least, NEW most, Limits(n, least, most),
         NEW c, NEW t, NEW s \in 1 .. n, NEW i, NEW a, NEW needed,
         Sharing(n, least, most, c, t, s, i, a, needed),
         NEW one \in {0, 1}, t < a,
         \/ one = 1 /\ i < least[s]
         \/ one = 0 /\ least[s] <= i /\ i < most[s] /\ needed < a - t
  PROVE  Sharing(n, least, most, [c EXCEPT ![s] = @ + 1], t + 1, s, i + 1, a, needed - one)
<1> DEFINE d == [c EXCEPT ![s] = @ + 1]
           u == Used(c, least, n)
           v == Used(d, least, n)
<1>1. /\ n \in Nat /\ least \in [1 .. n -> Nat] /\ c \in [1 .. n -> Nat] /\ n \in 0 .. n /\ n >= s
      /\ least \in [1 .. n -> Int] /\ c \in [1 .. n -> Int] /\ most \in [1 .. n -> Nat]
      /\ t \in Nat /\ a \in Nat /\ i \in Nat /\ c[s] = i
  BY DEF Limits, Sharing
<1>2. /\ d \in [1 .. n -> Nat] /\ d \in [1 .. n -> Int] /\ d[s] = c[s] + 1
      /\ \A r \in 1 .. n : r # s => d[r] = c[r]
  BY <1>1
<1> HIDE DEF d
<1>3. \A k \in 0 .. n : Sums(d, n)[k] = Sums(c, n)[k] + IF k >= s THEN 1 ELSE 0
  <2>1. d[s] = c[s] + 1
    BY <1>2
  <2>2. \A r \in 1 .. n : r # s => d[r] = c[r]
    BY <1>2
  <2>3. n \in Nat /\ c \in [1 .. n -> Int] /\ d \in [1 .. n -> Int]
    BY <1>1, <1>2
  <2> QED  BY <2>1, <2>2, <2>3, SumAdded
<1>4. Sums(d, n)[n] = t + 1
  BY <1>1, <1>3 DEF Sharing
<1>5. /\ u \in [1 .. n -> Int] /\ v \in [1 .. n -> Int]
      /\ \A r \in 1 .. n : r # s => v[r] = u[r]
      /\ u[s] = IF i < least[s] THEN i ELSE least[s]
      /\ v[s] = IF i + 1 < least[s] THEN i + 1 ELSE least[s]
  <2>1. /\ u \in [1 .. n -> Int]
        /\ \A r \in 1 .. n : u[r] = IF c[r] < least[r] THEN c[r] ELSE least[r]
    BY <1>1 DEF Used
  <2>2. /\ v \in [1 .. n -> Int]
        /\ \A r \in 1 .. n : v[r] = IF d[r] < least[r] THEN d[r] ELSE least[r]
    BY <1>1, <1>2 DEF Used
  <2> HIDE DEF u, v
  <2> QED  BY <1>1, <1>2, <2>1, <2>2
<1> HIDE DEF u, v
<1>6. Sums(v, n)[n] = Sums(u, n)[n] + one
  <2>1. CASE one = 1
    <3>1. v[s] = u[s] + 1
      BY <1>1, <1>5, <2>1
    <3>2. \A k \in 0 .. n : Sums(v, n)[k] = Sums(u, n)[k] + IF k >= s THEN 1 ELSE 0
      <4>1. n \in Nat /\ u \in [1 .. n -> Int] /\ v \in [1 .. n -> Int]
        BY <1>1, <1>5
      <4>2. \A r \in 1 .. n : r # s => v[r] = u[r]
        BY <1>5
      <4> QED  BY <3>1, <4>1, <4>2, SumAdded
    <3> QED  BY <1>1, <2>1, <3>2
  <2>2. CASE one = 0
    <3>1. v[s] = u[s]
      BY <1>1, <1>5, <2>2
    <3>2. v = u
      <4>1. \A r \in 1 .. n : v[r] = u[r]
        BY <1>5, <3>1
      <4>2. v = [r \in 1 .. n |-> v[r]] /\ u = [r \in 1 .. n |-> u[r]]
        BY <1>5
      <4> QED  BY <4>1, <4>2
    <3>3. Sums(u, n)[n] \in Int
      <4>1. Sums(u, n) \in [0 .. n -> Int]
        BY <1>1, <1>5, SumsFacts
      <4> QED  BY <1>1, <4>1
    <3> QED  BY <2>2, <3>2, <3>3
  <2> QED  BY <2>1, <2>2
<1>7. /\ needed = Sums(least, n)[n] - Sums(u, n)[n]
      /\ Sums(least, n)[n] \in Int /\ Sums(u, n)[n] \in Int
  BY <1>1, <1>5, SumsFacts DEF Sharing, u
<1>8. needed - one = Sums(least, n)[n] - Sums(v, n)[n]
  <2> DEFINE x == Sums(least, n)[n]
             y == Sums(u, n)[n]
             z == Sums(v, n)[n]
  <2>1. x \in Int /\ y \in Int /\ needed = x - y /\ z = y + one
    BY <1>6, <1>7
  <2> HIDE DEF x, y, z
  <2>2. needed - one = x - z
    BY <2>1
  <2> QED  BY <2>2 DEF x, z
<1>9. (\E r \in 1 .. n : d[r] > least[r]) => needed - one <= a - (t + 1)
  <2>1. needed \in Int
    BY <1>7
  <2>2. CASE one = 0
    BY <1>1, <2>1, <2>2
  <2>3. CASE one = 1
    <3> SUFFICES ASSUME NEW r \in 1 .. n, d[r] > least[r]  PROVE needed - one <= a - (t + 1)
      OBVIOUS
    <3>1. r # s
      BY <1>1, <1>2, <2>3
    <3>2. c[r] > least[r]
      BY <1>2, <3>1
    <3>3. needed <= a - t
      BY <3>2 DEF Sharing
    <3> QED  BY <1>1, <2>1, <2>3, <3>3
  <2> QED  BY <2>2, <2>3
<1>10. ASSUME NEW r \in 1 .. n
       PROVE  /\ r < s => /\ least[r] <= d[r] /\ d[r] <= most[r]
                          /\ Filled(d, a, least, most, n, r)
              /\ r = s => d[r] = i + 1 /\ i + 1 <= most[r]
              /\ r > s => d[r] = 0
  <2>1. CASE r < s
    <3>1. d[r] = c[r] /\ r \in 0 .. n
      BY <1>2, <2>1
    <3>2. Sums(c, n)[r] \in Int
      BY <1>1, <3>1, SumsFacts
    <3>3. Sums(d, n)[r] = Sums(c, n)[r]
      BY <1>3, <2>1, <3>1, <3>2
    <3> QED  BY <2>1, <3>1, <3>3 DEF Sharing, Filled
  <2>2. CASE r = s
    <3>1. i + 1 <= most[s]
      BY <1>1 DEF Limits
    <3> QED  BY <1>1, <1>2, <2>2, <3>1
  <2>3. CASE r > s
    BY <1>2, <2>3 DEF Sharing
  <2> QED  BY <2>1, <2>2, <2>3
<1>11. Sharing(n, least, most, d, t + 1, s, i + 1, a, needed - one)
  <2>1. t + 1 \in Nat /\ t + 1 <= a /\ i + 1 \in Nat /\ s \in 1 .. n + 1
    BY <1>1
  <2> QED  BY <1>1, <1>2, <1>4, <1>8, <1>9, <1>10, <2>1 DEF Sharing, v
<1> QED  BY <1>11 DEF d

\* A handler that has what it requires, and may have no more, is passed.
LEMMA Passed ==
  ASSUME NEW n, NEW least, NEW most, Limits(n, least, most),
         NEW c, NEW t, NEW s \in 1 .. n, NEW i, NEW a, NEW needed,
         Sharing(n, least, most, c, t, s, i, a, needed),
         least[s] <= i, i < most[s] => ~(a - t > needed)
  PROVE  Sharing(n, least, most, c, t, s + 1, 0, a, needed)
<1> DEFINE p == Sums(c, n)
           l == Sums(least, n)
           u == Used(c, least, n)
           q == Sums(u, n)
<1>1. /\ n \in Nat /\ least \in [1 .. n -> Nat] /\ c \in [1 .. n -> Nat] /\ most \in [1 .. n -> Nat]
      /\ least \in [1 .. n -> Int] /\ c \in [1 .. n -> Int]
      /\ t \in Nat /\ a \in Nat /\ i \in Nat /\ c[s] = i /\ i <= most[s]
      /\ n \in 0 .. n /\ s \in 0 .. n /\ n \in s .. n /\ 0 \in 0 .. n /\ s \in 0 .. n /\ 0 + 1 = 1
      /\ p[n] = t /\ needed = l[n] - q[n]
  BY DEF Limits, Sharing
<1>2. Filled(c, a, least, most, n, s)
  <2> SUFFICES ASSUME i < most[s]  PROVE a - p[s] <= l[n] - l[s]
    BY <1>1 DEF Filled
  <2>1. u \in [1 .. n -> Int] /\ \A r \in 1 .. n : u[r] = IF c[r] < least[r] THEN c[r] ELSE least[r]
    BY <1>1 DEF Used
  <2>2. \A r \in 1 .. s : u[r] = least[r]
    <3> TAKE r \in 1 .. s
    <3>1. r \in 1 .. n /\ least[r] <= c[r]
      BY <1>1 DEF Sharing
    <3> QED  BY <1>1, <2>1, <3>1
  <2>3. \A r \in s + 1 .. n : u[r] = 0 /\ c[r] = 0
    <3> TAKE r \in s + 1 .. n
    <3>1. r \in 1 .. n /\ c[r] = 0
      BY <1>1 DEF Sharing
    <3>2. least[r] \in Nat
      BY <1>1, <3>1
    <3> QED  BY <1>1, <2>1, <3>1, <3>2
  <2>4. /\ p[n] \in Int /\ p[s] \in Int /\ l[n] \in Int /\ l[s] \in Int
        /\ q[n] \in Int /\ q[s] \in Int
        /\ q[0] = 0 /\ l[0] = 0
    <3> HIDE DEF u
    <3>1. /\ p \in [0 .. n -> Int] /\ l \in [0 .. n -> Int] /\ l[0] = 0
          /\ q \in [0 .. n -> Int] /\ q[0] = 0
      BY <1>1, <2>1, SumsFacts
    <3> HIDE DEF p, q, l
    <3> QED  BY <1>1, <3>1
  <2>5. q[s] - q[0] <= l[s] - l[0] /\ l[s] - l[0] <= q[s] - q[0]
    <3>1. \A r \in 0 + 1 .. s : u[r] <= least[r] /\ least[r] <= u[r]
      BY <1>1, <2>2
    <3> HIDE DEF u
    <3> QED  BY <1>1, <2>1, <3>1, SumsCompared
  <2>6. \A r \in s + 1 .. n : u[r] <= c[r] /\ c[r] <= u[r]
    <3> HIDE DEF u
    <3> TAKE r \in s + 1 .. n
    <3>1. u[r] = 0 /\ c[r] = 0
      BY <2>3
    <3> QED  BY <3>1
  <2>7. q[n] - q[s] <= p[n] - p[s] /\ p[n] - p[s] <= q[n] - q[s]
    <3> HIDE DEF u
    <3> QED  BY <1>1, <2>1, <2>6, SumsCompared
  <2>8. a - t <= needed
    BY <1>1, <2>4
  <2> HIDE DEF p, q, l
  <2> DEFINE pn == p[n]  ps == p[s]  ln == l[n]  ls == l[s]  qn == q[n]  qs == q[s]
  <2>9. /\ pn \in Int /\ ps \in Int /\ ln \in Int /\ ls \in Int /\ qn \in Int /\ qs \in Int
        /\ qs - 0 <= ls - 0 /\ ls - 0 <= qs - 0 /\ qn - qs <= pn - ps /\ pn - ps <= qn - qs
        /\ a - pn <= ln - qn /\ a \in Int
    BY <1>1, <2>4, <2>5, <2>7, <2>8
  <2> HIDE DEF pn, ps, ln, ls, qn, qs
  <2>10. a - ps <= ln - ls
    BY <2>9
  <2> QED  BY <2>10 DEF ps, ln, ls
<1>3. ASSUME NEW r \in 1 .. n
      PROVE  /\ r < s + 1 => /\ least[r] <= c[r] /\ c[r] <= most[r]
                             /\ Filled(c, a, least, most, n, r)
             /\ r = s + 1 => c[r] = 0 /\ 0 <= most[r]
             /\ r > s + 1 => c[r] = 0
  <2>1. CASE r < s
    BY <2>1 DEF Sharing
  <2>2. CASE r = s
    BY <1>1, <1>2, <2>2
  <2>3. CASE r > s
    BY <1>1, <2>3 DEF Sharing
  <2> QED  BY <2>1, <2>2, <2>3
<1>4. s + 1 \in 1 .. n + 1 /\ 0 \in Nat
  BY <1>1
<1> QED  BY <1>1, <1>3, <1>4 DEF Sharing

-----------------------------------------------------------------------------
(* The invariant: what is handed out is in order, and Sharing holds of it. *)

Least == [s \in DOMAIN specs |-> specs[s].min]
Most == [s \in DOMAIN specs |-> specs[s].max]

Ordered ==
    /\ given \in Seq(1 .. Len(specs))
    /\ \A k \in 2 .. Len(given) : given[k - 1] <= given[k]
    /\ \A k \in 1 .. Len(given) : given[k] <= at.spec

\* How often each of n handlers is among those that were given an argument.
Numbers(t, n) == [s \in 1 .. n |-> Cardinality({k \in DOMAIN t : t[k] = s})]

Handing ==
    /\ at \in [spec : Nat, i : Nat] /\ Ordered
    /\ Sharing(Len(specs), Least, Most, Numbers(given, Len(specs)), Len(given), at.spec, at.i,
               arguments, required)

CommandInv ==
    /\ specs \in Seq(Specs) /\ arguments \in Nat
    /\ stage \in {"building", "options"} => given = << >>
    /\ stage = "arguments" \/ (stage = "returned" /\ ~commands) => Handing
    /\ stage = "returned" /\ ~commands => at.spec > Len(specs) /\ Len(given) = arguments

LEMMA SpecsFacts ==
  ASSUME SpecsAssumption, specs \in Seq(Specs)
  PROVE  /\ Len(specs) \in Nat /\ DOMAIN specs = 1 .. Len(specs)
         /\ Limits(Len(specs), Least, Most)
         /\ \A s \in 1 .. Len(specs) : Least[s] = specs[s].min /\ Most[s] = specs[s].max
         /\ SumMin = Sums(Least, Len(specs))[Len(specs)]
<1>1. /\ Len(specs) \in Nat /\ DOMAIN specs = 1 .. Len(specs)
      /\ \A s \in 1 .. Len(specs) : specs[s] \in Specs
  BY LenProperties, ElementOfSeq
<1>2. \A s \in 1 .. Len(specs) : Least[s] = specs[s].min /\ Most[s] = specs[s].max
  BY <1>1 DEF Least, Most
<1>3. Limits(Len(specs), Least, Most)
  BY <1>1, <1>2 DEF Limits, Least, Most, SpecsAssumption
<1>4. SumMin = Total(Least)
  BY DEF SumMin, Least
<1>5. Total(Least) = Sums(Least, Len(specs))[Len(specs)]
  <2>1. Least \in [1 .. Len(specs) -> Int]
    BY <1>3 DEF Limits
  <2> QED  BY <1>1, <2>1, TotalIsSum
<1> QED  BY <1>1, <1>2, <1>3, <1>4, <1>5

\* One more argument for handler s.
LEMMA CountsAppend ==
  ASSUME NEW n \in Nat, NEW t \in Seq(1 .. n), NEW s \in 1 .. n
  PROVE  Numbers(Append(t, s), n) = [Numbers(t, n) EXCEPT ![s] = @ + 1]
<1> DEFINE u == Append(t, s)
           Places(w, r) == {k \in DOMAIN w : w[k] = r}
           m == Len(t)
<1>1. /\ m \in Nat /\ DOMAIN t = 1 .. m /\ DOMAIN u = 1 .. m + 1 /\ u[m + 1] = s
      /\ \A k \in 1 .. m : u[k] = t[k]
  BY AppendProperties, LenProperties
<1> HIDE DEF u, m
<1>2. ASSUME NEW r \in 1 .. n
      PROVE  Cardinality(Places(u, r)) = IF r = s THEN Cardinality(Places(t, r)) + 1
                                       ELSE Cardinality(Places(t, r))
  <2>1. CASE r # s
    <3>1. Places(u, r) = Places(t, r)
      BY <1>1, <2>1
    <3> QED  BY <2>1, <3>1
  <2>2. CASE r = s
    <3>1. Places(u, r) = Places(t, r) \cup {m + 1}
      BY <1>1, <2>2
    <3>2. m + 1 \notin Places(t, r)
      BY <1>1
    <3>3. IsFiniteSet(Places(t, r))
      <4>1. IsFiniteSet(1 .. m) /\ Places(t, r) \subseteq 1 .. m
        BY <1>1, FS_Interval
      <4> HIDE DEF Places
      <4> QED  BY <4>1, FS_Subset
    <3> HIDE DEF Places
    <3> QED  BY <2>2, <3>1, <3>2, <3>3, FS_AddElement
  <2> QED  BY <2>1, <2>2
<1>3. \A r \in 1 .. n : Cardinality(Places(t, r)) + 1 = Cardinality(Places(t, r)) + 1
  OBVIOUS
<1> DEFINE Of(w) == [r \in 1 .. n |-> Cardinality(Places(w, r))]
<1>4. Of(u) = [Of(t) EXCEPT ![s] = @ + 1]
  <2> HIDE DEF Places
  <2> QED  BY <1>2
<1> QED  BY <1>4 DEF u, Numbers

\* The main function is left, or prints its help.
Gone ==
    /\ stage' \in {"thrown", "exited", "help", "reported", "terminated"}
    /\ arguments' \in Nat /\ specs' = specs

LEMMA LeftStep == CommandInv /\ Gone => CommandInv'
  BY DEF CommandInv, Gone

LEMMA Leaves ==
  ASSUME CommandInv,
         \/ UsageError \/ Uncaught \/ PrintHelp \/ ShowHelp \/ ReportUncaught \/ Return
         \/ Unwinds /\ UNCHANGED builder
         \/ \E message : ExitInfo(message)
  PROVE  CommandInv'
<1>1. arguments \in Nat /\ 0 \in Nat
  BY DEF CommandInv
<1>2. \A write : ExitBehind(write) => Gone
  BY <1>1 DEF ExitBehind, Unwinds, Unwound, Gone, builder
<1>3. Gone
  <2>1. CASE UsageError \/ ShowHelp \/ \E message : ExitInfo(message)
    BY <1>2, <2>1 DEF UsageError, ShowHelp, ExitInfo
  <2>2. CASE Uncaught \/ PrintHelp \/ Return \/ (Unwinds /\ UNCHANGED builder)
    BY <1>1, <2>2 DEF Uncaught, PrintHelp, Return, Unwinds, Unwound, Gone, builder
  <2>3. CASE ReportUncaught
    BY <1>1, <2>3 DEF ReportUncaught, Gone, builder, parser
  <2> QED  BY <2>1, <2>2, <2>3
<1> QED  BY <1>3, LeftStep

LEMMA BuilderStep ==
  ASSUME CommandInv, Builder
  PROVE  CommandInv'
<1> DEFINE Built ==
            /\ stage = "building" /\ stage' \in {"building", "refused", "options"}
            /\ UNCHANGED << given, arguments >>
            /\ specs' = specs \/ \E spec \in Specs : specs' = Append(specs, spec)
<1>1. Built
  <2>1. ASSUME NEW option \in Candidates, AddOption(option)  PROVE Built
    BY <2>1 DEF AddOption, Register, parser, builder
  <2>2. CASE AddSubCommand
    BY <2>2 DEF AddSubCommand, Register, parser, builder
  <2>3. ASSUME NEW spec \in Specs, Expect(spec)  PROVE Built
    BY <2>3 DEF Expect, Register, parser, builder
  <2>4. CASE CallAfterParsing
    BY <2>4 DEF CallAfterParsing, Register, parser, builder
  <2>5. CASE Build
    BY <2>5 DEF Build, parser, builder
  <2> QED  BY <2>1, <2>2, <2>3, <2>4, <2>5 DEF Builder
<1>2. specs' \in Seq(Specs)
  BY <1>1, AppendProperties DEF CommandInv
<1>3. given' = << >>
  BY <1>1 DEF CommandInv
<1> QED  BY <1>1, <1>2, <1>3 DEF CommandInv

\* The parser reads on.
LEMMA ReadsOn ==
  ASSUME CommandInv, stage = "options", stage' = "options", arguments' \in Nat,
         UNCHANGED << specs, given >>
  PROVE  CommandInv'
  BY DEF CommandInv

LEMMA ParserStep ==
  ASSUME SpecsAssumption, CommandInv, Parser
  PROVE  CommandInv'
<1>1. arguments \in Nat
  BY DEF CommandInv
<1>2. ASSUME NEW name \in Registered, Flag(name)  PROVE CommandInv'
  <2>1. \/ \E message : ExitInfo(message)
        \/ UNCHANGED << stage, arguments, specs, given >>
        \/ UsageError \/ Uncaught \/ (Unwinds /\ UNCHANGED builder)
    BY <1>2 DEF Flag, Call, Reports, commandVars, parser, builder
  <2>2. stage = "options"
    BY <1>2 DEF Flag, Parsing
  <2> QED  BY <1>1, <2>1, <2>2, ReadsOn, Leaves
<1>3. ASSUME NEW name \in Registered, OptionWithArg(name)  PROVE CommandInv'
  <2>1. \/ UNCHANGED << stage, arguments, specs, given >>
        \/ UsageError \/ Uncaught \/ (Unwinds /\ UNCHANGED builder)
        \/ \E message : ExitInfo(message)
    BY <1>3 DEF OptionWithArg, Call, Reports, parser, builder
  <2>2. stage = "options"
    BY <1>3 DEF OptionWithArg, Parsing
  <2> QED  BY <1>1, <2>1, <2>2, ReadsOn, Leaves
<1>4. CASE BadOption
  BY <1>4, Leaves DEF BadOption
<1>5. CASE HelpOption
  BY <1>5, Leaves DEF HelpOption
<1>6. CASE Collect
  <2>1. /\ stage = "options" /\ stage' = "options" /\ arguments' = arguments + 1
        /\ UNCHANGED << specs, given >>
    BY <1>6 DEF Collect, Parsing, builder
  <2> QED  BY <1>1, <2>1, ReadsOn
<1>7. CASE SubCommand
  <2>1. /\ commands
        /\ \/ stage' = "returned" /\ UNCHANGED << specs, commands, arguments >>
           \/ UsageError \/ Uncaught \/ (Unwinds /\ UNCHANGED builder)
           \/ \E message : ExitInfo(message)
    BY <1>7 DEF SubCommand, Call, Reports, builder, parser
  <2>2. CASE stage' = "returned" /\ UNCHANGED << specs, commands, arguments >>
    BY <2>1, <2>2 DEF CommandInv
  <2> QED  BY <2>1, <2>2, Leaves
<1>8. CASE HelpCommand
  BY <1>8, Leaves DEF HelpCommand
<1>9. CASE UnknownCommand
  BY <1>9, Leaves DEF UnknownCommand
<1>10. CASE EndOfOptions
  <2>1. CASE UsageError
    BY <2>1, Leaves
  <2>2. CASE /\ stage = "options" /\ stage' = "arguments" /\ required' = SumMin
             /\ at' = [spec |-> 1, i |-> 0]
             /\ UNCHANGED << builder, arguments, given >>
    <3>1. specs \in Seq(Specs) /\ given = << >> /\ given' = << >> /\ specs' = specs
      BY <2>2 DEF CommandInv, builder
    <3>2. /\ Len(specs) \in Nat /\ DOMAIN specs = 1 .. Len(specs)
          /\ Limits(Len(specs), Least, Most)
          /\ SumMin = Sums(Least, Len(specs))[Len(specs)]
      BY <3>1, SpecsFacts
    <3>3. Least' = Least /\ Most' = Most
      BY <3>1 DEF Least, Most
    <3>4. Numbers(<< >>, Len(specs)) = [s \in 1 .. Len(specs) |-> 0]
      <4>1. DOMAIN << >> = {}
        OBVIOUS
      <4>2. \A s : {k \in DOMAIN << >> : << >>[k] = s} = {}
        BY <4>1
      <4>3. Cardinality({}) = 0
        BY FS_EmptySet
      <4> QED  BY <4>2, <4>3 DEF Numbers
    <3>5. Sharing(Len(specs), Least, Most, Numbers(<< >>, Len(specs)),
                  0, 1, 0, arguments, required')
      BY <1>1, <2>2, <3>2, <3>4, NothingShared
    <3>6. Len(given') = 0 /\ given' \in Seq(1 .. Len(specs))
      BY <3>1, EmptySeq
    <3>7. Handing'
      BY <2>2, <3>1, <3>3, <3>5, <3>6 DEF Handing, Ordered
    <3> QED  BY <2>2, <3>1, <3>7 DEF CommandInv, builder
  <2> QED  BY <1>10, <2>1, <2>2 DEF EndOfOptions, Parsing
<1> QED  BY <1>2, <1>3, <1>4, <1>5, <1>6, <1>7, <1>8, <1>9, <1>10 DEF Parser

LEMMA GiveStep ==
  ASSUME SpecsAssumption, CommandInv, NEW s \in DOMAIN specs,
         GiveRequired(s) \/ GiveExtra(s)
  PROVE  CommandInv'
<1>1. CASE \/ UsageError \/ Uncaught \/ (Unwinds /\ UNCHANGED builder)
           \/ \E message : ExitInfo(message)
  BY <1>1, Leaves
<1>2. CASE stage' = "crashed" /\ UNCHANGED << builder, parser >>
  BY <1>2 DEF CommandInv, builder, parser
<1> DEFINE n == Len(specs)
           t == Len(given)
           c == Numbers(given, n)
<1>3. /\ specs \in Seq(Specs) /\ DOMAIN specs = 1 .. n
      /\ arguments \in Nat /\ n \in Nat /\ s \in 1 .. n
      /\ Limits(n, Least, Most) /\ Least[s] = specs[s].min /\ Most[s] = specs[s].max
      /\ stage = "arguments" /\ at.spec = s /\ Handing
  BY SpecsFacts DEF CommandInv, GiveRequired, GiveExtra, Distributing
<1>4. /\ at \in [spec : Nat, i : Nat] /\ given \in Seq(1 .. n) /\ t \in Nat
      /\ Sharing(n, Least, Most, c, t, s, at.i, arguments, required)
      /\ t <= arguments
  BY <1>3, LenProperties DEF Handing, Ordered, Sharing
<1>5. ASSUME NEW one \in {0, 1},
             \/ one = 1 /\ at.i < specs[s].min /\ Left # 0
             \/ one = 0 /\ TakesExtra(s),
             stage' = "arguments",
             given' = Append(given, s), at' = [at EXCEPT !.i = @ + 1],
             required' = required - one,
             UNCHANGED << arguments, builder >>
      PROVE  CommandInv'
  <2>1. /\ t < arguments
        /\ \/ one = 1 /\ at.i < Least[s]
           \/ one = 0 /\ Least[s] <= at.i /\ at.i < Most[s] /\ required < arguments - t
    <3>1. CASE one = 1
      BY <1>3, <1>4, <1>5, <3>1 DEF Left
    <3>2. CASE one = 0
      <4>1. TakesExtra(s)
        BY <1>5, <3>2
      <4>2. at.i >= specs[s].min /\ at.i < specs[s].max /\ arguments - t > required
        BY <4>1 DEF TakesExtra, Left
      <4>3. required \in Nat /\ Least[s] \in Nat
        <5> HIDE DEF n, t, c
        <5>1. required \in Nat
          BY <1>3, <1>4, NeededFacts
        <5> QED  BY <1>3, <5>1 DEF Limits
      <4> HIDE DEF t, c
      <4> QED  BY <1>3, <1>4, <3>2, <4>2, <4>3
    <3> QED  BY <3>1, <3>2
  <2>2. Sharing(n, Least, Most, [c EXCEPT ![s] = @ + 1], t + 1, s, at.i + 1,
                arguments, required - one)
    <3> HIDE DEF c, n, t
    <3> QED  BY <1>3, <1>4, <2>1, OneMore
  <2>3. specs' = specs /\ Least' = Least /\ Most' = Most /\ commands' = commands
    BY <1>5 DEF builder, Least, Most
  <2>4. Numbers(given', n) = [c EXCEPT ![s] = @ + 1]
    <3>1. given' = Append(given, s)
      BY <1>5
    <3>2. n \in Nat /\ given \in Seq(1 .. n) /\ s \in 1 .. n
      BY <1>3, <1>4
    <3> HIDE DEF n
    <3> QED  BY <3>1, <3>2, CountsAppend
  <2>5. /\ given' \in Seq(1 .. n) /\ Len(given') = t + 1 /\ given'[t + 1] = s
        /\ \A k \in 1 .. t : given'[k] = given[k]
    BY <1>3, <1>4, <1>5, AppendProperties
  <2>6. at' \in [spec : Nat, i : Nat] /\ at'.spec = s /\ at'.i = at.i + 1
    BY <1>3, <1>4, <1>5
  <2>7. Ordered'
    <3>1. /\ \A k \in 2 .. t : given[k - 1] <= given[k]
          /\ \A k \in 1 .. t : given[k] <= s
      BY <1>3 DEF Handing, Ordered
    <3> HIDE DEF n, t
    <3>2. ASSUME NEW k \in 2 .. t + 1  PROVE given'[k - 1] <= given'[k]
      <4>1. CASE k = t + 1
        <5>1. k - 1 \in 1 .. t /\ k - 1 = t
          BY <1>4, <4>1
        <5> QED  BY <2>5, <3>1, <4>1, <5>1
      <4>2. CASE k # t + 1
        <5>1. k \in 2 .. t /\ k \in 1 .. t /\ k - 1 \in 1 .. t
          BY <1>4, <4>2
        <5> QED  BY <2>5, <3>1, <5>1
      <4> QED  BY <4>1, <4>2
    <3>3. ASSUME NEW k \in 1 .. t + 1  PROVE given'[k] <= s
      <4>1. CASE k = t + 1
        BY <1>3, <2>5, <4>1
      <4>2. CASE k # t + 1
        <5>1. k \in 1 .. t
          BY <1>4, <4>2
        <5> QED  BY <2>5, <3>1, <5>1
      <4> QED  BY <4>1, <4>2
    <3> QED  BY <2>3, <2>5, <2>6, <3>2, <3>3 DEF Ordered, n
  <2>8. Handing'
    BY <1>5, <2>2, <2>3, <2>4, <2>5, <2>6, <2>7 DEF Handing, builder
  <2> QED  BY <1>3, <1>5, <2>3, <2>8 DEF CommandInv
<1>6. CASE GiveRequired(s)
  <2>1. CASE at.i < specs[s].min /\ Left # 0 /\ Give(s, 1)
    BY <1>1, <1>2, <1>3, <1>5, <2>1 DEF Give, Call, Reports
  <2> QED  BY <1>1, <1>6, <2>1 DEF GiveRequired
<1>7. CASE GiveExtra(s)
  <2>1. TakesExtra(s) /\ Give(s, 0)
    BY <1>7 DEF GiveExtra
  <2> QED  BY <1>1, <1>2, <1>3, <1>5, <2>1 DEF Give, Call, Reports
<1> QED  BY <1>6, <1>7

LEMMA NextSpecStep ==
  ASSUME SpecsAssumption, CommandInv, NEW s \in DOMAIN specs, NextSpec(s)
  PROVE  CommandInv'
<1> DEFINE n == Len(specs)
           t == Len(given)
           c == Numbers(given, n)
<1>1. /\ specs \in Seq(Specs) /\ arguments \in Nat /\ n \in Nat /\ s \in 1 .. n
      /\ Limits(n, Least, Most) /\ Least[s] = specs[s].min /\ Most[s] = specs[s].max
      /\ stage = "arguments" /\ at.spec = s /\ Handing
  BY SpecsFacts DEF CommandInv, NextSpec, Distributing
<1>2. /\ at' = [spec |-> s + 1, i |-> 0]
      /\ UNCHANGED << stage, arguments, required, given, specs, commands >>
      /\ at.i >= specs[s].min /\ ~TakesExtra(s)
  BY DEF NextSpec, builder
<1>3. /\ at \in [spec : Nat, i : Nat] /\ t \in Nat
      /\ Sharing(n, Least, Most, c, t, s, at.i, arguments, required)
  BY <1>1, LenProperties DEF Handing, Ordered
<1>4. Least[s] <= at.i /\ (at.i < Most[s] => ~(arguments - t > required))
  BY <1>1, <1>2, <1>3 DEF TakesExtra, Left, Limits
<1>5. Sharing(n, Least, Most, c, t, s + 1, 0, arguments, required)
  <2> HIDE DEF n, t, c
  <2> QED  BY <1>1, <1>3, <1>4, Passed
<1>6. Least' = Least /\ Most' = Most
  BY <1>2 DEF Least, Most
<1>7. Ordered'
  <2>1. /\ given \in Seq(1 .. n) /\ \A k \in 2 .. t : given[k - 1] <= given[k]
        /\ \A k \in 1 .. t : given[k] <= s /\ given[k] \in 1 .. n
    BY <1>1, ElementOfSeq DEF Handing, Ordered
  <2>2. \A k \in 1 .. t : given[k] <= s + 1
    BY <1>1, <2>1
  <2>3. at'.spec = s + 1
    BY <1>2
  <2> QED  BY <1>2, <2>1, <2>2, <2>3 DEF Ordered
<1>8. at' \in [spec : Nat, i : Nat] /\ at'.spec = s + 1 /\ at'.i = 0
  BY <1>1, <1>2
<1>9. Handing'
  BY <1>2, <1>5, <1>6, <1>7, <1>8 DEF Handing
<1> QED  BY <1>1, <1>2, <1>9 DEF CommandInv

LEMMA EndStep ==
  ASSUME SpecsAssumption, CommandInv, EndOfArguments
  PROVE  CommandInv'
<1>1. CASE \/ UsageError \/ Uncaught \/ (Unwinds /\ UNCHANGED builder)
           \/ \E message : ExitInfo(message)
  BY <1>1, Leaves
<1>2. CASE Left <= 0 /\ stage' = "returned" /\ UNCHANGED << parser, builder >>
  <2>1. /\ specs \in Seq(Specs) /\ arguments \in Nat /\ stage = "arguments" /\ Handing
        /\ at.spec > Len(specs)
    BY DEF CommandInv, EndOfArguments
  <2>2. UNCHANGED << arguments, required, at, given, specs, commands >>
    BY <1>2 DEF parser, builder
  <2>3. Len(given) <= arguments /\ Len(given) \in Nat
    BY <2>1 DEF Handing, Sharing
  <2>4. Len(given) = arguments
    BY <1>2, <2>1, <2>3 DEF Left
  <2>5. Least' = Least /\ Most' = Most /\ Ordered' = Ordered
    BY <2>2 DEF Least, Most, Ordered
  <2>6. Handing'
    BY <2>1, <2>2, <2>5 DEF Handing
  <2> QED  BY <1>2, <2>1, <2>2, <2>4, <2>6 DEF CommandInv
<1>3. Len(given) \in Nat /\ arguments \in Nat
  BY DEF CommandInv, EndOfArguments, Handing, Sharing
<1>4. ~(Left > 0) => Left <= 0
  BY <1>3 DEF Left
<1> QED  BY <1>1, <1>2, <1>4 DEF EndOfArguments, Call, Reports

LEMMA CommandNextInv == SpecsAssumption /\ CommandInv /\ [CommandNext]_commandVars => CommandInv'
<1> SUFFICES ASSUME SpecsAssumption, CommandInv, [CommandNext]_commandVars  PROVE CommandInv'
  OBVIOUS
<1>1. CASE Builder
  BY <1>1, BuilderStep
<1>2. CASE Parser
  BY <1>2, ParserStep
<1>3. ASSUME NEW s \in DOMAIN specs, GiveRequired(s) \/ GiveExtra(s)  PROVE CommandInv'
  BY <1>3, GiveStep
<1>4. ASSUME NEW s \in DOMAIN specs, NextSpec(s)  PROVE CommandInv'
  BY <1>4, NextSpecStep
<1>5. CASE EndOfArguments
  BY <1>5, EndStep
<1>6. CASE Ending
  BY <1>6, Leaves DEF Ending
<1>7. CASE UNCHANGED commandVars
  <2>1. UNCHANGED << stage, specs, commands, arguments, required, at, given >>
    BY <1>7 DEF commandVars
  <2>2. Least' = Least /\ Most' = Most /\ Ordered' = Ordered
    BY <2>1 DEF Least, Most, Ordered
  <2>3. Handing' = Handing
    BY <2>1, <2>2 DEF Handing
  <2> QED  BY <2>1, <2>3 DEF CommandInv
<1> QED
  BY <1>1, <1>2, <1>3, <1>4, <1>5, <1>6, <1>7 DEF CommandNext, Distribution

LEMMA CommandInitInv == CommandInit => CommandInv
<1> SUFFICES ASSUME CommandInit  PROVE CommandInv
  OBVIOUS
<1>1. specs \in Seq(Specs)
  BY EmptySeq DEF CommandInit
<1> QED  BY <1>1 DEF CommandInit, CommandInv

LEMMA SharesFit ==
  ASSUME SpecsAssumption, specs \in Seq(Specs), NEW m \in Nat
  PROVE  /\ \A c \in Shares(m) : Fits(c, m, Least, Most, Len(specs))
         /\ \A c \in [1 .. Len(specs) -> 0 .. m] :
               Fits(c, m, Least, Most, Len(specs)) => c \in Shares(m)
<1> DEFINE n == Len(specs)
<1>1. /\ n \in Nat /\ DOMAIN specs = 1 .. n /\ Limits(n, Least, Most)
      /\ \A s \in 1 .. n : Least[s] = specs[s].min /\ Most[s] = specs[s].max
  BY SpecsFacts
<1>2. ASSUME NEW c \in Shares(m)  PROVE Fits(c, m, Least, Most, n)
  <2>1. /\ c \in [1 .. n -> 0 .. m] /\ Total(c) = m
        /\ \A s \in 1 .. n : Least[s] <= c[s] /\ c[s] <= Most[s]
    BY <1>1 DEF Shares
  <2>2. c \in [1 .. n -> Int]
    BY <2>1
  <2> HIDE DEF n
  <2>3. Sums(c, n)[n] = m
    BY <1>1, <2>1, <2>2, TotalIsSum
  <2> QED  BY <2>1, <2>2, <2>3 DEF Fits
<1>3. ASSUME NEW c \in [1 .. n -> 0 .. m], Fits(c, m, Least, Most, n)
      PROVE  c \in Shares(m)
  <2>1. c \in [1 .. n -> Int]
    OBVIOUS
  <2> HIDE DEF n
  <2>2. Total(c) = m
    BY <1>1, <1>3, <2>1, TotalIsSum DEF Fits
  <2> QED  BY <1>1, <1>3, <2>2 DEF Shares, Fits
<1> QED  BY <1>2, <1>3

LEMMA NumbersFacts ==
  ASSUME NEW n \in Nat, NEW t \in Seq(1 .. n)
  PROVE  Numbers(t, n) \in [1 .. n -> 0 .. Len(t)]
<1> SUFFICES ASSUME NEW s \in 1 .. n
             PROVE  Cardinality({k \in DOMAIN t : t[k] = s}) \in 0 .. Len(t)
  BY DEF Numbers
<1> DEFINE S == {k \in DOMAIN t : t[k] = s}
<1>1. DOMAIN t = 1 .. Len(t) /\ Len(t) \in Nat
  BY LenProperties
<1>2. IsFiniteSet(1 .. Len(t)) /\ Cardinality(1 .. Len(t)) = Len(t)
  <2> DEFINE m == Len(t)
  <2>1. m \in Nat /\ m \in Int /\ 1 \in Int
    BY <1>1
  <2> HIDE DEF m
  <2>2. IsFiniteSet(1 .. m)
    BY <2>1, FS_Interval
  <2>3. Cardinality(1 .. m) = m
    BY <2>1, FS_Interval
  <2> QED  BY <2>2, <2>3 DEF m
<1>3. S \subseteq 1 .. Len(t)
  BY <1>1
<1> HIDE DEF S
<1>4. Cardinality(S) \in Nat /\ Cardinality(S) <= Len(t)
  BY <1>2, <1>3, FS_Subset, FS_CardinalityType
<1> QED  BY <1>1, <1>4 DEF S

LEMMA CommandInvEnough ==
  ASSUME SpecsAssumption, CommandInv
  PROVE  Distributed
<1> DEFINE n == Len(specs)
           c == Counts
<1>1. /\ specs \in Seq(Specs) /\ arguments \in Nat /\ n \in Nat /\ DOMAIN specs = 1 .. n
      /\ Limits(n, Least, Most)
      /\ \A s \in 1 .. n : Least[s] = specs[s].min /\ Most[s] = specs[s].max
  BY SpecsFacts DEF CommandInv
<1>2. c = Numbers(given, n)
  <2> DEFINE Of(D) == [s \in D |-> Cardinality({k \in DOMAIN given : given[k] = s})]
  <2>1. c = Of(DOMAIN specs)
    BY DEF Counts
  <2>2. Numbers(given, n) = Of(1 .. n)
    BY DEF Numbers
  <2> HIDE DEF Of
  <2> QED  BY <1>1, <2>1, <2>2
<1>3. \A m \in Nat : \A d \in Shares(m) : Fits(d, m, Least, Most, n)
  BY <1>1, SharesFit
<1> HIDE DEF n, c
<1>4. Least \in [1 .. n -> Int] /\ Most \in [1 .. n -> Int]
  BY <1>1 DEF Limits
<1>5. ASSUME stage = "returned", ~commands
      PROVE  /\ \A k \in 2 .. Len(given) : given[k - 1] <= given[k]
             /\ c \in Shares(arguments)
             /\ \A d \in Shares(arguments), s \in DOMAIN specs :
                   d[s] > c[s] => \E r \in 1 .. s - 1 : d[r] < c[r]
  <2>1. Handing /\ at.spec > n /\ Len(given) = arguments
    BY <1>5 DEF CommandInv, n
  <2>2. /\ given \in Seq(1 .. n) /\ \A k \in 2 .. Len(given) : given[k - 1] <= given[k]
        /\ Sharing(n, Least, Most, c, arguments, at.spec, at.i, arguments, required)
    BY <1>2, <2>1 DEF Handing, Ordered, n
  <2>3. c \in [1 .. n -> 0 .. arguments]
    BY <1>1, <1>2, <2>1, <2>2, NumbersFacts
  <2>4. /\ c \in [1 .. n -> Int] /\ Fits(c, arguments, Least, Most, n)
        /\ \A r \in 1 .. n : Filled(c, arguments, Least, Most, n, r)
    <3>1. c \in [1 .. n -> Int]
      BY <2>3
    <3>2. \A r \in 1 .. n : r < at.spec
      BY <1>1, <2>1, <2>2 DEF Sharing
    <3> QED  BY <2>2, <3>1, <3>2 DEF Sharing, Fits
  <2>5. c \in Shares(arguments)
    BY <1>1, <2>3, <2>4, SharesFit DEF n
  <2>6. ASSUME NEW d \in Shares(arguments), NEW s \in 1 .. n, d[s] > c[s]
        PROVE  \E r \in 1 .. s - 1 : d[r] < c[r]
    <3>1. Fits(d, arguments, Least, Most, n)
      BY <1>1, <1>3
    <3>2. arguments \in Int /\ n \in Nat /\ Limits(n, Least, Most)
      BY <1>1
    <3> QED  BY <1>4, <2>4, <2>6, <3>1, <3>2, FirstGetMost
  <2> QED  BY <1>1, <2>2, <2>5, <2>6
<1>6. ASSUME stage = "arguments", TooMany \/ TooFew, NEW d \in Shares(arguments)
      PROVE  FALSE
  <2>1. Handing
    BY <1>6 DEF CommandInv
  <2> DEFINE t == Len(given)
  <2>2. /\ at \in [spec : Nat, i : Nat] /\ t \in Nat
        /\ Sharing(n, Least, Most, c, t, at.spec, at.i, arguments, required)
    BY <1>2, <2>1, LenProperties DEF Handing, Ordered, n
  <2>3. /\ c \in [1 .. n -> Nat] /\ c \in [1 .. n -> Int] /\ Sums(c, n)[n] = t
        /\ at.spec \in 1 .. n + 1
    BY <2>2 DEF Sharing
  <2>4. Fits(d, arguments, Least, Most, n)
    BY <1>1, <1>3
  <2>5. CASE TooMany
    <3>1. at.spec > n /\ t < arguments
      BY <1>1, <2>2, <2>5 DEF TooMany, Left, n
    <3> HIDE DEF t
    <3>2. \A r \in 1 .. n : Least[r] <= c[r] /\ Filled(c, arguments, Least, Most, n, r)
      <4>1. \A r \in 1 .. n : r < at.spec
        BY <1>1, <2>2, <3>1
      <4> QED  BY <2>2, <4>1 DEF Sharing
    <3>3. Sums(c, n)[n] < arguments /\ arguments \in Int
      BY <1>1, <2>3, <3>1
    <3> QED  BY <1>1, <1>4, <2>3, <2>4, <3>2, <3>3, TooManyForAll
  <2>6. CASE TooFew
    <3>1. at.spec <= n /\ at.i < Least[at.spec] /\ t = arguments /\ at.spec \in 1 .. n
      <4>1. at.spec <= n /\ at.spec \in 1 .. n
        BY <1>1, <2>3, <2>6 DEF TooFew, n
      <4>2. at.i < Least[at.spec]
        BY <1>1, <2>6, <4>1 DEF TooFew
      <4>3. t = arguments
        BY <1>1, <2>2, <2>6 DEF TooFew, Left
      <4> QED  BY <4>1, <4>2, <4>3
    <3> HIDE DEF t
    <3>2. required \in Nat /\ required > 0
      BY <1>1, <2>2, <3>1, NeededFacts
    <3>3. \A r \in 1 .. n : c[r] <= Least[r]
      <4>1. arguments - t = 0
        BY <1>1, <3>1
      <4>2. ~(required <= arguments - t)
        BY <3>2, <4>1
      <4>3. \A r \in 1 .. n : ~(c[r] > Least[r])
        BY <2>2, <4>2 DEF Sharing
      <4>4. \A r \in 1 .. n : c[r] \in Int /\ Least[r] \in Int
        BY <1>4, <2>3
      <4> QED  BY <4>3, <4>4
    <3>4. c[at.spec] = at.i
      BY <2>2, <3>1 DEF Sharing
    <3>5. Sums(c, n)[n] = arguments /\ arguments \in Int
      BY <1>1, <2>3, <3>1
    <3> QED  BY <1>1, <1>4, <2>3, <2>4, <3>1, <3>3, <3>4, <3>5, TooFewForAll
  <2> QED  BY <1>6, <2>5, <2>6
<1> QED  BY <1>5, <1>6 DEF Distributed, c

\* main.h:368-372, main.cpp:488-533: the arguments are handed out in order, all of them, each
\* handler within its limits and the first ones served first; and arguments are refused
\* for being too few or too many only if there is no way to share them, whatever
\* handlers are registered and however many arguments there are.
THEOREM ArgumentsAlwaysShared == CommandSpec => []Distributed
<1>1. CommandInit => CommandInv
  BY CommandInitInv
<1>2. CommandInv /\ [CommandNext]_commandVars => CommandInv'
  BY SpecsAssumption, CommandNextInv
<1>3. CommandInv => Distributed
  BY SpecsAssumption, CommandInvEnough
<1> QED  BY <1>1, <1>2, <1>3, PTL DEF CommandSpec

-----------------------------------------------------------------------------
(* The exit code: while the program goes on, hadErrors is set just if       *)
(* something went wrong, and then stderr has a word of it; an exception is  *)
(* on its way because something went wrong, or of a clean exit().           *)

Going == {"building", "refused", "options", "arguments", "returned", "help", "crashed"}

ContextInv ==
    /\ {clean, hadErrors, trouble, onStderr} \subseteq BOOLEAN
    /\ stage \in Going => (trouble = hadErrors) /\ (hadErrors => onStderr)
    /\ stage = "thrown" => (hadErrors => trouble) /\ (trouble \/ clean)
    /\ stage = "reported" => hadErrors /\ onStderr /\ (trouble \/ clean)
    /\ ExitCodeTells

\* What a step of the running program does to its context.
Undisturbed == stage' \in Going /\ UNCHANGED << clean, context >>

Reported ==
    /\ hadErrors' = TRUE /\ trouble' = TRUE
    /\ \E n \in 0 .. 2 :
          /\ onStderr' = (onStderr \/ n > 0)
          /\ stage' = "thrown" \/ (n = 2 /\ stage' \in Going)
    /\ UNCHANGED << clean, code >>

LEMMA CallsOfWrite ==
    /\ WriteCalls("no line end") = 2
    /\ "line" \in Messages /\ "no line end" \in Messages
    /\ \A message \in Messages : WriteCalls(message) \in Nat
<1>1. WriteCalls("no line end") = 2
  BY DEF WriteCalls
<1>2. \A message \in Messages : WriteCalls(message) \in {0, 1, 2}
  BY Zenon DEF WriteCalls, Messages
<1>3. ASSUME NEW message \in Messages  PROVE WriteCalls(message) \in Nat
  <2>1. WriteCalls(message) \in {0, 1, 2}
    BY <1>2, Zenon
  <2> HIDE <1>1, <1>2
  <2> QED  BY <2>1
<1>4. "line" \in Messages /\ "no line end" \in Messages
  BY Zenon DEF Messages
<1> QED  BY <1>1, <1>3, <1>4, Zenon

LEMMA FewerCalls ==
  ASSUME NEW calls \in Nat, NEW n \in 0 .. calls
  PROVE  n < calls <=> n # calls
  OBVIOUS

LEMMA Written ==
  ASSUME NEW before \in BOOLEAN, NEW after, NEW n \in 0 .. 2, after = (before \/ n > 0)
  PROVE  after \in BOOLEAN /\ (n = 2 => after = TRUE)
<1>1. CASE n > 0
  BY <1>1, Zenon
<1>2. CASE ~(n > 0)
  <2>1. after = before
    BY <1>2, Zenon
  <2> QED  BY <1>2, <2>1
<1> QED  BY <1>1, <1>2

LEMMA ContextStep ==
  ASSUME ContextInv, stage \in Going,
         \/ Undisturbed \/ Reported \/ UsageError \/ Uncaught
         \/ \E message \in Messages : ExitInfo(message)
  PROVE  ContextInv'
<1> USE DEF ContextInv, ExitCodeTells, Going
<1>1. CASE Undisturbed
  BY <1>1 DEF Undisturbed, context
<1>2. CASE Reported
  <2>1. PICK n \in 0 .. 2 :
           /\ onStderr' = (onStderr \/ n > 0)
           /\ stage' = "thrown" \/ (n = 2 /\ stage' \in Going)
    BY <1>2 DEF Reported
  <2>2. onStderr' \in BOOLEAN /\ (n = 2 => onStderr' = TRUE)
    BY <2>1, Written
  <2>3. hadErrors' = TRUE /\ trouble' = TRUE /\ clean' = clean
    BY <1>2 DEF Reported
  <2> QED  BY <2>1, <2>2, <2>3
<1>3. CASE UsageError
  <2>1. PICK n \in 0 .. 2 :
           onStderr' = (onStderr \/ n > 0) /\ ExitBehind(n = 2)
    BY <1>3, CallsOfWrite DEF UsageError
  <2>2. /\ hadErrors' = TRUE /\ trouble' = TRUE /\ clean' = clean
        /\ \/ n = 2 /\ stage' = "exited" /\ code' = 1
           \/ stage' = "thrown"
    BY <1>3, <2>1 DEF UsageError, ExitBehind, ExitCode, Unwinds
  <2>3. onStderr' \in BOOLEAN /\ (n = 2 => onStderr' = TRUE)
    BY <2>1, Written
  <2> QED  BY <2>2, <2>3
<1>4. CASE Uncaught
  BY <1>4 DEF Uncaught, Unwinds
<1>5. ASSUME NEW message \in Messages, ExitInfo(message)
      PROVE  ContextInv'
  <2>1. PICK n \in 0 .. WriteCalls(message) :
           /\ trouble' = (trouble \/ n < WriteCalls(message))
           /\ ExitBehind(n = WriteCalls(message))
    BY <1>5 DEF ExitInfo
  <2>2. UNCHANGED << hadErrors, onStderr, clean >>
    BY <1>5, <2>1 DEF ExitInfo, ExitBehind
  <2>3. n < WriteCalls(message) <=> n # WriteCalls(message)
    BY <1>5, <2>1, CallsOfWrite, FewerCalls
  <2>4. \/ n = WriteCalls(message) /\ stage' = "exited" /\ code' = IF hadErrors THEN 1 ELSE 0
        \/ (n # WriteCalls(message) \/ clean) /\ stage' = "thrown"
    BY <2>1, <2>2 DEF ExitBehind, ExitCode, Unwinds
  <2>5. CASE n = WriteCalls(message)
    <3>1. trouble' = trouble
      <4>1. trouble' = (trouble \/ FALSE)
        BY <2>1, <2>3, <2>5, Zenon
      <4> QED  BY <4>1
    <3>2. CASE stage' = "exited" /\ code' = IF hadErrors THEN 1 ELSE 0
      <4>1. hadErrors => trouble /\ onStderr
        OBVIOUS
      <4>2. trouble => hadErrors
        OBVIOUS
      <4> QED  BY <2>2, <3>1, <3>2, <4>1, <4>2
    <3>3. CASE clean /\ stage' = "thrown"
      BY <2>2, <3>1, <3>3
    <3> QED  BY <2>4, <2>5, <3>2, <3>3
  <2>6. CASE n # WriteCalls(message)
    <3>1. trouble' = TRUE
      BY <2>1, <2>3, <2>6, Zenon
    <3>2. stage' = "thrown"
      BY <2>4, <2>6
    <3> QED  BY <2>2, <3>1, <3>2
  <2> QED  BY <2>5, <2>6
<1> QED  BY <1>1, <1>2, <1>3, <1>4, <1>5

\* Every step of the running program is one of these.
LEMMA RunningStep ==
  ASSUME Builder \/ Parser \/ Distribution
  PROVE  /\ stage \in Going
         /\ \/ Undisturbed \/ Reported \/ UsageError \/ Uncaught
            \/ \E message \in Messages : ExitInfo(message)
<1> USE DEF Going, Undisturbed
<1>1. CASE Builder
  BY <1>1 DEF Builder, AddOption, AddSubCommand, Expect, CallAfterParsing, Build, Register
<1>2. ASSUME NEW name \in Registered, Flag(name) \/ OptionWithArg(name)
      PROVE  /\ stage \in Going
             /\ \/ Undisturbed \/ Reported \/ UsageError \/ Uncaught
                \/ \E message \in Messages : ExitInfo(message)
  <2>1. CASE Flag(name)
    BY <2>1, CallsOfWrite DEF Flag, Parsing, Call, Reports, Reported, Unwinds, commandVars, context
  <2>2. CASE OptionWithArg(name)
    BY <2>2, CallsOfWrite DEF OptionWithArg, Parsing, Call, Reports, Reported, Unwinds
  <2> QED  BY <1>2, <2>1, <2>2
<1>3. CASE BadOption \/ HelpOption \/ Collect \/ UnknownCommand \/ EndOfOptions
  BY <1>3 DEF BadOption, HelpOption, Collect, UnknownCommand, EndOfOptions, Parsing, PrintHelp
<1>4. CASE SubCommand \/ HelpCommand
  BY <1>4, CallsOfWrite DEF SubCommand, HelpCommand, Parsing, Call, Reports, Reported, Unwinds, PrintHelp
<1>5. ASSUME NEW s \in DOMAIN specs, GiveRequired(s) \/ GiveExtra(s) \/ NextSpec(s)
      PROVE  /\ stage \in Going
             /\ \/ Undisturbed \/ Reported \/ UsageError \/ Uncaught
                \/ \E message \in Messages : ExitInfo(message)
  BY <1>5, CallsOfWrite DEF GiveRequired, GiveExtra, NextSpec, Distributing, Give, Call, Reports, Reported,
              Unwinds
<1>6. CASE EndOfArguments
  BY <1>6, CallsOfWrite DEF EndOfArguments, Call, Reports, Reported, Unwinds
<1>7. CASE Parser
  BY <1>2, <1>3, <1>4, <1>7 DEF Parser
<1>8. CASE Distribution
  BY <1>5, <1>6, <1>8 DEF Distribution
<1> QED  BY <1>1, <1>7, <1>8

\* main.h:112-114, main.cpp:47-130: what went wrong is told by the exit code, however
\* long before the end it was and whichever of the calls of WriteFile failed; an exit
\* code 1 comes with a word on stderr, and without KJ_CLEAN_SHUTDOWN it comes only if
\* something went wrong.
THEOREM ExitCodeAlwaysTells == CommandSpec => []ExitCodeTells
<1>1. CommandInit => ContextInv
  BY DEF CommandInit, ContextInv, ExitCodeTells, Going
<1>2. ContextInv /\ [CommandNext]_commandVars => ContextInv'
  <2> SUFFICES ASSUME ContextInv, [CommandNext]_commandVars  PROVE ContextInv'
    OBVIOUS
  <2>1. CASE Builder \/ Parser \/ Distribution
    BY <2>1, RunningStep, ContextStep
  <2>2. CASE ShowHelp
    BY <2>2, CallsOfWrite, ContextStep DEF ShowHelp, Going
  <2>3. CASE ReportUncaught
    <3>1. PICK n \in 0 .. 2 :
             /\ onStderr' = (onStderr \/ n > 0)
             /\ stage' = IF n = 2 THEN "reported" ELSE "terminated"
      BY <2>3, CallsOfWrite DEF ReportUncaught
    <3>2. stage = "thrown" /\ hadErrors' = TRUE /\ UNCHANGED << clean, trouble >>
      BY <2>3 DEF ReportUncaught
    <3> QED  BY <3>1, <3>2 DEF ContextInv, ExitCodeTells, Going
  <2>4. CASE Return
    BY <2>4 DEF Return, ExitCode, ContextInv, ExitCodeTells, Going
  <2>5. CASE UNCHANGED commandVars
    BY <2>5 DEF commandVars, ContextInv, ExitCodeTells
  <2> QED  BY <2>1, <2>2, <2>3, <2>4, <2>5 DEF CommandNext, Ending
<1>3. ContextInv => ExitCodeTells
  BY DEF ContextInv
<1> QED  BY <1>1, <1>2, <1>3, PTL DEF CommandSpec
=============================================================================
