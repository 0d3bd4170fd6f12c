--------------------------- MODULE PromisesProofs ---------------------------
(***************************************************************************)
(* Promises on one event queue, for any number of pairs and of tasks.      *)
(*                                                                         *)
(* Fulfillers: the two-sided deletion of a WeakFulfiller is right, and the *)
(* first word said to one is what the consumer hears.  The deletion does   *)
(* not depend on the event queue, so the first proof leaves it alone; the  *)
(* second needs that nothing is queued but consumers whose promise is      *)
(* settled.                                                                *)
(*                                                                         *)
(* Nobody is forgotten: a consumer whose promise is settled is queued      *)
(* until it has the result; the cell says which of the two came first.     *)
(*                                                                         *)
(* Chains: nodes have one owner each and chains stay short.  A chain that  *)
(* has become its inner promise owns a leaf or a chain in its first step,  *)
(* never one like itself, so a path through the heap is one step long; the *)
(* proof follows one promise to its new place, whatever it is.             *)
(*                                                                         *)
(* Tasks: an error handler hears of a failure once, and no event outlives  *)
(* the loop.  Destroying a promise may destroy or add other tasks, so the  *)
(* proof follows the world from one destruction to the next; it needs that *)
(* what is queued is in a set, with a promise that is ready.               *)
(***************************************************************************)
EXTENDS MCPromises, SequenceTheorems, FiniteSetTheorems, TLAPS

-----------------------------------------------------------------------------
(* Fulfillers.                                                             *)

Types == promise \in [Pair -> PromiseType] /\ wrapper \in [Pair -> WrapperType]

\* The adapter is made together with the wrapper, and nobody owns it before.
BornTogether ==
    \A p \in Pair :
        /\ promise[p].state = "unborn" <=> wrapper[p].state = "unborn"
        /\ wrapper[p].state = "unborn" => ~wrapper[p].owned

Inv == Types /\ BornTogether /\ DeletedByTheLast

LEMMA InitInv == Init => Inv
  BY DEF Init, Inv, Types, PromiseType, WrapperType, Outcomes, BornTogether,
         DeletedByTheLast, Alive

\* What a function is after the update of one of its values.
LEMMA Update ==
  ASSUME NEW S, NEW T, NEW f \in [S -> T], NEW s \in S, NEW v \in T
  PROVE  /\ [f EXCEPT ![s] = v] \in [S -> T]
         /\ [f EXCEPT ![s] = v][s] = v
         /\ \A r \in S \ {s} : [f EXCEPT ![s] = v][r] = f[r]
  OBVIOUS

\* What Settle makes of the promise: it leaves its state alone.
LEMMA SettleFacts ==
  ASSUME Types, NEW p \in Pair, NEW outcome \in Outcomes, NEW q,
         Settle(p, outcome, q)
  PROVE  /\ promise' \in [Pair -> PromiseType]
         /\ \A r \in Pair : promise'[r].state = promise[r].state
<1>1. promise[p] \in PromiseType
  BY DEF Types
<1>2. CASE promise[p].waiting
  <2> DEFINE c == Q!ArmCell(promise[p].cell)
             v == [promise[p] EXCEPT !.waiting = FALSE, !.result = outcome, !.cell = c]
  <2>1. c \in Pair \cup {None, AlreadyReady}
    BY <1>1 DEF Q!ArmCell, PromiseType
  <2>2. promise' = [promise EXCEPT ![p] = v]
    BY <1>2 DEF Settle
  <2>3. v \in PromiseType /\ v.state = promise[p].state
    <3> HIDE DEF c
    <3> QED  BY <1>1, <2>1 DEF PromiseType
  <2> HIDE DEF v
  <2> QED
    BY <2>2, <2>3, Update DEF Types
<1>3. CASE ~promise[p].waiting
  BY <1>3 DEF Settle, Types
<1> QED
  BY <1>2, <1>3

\* One step of one pair: what has to hold of the pair for Inv to go on.
LEMMA StepOfPair ==
  ASSUME Inv, NEW p \in Pair,
         promise' \in [Pair -> PromiseType], wrapper' \in [Pair -> WrapperType],
         \A r \in Pair \ {p} : /\ promise'[r].state = promise[r].state
                               /\ wrapper'[r] = wrapper[r],
         promise'[p].state = "unborn" <=> wrapper'[p].state = "unborn",
         wrapper'[p].state = "unborn" => ~wrapper'[p].owned,
         wrapper'[p].state # "unborn" =>
            (wrapper'[p].state = "alive"
                <=> wrapper'[p].owned \/ promise'[p].state = "alive"),
         wrapper'[p].inner <=> wrapper'[p].owned /\ promise'[p].state = "alive"
  PROVE  Inv'
  BY DEF Inv, Types, BornTogether, DeletedByTheLast, Alive

\* A step that moves neither the states nor the pointers of the wrappers.
LEMMA QuietStep ==
  ASSUME Inv,
         promise' \in [Pair -> PromiseType], wrapper' \in [Pair -> WrapperType],
         \A r \in Pair : /\ promise'[r].state = promise[r].state
                         /\ wrapper'[r].state = wrapper[r].state
                         /\ wrapper'[r].owned = wrapper[r].owned
                         /\ wrapper'[r].inner = wrapper[r].inner
  PROVE  Inv'
<1>1. \A r \in Pair : Alive(r)' <=> Alive(r)
  BY DEF Alive
<1>2. BornTogether'
  BY DEF Inv, BornTogether
<1>3. DeletedByTheLast'
  BY <1>1 DEF Inv, DeletedByTheLast
<1> QED
  BY <1>2, <1>3 DEF Inv, Types

\* What Inv says of one pair.
LEMMA InvOfPair ==
  ASSUME Inv, NEW p \in Pair
  PROVE  /\ promise[p] \in PromiseType /\ wrapper[p] \in WrapperType
         /\ promise[p].state = "unborn" <=> wrapper[p].state = "unborn"
         /\ wrapper[p].state = "unborn" => ~wrapper[p].owned
         /\ wrapper[p].state # "unborn" =>
               (wrapper[p].state = "alive"
                  <=> wrapper[p].owned \/ promise[p].state = "alive")
         /\ wrapper[p].inner <=> wrapper[p].owned /\ promise[p].state = "alive"
<1>1. promise[p] \in PromiseType /\ wrapper[p] \in WrapperType
  BY DEF Inv, Types
<1>2. /\ promise[p].state = "unborn" <=> wrapper[p].state = "unborn"
      /\ wrapper[p].state = "unborn" => ~wrapper[p].owned
  BY DEF Inv, BornTogether
<1>3. wrapper[p].state # "unborn" =>
         (wrapper[p].state = "alive" <=> wrapper[p].owned \/ promise[p].state = "alive")
  BY DEF Inv, DeletedByTheLast, Alive
<1>4. wrapper[p].inner <=> wrapper[p].owned /\ promise[p].state = "alive"
  BY DEF Inv, DeletedByTheLast, Alive
<1> QED
  BY <1>1, <1>2, <1>3, <1>4

LEMMA NextInv == Inv /\ [Next]_vars => Inv'
<1> SUFFICES ASSUME Inv, [Next]_vars  PROVE Inv'
  OBVIOUS
<1>0. Types /\ promise \in [Pair -> PromiseType] /\ wrapper \in [Pair -> WrapperType]
  BY DEF Inv, Types
<1>1. ASSUME NEW p \in Pair, Make(p)  PROVE Inv'
  <2> DEFINE v == [promise[p] EXCEPT !.state = "alive", !.waiting = TRUE]
             w == [wrapper[p] EXCEPT !.state = "alive", !.owned = TRUE, !.inner = TRUE]
  <2>1. promise' = [promise EXCEPT ![p] = v] /\ wrapper' = [wrapper EXCEPT ![p] = w]
    BY <1>1 DEF Make
  <2>2. v \in PromiseType /\ v.state = "alive"
    BY InvOfPair DEF PromiseType
  <2>3. w \in WrapperType /\ w.state = "alive" /\ w.owned = TRUE /\ w.inner = TRUE
    BY InvOfPair DEF WrapperType
  <2> HIDE DEF v, w
  <2>4. /\ promise' \in [Pair -> PromiseType] /\ promise'[p] = v
        /\ \A r \in Pair \ {p} : promise'[r] = promise[r]
    BY <1>0, <2>1, <2>2, Update
  <2>5. /\ wrapper' \in [Pair -> WrapperType] /\ wrapper'[p] = w
        /\ \A r \in Pair \ {p} : wrapper'[r] = wrapper[r]
    BY <1>0, <2>1, <2>3, Update
  <2> QED
    BY <2>2, <2>3, <2>4, <2>5, StepOfPair
<1>2. ASSUME NEW p \in Pair, NEW outcome \in {"value", "exception"}, Tell(p, outcome)
      PROVE  Inv'
  <2> DEFINE w == [wrapper[p] EXCEPT !.first = IF @ = None THEN outcome ELSE @]
  <2>1. /\ promise' \in [Pair -> PromiseType]
        /\ \A r \in Pair : promise'[r].state = promise[r].state
    <3>1. CASE wrapper[p].inner
      BY <1>0, <1>2, <3>1, SettleFacts DEF Tell, Outcomes
    <3>2. CASE ~wrapper[p].inner
      BY <1>0, <1>2, <3>2 DEF Tell
    <3> QED  BY <3>1, <3>2
  <2>2. wrapper' = [wrapper EXCEPT ![p] = w]
    BY <1>2 DEF Tell
  <2>3. /\ w \in WrapperType /\ w.state = wrapper[p].state
        /\ w.owned = wrapper[p].owned /\ w.inner = wrapper[p].inner
    <3> DEFINE f == IF wrapper[p].first = None THEN outcome ELSE wrapper[p].first
    <3>1. f \in Outcomes \cup {None}
      BY InvOfPair DEF WrapperType, Outcomes
    <3>2. w = [wrapper[p] EXCEPT !.first = f]
      OBVIOUS
    <3> HIDE DEF f, w
    <3> QED  BY <3>1, <3>2, InvOfPair DEF WrapperType
  <2> HIDE DEF w
  <2>4. /\ wrapper' \in [Pair -> WrapperType] /\ wrapper'[p] = w
        /\ \A r \in Pair \ {p} : wrapper'[r] = wrapper[r]
    BY <1>0, <2>2, <2>3, Update
  <2> QED
    BY <2>1, <2>3, <2>4, QuietStep
<1>3. ASSUME NEW p \in Pair, Discard(p)  PROVE Inv'
  <2> DEFINE s == IF wrapper[p].inner THEN wrapper[p].state ELSE "deleted"
             f == IF wrapper[p].first = None THEN "discarded" ELSE wrapper[p].first
             w == [wrapper[p] EXCEPT !.owned = FALSE, !.state = s,
                                     !.inner = FALSE, !.first = f]
  <2>1. /\ promise' \in [Pair -> PromiseType]
        /\ \A r \in Pair : promise'[r].state = promise[r].state
    <3>1. CASE wrapper[p].inner
      BY <1>0, <1>3, <3>1, SettleFacts DEF Discard, Outcomes
    <3>2. CASE ~wrapper[p].inner
      BY <1>0, <1>3, <3>2 DEF Discard
    <3> QED  BY <3>1, <3>2
  <2>2. wrapper' = [wrapper EXCEPT ![p] = w]
    BY <1>3 DEF Discard
  <2>3. f \in Outcomes \cup {None} /\ s \in {"unborn", "alive", "deleted"}
    BY InvOfPair DEF WrapperType, Outcomes
  <2>4. w \in WrapperType /\ w.owned = FALSE /\ w.state = s /\ w.inner = FALSE
    <3> HIDE DEF f, s
    <3> QED  BY <2>3, InvOfPair DEF WrapperType
  <2> HIDE DEF w
  <2>5. /\ wrapper' \in [Pair -> WrapperType] /\ wrapper'[p] = w
        /\ \A r \in Pair \ {p} : wrapper'[r] = wrapper[r]
    BY <1>0, <2>2, <2>4, Update
  <2>6. wrapper[p].owned
    BY <1>3 DEF Discard
  <2>7. /\ s = "alive" <=> promise[p].state = "alive"
        /\ s # "unborn" /\ promise[p].state # "unborn"
    BY <2>6, InvOfPair DEF PromiseType, WrapperType
  <2> HIDE DEF s
  <2> QED
    BY <2>1, <2>4, <2>5, <2>7, StepOfPair
<1>4. ASSUME NEW p \in Pair, Attach(p)  PROVE Inv'
  <2> DEFINE c == Q!InitCell(promise[p].cell, p)
             v == [promise[p] EXCEPT !.attached = TRUE, !.cell = c]
  <2>1. c \in Pair \cup {None, AlreadyReady}
    BY InvOfPair DEF Q!InitCell, PromiseType
  <2>2. promise' = [promise EXCEPT ![p] = v] /\ wrapper' = wrapper
    BY <1>4 DEF Attach
  <2>3. v \in PromiseType /\ v.state = promise[p].state
    <3> HIDE DEF c
    <3> QED  BY <2>1, InvOfPair DEF PromiseType
  <2> HIDE DEF v
  <2>4. /\ promise' \in [Pair -> PromiseType] /\ promise'[p] = v
        /\ \A r \in Pair \ {p} : promise'[r] = promise[r]
    BY <1>0, <2>2, <2>3, Update
  <2> QED
    BY <1>0, <2>2, <2>3, <2>4, QuietStep
<1>5. ASSUME NEW p \in Pair, DropPromise(p)  PROVE Inv'
  <2> DEFINE s == IF wrapper[p].inner THEN wrapper[p].state ELSE "deleted"
             v == [promise[p] EXCEPT !.state = "gone"]
             w == [wrapper[p] EXCEPT !.state = s, !.inner = FALSE]
  <2>1. promise' = [promise EXCEPT ![p] = v] /\ wrapper' = [wrapper EXCEPT ![p] = w]
    BY <1>5 DEF DropPromise
  <2>2. v \in PromiseType /\ v.state = "gone"
    BY InvOfPair DEF PromiseType
  <2>3. s \in {"unborn", "alive", "deleted"}
    BY InvOfPair DEF WrapperType
  <2>4. /\ w \in WrapperType /\ w.owned = wrapper[p].owned
        /\ w.state = s /\ w.inner = FALSE
    <3> HIDE DEF s
    <3> QED  BY <2>3, InvOfPair DEF WrapperType
  <2> HIDE DEF v, w
  <2>5. /\ promise' \in [Pair -> PromiseType] /\ promise'[p] = v
        /\ \A r \in Pair \ {p} : promise'[r] = promise[r]
    BY <1>0, <2>1, <2>2, Update
  <2>6. /\ wrapper' \in [Pair -> WrapperType] /\ wrapper'[p] = w
        /\ \A r \in Pair \ {p} : wrapper'[r] = wrapper[r]
    BY <1>0, <2>1, <2>4, Update
  <2>7. promise[p].state = "alive"
    BY <1>5 DEF DropPromise, Alive
  <2>8. (s = "alive" <=> wrapper[p].owned) /\ s # "unborn"
    BY <2>7, InvOfPair DEF WrapperType
  <2> HIDE DEF s
  <2> QED
    BY <2>2, <2>4, <2>5, <2>6, <2>8, StepOfPair
<1>6. ASSUME NEW p \in Pair, Fire(p)  PROVE Inv'
  <2> DEFINE g == IF promise[p].waiting THEN "not ready" ELSE promise[p].result
             v == [promise[p] EXCEPT !.got = g]
  <2>1. g \in Outcomes \cup {None, "not ready"}
    BY InvOfPair DEF PromiseType
  <2>2. promise' = [promise EXCEPT ![p] = v] /\ wrapper' = wrapper
    BY <1>6 DEF Fire
  <2>3. v \in PromiseType /\ v.state = promise[p].state
    <3> HIDE DEF g
    <3> QED  BY <2>1, InvOfPair DEF PromiseType
  <2> HIDE DEF v
  <2>4. /\ promise' \in [Pair -> PromiseType] /\ promise'[p] = v
        /\ \A r \in Pair \ {p} : promise'[r] = promise[r]
    BY <1>0, <2>2, <2>3, Update
  <2> QED
    BY <1>0, <2>2, <2>3, <2>4, QuietStep
<1>7. CASE ReturnOther \/ UNCHANGED vars
  BY <1>0, <1>7, QuietStep DEF ReturnOther, vars
<1> QED
  BY <1>1, <1>2, <1>3, <1>4, <1>5, <1>6, <1>7 DEF Next, Turn, Application

\* The WeakFulfiller is deleted exactly when the application has discarded it
\* and the promise is gone (WeakFulfiller::detach and disposeImpl): no dangling
\* pointer, no leak.
THEOREM DeletionIsRight == Spec => []DeletedByTheLast
<1>1. Inv => DeletedByTheLast
  BY DEF Inv
<1> QED
  BY InitInv, NextInv, <1>1, PTL DEF Spec

-----------------------------------------------------------------------------
(* What the consumer hears.                                                *)

\* The promises that have their result.
Settled == {p \in Pair : promise[p].result # None /\ ~promise[p].waiting}

\* Only their consumers are in the queue.
QueueOf(S) == {q \in [order : Seq(S), ins : Nat] : q.ins <= Len(q.order)}

LEMMA Inserted ==
  ASSUME NEW S, NEW s \in Seq(S), NEW e \in S, NEW i \in Nat, i <= Len(s)
  PROVE  /\ Q!InsertAt(s, i + 1, e) \in Seq(S)
         /\ Len(Q!InsertAt(s, i + 1, e)) = Len(s) + 1
<1> DEFINE a == SubSeq(s, 1, i)
           b == SubSeq(s, i + 1, Len(s))
<1>1. a \in Seq(S) /\ Len(a) = i
  <2>1. \A j \in 1 .. i : s[j] \in S
    OBVIOUS
  <2> QED  BY <2>1, SubSeqProperties
<1>2. b \in Seq(S) /\ Len(b) = Len(s) - i
  <2>1. \A j \in i + 1 .. Len(s) : s[j] \in S
    OBVIOUS
  <2>2. Len(s) \in Nat
    OBVIOUS
  <2> QED  BY <2>1, <2>2, SubSeqProperties
<1>3. Q!InsertAt(s, i + 1, e) = a \o << e >> \o b
  <2>1. (i + 1) - 1 = i
    OBVIOUS
  <2> QED  BY <2>1 DEF Q!InsertAt
<1> HIDE DEF a, b
<1>4. << e >> \in Seq(S) /\ Len(<< e >>) = 1
  OBVIOUS
<1> DEFINE c == a \o << e >>
<1>5. c \in Seq(S) /\ Len(c) = i + 1
  BY <1>1, <1>4, ConcatProperties
<1> HIDE DEF c
<1>6. c \o b \in Seq(S) /\ Len(c \o b) = Len(c) + Len(b)
  BY <1>2, <1>5, ConcatProperties
<1>7. Q!InsertAt(s, i + 1, e) = c \o b
  BY <1>3 DEF c
<1>8. Len(c) + Len(b) = Len(s) + 1
  <2>1. Len(s) \in Nat
    OBVIOUS
  <2> QED  BY <1>2, <1>5, <2>1
<1> DEFINE d == c \o b
<1>9. d \in Seq(S) /\ Len(d) = Len(s) + 1
  BY <1>6, <1>8
<1> HIDE DEF d
<1>10. Q!InsertAt(s, i + 1, e) = d
  BY <1>7 DEF d
<1> QED
  BY <1>9, <1>10, Zenon

LEMMA Removed ==
  ASSUME NEW S, NEW s \in Seq(S), NEW i \in 1 .. Len(s)
  PROVE  /\ Q!RemoveAt(s, i) \in Seq(S)
         /\ Len(Q!RemoveAt(s, i)) = Len(s) - 1
<1> DEFINE a == SubSeq(s, 1, i - 1)
           b == SubSeq(s, i + 1, Len(s))
<1>1. a \in Seq(S) /\ Len(a) = i - 1
  <2>1. \A j \in 1 .. i - 1 : s[j] \in S
    OBVIOUS
  <2> QED  BY <2>1, SubSeqProperties
<1>2. b \in Seq(S) /\ Len(b) = Len(s) - i
  <2>1. \A j \in i + 1 .. Len(s) : s[j] \in S
    OBVIOUS
  <2>2. Len(s) \in Nat
    OBVIOUS
  <2> QED  BY <2>1, <2>2, SubSeqProperties
<1>3. Q!RemoveAt(s, i) = a \o b
  BY DEF Q!RemoveAt
<1> HIDE DEF a, b
<1>4. a \o b \in Seq(S) /\ Len(a \o b) = Len(a) + Len(b)
  BY <1>1, <1>2, ConcatProperties
<1>5. Len(s) \in Nat
  OBVIOUS
<1> QED
  BY <1>1, <1>2, <1>3, <1>4, <1>5

\* The operations of the queue add nothing but the event that is armed.
LEMMA QueueOperations ==
  ASSUME NEW S, NEW q \in QueueOf(S)
  PROVE  /\ \A e \in S : Q!DepthFirst(q, e) \in QueueOf(S)
         /\ \A e \in S : Q!BreadthFirst(q, e) \in QueueOf(S)
         /\ \A e : Q!Drop(q, e) \in QueueOf(S)
         /\ q.order # << >> => Q!Pop(q) \in QueueOf(S)
<1>0. q \in [order : Seq(S), ins : Nat] /\ q.order \in Seq(S) /\ q.ins \in 0 .. Len(q.order)
  BY DEF QueueOf
<1>1. ASSUME NEW e \in S  PROVE Q!DepthFirst(q, e) \in QueueOf(S)
  <2> DEFINE s == Q!InsertAt(q.order, q.ins + 1, e)
  <2>1. s \in Seq(S) /\ Len(s) = Len(q.order) + 1
    BY <1>0, Inserted
  <2>2. Q!DepthFirst(q, e) = q \/ Q!DepthFirst(q, e) = [order |-> s, ins |-> q.ins + 1]
    BY DEF Q!DepthFirst
  <2> HIDE DEF s
  <2>3. [order |-> s, ins |-> q.ins + 1] \in QueueOf(S)
    BY <1>0, <2>1 DEF QueueOf
  <2> QED  BY <2>2, <2>3
<1>2. ASSUME NEW e \in S  PROVE Q!BreadthFirst(q, e) \in QueueOf(S)
  <2> DEFINE s == Append(q.order, e)
  <2>1. s \in Seq(S) /\ Len(s) = Len(q.order) + 1
    BY <1>0
  <2>2. Q!BreadthFirst(q, e) = q \/ Q!BreadthFirst(q, e) = [q EXCEPT !.order = s]
    BY DEF Q!BreadthFirst
  <2> HIDE DEF s
  <2>3. [q EXCEPT !.order = s] \in QueueOf(S)
    BY <1>0, <2>1 DEF QueueOf
  <2> QED  BY <2>2, <2>3
<1>3. ASSUME NEW e  PROVE Q!Drop(q, e) \in QueueOf(S)
  <2> DEFINE p == CHOOSE i \in DOMAIN q.order : q.order[i] = e
             r == [order |-> Q!RemoveAt(q.order, p),
                   ins |-> IF p <= q.ins THEN q.ins - 1 ELSE q.ins]
  <2>1. CASE e \in Q!Queued(q)
    <3>1. p \in DOMAIN q.order
      BY <2>1 DEF Q!Queued
    <3>2. p \in 1 .. Len(q.order) /\ p \in Nat /\ p >= 1
      BY <1>0, <3>1
    <3>3. Q!Drop(q, e) = r
      BY <2>1 DEF Q!Drop
    <3> HIDE DEF p
    <3>4. /\ Q!RemoveAt(q.order, p) \in Seq(S)
          /\ Len(Q!RemoveAt(q.order, p)) = Len(q.order) - 1
      BY <1>0, <3>2, Removed
    <3>5. r.ins \in Nat /\ r.ins <= Len(q.order) - 1
      BY <1>0, <3>2
    <3> QED  BY <3>3, <3>4, <3>5 DEF QueueOf
  <2>2. CASE e \notin Q!Queued(q)
    BY <2>2 DEF Q!Drop
  <2> QED  BY <2>1, <2>2
<1>4. ASSUME q.order # << >>  PROVE Q!Pop(q) \in QueueOf(S)
  <2>1. Tail(q.order) \in Seq(S) /\ Len(Tail(q.order)) \in Nat
    BY <1>0, <1>4
  <2> QED  BY <2>1 DEF Q!Pop, QueueOf
<1> QED
  BY <1>1, <1>2, <1>3, <1>4

\* Who is settled stays so.
LEMMA QueueGrows ==
  ASSUME NEW S, NEW T, S \subseteq T
  PROVE  QueueOf(S) \subseteq QueueOf(T)
<1>1. \A s : s \in Seq(S) => s \in Seq(T)
  OBVIOUS
<1> QED
  BY <1>1 DEF QueueOf

\* What is known of the word said to one fulfiller.
Word(p) ==
    /\ promise[p].state = "unborn" =>
          /\ promise[p].result = None /\ ~promise[p].waiting
          /\ promise[p].cell = None /\ wrapper[p].first = None
    /\ promise[p].waiting => promise[p].result = None
    /\ promise[p].result # None => promise[p].result = wrapper[p].first
    /\ Alive(p) => /\ promise[p].result = wrapper[p].first
                   /\ promise[p].result = None => promise[p].waiting
                   /\ promise[p].waiting => wrapper[p].owned
    /\ promise[p].cell \in {None, AlreadyReady, p}
    /\ promise[p].cell = AlreadyReady => p \in Settled
    /\ promise[p].got \in {None, wrapper[p].first}

WordInv == Inv /\ queue \in QueueOf(Settled) /\ \A p \in Pair : Word(p)

LEMMA InitWord == Init => WordInv
<1> SUFFICES ASSUME Init  PROVE WordInv
  OBVIOUS
<1>1. \A p \in Pair : Word(p)
  BY FulfillerAssumption DEF Init, Word, Alive
<1>2. queue \in QueueOf(Settled)
  BY DEF Init, Q!Empty, QueueOf
<1> QED
  BY <1>1, <1>2, InitInv DEF WordInv

\* A step of one pair.
LEMMA WordStep ==
  ASSUME WordInv, Inv', NEW p \in Pair,
         \A r \in Pair \ {p} : promise'[r] = promise[r] /\ wrapper'[r] = wrapper[r],
         Word(p)', p \in Settled => p \in Settled',
         Settled \subseteq Settled' => queue' \in QueueOf(Settled')
  PROVE  WordInv'
<1>1. Settled \subseteq Settled'
  BY DEF Settled
<1>2. \A r \in Pair \ {p} : Word(r)'
  BY <1>1 DEF WordInv, Word, Alive
<1> QED
  BY <1>1, <1>2 DEF WordInv

\* Settle gives a promise that waits its result, and arms nobody else's consumer.
LEMMA SettleWord ==
  ASSUME WordInv, NEW p \in Pair, NEW outcome \in Outcomes, Settle(p, outcome, queue)
  PROVE  /\ \A r \in Pair \ {p} : promise'[r] = promise[r]
         /\ promise'[p].state = promise[p].state /\ promise'[p].got = promise[p].got
         /\ ~promise'[p].waiting
         /\ promise'[p].result = IF promise[p].waiting THEN outcome ELSE promise[p].result
         /\ promise'[p].cell \in {None, AlreadyReady, p}
         /\ promise'[p].cell = AlreadyReady => p \in Settled'
         /\ Settled \subseteq Settled' => queue' \in QueueOf(Settled')
<1>1. /\ promise \in [Pair -> PromiseType] /\ promise[p] \in PromiseType
      /\ Word(p) /\ queue \in QueueOf(Settled)
  BY DEF WordInv, Inv, Types
<1>2. CASE promise[p].waiting
  <2> DEFINE c == Q!ArmCell(promise[p].cell)
             v == [promise[p] EXCEPT !.waiting = FALSE, !.result = outcome, !.cell = c]
  <2>1. /\ promise' = [promise EXCEPT ![p] = v]
        /\ queue' = Q!ArmQueue(queue, promise[p].cell)
    BY <1>2 DEF Settle
  <2>2. c \in {None, AlreadyReady, p} /\ c \in Pair \cup {None, AlreadyReady}
    BY <1>1 DEF Q!ArmCell, Word
  <2> HIDE DEF c
  <2>3. /\ v \in PromiseType
        /\ v.state = promise[p].state /\ v.got = promise[p].got
        /\ v.waiting = FALSE /\ v.result = outcome /\ v.cell = c
    BY <1>1, <2>2 DEF PromiseType
  <2> HIDE DEF v
  <2>4. promise'[p] = v /\ \A r \in Pair \ {p} : promise'[r] = promise[r]
    BY <1>1, <2>1, <2>3, Update
  <2>5. p \in Settled'
    BY <2>3, <2>4, FulfillerAssumption DEF Settled
  <2>6. ASSUME Settled \subseteq Settled'  PROVE queue' \in QueueOf(Settled')
    <3>1. queue \in QueueOf(Settled')
      BY <1>1, <2>6, QueueGrows
    <3>2. Q!DepthFirst(queue, p) \in QueueOf(Settled')
      BY <2>5, <3>1, QueueOperations
    <3>3. promise[p].cell \in Pair => promise[p].cell = p
      BY <1>1, FulfillerAssumption DEF Word
    <3> QED  BY <2>1, <3>1, <3>2, <3>3 DEF Q!ArmQueue
  <2> QED
    BY <1>2, <2>2, <2>3, <2>4, <2>5, <2>6
<1>3. CASE ~promise[p].waiting
  <2>1. promise' = promise /\ queue' = queue
    BY <1>3 DEF Settle
  <2>2. Settled' = Settled
    BY <2>1 DEF Settled
  <2> QED
    BY <1>1, <1>3, <2>1, <2>2 DEF Word
<1> QED
  BY <1>2, <1>3

LEMMA NextWord == WordInv /\ [Next]_vars => WordInv'
<1> SUFFICES ASSUME WordInv, [Next]_vars  PROVE WordInv'
  OBVIOUS
<1>0. /\ Inv /\ Inv' /\ queue \in QueueOf(Settled)
      /\ promise \in [Pair -> PromiseType] /\ wrapper \in [Pair -> WrapperType]
  BY NextInv DEF WordInv, Inv, Types
<1>a. ASSUME NEW p \in Pair
      PROVE  Word(p) /\ promise[p] \in PromiseType /\ wrapper[p] \in WrapperType
  BY <1>0, <1>a DEF WordInv
\* The queue as it is remains right.
<1>b. Settled \subseteq Settled' => queue \in QueueOf(Settled')
  BY <1>0, QueueGrows
<1>1. ASSUME NEW p \in Pair, Make(p)  PROVE WordInv'
  <2> DEFINE v == [promise[p] EXCEPT !.state = "alive", !.waiting = TRUE]
             w == [wrapper[p] EXCEPT !.state = "alive", !.owned = TRUE, !.inner = TRUE]
  <2>1. promise' = [promise EXCEPT ![p] = v] /\ wrapper' = [wrapper EXCEPT ![p] = w]
        /\ queue' = queue /\ promise[p].state = "unborn"
    BY <1>1 DEF Make
  <2>2. /\ v \in PromiseType /\ v.state = "alive" /\ v.waiting = TRUE
        /\ v.result = promise[p].result /\ v.cell = promise[p].cell /\ v.got = promise[p].got
    BY <1>a DEF PromiseType
  <2>3. w \in WrapperType /\ w.owned = TRUE /\ w.first = wrapper[p].first
    BY <1>a DEF WrapperType
  <2> HIDE DEF v, w
  <2>4. /\ promise'[p] = v /\ wrapper'[p] = w
        /\ \A r \in Pair \ {p} : promise'[r] = promise[r] /\ wrapper'[r] = wrapper[r]
    BY <1>0, <2>1, <2>2, <2>3, Update
  <2>5. promise[p].result = None /\ wrapper[p].first = None /\ promise[p].cell = None
    BY <1>a, <2>1 DEF Word
  <2>6. p \notin Settled
    BY <2>5 DEF Settled
  <2>7. Word(p)'
    BY <1>a, <2>2, <2>3, <2>4, <2>5, FulfillerAssumption DEF Word, Alive
  <2> QED
    BY <1>0, <1>b, <2>1, <2>4, <2>6, <2>7, WordStep
\* A word that is said while the wrapper refers to the promise settles it; what is
\* said later changes nothing.
<1>c. ASSUME NEW p \in Pair, NEW outcome \in Outcomes, wrapper[p].owned,
             IF wrapper[p].inner THEN Settle(p, outcome, queue)
                                 ELSE UNCHANGED << promise, queue >>,
             \A r \in Pair \ {p} : wrapper'[r] = wrapper[r],
             wrapper'[p].first = IF wrapper[p].first = None THEN outcome ELSE wrapper[p].first
      PROVE  WordInv'
  <2>1. CASE wrapper[p].inner
    <3>1. /\ \A r \in Pair \ {p} : promise'[r] = promise[r]
          /\ promise'[p].state = promise[p].state /\ promise'[p].got = promise[p].got
          /\ ~promise'[p].waiting
          /\ promise'[p].result = IF promise[p].waiting THEN outcome ELSE promise[p].result
          /\ promise'[p].cell \in {None, AlreadyReady, p}
          /\ promise'[p].cell = AlreadyReady => p \in Settled'
          /\ Settled \subseteq Settled' => queue' \in QueueOf(Settled')
      BY <1>c, <2>1, SettleWord
    <3>2. Alive(p) /\ promise[p].state # "unborn"
      BY <1>0, <2>1, InvOfPair DEF Alive
    <3>3. promise'[p].result = wrapper'[p].first /\ promise'[p].result # None
      BY <1>a, <1>c, <3>1, <3>2, FulfillerAssumption DEF Word
    <3>4. promise'[p].got \in {None, wrapper'[p].first}
      BY <1>a, <1>c, <3>1 DEF Word
    <3>5. Word(p)'
      BY <3>1, <3>2, <3>3, <3>4 DEF Word, Alive
    <3>6. p \in Settled'
      BY <3>1, <3>3 DEF Settled
    <3> QED
      BY <1>0, <1>c, <3>1, <3>5, <3>6, WordStep
  <2>2. CASE ~wrapper[p].inner
    <3>1. promise' = promise /\ queue' = queue
      BY <1>c, <2>2
    <3>2. ~Alive(p) /\ promise[p].state # "unborn"
      BY <1>0, <1>c, <2>2, InvOfPair DEF Alive
    <3>3. Word(p)'
      BY <1>a, <1>c, <3>1, <3>2 DEF Word, Alive, Settled
    <3> QED
      BY <1>0, <1>b, <1>c, <3>1, <3>3, WordStep DEF Settled
  <2> QED  BY <2>1, <2>2
<1>2. ASSUME NEW p \in Pair, NEW outcome \in {"value", "exception"}, Tell(p, outcome)
      PROVE  WordInv'
  <2> DEFINE w == [wrapper[p] EXCEPT !.first = IF @ = None THEN outcome ELSE @]
  <2>1. outcome \in Outcomes
    BY DEF Outcomes
  <2>2. wrapper' = [wrapper EXCEPT ![p] = w]
    BY <1>2 DEF Tell
  <2>3. w.first = IF wrapper[p].first = None THEN outcome ELSE wrapper[p].first
    BY <1>a DEF WrapperType
  <2> HIDE DEF w
  <2>4. wrapper'[p] = w /\ \A r \in Pair \ {p} : wrapper'[r] = wrapper[r]
    BY <1>0, <2>2
  <2> QED
    BY <1>2, <1>c, <2>1, <2>3, <2>4 DEF Tell
<1>3. ASSUME NEW p \in Pair, Discard(p)  PROVE WordInv'
  <2> DEFINE s == IF wrapper[p].inner THEN wrapper[p].state ELSE "deleted"
             f == IF wrapper[p].first = None THEN "discarded" ELSE wrapper[p].first
             w == [wrapper[p] EXCEPT !.owned = FALSE, !.state = s,
                                     !.inner = FALSE, !.first = f]
  <2>1. "discarded" \in Outcomes
    BY DEF Outcomes
  <2>2. wrapper' = [wrapper EXCEPT ![p] = w]
    BY <1>3 DEF Discard
  <2>3. w.first = f
    <3> HIDE DEF f, s
    <3> QED  BY <1>a DEF WrapperType
  <2> HIDE DEF w
  <2>4. wrapper'[p] = w /\ \A r \in Pair \ {p} : wrapper'[r] = wrapper[r]
    BY <1>0, <2>2
  <2> QED
    BY <1>3, <1>c, <2>1, <2>3, <2>4 DEF Discard
<1>4. ASSUME NEW p \in Pair, Attach(p)  PROVE WordInv'
  <2> DEFINE c == Q!InitCell(promise[p].cell, p)
             v == [promise[p] EXCEPT !.attached = TRUE, !.cell = c]
  <2>1. /\ promise' = [promise EXCEPT ![p] = v] /\ wrapper' = wrapper /\ Alive(p)
        /\ queue' = Q!InitQueue(queue, promise[p].cell, p)
    BY <1>4 DEF Attach
  <2>2. c \in {p, AlreadyReady} /\ (c = AlreadyReady => promise[p].cell = AlreadyReady)
    BY FulfillerAssumption DEF Q!InitCell
  <2> HIDE DEF c
  <2>3. /\ v.state = promise[p].state /\ v.got = promise[p].got /\ v.cell = c
        /\ v.waiting = promise[p].waiting /\ v.result = promise[p].result
    BY <1>a DEF PromiseType
  <2> HIDE DEF v
  <2>4. promise'[p] = v /\ \A r \in Pair \ {p} : promise'[r] = promise[r]
    BY <1>0, <2>1
  <2>5. Settled' = Settled
    BY <2>3, <2>4 DEF Settled
  <2>6. queue' \in QueueOf(Settled')
    <3>1. CASE promise[p].cell = AlreadyReady
      <4>1. p \in Settled
        BY <1>a, <3>1 DEF Word
      <4> QED
        BY <1>0, <2>1, <2>5, <3>1, <4>1, QueueOperations DEF Q!InitQueue
    <3>2. CASE promise[p].cell # AlreadyReady
      BY <1>0, <2>1, <2>5, <3>2 DEF Q!InitQueue
    <3> QED  BY <3>1, <3>2
  <2>7. Word(p)'
    BY <1>a, <2>1, <2>2, <2>3, <2>4, <2>5 DEF Word, Alive
  <2> QED
    BY <1>0, <2>1, <2>4, <2>5, <2>6, <2>7, WordStep
<1>5. ASSUME NEW p \in Pair, DropPromise(p)  PROVE WordInv'
  <2> DEFINE s == IF wrapper[p].inner THEN wrapper[p].state ELSE "deleted"
             v == [promise[p] EXCEPT !.state = "gone"]
             w == [wrapper[p] EXCEPT !.state = s, !.inner = FALSE]
  <2>1. /\ promise' = [promise EXCEPT ![p] = v] /\ wrapper' = [wrapper EXCEPT ![p] = w]
        /\ queue' = Q!Drop(queue, p)
    BY <1>5 DEF DropPromise
  <2>2. /\ v.state = "gone" /\ v.got = promise[p].got /\ v.cell = promise[p].cell
        /\ v.waiting = promise[p].waiting /\ v.result = promise[p].result
    BY <1>a DEF PromiseType
  <2>3. w.first = wrapper[p].first
    <3> HIDE DEF s
    <3> QED  BY <1>a DEF WrapperType
  <2> HIDE DEF v, w
  <2>4. /\ promise'[p] = v /\ wrapper'[p] = w
        /\ \A r \in Pair \ {p} : promise'[r] = promise[r] /\ wrapper'[r] = wrapper[r]
    BY <1>0, <2>1
  <2>5. Settled' = Settled
    BY <2>2, <2>4 DEF Settled
  <2>6. queue' \in QueueOf(Settled')
    BY <1>0, <2>1, <2>5, QueueOperations
  <2>7. Word(p)'
    BY <1>a, <2>2, <2>3, <2>4, <2>5 DEF Word, Alive
  <2> QED
    BY <1>0, <2>4, <2>5, <2>6, <2>7, WordStep
<1>6. ASSUME NEW p \in Pair, Fire(p)  PROVE WordInv'
  <2> DEFINE g == IF promise[p].waiting THEN "not ready" ELSE promise[p].result
             v == [promise[p] EXCEPT !.got = g]
  <2>1. /\ promise' = [promise EXCEPT ![p] = v] /\ wrapper' = wrapper
        /\ queue' = Q!Pop(queue) /\ First = p
    BY <1>6 DEF Fire
  <2>2. queue.order # << >> /\ Head(queue.order) = p
    BY <2>1, FulfillerAssumption DEF First
  <2>3. p \in Settled
    BY <1>0, <2>2 DEF QueueOf
  <2>4. g = wrapper[p].first
    BY <1>a, <2>3 DEF Settled, Word
  <2> HIDE DEF g
  <2>5. /\ v.state = promise[p].state /\ v.got = g /\ v.cell = promise[p].cell
        /\ v.waiting = promise[p].waiting /\ v.result = promise[p].result
    BY <1>a DEF PromiseType
  <2> HIDE DEF v
  <2>6. promise'[p] = v /\ \A r \in Pair \ {p} : promise'[r] = promise[r]
    BY <1>0, <2>1
  <2>7. Settled' = Settled
    BY <2>5, <2>6 DEF Settled
  <2>8. queue' \in QueueOf(Settled')
    BY <1>0, <2>1, <2>2, <2>7, QueueOperations
  <2>9. Word(p)'
    BY <1>a, <2>1, <2>4, <2>5, <2>6, <2>7 DEF Word, Alive
  <2> QED
    BY <1>0, <2>1, <2>6, <2>7, <2>8, <2>9, WordStep
<1>7. CASE UNCHANGED vars
  <2>1. promise' = promise /\ wrapper' = wrapper /\ queue' = queue /\ Settled' = Settled
    BY <1>7 DEF vars, Settled
  <2>2. \A p \in Pair : Word(p)'
    BY <1>a, <2>1 DEF Word, Alive
  <2> QED
    BY <1>0, <2>1, <2>2 DEF WordInv
<1>8. CASE ReturnOther
  <2>1. /\ promise' = promise /\ wrapper' = wrapper /\ queue' = [queue EXCEPT !.ins = 0]
        /\ Settled' = Settled
    BY <1>8 DEF ReturnOther, Settled, Q!Rewind
  <2>2. queue' \in QueueOf(Settled')
    BY <1>0, <2>1 DEF QueueOf
  <2>3. \A p \in Pair : Word(p)'
    BY <1>a, <2>1 DEF Word, Alive
  <2> QED
    BY <1>0, <2>2, <2>3 DEF WordInv
<1> QED
  BY <1>1, <1>2, <1>3, <1>4, <1>5, <1>6, <1>7, <1>8 DEF Next, Turn, Application

\* What is said first to a fulfiller, by discarding it too, is what the promise holds
\* and what its consumer gets (async-inl.h:778), whatever is said later.
THEOREM FirstWordIsHeard == Spec => []FirstWordCounts
<1>1. WordInv => FirstWordCounts
  BY DEF WordInv, Word, FirstWordCounts
<1> QED
  BY InitWord, NextWord, <1>1, PTL DEF Spec

\* WeakFulfiller (async-inl.h:778-829): the same as DeletionIsRight and FirstWordIsHeard, of
\* the system that the run checks.
THEOREM FulfillersBesideOthers == PromisesSpec => [](DeletedByTheLast /\ FirstWordCounts)
<1>1. PromisesInit => WordInv
  BY InitWord DEF PromisesInit
<1>2. [PromisesNext]_<< part, vars, join, chains, nodes, tasks >> => [Next]_vars
  BY DEF PromisesNext
<1>3. WordInv => DeletedByTheLast /\ FirstWordCounts
  BY DEF WordInv, Inv, Word, FirstWordCounts
<1> QED
  BY <1>1, <1>2, <1>3, NextWord, PTL DEF PromisesSpec

-----------------------------------------------------------------------------
(* Nobody is forgotten.                                                    *)

FQ == INSTANCE EventQueueProofs WITH Event <- Pair

LEMMA SamePairQueue ==
  /\ Q!Empty = FQ!Empty
  /\ \A q : Q!Pop(q) = FQ!Pop(q) /\ Q!Rewind(q) = FQ!Rewind(q) /\ Q!Queued(q) = FQ!Queued(q)
  /\ \A q, e : /\ Q!DepthFirst(q, e) = FQ!DepthFirst(q, e)
               /\ Q!BreadthFirst(q, e) = FQ!BreadthFirst(q, e)
               /\ Q!Drop(q, e) = FQ!Drop(q, e)
<1>1. \A q : Q!Queued(q) = FQ!Queued(q)
  BY DEF Q!Queued, FQ!Queued
<1>2. \A q, e : Q!DepthFirst(q, e) = FQ!DepthFirst(q, e)
  BY <1>1 DEF Q!DepthFirst, FQ!DepthFirst, Q!InsertAt, FQ!InsertAt
<1>3. \A q, e : Q!BreadthFirst(q, e) = FQ!BreadthFirst(q, e)
  BY <1>1 DEF Q!BreadthFirst, FQ!BreadthFirst
<1>4. \A q, e : Q!Drop(q, e) = FQ!Drop(q, e)
  BY <1>1 DEF Q!Drop, FQ!Drop, Q!RemoveAt, FQ!RemoveAt
<1>5. \A q : Q!Pop(q) = FQ!Pop(q) /\ Q!Rewind(q) = FQ!Rewind(q)
  BY DEF Q!Pop, FQ!Pop, Q!Rewind, FQ!Rewind
<1> QED
  BY <1>1, <1>2, <1>3, <1>4, <1>5 DEF Q!Empty, FQ!Empty

\* Whoever comes second, the result or the consumer, finds what the first one left in
\* the cell, and the consumer is queued until it has its result.
Met(p) ==
    /\ promise[p].state = "unborn" => ~promise[p].attached
    /\ promise[p].cell = p => promise[p].attached
    /\ Alive(p) => IF promise[p].attached
                   THEN IF promise[p].result = None
                        THEN promise[p].cell = p
                        ELSE promise[p].got = None => p \in FQ!Queued(queue)
                   ELSE promise[p].result # None => promise[p].cell = AlreadyReady

HearInv == WordInv /\ FQ!Distinct(queue) /\ \A p \in Pair : Met(p)

LEMMA InitHear == Init => HearInv
<1> SUFFICES ASSUME Init  PROVE HearInv
  OBVIOUS
<1>1. \A p \in Pair : Met(p)
  BY FulfillerAssumption DEF Init, Met, Alive
<1>2. queue = FQ!Empty
  BY SamePairQueue DEF Init
<1> QED
  BY <1>1, <1>2, InitWord, FQ!EmptyFacts DEF HearInv

\* A step of one pair leaves the others in the queue.
LEMMA HearStep ==
  ASSUME HearInv, WordInv', NEW p \in Pair,
         \A r \in Pair \ {p} : promise'[r] = promise[r],
         Met(p)', FQ!Distinct(queue'),
         \A r \in Pair \ {p} : r \in FQ!Queued(queue) => r \in FQ!Queued(queue')
  PROVE  HearInv'
<1>1. ASSUME NEW r \in Pair \ {p}  PROVE Met(r)'
  BY DEF HearInv, Met, Alive
<1> QED
  BY <1>1 DEF HearInv

LEMMA NextHear == HearInv /\ [Next]_vars => HearInv'
<1> SUFFICES ASSUME HearInv, [Next]_vars  PROVE HearInv'
  OBVIOUS
<1>0. /\ WordInv /\ WordInv' /\ FQ!Distinct(queue)
      /\ promise \in [Pair -> PromiseType] /\ wrapper \in [Pair -> WrapperType]
  BY NextWord DEF HearInv, WordInv, Inv, Types
<1>a. ASSUME NEW p \in Pair
      PROVE  Word(p) /\ Met(p) /\ promise[p] \in PromiseType
  BY <1>0, <1>a DEF HearInv, WordInv
<1>b. queue \in FQ!QueueOf(Pair)
  <2>1. Settled \subseteq Pair /\ queue \in QueueOf(Settled)
    BY <1>0 DEF Settled, WordInv
  <2> QED  BY <2>1, QueueGrows DEF QueueOf, FQ!QueueOf
<1>c. \A e \in Pair :
         /\ FQ!Distinct(Q!DepthFirst(queue, e)) /\ FQ!Distinct(Q!BreadthFirst(queue, e))
         /\ FQ!Queued(Q!DepthFirst(queue, e)) = FQ!Queued(queue) \cup {e}
         /\ FQ!Queued(Q!BreadthFirst(queue, e)) = FQ!Queued(queue) \cup {e}
         /\ FQ!Distinct(Q!Drop(queue, e))
         /\ FQ!Queued(Q!Drop(queue, e)) = FQ!Queued(queue) \ {e}
  BY <1>0, <1>b, SamePairQueue, FQ!ArmedFacts, FQ!DroppedFacts
\* Making a pair, and a word that settles nothing, change nothing here.
<1>d. ASSUME NEW p \in Pair, promise' = promise, queue' = queue  PROVE HearInv'
  BY <1>0, <1>a, <1>d DEF HearInv, Met, Alive
<1>e. ASSUME NEW p \in Pair, NEW outcome \in Outcomes, wrapper[p].owned,
             IF wrapper[p].inner THEN Settle(p, outcome, queue)
                                 ELSE UNCHANGED << promise, queue >>
      PROVE  HearInv'
  <2>1. CASE wrapper[p].inner /\ promise[p].waiting
    <3> DEFINE c == Q!ArmCell(promise[p].cell)
               v == [promise[p] EXCEPT !.waiting = FALSE, !.result = outcome, !.cell = c]
    <3>1. /\ promise' = [promise EXCEPT ![p] = v]
          /\ queue' = Q!ArmQueue(queue, promise[p].cell)
      BY <1>e, <2>1 DEF Settle
    <3>2. /\ promise[p].cell \in {None, AlreadyReady, p} /\ promise[p].result = None
          /\ promise[p].cell # AlreadyReady
      BY <1>a, <2>1 DEF Word, Settled
    <3>3. c = IF promise[p].cell = p THEN p ELSE AlreadyReady
      BY <3>2, FulfillerAssumption DEF Q!ArmCell
    <3> HIDE DEF c
    <3>4. /\ v.state = promise[p].state /\ v.attached = promise[p].attached
          /\ v.result = outcome /\ v.cell = c /\ v.got = promise[p].got
      BY <1>a DEF PromiseType
    <3> HIDE DEF v
    <3>5. promise'[p] = v /\ \A r \in Pair \ {p} : promise'[r] = promise[r]
      BY <1>0, <3>1
    <3>6. /\ FQ!Distinct(queue') /\ FQ!Queued(queue) \subseteq FQ!Queued(queue')
          /\ promise[p].cell = p => p \in FQ!Queued(queue')
      BY <1>0, <1>c, <3>1, <3>2, FulfillerAssumption DEF Q!ArmQueue
    <3>7. Met(p)'
      <4>1. outcome # None
        BY FulfillerAssumption
      <4>2. promise[p].cell = p => promise[p].attached
        BY <1>a DEF Met
      <4>3. Alive(p) /\ promise[p].attached => promise[p].cell = p
        BY <1>a, <3>2 DEF Met
      <4>4. p # AlreadyReady
        BY FulfillerAssumption
      <4>5. promise[p].state # "unborn"
        BY <1>a, <2>1 DEF Word
      <4>6. /\ promise'[p].attached = promise[p].attached /\ promise'[p].result # None
            /\ promise'[p].state # "unborn"
            /\ promise'[p].cell = IF promise[p].cell = p THEN p ELSE AlreadyReady
        BY <3>3, <3>4, <3>5, <4>1, <4>5
      <4>7. ~promise[p].attached => promise'[p].cell = AlreadyReady
        BY <4>2, <4>6
      <4>8. Alive(p)' => Alive(p)
        BY <3>4, <3>5 DEF Alive
      <4>9. Alive(p)' /\ promise[p].attached => p \in FQ!Queued(queue')
        BY <3>6, <4>3, <4>8
      <4>10. promise'[p].cell = p => promise[p].attached
        BY <4>2, <4>4, <4>6
      <4> QED
        BY <4>6, <4>7, <4>9, <4>10 DEF Met
    <3> QED
      BY <1>0, <3>5, <3>6, <3>7, HearStep
  <2>2. CASE ~(wrapper[p].inner /\ promise[p].waiting)
    <3>1. promise' = promise /\ queue' = queue
      BY <1>e, <2>2 DEF Settle
    <3> QED  BY <1>d, <3>1
  <2> QED  BY <2>1, <2>2
<1>1. ASSUME NEW p \in Pair, Make(p)  PROVE HearInv'
  <2> DEFINE v == [promise[p] EXCEPT !.state = "alive", !.waiting = TRUE]
  <2>1. promise' = [promise EXCEPT ![p] = v] /\ queue' = queue /\ promise[p].state = "unborn"
    BY <1>1 DEF Make
  <2>2. /\ v.result = promise[p].result /\ v.cell = promise[p].cell
        /\ v.attached = promise[p].attached
    BY <1>a DEF PromiseType
  <2> HIDE DEF v
  <2>3. promise'[p] = v /\ \A r \in Pair \ {p} : promise'[r] = promise[r]
    BY <1>0, <2>1
  <2>4. promise[p].result = None /\ promise[p].cell = None /\ None # p
    BY <1>a, <2>1, FulfillerAssumption DEF Word
  <2>5. Met(p)'
    BY <1>a, <2>1, <2>2, <2>3, <2>4 DEF Met, Alive
  <2> QED
    BY <1>0, <2>1, <2>3, <2>5, HearStep
<1>2. ASSUME NEW p \in Pair, NEW outcome \in {"value", "exception"}, Tell(p, outcome)
      PROVE  HearInv'
  <2>1. outcome \in Outcomes
    BY DEF Outcomes
  <2> QED  BY <1>2, <1>e, <2>1 DEF Tell
<1>3. ASSUME NEW p \in Pair, Discard(p)  PROVE HearInv'
  <2>1. "discarded" \in Outcomes
    BY DEF Outcomes
  <2> QED  BY <1>3, <1>e, <2>1 DEF Discard
<1>4. ASSUME NEW p \in Pair, Attach(p)  PROVE HearInv'
  <2> DEFINE c == Q!InitCell(promise[p].cell, p)
             v == [promise[p] EXCEPT !.attached = TRUE, !.cell = c]
  <2>1. /\ promise' = [promise EXCEPT ![p] = v] /\ Alive(p) /\ ~promise[p].attached
        /\ queue' = Q!InitQueue(queue, promise[p].cell, p)
    BY <1>4 DEF Attach
  <2>2. c = IF promise[p].cell = AlreadyReady THEN AlreadyReady ELSE p
    BY DEF Q!InitCell
  <2> HIDE DEF c
  <2>3. /\ v.state = promise[p].state /\ v.attached = TRUE
        /\ v.result = promise[p].result /\ v.cell = c /\ v.got = promise[p].got
    BY <1>a DEF PromiseType
  <2> HIDE DEF v
  <2>4. promise'[p] = v /\ \A r \in Pair \ {p} : promise'[r] = promise[r]
    BY <1>0, <2>1
  <2>5. /\ FQ!Distinct(queue') /\ FQ!Queued(queue) \subseteq FQ!Queued(queue')
        /\ promise[p].cell = AlreadyReady => p \in FQ!Queued(queue')
    BY <1>0, <1>c, <2>1 DEF Q!InitQueue
  <2>6. promise[p].cell = AlreadyReady => promise[p].result # None
    BY <1>a DEF Word, Settled
  <2>7. promise[p].result # None => promise[p].cell = AlreadyReady
    BY <1>a, <2>1 DEF Met
  <2>8. Met(p)'
    BY <2>1, <2>2, <2>3, <2>4, <2>5, <2>6, <2>7 DEF Met, Alive
  <2> QED
    BY <1>0, <2>4, <2>5, <2>8, HearStep
<1>5. ASSUME NEW p \in Pair, DropPromise(p)  PROVE HearInv'
  <2> DEFINE v == [promise[p] EXCEPT !.state = "gone"]
  <2>1. promise' = [promise EXCEPT ![p] = v] /\ queue' = Q!Drop(queue, p) /\ Alive(p)
    BY <1>5 DEF DropPromise
  <2>2. v.state = "gone" /\ v.cell = promise[p].cell /\ v.attached = promise[p].attached
    BY <1>a DEF PromiseType
  <2> HIDE DEF v
  <2>3. promise'[p] = v /\ \A r \in Pair \ {p} : promise'[r] = promise[r]
    BY <1>0, <2>1
  <2>4. Met(p)'
    BY <1>a, <2>1, <2>2, <2>3 DEF Met, Alive
  <2> QED
    BY <1>0, <1>c, <2>1, <2>3, <2>4, HearStep
<1>6. ASSUME NEW p \in Pair, Fire(p)  PROVE HearInv'
  <2> DEFINE g == IF promise[p].waiting THEN "not ready" ELSE promise[p].result
             v == [promise[p] EXCEPT !.got = g]
  <2>1. promise' = [promise EXCEPT ![p] = v] /\ queue' = Q!Pop(queue) /\ First = p
    BY <1>6 DEF Fire
  <2>2. queue.order # << >> /\ Head(queue.order) = p
    BY <2>1, FulfillerAssumption DEF First
  <2>3. p \in Settled
    BY <1>0, <2>2 DEF WordInv, QueueOf
  <2>4. g # None
    BY <2>3 DEF Settled
  <2> HIDE DEF g
  <2>5. /\ v.state = promise[p].state /\ v.attached = promise[p].attached
        /\ v.result = promise[p].result /\ v.cell = promise[p].cell /\ v.got = g
    BY <1>a DEF PromiseType
  <2> HIDE DEF v
  <2>6. promise'[p] = v /\ \A r \in Pair \ {p} : promise'[r] = promise[r]
    BY <1>0, <2>1
  <2>7. FQ!Distinct(queue') /\ FQ!Queued(queue') = FQ!Queued(queue) \ {p}
    BY <1>0, <1>b, <2>1, <2>2, SamePairQueue, FQ!PopFacts
  <2>8. promise[p].result # None
    BY <2>3 DEF Settled
  <2>9. Met(p)'
    BY <1>a, <2>4, <2>5, <2>6, <2>8 DEF Met, Alive
  <2> QED
    BY <1>0, <2>6, <2>7, <2>9, HearStep
<1>7. CASE UNCHANGED vars
  <2>1. promise' = promise /\ queue' = queue
    BY <1>7 DEF vars
  <2>2. \A p \in Pair : Met(p)'
    <3> SUFFICES ASSUME NEW p \in Pair  PROVE Met(p)'
      OBVIOUS
    <3>1. Met(p) /\ FQ!Queued(queue') = FQ!Queued(queue)
      BY <1>a, <2>1
    <3> QED  BY <2>1, <3>1 DEF Met, Alive
  <2> QED
    BY <1>0, <2>1, <2>2 DEF HearInv
<1>8. CASE ReturnOther
  <2>1. promise' = promise /\ queue' = Q!Rewind(queue)
    BY <1>8 DEF ReturnOther
  <2>2. FQ!Distinct(queue') /\ FQ!Queued(queue') = FQ!Queued(queue)
    BY <1>0, <1>b, <2>1, SamePairQueue, FQ!RewindFacts
  <2>3. \A p \in Pair : Met(p)'
    BY <1>a, <2>1, <2>2 DEF Met, Alive
  <2> QED
    BY <1>0, <2>2, <2>3 DEF HearInv
<1> QED
  BY <1>1, <1>2, <1>3, <1>4, <1>5, <1>6, <1>7, <1>8 DEF Next, Turn, Application

\* When the loop runs out of work, every consumer whose promise was told something has
\* it, whichever of the two came first.
LEMMA HearEnough == HearInv => ConsumerHears
<1> SUFFICES ASSUME HearInv, queue.order = << >>, NEW p \in Pair, Alive(p),
                    promise[p].attached, wrapper[p].first # None
             PROVE  promise[p].got # None
  BY DEF ConsumerHears
<1>1. FQ!Queued(queue) = {}
  BY DEF FQ!Queued
<1>2. promise[p].result # None
  BY DEF HearInv, WordInv, Word
<1> QED
  BY <1>1, <1>2 DEF HearInv, Met

\* WeakFulfiller and OnReadyEvent (async.cpp:490-510): no consumer of a fulfilled promise is
\* left waiting by a loop that has nothing to do, in the system that the run checks.
THEOREM ConsumersAlwaysHear == PromisesSpec => []ConsumerHears
<1>1. PromisesInit => HearInv
  BY InitHear DEF PromisesInit
<1>2. [PromisesNext]_<< part, vars, join, chains, nodes, tasks >> => [Next]_vars
  BY DEF PromisesNext
<1> QED
  BY <1>1, <1>2, NextHear, HearEnough, PTL DEF PromisesSpec

-----------------------------------------------------------------------------
(* Chains.                                                                 *)

CQ == INSTANCE EventQueueProofs WITH Event <- ChainNodes \cup {Consumer}, queue <- chainQueue

LEMMA SameChainQueue ==
  /\ CN!Q!Empty = CQ!Empty
  /\ \A q : /\ CN!Q!Pop(q) = CQ!Pop(q) /\ CN!Q!Rewind(q) = CQ!Rewind(q)
            /\ CN!Q!Queued(q) = CQ!Queued(q)
  /\ \A q, e : /\ CN!Q!DepthFirst(q, e) = CQ!DepthFirst(q, e)
               /\ CN!Q!BreadthFirst(q, e) = CQ!BreadthFirst(q, e)
               /\ CN!Q!Drop(q, e) = CQ!Drop(q, e)
<1>1. \A q : CN!Q!Queued(q) = CQ!Queued(q)
  BY DEF CN!Q!Queued, CQ!Queued
<1>2. \A q, e : CN!Q!DepthFirst(q, e) = CQ!DepthFirst(q, e)
  BY <1>1 DEF CN!Q!DepthFirst, CQ!DepthFirst, CN!Q!InsertAt, CQ!InsertAt
<1>3. \A q, e : CN!Q!BreadthFirst(q, e) = CQ!BreadthFirst(q, e)
  BY <1>1 DEF CN!Q!BreadthFirst, CQ!BreadthFirst
<1>4. \A q, e : CN!Q!Drop(q, e) = CQ!Drop(q, e)
  BY <1>1 DEF CN!Q!Drop, CQ!Drop, CN!Q!RemoveAt, CQ!RemoveAt
<1>5. \A q : CN!Q!Pop(q) = CQ!Pop(q) /\ CN!Q!Rewind(q) = CQ!Rewind(q)
  BY DEF CN!Q!Pop, CQ!Pop, CN!Q!Rewind, CQ!Rewind
<1> QED
  BY <1>1, <1>2, <1>3, <1>4, <1>5 DEF CN!Q!Empty, CQ!Empty

LEMMA SameCardinality == \A S : CN!Cardinality(S) = Cardinality(S)
  BY DEF CN!Cardinality, Cardinality

\* A path goes one step, as long as no chain that has shortened itself owns another.
LEMMA PathFacts ==
  ASSUME NEW o, NEW n, NEW S, n \in S => o[n] \notin S
  PROVE  CN!Path(o, n, S) = [i \in 0 .. Cardinality(ChainNodes) |->
                                IF i = 0 \/ n \notin S THEN n ELSE o[n]]
<1> DEFINE K == Cardinality(ChainNodes)
           T(f) == [i \in 0 .. K |->
                       IF i = 0 THEN n ELSE IF f[i - 1] \in S THEN o[f[i - 1]] ELSE f[i - 1]]
           F == CHOOSE f : f = T(f)
           v(i) == IF i = 0 \/ n \notin S THEN n ELSE o[n]
           g == [i \in 0 .. K |-> v(i)]
           Same == {i \in Nat : i <= K => F[i] = v(i)}
<1>1. K \in Nat
  BY ChainsAssumption, FS_CardinalityType
<1> HIDE DEF K
<1>2. g = T(g)
  <2>1. ASSUME NEW i \in 0 .. K, i # 0
        PROVE  v(i) = IF g[i - 1] \in S THEN o[g[i - 1]] ELSE g[i - 1]
    <3>1. i - 1 \in 0 .. K
      BY <1>1, <2>1
    <3>2. g[i - 1] = IF i - 1 = 0 \/ n \notin S THEN n ELSE o[n]
      BY <3>1
    <3> HIDE DEF g
    <3> QED  BY <2>1, <3>2
  <2> HIDE DEF v
  <2>2. v(0) = n
    BY DEF v
  <2>3. \A i \in 0 .. K :
            g[i] = IF i = 0 THEN n ELSE IF g[i - 1] \in S THEN o[g[i - 1]] ELSE g[i - 1]
    <3>1. \A i \in 0 .. K : g[i] = v(i)
      OBVIOUS
    <3> HIDE DEF g
    <3> QED  BY <2>1, <2>2, <3>1
  <2>4. g = [i \in 0 .. K |-> g[i]]
    OBVIOUS
  <2> HIDE DEF g
  <2> QED  BY <2>3, <2>4
<1>3. F = T(F)
  <2>1. \E f : f = T(f)
    BY <1>2
  <2> HIDE DEF T
  <2> QED  BY <2>1
<1> HIDE DEF F
<1>4. \A i \in Nat : i \in Same
  <2>1. 0 \in Same
    <3>1. 0 \in 0 .. K
      BY <1>1
    <3> QED  BY <1>3, <3>1
  <2>2. ASSUME NEW i \in Nat, i \in Same  PROVE i + 1 \in Same
    <3> SUFFICES ASSUME i + 1 <= K  PROVE F[i + 1] = v(i + 1)
      OBVIOUS
    <3>1. i + 1 \in 0 .. K /\ i + 1 # 0 /\ (i + 1) - 1 = i
      BY <1>1
    <3>2. F[i + 1] = IF F[i] \in S THEN o[F[i]] ELSE F[i]
      BY <1>3, <3>1
    <3>3. F[i] = v(i)
      BY <1>1, <2>2
    <3> QED  BY <3>1, <3>2, <3>3
  <2> HIDE DEF Same
  <2> QED  BY <2>1, <2>2, CQ!Induction
<1>5. F = g
  <2>1. \A i \in 0 .. K : F[i] = v(i)
    BY <1>1, <1>4
  <2>2. F = [i \in 0 .. K |-> F[i]]
    BY <1>3
  <2> HIDE DEF v
  <2> QED  BY <2>1, <2>2
<1>6. CN!Path(o, n, S) = F
  BY SameCardinality, Zenon DEF CN!Path, F, K
<1> QED
  BY <1>5, <1>6 DEF K

LEMMA PathEnds ==
  ASSUME NEW o, NEW n \in ChainNodes, NEW S, n \in S => o[n] \notin S
  PROVE  LET p == CN!Path(o, n, S)
             last == IF n \in S THEN o[n] ELSE n
         IN  /\ p[Cardinality(ChainNodes)] = last
             /\ \A z : (\E i \in DOMAIN p : p[i] = z) <=> z \in {n, last}
<1> DEFINE K == Cardinality(ChainNodes)
           last == IF n \in S THEN o[n] ELSE n
           p == [i \in 0 .. K |-> IF i = 0 \/ n \notin S THEN n ELSE o[n]]
<1>1. K \in Nat /\ K # 0
  BY ChainsAssumption, FS_CardinalityType, FS_EmptySet
<1> HIDE DEF K
<1>2. 0 \in 0 .. K /\ K \in 0 .. K
  BY <1>1
<1>3. p[0] = n /\ p[K] = last /\ \A i \in DOMAIN p : p[i] \in {n, last}
  BY <1>1, <1>2
<1>4. \A z : (\E i \in DOMAIN p : p[i] = z) <=> z \in {n, last}
  <2>1. DOMAIN p = 0 .. K
    OBVIOUS
  <2> HIDE DEF p, last
  <2> QED  BY <1>2, <1>3, <2>1
<1>5. CN!Path(o, n, S) = p
  BY PathFacts DEF K
<1> HIDE DEF p, last
<1> QED
  BY <1>3, <1>4, <1>5 DEF K, last

LEMMA PathStays ==
  ASSUME NEW o, NEW n \in ChainNodes, NEW S, n \notin S
  PROVE  CN!Path(o, n, S)[Cardinality(ChainNodes)] = n
<1> DEFINE K == Cardinality(ChainNodes)
<1>1. CN!Path(o, n, S) = [i \in 0 .. K |-> IF i = 0 \/ n \notin S THEN n ELSE o[n]]
  BY PathFacts
<1>2. K \in Nat
  BY ChainsAssumption, FS_CardinalityType
<1> HIDE DEF K
<1>3. CN!Path(o, n, S)[K] = n
  BY <1>1, <1>2
<1> QED
  BY <1>3 DEF K

\* Taking one or two events out of the queue.
LEMMA DroppedTwo ==
  ASSUME NEW q \in CQ!QueueOf(ChainNodes \cup {Consumer}), CQ!Distinct(q), NEW a, NEW b
  PROVE  LET r == CN!Dropped(q, {a, b})
         IN  /\ r \in CQ!QueueOf(ChainNodes \cup {Consumer}) /\ CQ!Distinct(r)
             /\ CQ!Queued(r) = CQ!Queued(q) \ {a, b}
<1> DEFINE S == {a, b}
           pick(s) == CHOOSE x \in s : TRUE
           T(f) == [s \in SUBSET S |->
                       IF s = {} THEN q ELSE CN!Q!Drop(f[s \ {pick(s)}], pick(s))]
           F == CHOOSE f : f = T(f)
           one(s) == CN!Q!Drop(q, pick(s))
           g == [s \in SUBSET S |->
                    IF s = {} THEN q
                    ELSE IF s \ {pick(s)} = {} THEN one(s)
                    ELSE CN!Q!Drop(one(s \ {pick(s)}), pick(s))]
<1>1. \A s : s # {} => pick(s) \in s
  OBVIOUS
<1> HIDE DEF pick
<1>2. ASSUME NEW s \in SUBSET S, s # {}
      PROVE  /\ s \ {pick(s)} \in SUBSET S
             /\ s \ {pick(s)} # {} => (s \ {pick(s)}) \ {pick(s \ {pick(s)})} = {}
  BY <1>1, <1>2
<1>3. g = T(g)
  <2>1. ASSUME NEW s \in SUBSET S, s # {}
        PROVE  g[s] = CN!Q!Drop(g[s \ {pick(s)}], pick(s))
    <3> DEFINE r == s \ {pick(s)}
    <3>1. r \in SUBSET S
      BY <1>2, <2>1
    <3>2. g[r] = IF r = {} THEN q ELSE one(r)
      BY <1>2, <2>1, <3>1
    <3>3. g[s] = IF r = {} THEN one(s) ELSE CN!Q!Drop(one(r), pick(s))
      BY <2>1
    <3> HIDE DEF g, r
    <3> QED  BY <3>2, <3>3 DEF r
  <2>2. g[{}] = q
    OBVIOUS
  <2>3. g = [s \in SUBSET S |-> g[s]]
    OBVIOUS
  <2> HIDE DEF g
  <2> QED  BY <2>1, <2>2, <2>3
<1>4. F = T(F)
  <2>1. \E f : f = T(f)
    BY <1>3
  <2> HIDE DEF T
  <2> QED  BY <2>1
<1>5. CN!Dropped(q, S) = F[S]
  BY DEF CN!Dropped, CN!FoldSet, CN!MapThenFoldSet, F, pick
<1> HIDE DEF F
<1>6. F[{}] = q /\ \A s \in SUBSET S : s # {} => F[s] = CN!Q!Drop(F[s \ {pick(s)}], pick(s))
  BY <1>4
<1> DEFINE Right(r, s) == /\ r \in CQ!QueueOf(ChainNodes \cup {Consumer}) /\ CQ!Distinct(r)
                          /\ CQ!Queued(r) = CQ!Queued(q) \ s
<1>7. ASSUME NEW s \in SUBSET S, s # {}, Right(F[s \ {pick(s)}], s \ {pick(s)})
      PROVE  Right(F[s], s)
  <2> DEFINE r == F[s \ {pick(s)}]
  <2>1. F[s] = CQ!Drop(r, pick(s))
    BY <1>6, <1>7, SameChainQueue
  <2>2. /\ CQ!Drop(r, pick(s)) \in CQ!QueueOf(ChainNodes \cup {Consumer})
        /\ CQ!Distinct(CQ!Drop(r, pick(s)))
        /\ CQ!Queued(CQ!Drop(r, pick(s))) = CQ!Queued(r) \ {pick(s)}
    BY <1>7, CQ!DroppedFacts
  <2> QED  BY <1>1, <1>7, <2>1, <2>2
<1>8. Right(F[{}], {})
  BY <1>6
<1> DEFINE r == S \ {pick(S)}
<1>9. S \in SUBSET S /\ S # {} /\ r \in SUBSET S
  OBVIOUS
<1>10. Right(F[r], r)
  <2>1. CASE r = {}
    BY <1>8, <2>1
  <2>2. CASE r # {}
    <3>1. r \ {pick(r)} = {}
      BY <1>2, <1>9, <2>2
    <3> HIDE DEF r, S, Right
    <3> QED  BY <1>7, <1>8, <1>9, <2>2, <3>1
  <2> QED  BY <2>1, <2>2
<1>11. Right(F[S], S)
  <2> HIDE DEF Right, S
  <2> QED  BY <1>7, <1>9, <1>10
<1> QED
  BY <1>5, <1>11

\* A heap: every node has one owner, a location or the program; a chain in its second
\* step owns a node that is no such chain, unless it is in X, and then nothing yet; and
\* a chain in its first step knows where it is owned.
HeapOK(nd, o, hd, X) ==
    /\ nd \in [ChainNodes -> CN!NodeType] /\ o \in [CN!Loc -> ChainNodes \cup {None}]
    /\ hd \subseteq ChainNodes
    /\ \A n \in ChainNodes :
          /\ nd[n].kind = "free" => nd[n] = CN!Free /\ n \notin hd
          /\ nd[n].kind # "free" => n \in hd \/ \E l \in CN!Loc : o[l] = n
          /\ o[n] # None => nd[n].kind = "step2"
          /\ nd[n].kind = "step2" /\ n \notin X => o[n] # None
          /\ nd[n].kind = "step1" =>
                IF n \in hd THEN nd[n].selfPtr = None
                ELSE nd[n].selfPtr \in CN!Loc /\ o[nd[n].selfPtr] = n
    /\ \A l \in CN!Loc : o[l] # None => nd[o[l]].kind \in {"leaf", "step1"} /\ o[l] \notin hd
    /\ \A l, k \in CN!Loc : o[l] = o[k] /\ o[l] # None => l = k

LEMMA LocFacts == /\ ChainNodes \subseteq CN!Loc /\ Root \in CN!Loc /\ None \notin ChainNodes
                  /\ Root \notin ChainNodes /\ None \notin CN!Loc
                  /\ Consumer \notin ChainNodes /\ AlreadyReady \notin ChainNodes
                  /\ Consumer # None /\ Consumer # AlreadyReady /\ None # AlreadyReady
  BY ChainsAssumption, FulfillerAssumption DEF CN!Loc

LEMMA FreeFacts == /\ CN!Free \in CN!NodeType /\ CN!Free.kind = "free" /\ CN!Free.cell = None
                   /\ CN!Free.selfPtr = None /\ CN!Free.ready = FALSE
  BY DEF CN!Free, CN!NodeType

LEMMA NodeFacts ==
  ASSUME NEW v \in CN!NodeType
  PROVE  /\ v.kind \in {"free", "leaf", "step1", "step2"} /\ v.ready \in BOOLEAN
         /\ v.selfPtr \in CN!Loc \cup {None} /\ v.cell \in {None, AlreadyReady, Consumer}
  BY DEF CN!NodeType

LEMMA PointedAt ==
  ASSUME NEW v \in CN!NodeType, NEW l \in CN!Loc
  PROVE  LET w == [v EXCEPT !.selfPtr = l]
         IN  /\ w \in CN!NodeType /\ w.kind = v.kind /\ w.ready = v.ready
             /\ w.cell = v.cell /\ w.selfPtr = l
  BY DEF CN!NodeType

LEMMA CellSet ==
  ASSUME NEW v \in CN!NodeType, NEW c \in {None, AlreadyReady, Consumer}
  PROVE  LET w == [v EXCEPT !.cell = c]
         IN  /\ w \in CN!NodeType /\ w.kind = v.kind /\ w.ready = v.ready
             /\ w.selfPtr = v.selfPtr /\ w.cell = c
  BY DEF CN!NodeType

LEMMA MadeReady ==
  ASSUME NEW v \in CN!NodeType
  PROVE  LET w == [v EXCEPT !.ready = TRUE]
         IN  /\ w \in CN!NodeType /\ w.kind = v.kind /\ w.ready = TRUE
             /\ w.selfPtr = v.selfPtr /\ w.cell = v.cell
  BY DEF CN!NodeType

LEMMA SecondStep ==
  ASSUME NEW v \in CN!NodeType
  PROVE  LET w == [v EXCEPT !.kind = "step2", !.cell = None]
         IN  /\ w \in CN!NodeType /\ w.kind = "step2" /\ w.ready = v.ready
             /\ w.selfPtr = v.selfPtr /\ w.cell = None
  BY DEF CN!NodeType

\* What changes only what a node says changes no owner.
LEMMA SameHeap ==
  ASSUME NEW nd, NEW o, NEW hd, NEW X, HeapOK(nd, o, hd, X), NEW n \in ChainNodes, nd[n].kind # "free",
         NEW v \in CN!NodeType, v.kind = nd[n].kind, v.selfPtr = nd[n].selfPtr
  PROVE  HeapOK([nd EXCEPT ![n] = v], o, hd, X)
<1> DEFINE w == [nd EXCEPT ![n] = v]
<1>1. nd \in [ChainNodes -> CN!NodeType]
  BY DEF HeapOK
<1>2. /\ w \in [ChainNodes -> CN!NodeType] /\ w[n] = v
      /\ \A x \in ChainNodes \ {n} : w[x] = nd[x]
  BY <1>1
<1> HIDE DEF w
<1>3. \A x \in ChainNodes : w[x].kind = nd[x].kind /\ w[x].selfPtr = nd[x].selfPtr
  BY <1>2
<1>4. \A x \in ChainNodes : w[x].kind = "free" => w[x] = nd[x]
  BY <1>2
<1>5. HeapOK(w, o, hd, X)
  BY <1>2, <1>3, <1>4 DEF HeapOK
<1> QED
  BY <1>5 DEF w

\* The program makes a promise.
LEMMA AddedHeap ==
  ASSUME NEW nd, NEW o, NEW hd, HeapOK(nd, o, hd, {}), NEW n \in ChainNodes, nd[n].kind = "free",
         NEW v \in CN!NodeType, v.kind \in {"leaf", "step1"}, v.selfPtr = None
  PROVE  HeapOK([nd EXCEPT ![n] = v], o, hd \cup {n}, {})
<1> DEFINE w == [nd EXCEPT ![n] = v]
<1>1. nd \in [ChainNodes -> CN!NodeType]
  BY DEF HeapOK
<1>2. /\ w \in [ChainNodes -> CN!NodeType] /\ w[n] = v
      /\ \A x \in ChainNodes \ {n} : w[x] = nd[x]
  BY <1>1
<1> HIDE DEF w
<1>3. o[n] = None /\ \A l \in CN!Loc : o[l] # n
  BY LocFacts DEF HeapOK
<1>4. HeapOK(w, o, hd \cup {n}, {})
  <2>1. ASSUME NEW x \in ChainNodes
        PROVE  /\ w[x].kind = "free" => w[x] = CN!Free /\ x \notin hd \cup {n}
               /\ w[x].kind # "free" => x \in hd \cup {n} \/ \E l \in CN!Loc : o[l] = x
               /\ o[x] # None => w[x].kind = "step2"
               /\ w[x].kind = "step2" => o[x] # None
               /\ w[x].kind = "step1" =>
                     IF x \in hd \cup {n} THEN w[x].selfPtr = None
                     ELSE w[x].selfPtr \in CN!Loc /\ o[w[x].selfPtr] = x
    <3>1. CASE x = n
      BY <1>2, <1>3, <3>1
    <3>2. CASE x # n
      BY <1>2, <3>2 DEF HeapOK
    <3> QED  BY <3>1, <3>2
  <2>2. \A l \in CN!Loc : o[l] # None => w[o[l]].kind \in {"leaf", "step1"} /\ o[l] \notin hd \cup {n}
    BY <1>2, <1>3 DEF HeapOK
  <2> QED  BY <1>2, <2>1, <2>2 DEF HeapOK
<1> QED
  BY <1>4 DEF w

\* Nodes go together with what they own, and with the location L that owns them.
LEMMA FreedHeap ==
  ASSUME HeapOK(chain, own, held, {}), NEW S, S \subseteq ChainNodes, NEW L, L \subseteq {Root},
         \A l \in CN!Loc : own[l] \in S => l \in S \cup L,
         \A l \in S \cup L : own[l] # None => own[l] \in S
  PROVE  HeapOK(CN!Freed(S), CN!Disowned(S \cup L), held \ S, {})
<1> DEFINE nd == CN!Freed(S)
           o == CN!Disowned(S \cup L)
<1>1. /\ nd \in [ChainNodes -> CN!NodeType]
      /\ \A x \in ChainNodes : nd[x] = IF x \in S THEN CN!Free ELSE chain[x]
  BY FreeFacts DEF CN!Freed, HeapOK
<1>2. /\ o \in [CN!Loc -> ChainNodes \cup {None}]
      /\ \A l \in CN!Loc : o[l] = IF l \in S \cup L THEN None ELSE own[l]
  BY DEF CN!Disowned, HeapOK
<1> HIDE DEF nd, o
<1>3. ASSUME NEW x \in ChainNodes
      PROVE  /\ nd[x].kind = "free" => nd[x] = CN!Free /\ x \notin held \ S
             /\ nd[x].kind # "free" => x \in held \ S \/ \E l \in CN!Loc : o[l] = x
             /\ o[x] # None => nd[x].kind = "step2"
             /\ nd[x].kind = "step2" => o[x] # None
             /\ nd[x].kind = "step1" =>
                   IF x \in held \ S THEN nd[x].selfPtr = None
                   ELSE nd[x].selfPtr \in CN!Loc /\ o[nd[x].selfPtr] = x
  <2>1. CASE x \in S
    BY <1>1, <1>2, <2>1, FreeFacts, LocFacts
  <2>2. CASE x \notin S
    <3>1. nd[x] = chain[x] /\ o[x] = own[x]
      BY <1>1, <1>2, <2>2, LocFacts
    <3>2. x # None /\ \A l \in CN!Loc : own[l] = x => o[l] = x
      BY <1>2, <2>2, LocFacts
    <3> QED  BY <2>2, <3>1, <3>2 DEF HeapOK
  <2> QED  BY <2>1, <2>2
<1>4. \A l \in CN!Loc : o[l] # None =>
          o[l] = own[l] /\ own[l] \in ChainNodes /\ own[l] \notin S
  BY <1>2 DEF HeapOK
<1>5. \A l \in CN!Loc : o[l] # None => nd[o[l]].kind \in {"leaf", "step1"} /\ o[l] \notin held \ S
  BY <1>1, <1>4 DEF HeapOK
<1>6. \A l, k \in CN!Loc : o[l] = o[k] /\ o[l] # None => l = k
  BY <1>4 DEF HeapOK
<1>7. HeapOK(nd, o, held \ S, {})
  BY <1>1, <1>2, <1>3, <1>5, <1>6 DEF HeapOK
<1> QED
  BY <1>7 DEF nd, o

-----------------------------------------------------------------------------
\* What is below a node.
LEMMA BelowFacts ==
  ASSUME NEW hd, HeapOK(chain, own, hd, {}), NEW n \in ChainNodes
  PROVE  CN!Below(n) = IF own[n] # None THEN {n, own[n]} ELSE {n}
<1> DEFINE S == {x \in ChainNodes : own[x] # None}
           last == IF n \in S THEN own[n] ELSE n
           p == CN!Path(own, n, S)
<1>1. n \in S => own[n] \in ChainNodes \ S /\ own[n] # None
  BY LocFacts DEF HeapOK
<1>2. {p[i] : i \in DOMAIN p} = {n, last}
  <2> HIDE DEF S
  <2>1. n \in S => own[n] \notin S
    BY <1>1
  <2>2. \A z : (\E i \in DOMAIN p : p[i] = z) <=> z \in {n, last}
    BY <2>1, PathEnds
  <2> HIDE DEF p, last
  <2> QED  BY <2>2
<1>3. CN!Below(n) = {n, last} \ {None}
  <2>1. CN!Below(n) = {p[i] : i \in DOMAIN p} \ {None}
    BY DEF CN!Below
  <2> HIDE DEF p
  <2> QED  BY <1>2, <2>1
<1> HIDE DEF p
<1> QED
  BY <1>1, <1>3, LocFacts

LEMMA BelowNothing == CN!Below(None) = {}
<1> DEFINE S == {x \in ChainNodes : own[x] # None}
           p == CN!Path(own, None, S)
<1>1. None \notin S
  BY LocFacts
<1>2. p = [i \in 0 .. Cardinality(ChainNodes) |->
              IF i = 0 \/ None \notin S THEN None ELSE own[None]]
  <2> HIDE DEF S
  <2> QED  BY <1>1, PathFacts
<1>3. \A i \in DOMAIN p : p[i] = None
  <2> HIDE DEF S, p
  <2> QED  BY <1>1, <1>2
<1>4. CN!Below(None) = {p[i] : i \in DOMAIN p} \ {None}
  BY DEF CN!Below
<1> HIDE DEF p
<1> QED
  BY <1>3, <1>4

-----------------------------------------------------------------------------
\* Where a promise m goes: what ends up in its new place l, and what the heap is then.
LastOf(nd, o, m) == IF nd[m].kind = "step2" THEN o[m] ELSE m

MovedOwn(nd, o, m, l) ==
    [x \in CN!Loc |-> IF x = l THEN LastOf(nd, o, m) ELSE IF x = m THEN None ELSE o[x]]

MovedNode(nd, o, m, l) ==
    [x \in ChainNodes |->
        IF x = m /\ nd[m].kind = "step2" THEN CN!Free
        ELSE IF x = LastOf(nd, o, m) /\ nd[x].kind = "step1" THEN [nd[x] EXCEPT !.selfPtr = l]
        ELSE nd[x]]

\* The program gives m to the place l, which is empty.
Fits(nd, o, hd, m, l) ==
    /\ HeapOK(nd, o, hd, {l}) /\ l \in CN!Loc /\ o[l] = None
    /\ l \in ChainNodes => nd[l].kind = "step2"
    /\ m \in hd /\ m # l

LEMMA LastFacts ==
  ASSUME NEW nd, NEW o, NEW hd, NEW m, NEW l, Fits(nd, o, hd, m, l)
  PROVE  LET last == LastOf(nd, o, m)
         IN  /\ m \in ChainNodes /\ nd[m].kind # "free"
             /\ last \in ChainNodes /\ nd[last].kind \in {"leaf", "step1"} /\ last # l
             /\ last = IF nd[m].kind = "step2" THEN o[m] ELSE m
             /\ nd[m].kind = "step2" => m # last
             /\ nd[m].kind # "step2" => o[m] = None
             /\ last \notin hd \ {m}
             /\ \A x \in CN!Loc : o[x] = last => x = m
<1>1. m \in ChainNodes /\ m \in CN!Loc /\ nd[m].kind # "free" /\ nd[m] \in CN!NodeType
  BY LocFacts DEF HeapOK, Fits
<1>2. CASE nd[m].kind = "step2"
  <2>1. o[m] # None /\ o[m] \in ChainNodes
    BY <1>1, <1>2, LocFacts DEF HeapOK, Fits
  <2>2. nd[o[m]].kind \in {"leaf", "step1"} /\ o[m] \notin hd
    BY <1>1, <2>1 DEF HeapOK, Fits
  <2>3. \A x \in CN!Loc : o[x] = o[m] => x = m
    BY <1>1, <2>1 DEF HeapOK, Fits
  <2>4. o[m] # l
    BY <2>1, <2>2 DEF Fits
  <2> QED  BY <1>1, <1>2, <2>1, <2>2, <2>3, <2>4 DEF LastOf
<1>3. CASE nd[m].kind # "step2"
  <2>1. o[m] = None
    BY <1>1, <1>3 DEF HeapOK, Fits
  <2>2. nd[m].kind \in {"leaf", "step1"}
    BY <1>1, <1>3, NodeFacts
  <2>3. \A x \in CN!Loc : o[x] # m
    BY <1>1, LocFacts DEF HeapOK, Fits
  <2> QED  BY <1>1, <1>3, <2>1, <2>2, <2>3 DEF LastOf, Fits
<1> QED  BY <1>2, <1>3

\* setSelfPointer.
LEMMA SetSelfFacts ==
  ASSUME NEW nd, NEW o, NEW hd, NEW m, NEW l, Fits(nd, o, hd, m, l)
  PROVE  CN!SetSelf([own |-> [o EXCEPT ![l] = m], node |-> nd], l)
            = [own |-> MovedOwn(nd, o, m, l), node |-> MovedNode(nd, o, m, l)]
<1> DEFINE u == [o EXCEPT ![l] = m]
           h == [own |-> u, node |-> nd]
           S == CN!Step2(h)
           p == CN!Path(u, m, S)
           last == LastOf(nd, o, m)
           K == Cardinality(ChainNodes)
           gone == {p[i] : i \in DOMAIN p} \ {p[K]}
<1>0. /\ m \in ChainNodes /\ last \in ChainNodes /\ nd[last].kind \in {"leaf", "step1"}
      /\ last = IF nd[m].kind = "step2" THEN o[m] ELSE m
      /\ nd[m].kind = "step2" => m # last
      /\ nd[m].kind # "step2" => o[m] = None
  BY LastFacts
<1>1. o \in [CN!Loc -> ChainNodes \cup {None}] /\ l \in CN!Loc /\ m # l /\ m \in CN!Loc
  BY <1>0, LocFacts DEF Fits, HeapOK
<1>2. u[l] = m /\ \A x \in CN!Loc \ {l} : u[x] = o[x]
  BY <1>1
<1> HIDE DEF u
<1>3. h.own = u /\ h.node = nd
  OBVIOUS
<1> HIDE DEF h
<1>4. S = {x \in ChainNodes : nd[x].kind = "step2"}
  BY <1>3 DEF CN!Step2
<1> HIDE DEF S
<1>5. m \in S <=> nd[m].kind = "step2"
  BY <1>0, <1>4
<1>6. m \in S => u[m] = last /\ u[m] \notin S
  BY <1>0, <1>1, <1>2, <1>4, <1>5
<1> HIDE DEF last
<1>7. /\ p[K] = last
      /\ \A z : (\E i \in DOMAIN p : p[i] = z) <=> z \in {m, last}
  <2>1. /\ p[K] = IF m \in S THEN u[m] ELSE m
        /\ \A z : (\E i \in DOMAIN p : p[i] = z) <=> z \in {m, IF m \in S THEN u[m] ELSE m}
    BY <1>0, <1>6, PathEnds, Zenon
  <2>2. \A z : (\E i \in DOMAIN p : p[i] = z) <=> z \in {m, IF m \in S THEN u[m] ELSE m}
    BY <1>0, <1>6, PathEnds
  <2>3. last = IF m \in S THEN u[m] ELSE m
    BY <1>0, <1>5, <1>6
  <2> QED  BY <2>1, <2>2, <2>3
<1> HIDE DEF K
<1>8. \A z : z \in gone <=> z = m /\ nd[m].kind = "step2"
  <2>1. \A z : z \in {p[i] : i \in DOMAIN p} <=> z \in {m, last}
    <3> HIDE DEF p
    <3> QED  BY <1>7
  <2> HIDE DEF p
  <2> QED  BY <1>0, <1>7, <2>1
<1>9. CN!SetSelf(h, l) =
        [own |-> [x \in CN!Loc |-> IF x = l THEN p[K] ELSE IF x \in gone THEN None ELSE u[x]],
         node |-> [x \in ChainNodes |->
                      IF x \in gone THEN CN!Free
                      ELSE IF x = p[K] /\ nd[x].kind = "step1"
                           THEN [nd[x] EXCEPT !.selfPtr = l] ELSE nd[x]]]
  <2>1. CN!Path(h.own, h.own[l], CN!Step2(h)) = p
    BY <1>2, <1>3 DEF S
  <2>2. CN!Cardinality(ChainNodes) = K
    BY SameCardinality DEF K
  <2> HIDE DEF p
  <2> QED  BY <1>3, <2>1, <2>2, Zenon DEF CN!SetSelf
<1> HIDE DEF gone, p
<1>10. MovedOwn(nd, o, m, l) =
          [x \in CN!Loc |-> IF x = l THEN p[K] ELSE IF x \in gone THEN None ELSE u[x]]
  <2>1. ASSUME NEW x \in CN!Loc
        PROVE  (IF x = l THEN last ELSE IF x = m THEN None ELSE o[x])
                  = (IF x = l THEN p[K] ELSE IF x \in gone THEN None ELSE u[x])
    BY <1>0, <1>2, <1>7, <1>8
  <2> QED  BY <2>1 DEF MovedOwn, last
<1>11. MovedNode(nd, o, m, l) =
          [x \in ChainNodes |->
              IF x \in gone THEN CN!Free
              ELSE IF x = p[K] /\ nd[x].kind = "step1"
                   THEN [nd[x] EXCEPT !.selfPtr = l] ELSE nd[x]]
  BY <1>7, <1>8 DEF MovedNode, last
<1> QED
  BY <1>9, <1>10, <1>11 DEF h, u

\* The heap is right when m is in its place, and nothing else has changed.
Moved(nd, o, hd, m, l) ==
    LET u == MovedOwn(nd, o, m, l)
        w == MovedNode(nd, o, m, l)
        last == LastOf(nd, o, m)
    IN  /\ HeapOK(w, u, hd \ {m}, {}) /\ u[l] = last
        /\ w[last].kind = nd[last].kind
        /\ \A x \in CN!Loc \ {l, m} : u[x] = o[x]
        /\ \A x \in ChainNodes :
              \/ x = m /\ nd[m].kind = "step2" /\ w[x] = CN!Free
              \/ /\ w[x].kind = nd[x].kind /\ w[x].ready = nd[x].ready
                 /\ w[x].cell = nd[x].cell

LEMMA MovedFacts ==
  ASSUME NEW nd, NEW o, NEW hd, NEW m, NEW l, Fits(nd, o, hd, m, l)
  PROVE  Moved(nd, o, hd, m, l)
<1> DEFINE u == MovedOwn(nd, o, m, l)
           w == MovedNode(nd, o, m, l)
           last == LastOf(nd, o, m)
<1>0. /\ m \in ChainNodes /\ nd[m].kind # "free"
      /\ last \in ChainNodes /\ nd[last].kind \in {"leaf", "step1"} /\ last # l
      /\ nd[m].kind = "step2" => m # last
      /\ nd[m].kind # "step2" => o[m] = None /\ m = last
      /\ last \notin hd \ {m}
      /\ \A x \in CN!Loc : o[x] = last => x = m
  BY LastFacts
<1>a. nd[m].kind = "step2" => o[m] = last
  BY LastFacts
<1>1. /\ nd \in [ChainNodes -> CN!NodeType] /\ o \in [CN!Loc -> ChainNodes \cup {None}]
      /\ l \in CN!Loc /\ m # l /\ m \in CN!Loc /\ o[l] = None /\ m \in hd /\ HeapOK(nd, o, hd, {l})
      /\ l \in ChainNodes => nd[l].kind = "step2"
  BY <1>0, LocFacts DEF Fits, HeapOK
<1>2. /\ \A x \in CN!Loc : u[x] = IF x = l THEN last ELSE IF x = m THEN None ELSE o[x]
      /\ u \in [CN!Loc -> ChainNodes \cup {None}]
  <2> HIDE DEF last
  <2> QED  BY <1>0, <1>1 DEF MovedOwn, last
<1>3. \A x \in ChainNodes :
         w[x] = IF x = m /\ nd[m].kind = "step2" THEN CN!Free
                ELSE IF x = last /\ nd[x].kind = "step1" THEN [nd[x] EXCEPT !.selfPtr = l]
                ELSE nd[x]
  BY DEF MovedNode
<1>4. ASSUME NEW x \in ChainNodes
      PROVE  /\ w[x] \in CN!NodeType
             /\ x = m /\ nd[m].kind = "step2" => w[x] = CN!Free
             /\ ~(x = m /\ nd[m].kind = "step2") =>
                   /\ w[x].kind = nd[x].kind /\ w[x].ready = nd[x].ready /\ w[x].cell = nd[x].cell
                   /\ w[x].selfPtr = IF x = last /\ nd[x].kind = "step1" THEN l ELSE nd[x].selfPtr
                   /\ nd[x].kind # "step1" => w[x] = nd[x]
  <2>1. nd[x] \in CN!NodeType
    BY <1>1
  <2> DEFINE v == [nd[x] EXCEPT !.selfPtr = l]
  <2>2. /\ v \in CN!NodeType /\ v.kind = nd[x].kind /\ v.ready = nd[x].ready
        /\ v.cell = nd[x].cell /\ v.selfPtr = l
    BY <1>1, <2>1, PointedAt
  <2>3. w[x] = IF x = m /\ nd[m].kind = "step2" THEN CN!Free
               ELSE IF x = last /\ nd[x].kind = "step1" THEN v ELSE nd[x]
    BY <1>3
  <2> HIDE DEF v, w, last
  <2> QED  BY <2>1, <2>2, <2>3, FreeFacts
<1>5. w \in [ChainNodes -> CN!NodeType]
  <2>1. w = [x \in ChainNodes |-> w[x]]
    BY DEF MovedNode
  <2> HIDE DEF w
  <2> QED  BY <1>4, <2>1
<1> HIDE DEF u, w, last
<1>6. ASSUME NEW x \in ChainNodes
      PROVE  /\ w[x].kind = "free" => w[x] = CN!Free /\ x \notin hd \ {m}
             /\ w[x].kind # "free" => x \in hd \ {m} \/ \E k \in CN!Loc : u[k] = x
             /\ u[x] # None => w[x].kind = "step2"
             /\ w[x].kind = "step2" => u[x] # None
             /\ w[x].kind = "step1" =>
                   IF x \in hd \ {m} THEN w[x].selfPtr = None
                   ELSE w[x].selfPtr \in CN!Loc /\ u[w[x].selfPtr] = x
  <2>0. x \in CN!Loc /\ x # None /\ last # None
    BY <1>0, LocFacts
  <2>1. CASE x = m /\ nd[m].kind = "step2"
    BY <1>1, <1>2, <1>4, <2>0, <2>1, FreeFacts
  <2>2. CASE x = last
    <3>1. /\ w[x].kind = nd[x].kind /\ nd[x].kind \in {"leaf", "step1"}
          /\ nd[x].kind = "step1" => w[x].selfPtr = l
      BY <1>0, <1>4, <2>2
    <3>2. u[l] = x
      BY <1>1, <1>2, <2>2
    <3>3. o[x] = None
      BY <1>1, <3>1 DEF HeapOK
    <3>4. u[x] = None
      BY <1>0, <1>2, <2>0, <2>2, <3>3
    <3> QED  BY <1>0, <1>1, <2>2, <3>1, <3>2, <3>4
  <2>3. CASE x # last /\ ~(x = m /\ nd[m].kind = "step2")
    <3>1. x # m
      BY <1>0, <2>3
    <3>2. w[x].kind = nd[x].kind /\ w[x].selfPtr = nd[x].selfPtr
      BY <1>4, <2>3
    <3>3. \A k \in CN!Loc : o[k] = x => u[k] = x
      BY <1>0, <1>a, <1>1, <1>2, <2>0, <2>3
    <3>4. w[x].kind = "free" => w[x] = nd[x]
      BY <1>4, <2>3, <3>2
    <3>5. u[x] = IF x = l THEN last ELSE o[x]
      BY <1>2, <2>0, <3>1
    <3>6. x = l => nd[x].kind = "step2"
      BY <1>1
    <3>7. /\ nd[x].kind = "free" => nd[x] = CN!Free /\ x \notin hd
          /\ nd[x].kind # "free" => x \in hd \/ \E k \in CN!Loc : o[k] = x
          /\ o[x] # None => nd[x].kind = "step2"
          /\ nd[x].kind = "step2" /\ x # l => o[x] # None
          /\ nd[x].kind = "step1" =>
                IF x \in hd THEN nd[x].selfPtr = None
                ELSE nd[x].selfPtr \in CN!Loc /\ o[nd[x].selfPtr] = x
      BY <1>1 DEF HeapOK
    <3>8. x \in hd \ {m} <=> x \in hd
      BY <3>1
    <3> QED  BY <2>0, <3>2, <3>3, <3>4, <3>5, <3>6, <3>7, <3>8
  <2> QED  BY <2>1, <2>2, <2>3
<1>7. ASSUME NEW x \in CN!Loc, u[x] # None
      PROVE  w[u[x]].kind \in {"leaf", "step1"} /\ u[x] \notin hd \ {m}
  <2>1. CASE x = l
    BY <1>0, <1>2, <1>4, <2>1
  <2>2. CASE x # l
    <3>1. u[x] = o[x] /\ o[x] # None
      BY <1>2, <1>7, <2>2
    <3>2. o[x] \in ChainNodes /\ nd[o[x]].kind \in {"leaf", "step1"} /\ o[x] \notin hd
      BY <1>1, <3>1 DEF HeapOK
    <3> QED  BY <1>1, <1>4, <3>1, <3>2
  <2> QED  BY <2>1, <2>2
<1>8. ASSUME NEW x \in CN!Loc, NEW y \in CN!Loc, u[x] = u[y], u[x] # None
      PROVE  x = y
  <2>1. \A z \in CN!Loc \ {l} : u[z] # None => z # m /\ u[z] = o[z] /\ o[z] # last
    BY <1>0, <1>2
  <2>2. CASE x = l \/ y = l
    BY <1>1, <1>2, <1>8, <2>1, <2>2
  <2>3. CASE x # l /\ y # l
    <3>1. o[x] = o[y] /\ o[x] # None
      BY <1>8, <2>1, <2>3
    <3> QED  BY <1>1, <3>1 DEF HeapOK
  <2> QED  BY <2>2, <2>3
<1>9. HeapOK(w, u, hd \ {m}, {})
  <2>1. hd \ {m} \subseteq ChainNodes
    BY <1>1 DEF HeapOK
  <2> QED  BY <1>2, <1>5, <1>6, <1>7, <1>8, <2>1 DEF HeapOK
<1>10. u[l] = last /\ \A x \in CN!Loc \ {l, m} : u[x] = o[x]
  BY <1>1, <1>2
<1>11. w[last].kind = nd[last].kind
  BY <1>0, <1>4
<1> QED
  BY <1>4, <1>9, <1>10, <1>11 DEF u, w, last, Moved

-----------------------------------------------------------------------------
\* What the cell of the node n says, when c is what the consumer does.
CellOK(nd, o, c, q, n) ==
    /\ nd[n].cell = Consumer => c = "waiting" /\ o[Root] = n
    /\ nd[n].kind = "step1" => nd[n].cell # AlreadyReady
    /\ nd[n].kind = "leaf" =>
          IF nd[n].ready THEN nd[n].cell # None ELSE nd[n].cell # AlreadyReady
    /\ c = "waiting" /\ o[Root] = n =>
          IF nd[n].kind = "leaf" /\ nd[n].ready THEN Consumer \in CQ!Queued(q)
          ELSE nd[n].cell = Consumer

\* What is queued may fire; f is the chain that does.
EventOK(nd, o, c, q, f) ==
    /\ q \in CQ!QueueOf(ChainNodes \cup {Consumer}) /\ CQ!Distinct(q)
    /\ Consumer \in CQ!Queued(q) =>
          c = "waiting" /\ nd[o[Root]].kind = "leaf" /\ nd[o[Root]].ready
    /\ \A n \in ChainNodes : n \in CQ!Queued(q) => nd[n].kind = "step1" /\ nd[n].ready /\ n # f
    /\ f # None => f \in ChainNodes /\ nd[f].kind = "step1" /\ nd[f].ready

\* There is a node in Root as long as its owner is there.
OwnerOK(o, c) ==
    /\ c \in {"none", "owner", "waiting", "fired", "gone"}
    /\ c \in {"owner", "waiting"} <=> o[Root] # None

StateOK(nd, o, hd, c, q, f) ==
    /\ HeapOK(nd, o, hd, {}) /\ EventOK(nd, o, c, q, f) /\ OwnerOK(o, c)
    /\ \A n \in ChainNodes : CellOK(nd, o, c, q, n)

ChainInv ==
    /\ StateOK(chain, own, held, consumer, chainQueue, chainFiring)
    /\ chainGot \in {None, "result"}

LEMMA InitChain == CN!Init => ChainInv
<1> SUFFICES ASSUME CN!Init  PROVE ChainInv
  OBVIOUS
<1>1. /\ chainQueue = CQ!Empty /\ held = {} /\ chainFiring = None /\ consumer = "none"
      /\ chainGot = None /\ chain \in [ChainNodes -> CN!NodeType]
      /\ own \in [CN!Loc -> ChainNodes \cup {None}]
      /\ \A n \in ChainNodes : chain[n] = CN!Free
      /\ \A l \in CN!Loc : own[l] = None
  BY SameChainQueue, FreeFacts DEF CN!Init
<1>2. HeapOK(chain, own, held, {})
  BY <1>1, FreeFacts, LocFacts DEF HeapOK
<1>3. EventOK(chain, own, consumer, chainQueue, chainFiring)
  BY <1>1, CQ!EmptyFacts DEF EventOK
<1>4. OwnerOK(own, consumer)
  BY <1>1, LocFacts DEF OwnerOK
<1>5. \A n \in ChainNodes : CellOK(chain, own, consumer, chainQueue, n)
  BY <1>1, FreeFacts, LocFacts DEF CellOK
<1> QED
  BY <1>1, <1>2, <1>3, <1>4, <1>5 DEF ChainInv, StateOK

LEMMA ChainQueueFacts ==
  ASSUME NEW q \in CQ!QueueOf(ChainNodes \cup {Consumer}), CQ!Distinct(q)
  PROVE  /\ \A e \in ChainNodes \cup {Consumer} :
              /\ CN!Q!DepthFirst(q, e) \in CQ!QueueOf(ChainNodes \cup {Consumer})
              /\ CQ!Distinct(CN!Q!DepthFirst(q, e))
              /\ CQ!Queued(CN!Q!DepthFirst(q, e)) = CQ!Queued(q) \cup {e}
              /\ CN!Q!BreadthFirst(q, e) \in CQ!QueueOf(ChainNodes \cup {Consumer})
              /\ CQ!Distinct(CN!Q!BreadthFirst(q, e))
              /\ CQ!Queued(CN!Q!BreadthFirst(q, e)) = CQ!Queued(q) \cup {e}
         /\ CN!Q!Rewind(q) \in CQ!QueueOf(ChainNodes \cup {Consumer})
         /\ CQ!Distinct(CN!Q!Rewind(q)) /\ CQ!Queued(CN!Q!Rewind(q)) = CQ!Queued(q)
  BY SameChainQueue, CQ!ArmedFacts, CQ!RewindFacts

LEMMA ChainPopFacts ==
  ASSUME NEW q \in CQ!QueueOf(ChainNodes \cup {Consumer}), CQ!Distinct(q), q.order # << >>
  PROVE  LET r == CN!Q!Pop(q)
         IN  /\ r \in CQ!QueueOf(ChainNodes \cup {Consumer}) /\ CQ!Distinct(r)
             /\ CQ!Queued(r) = CQ!Queued(q) \ {Head(q.order)}
             /\ Head(q.order) \in CQ!Queued(q)
<1>1. /\ CQ!Pop(q) \in CQ!QueueOf(ChainNodes \cup {Consumer})
      /\ CQ!Distinct(CQ!Pop(q)) /\ CQ!Queued(CQ!Pop(q)) = CQ!Queued(q) \ {q.order[1]}
      /\ q.order[1] = Head(q.order) /\ Len(q.order) >= 1
  BY CQ!PopFacts
<1>2. q.order[1] \in CQ!Queued(q)
  BY <1>1, CQ!QueueFacts
<1> QED
  BY <1>1, <1>2, SameChainQueue

\* A node changes, or comes, that is not where the consumer is or waits.
LEMMA ChangedState ==
  ASSUME NEW nd, NEW o, NEW hd, NEW hd2, NEW c, NEW q, NEW q2, NEW f, StateOK(nd, o, hd, c, q, f),
         NEW n \in ChainNodes, NEW v, v.cell # Consumer \/ v.cell = nd[n].cell,
         HeapOK([nd EXCEPT ![n] = v], o, hd2, {}),
         q2 \in CQ!QueueOf(ChainNodes \cup {Consumer}), CQ!Distinct(q2),
         \A e \in (ChainNodes \cup {Consumer}) \ {n} : e \in CQ!Queued(q2) <=> e \in CQ!Queued(q),
         n \in CQ!Queued(q2) => v.kind = "step1" /\ v.ready /\ n # f,
         f # n, CellOK([nd EXCEPT ![n] = v], o, c, q2, n),
         Consumer \in CQ!Queued(q) => o[Root] # n
  PROVE  StateOK([nd EXCEPT ![n] = v], o, hd2, c, q2, f)
<1> DEFINE w == [nd EXCEPT ![n] = v]
<1>1. /\ w[n] = v /\ \A x \in ChainNodes \ {n} : w[x] = nd[x]
  BY DEF StateOK, HeapOK
<1>2. HeapOK(w, o, hd2, {}) /\ CellOK(w, o, c, q2, n)
  OBVIOUS
<1> HIDE DEF w
<1>3. Consumer \in CQ!Queued(q) => o[Root] \in ChainNodes
  BY LocFacts DEF StateOK, OwnerOK, EventOK, HeapOK
<1>4. EventOK(w, o, c, q2, f)
  <2>1. Consumer \in CQ!Queued(q2) =>
            c = "waiting" /\ w[o[Root]].kind = "leaf" /\ w[o[Root]].ready
    BY <1>1, <1>3, LocFacts DEF StateOK, EventOK
  <2>2. \A x \in ChainNodes : x \in CQ!Queued(q2) => w[x].kind = "step1" /\ w[x].ready /\ x # f
    BY <1>1 DEF StateOK, EventOK
  <2>3. f # None => f \in ChainNodes /\ w[f].kind = "step1" /\ w[f].ready
    BY <1>1 DEF StateOK, EventOK
  <2> QED  BY <2>1, <2>2, <2>3 DEF EventOK
<1>5. ASSUME NEW x \in ChainNodes  PROVE CellOK(w, o, c, q2, x)
  <2>1. CASE x = n
    BY <1>2, <2>1
  <2>2. CASE x # n
    <3>1. w[x] = nd[x] /\ CellOK(nd, o, c, q, x)
      BY <1>1, <2>2 DEF StateOK
    <3>2. Consumer \in CQ!Queued(q2) <=> Consumer \in CQ!Queued(q)
      BY LocFacts
    <3> QED  BY <3>1, <3>2 DEF CellOK
  <2> QED  BY <2>1, <2>2
<1>6. StateOK(w, o, hd2, c, q2, f)
  BY <1>2, <1>4, <1>5 DEF StateOK
<1> QED  BY <1>6 DEF w

\* The consumer calls onReady() on the node in Root.
LEMMA ListenedState ==
  ASSUME NEW nd, NEW o, NEW hd, NEW q, NEW f, StateOK(nd, o, hd, "owner", q, f),
         CN!OnReady([own |-> o, node |-> nd], Root, q)
  PROVE  own' = o /\ StateOK(chain', o, hd, "waiting", chainQueue', f)
<1> DEFINE h == [own |-> o, node |-> nd]
           n == o[Root]
           S == CN!Step2(h)
           Armed == nd[n].kind = "leaf" /\ nd[n].cell = AlreadyReady
           d == IF Armed THEN AlreadyReady ELSE Consumer
           v == [nd[n] EXCEPT !.cell = d]
           w == [nd EXCEPT ![n] = v]
           q2 == IF Armed THEN CN!Q!BreadthFirst(q, Consumer) ELSE q
<1>1. /\ n \in ChainNodes /\ nd[n] \in CN!NodeType /\ nd[n].kind \in {"leaf", "step1"}
      /\ nd \in [ChainNodes -> CN!NodeType]
  BY LocFacts DEF StateOK, OwnerOK, HeapOK
<1>2. \A x \in ChainNodes : CellOK(nd, o, "owner", q, x) /\ nd[x].cell # Consumer
  BY DEF StateOK, CellOK
<1>3. CN!Listener(h, Root) = n
  <2>1. S = {x \in ChainNodes : nd[x].kind = "step2"} /\ h.own[Root] = n
    BY DEF CN!Step2
  <2>2. n \notin S
    BY <1>1, <2>1
  <2> DEFINE p == CN!Path(o, n, S)
  <2>3. p[Cardinality(ChainNodes)] = n
    <3> HIDE DEF S, n
    <3> QED  BY <1>1, <2>2, PathStays, Zenon
  <2> QED  BY <2>3, SameCardinality, Zenon DEF CN!Listener
<1>4. nd[n].cell \in {None, AlreadyReady} /\ (nd[n].kind = "step1" => nd[n].cell = None)
  BY <1>1, <1>2, NodeFacts DEF CellOK
<1>5. own' = o /\ chain' = w /\ chainQueue' = q2
  <2>1. /\ own' = o
        /\ IF nd[n].kind = "step1"
           THEN chain' = [nd EXCEPT ![n].cell = Consumer] /\ chainQueue' = q
           ELSE /\ chain' = [nd EXCEPT ![n].cell = CN!Q!InitCell(@, Consumer)]
                /\ chainQueue' = CN!Q!InitQueue(q, nd[n].cell, Consumer)
    <3>1. h.own = o /\ h.node = nd
      OBVIOUS
    <3> HIDE DEF h, n
    <3> QED  BY <1>3, <3>1 DEF CN!OnReady, h
  <2>2. CASE nd[n].kind = "step1"
    BY <2>1, <2>2
  <2>3. CASE nd[n].kind # "step1"
    <3>1. Armed <=> nd[n].cell = AlreadyReady
      BY <1>1, <2>3
    <3>2. CN!Q!InitCell(nd[n].cell, Consumer) = d
      BY <3>1 DEF CN!Q!InitCell
    <3>3. CN!Q!InitQueue(q, nd[n].cell, Consumer) = q2
      BY <3>1 DEF CN!Q!InitQueue
    <3>4. chain' = [nd EXCEPT ![n].cell = d]
      BY <2>1, <2>3, <3>2
    <3> HIDE DEF d, q2, n
    <3> QED  BY <2>1, <2>3, <3>3, <3>4
  <2> QED  BY <2>2, <2>3
<1>6. /\ d \in {AlreadyReady, Consumer} /\ (d = AlreadyReady <=> Armed)
  BY LocFacts
<1>7. v \in CN!NodeType /\ v.kind = nd[n].kind /\ v.ready = nd[n].ready
      /\ v.selfPtr = nd[n].selfPtr /\ v.cell = d
  <2> HIDE DEF d
  <2>1. d \in {None, AlreadyReady, Consumer}
    BY <1>6
  <2> QED  BY <1>1, <2>1, CellSet
<1> HIDE DEF v
<1>8. w[n] = v /\ \A x \in ChainNodes \ {n} : w[x] = nd[x]
  BY <1>1
<1>9. HeapOK(w, o, hd, {})
  <2> HIDE DEF n
  <2> QED  BY <1>1, <1>7, SameHeap DEF StateOK
<1>10. /\ q2 \in CQ!QueueOf(ChainNodes \cup {Consumer}) /\ CQ!Distinct(q2)
       /\ CQ!Queued(q2) = IF Armed THEN CQ!Queued(q) \cup {Consumer} ELSE CQ!Queued(q)
  BY ChainQueueFacts DEF StateOK, EventOK
<1>11. Consumer \notin CQ!Queued(q)
  BY DEF StateOK, EventOK
<1>12. Armed <=> nd[n].kind = "leaf" /\ nd[n].ready
  BY <1>1, <1>2, <1>4 DEF CellOK
<1> HIDE DEF w, q2, d, Armed
<1>13. EventOK(w, o, "waiting", q2, f)
  <2>1. Consumer \in CQ!Queued(q2) => w[n].kind = "leaf" /\ w[n].ready
    BY <1>7, <1>8, <1>10, <1>11, <1>12
  <2>2. \A x \in ChainNodes : x \in CQ!Queued(q2) => x \in CQ!Queued(q)
    BY <1>10, LocFacts
  <2>3. \A x \in ChainNodes : w[x].kind = nd[x].kind /\ w[x].ready = nd[x].ready
    BY <1>7, <1>8
  <2> QED  BY <1>10, <2>1, <2>2, <2>3 DEF EventOK, StateOK
<1>14. ASSUME NEW x \in ChainNodes  PROVE CellOK(w, o, "waiting", q2, x)
  <2>1. CASE x = n
    BY <1>1, <1>2, <1>6, <1>7, <1>8, <1>10, <1>12, <2>1, LocFacts DEF CellOK
  <2>2. CASE x # n
    BY <1>2, <1>8, <2>2 DEF CellOK
  <2> QED  BY <2>1, <2>2
<1>15. OwnerOK(o, "waiting")
  BY DEF StateOK, OwnerOK
<1> QED
  BY <1>5, <1>9, <1>13, <1>14, <1>15 DEF StateOK

\* Nodes go that nobody else needs, and the consumer with them when L is Root.
LEMMA FreedState ==
  ASSUME ChainInv, NEW S, S \subseteq ChainNodes, NEW L, L \subseteq {Root},
         \A l \in CN!Loc : own[l] \in S => l \in S \cup L,
         \A l \in S \cup L : own[l] # None => own[l] \in S,
         NEW f, f \in {None, chainFiring}, f \notin S,
         NEW c, IF L = {} THEN c = consumer ELSE c \in {"fired", "gone"},
         NEW q, q \in CQ!QueueOf(ChainNodes \cup {Consumer}), CQ!Distinct(q),
         CQ!Queued(q) = CQ!Queued(chainQueue) \ (S \cup (IF L = {} THEN {} ELSE {Consumer}))
  PROVE  StateOK(CN!Freed(S), CN!Disowned(S \cup L), held \ S, c, q, f)
<1> DEFINE nd == CN!Freed(S)
           o == CN!Disowned(S \cup L)
<1>0. /\ HeapOK(chain, own, held, {}) /\ OwnerOK(own, consumer)
      /\ EventOK(chain, own, consumer, chainQueue, chainFiring)
      /\ \A n \in ChainNodes : CellOK(chain, own, consumer, chainQueue, n)
  BY DEF ChainInv, StateOK
<1>1. HeapOK(nd, o, held \ S, {})
  BY <1>0, FreedHeap
<1>2. \A x \in ChainNodes : nd[x] = IF x \in S THEN CN!Free ELSE chain[x]
  BY DEF CN!Freed
<1>3. \A l \in CN!Loc : o[l] = IF l \in S \cup L THEN None ELSE own[l]
  BY DEF CN!Disowned
<1> HIDE DEF nd, o
<1>4. o[Root] = IF L = {} THEN own[Root] ELSE None
  BY <1>3, LocFacts
<1>5. own[Root] \in S => L # {}
  BY LocFacts
<1>6. Root \in L => own[Root] = None \/ own[Root] \in S
  OBVIOUS
<1>7. OwnerOK(o, c)
  BY <1>0, <1>4 DEF OwnerOK
<1>8. own[Root] \in ChainNodes \cup {None}
  BY <1>0, LocFacts DEF HeapOK
<1>9. EventOK(nd, o, c, q, f)
  <2>1. Consumer \in CQ!Queued(q) => c = "waiting" /\ nd[o[Root]].kind = "leaf" /\ nd[o[Root]].ready
    <3>1. SUFFICES ASSUME Consumer \in CQ!Queued(q)
                   PROVE  c = "waiting" /\ nd[o[Root]].kind = "leaf" /\ nd[o[Root]].ready
      OBVIOUS
    <3>2. L = {} /\ Consumer \in CQ!Queued(chainQueue)
      BY <3>1
    <3>3. own[Root] \in ChainNodes \ S
      BY <1>0, <1>5, <1>8, <3>2 DEF EventOK, OwnerOK
    <3> QED  BY <1>0, <1>2, <1>4, <3>2, <3>3 DEF EventOK
  <2>2. \A x \in ChainNodes : x \in CQ!Queued(q) => nd[x].kind = "step1" /\ nd[x].ready /\ x # f
    BY <1>0, <1>2, LocFacts DEF EventOK
  <2>3. f # None => f \in ChainNodes /\ nd[f].kind = "step1" /\ nd[f].ready
    BY <1>0, <1>2 DEF EventOK
  <2> QED  BY <2>1, <2>2, <2>3 DEF EventOK
<1>10. ASSUME NEW x \in ChainNodes  PROVE CellOK(nd, o, c, q, x)
  <2>1. CASE x \in S
    <3>1. nd[x] = CN!Free /\ o[Root] # x
      BY <1>2, <1>4, <1>5, <2>1, LocFacts
    <3> QED  BY <3>1, FreeFacts, LocFacts DEF CellOK
  <2>2. CASE x \notin S
    <3>1. nd[x] = chain[x]
      BY <1>2, <2>2
    <3>2. CASE L = {}
      <4>1. Consumer \in CQ!Queued(q) <=> Consumer \in CQ!Queued(chainQueue)
        BY <3>2, LocFacts
      <4> QED  BY <1>0, <1>4, <3>1, <3>2, <4>1 DEF CellOK
    <3>3. CASE L # {}
      <4>1. own[Root] # x /\ c # "waiting"
        BY <1>6, <2>2, <3>3, LocFacts
      <4> QED  BY <1>0, <3>1, <4>1 DEF CellOK
    <3> QED  BY <3>2, <3>3
  <2> QED  BY <2>1, <2>2
<1> QED
  BY <1>1, <1>7, <1>9, <1>10 DEF StateOK, nd, o

\* What hangs below a promise that the program holds.
LEMMA HeldBelow ==
  ASSUME ChainInv, NEW n \in held, NEW S, S = CN!Below(n)
  PROVE  /\ n \in S /\ S \subseteq ChainNodes /\ held \ S = held \ {n}
         /\ \A l \in CN!Loc : own[l] \in S => l \in S
         /\ \A l \in S : own[l] # None => own[l] \in S
         /\ \E a \in S : S = {n, a}
<1>0. HeapOK(chain, own, held, {}) /\ n \in ChainNodes /\ n \in CN!Loc /\ n # None
  BY LocFacts DEF ChainInv, StateOK, HeapOK
<1>1. S = IF own[n] # None THEN {n, own[n]} ELSE {n}
  BY <1>0, BelowFacts
<1>2. \A l \in CN!Loc : own[l] # n
  BY <1>0 DEF HeapOK
<1>3. CASE own[n] = None
  BY <1>0, <1>1, <1>2, <1>3
<1>4. CASE own[n] # None
  <2>1. own[n] \in ChainNodes /\ own[n] \notin held
    BY <1>0, <1>4 DEF HeapOK
  <2>2. own[own[n]] = None
    BY <1>0, <1>4, <2>1 DEF HeapOK
  <2>3. \A l \in CN!Loc : own[l] = own[n] => l = n
    BY <1>0, <1>4 DEF HeapOK
  <2>4. S = {n, own[n]}
    BY <1>1, <1>4
  <2> QED  BY <1>0, <1>2, <2>1, <2>2, <2>3, <2>4
<1> QED  BY <1>3, <1>4

LEMMA DropKeeps ==
  ASSUME ChainInv, NEW n \in ChainNodes, CN!Drop(n)
  PROVE  ChainInv'
<1> DEFINE S == CN!Below(n)
<1>1. /\ n \in held /\ chainFiring \notin S /\ held' = held \ {n} /\ chainFiring' = chainFiring
      /\ chain' = CN!Freed(S) /\ own' = CN!Disowned(S)
      /\ chainQueue' = CN!Dropped(chainQueue, S) /\ consumer' = consumer /\ chainGot' = chainGot
  BY DEF CN!Drop
<1>2. /\ S \subseteq ChainNodes /\ held \ S = held \ {n}
      /\ \A l \in CN!Loc : own[l] \in S => l \in S
      /\ \A l \in S : own[l] # None => own[l] \in S
      /\ \E a \in S : S = {n, a}
  BY <1>1, HeldBelow
<1> HIDE DEF S
<1>3. /\ chainQueue' \in CQ!QueueOf(ChainNodes \cup {Consumer}) /\ CQ!Distinct(chainQueue')
      /\ CQ!Queued(chainQueue') = CQ!Queued(chainQueue) \ S
  <2>1. PICK a \in S : S = {n, a}
    BY <1>2
  <2>2. chainQueue \in CQ!QueueOf(ChainNodes \cup {Consumer}) /\ CQ!Distinct(chainQueue)
    BY DEF ChainInv, StateOK, EventOK
  <2> QED  BY <1>1, <2>1, <2>2, DroppedTwo
<1> DEFINE L == {}
<1>4. L \subseteq {Root} /\ S \cup L = S /\ L = {}
  OBVIOUS
<1> HIDE DEF L
<1>5. StateOK(CN!Freed(S), CN!Disowned(S \cup L), held \ S, consumer, chainQueue', chainFiring)
  BY <1>1, <1>2, <1>3, <1>4, FreedState
<1> QED
  BY <1>1, <1>2, <1>4, <1>5 DEF ChainInv

\* The node in Root owns nothing.
LEMMA RootBelow ==
  ASSUME ChainInv, consumer \in {"owner", "waiting"}
  PROVE  /\ own[Root] \in ChainNodes /\ CN!Below(own[Root]) = {own[Root]}
         /\ own[own[Root]] = None /\ own[Root] \notin held
         /\ chain[own[Root]].kind \in {"leaf", "step1"}
         /\ \A l \in CN!Loc : own[l] = own[Root] => l = Root
<1>0. HeapOK(chain, own, held, {}) /\ own[Root] # None
  BY DEF ChainInv, StateOK, OwnerOK
<1>1. /\ own[Root] \in ChainNodes /\ own[Root] \notin held
      /\ chain[own[Root]].kind \in {"leaf", "step1"}
  BY <1>0, LocFacts DEF HeapOK
<1>2. own[own[Root]] = None
  BY <1>0, <1>1 DEF HeapOK
<1>3. \A l \in CN!Loc : own[l] = own[Root] => l = Root
  BY <1>0, LocFacts DEF HeapOK
<1> QED
  BY <1>0, <1>1, <1>2, <1>3, BelowFacts

LEMMA CancelKeeps ==
  ASSUME ChainInv, CN!Cancel
  PROVE  ChainInv'
<1> DEFINE r == own[Root]
           S == {r}
           L == {Root}
<1>0. consumer \in {"owner", "waiting"}
  BY DEF CN!Cancel
<1>1. /\ r \in ChainNodes /\ CN!Below(r) = S /\ own[r] = None /\ r \notin held
      /\ \A l \in CN!Loc : own[l] = r => l = Root
  BY <1>0, RootBelow
<1>2. /\ chainFiring \notin S
      /\ chain' = CN!Freed(S) /\ own' = CN!Disowned(S \cup L)
      /\ chainQueue' = CN!Dropped(chainQueue, S \cup {Consumer}) /\ consumer' = "gone"
      /\ held' = held /\ chainFiring' = chainFiring /\ chainGot' = chainGot
  BY <1>1 DEF CN!Cancel
<1>3. chainQueue \in CQ!QueueOf(ChainNodes \cup {Consumer}) /\ CQ!Distinct(chainQueue)
  BY DEF ChainInv, StateOK, EventOK
<1>4. /\ chainQueue' \in CQ!QueueOf(ChainNodes \cup {Consumer}) /\ CQ!Distinct(chainQueue')
      /\ CQ!Queued(chainQueue') = CQ!Queued(chainQueue) \ (S \cup {Consumer})
  <2>1. S \cup {Consumer} = {r, Consumer}
    OBVIOUS
  <2>2. /\ CN!Dropped(chainQueue, {r, Consumer}) \in CQ!QueueOf(ChainNodes \cup {Consumer})
        /\ CQ!Distinct(CN!Dropped(chainQueue, {r, Consumer}))
        /\ CQ!Queued(CN!Dropped(chainQueue, {r, Consumer})) = CQ!Queued(chainQueue) \ {r, Consumer}
    <3> HIDE DEF r
    <3> QED  BY <1>3, DroppedTwo
  <2> HIDE DEF r, S
  <2> QED  BY <1>2, <2>1, <2>2
<1>5. /\ S \subseteq ChainNodes /\ L \subseteq {Root} /\ L # {}
      /\ \A l \in CN!Loc : own[l] \in S => l \in S \cup L
      /\ \A l \in S \cup L : own[l] # None => own[l] \in S
      /\ held \ S = held
  BY <1>1
<1> HIDE DEF r, S, L
<1>6. StateOK(CN!Freed(S), CN!Disowned(S \cup L), held \ S, "gone", chainQueue', chainFiring)
  BY <1>2, <1>4, <1>5, FreedState
<1> QED
  BY <1>2, <1>5, <1>6 DEF ChainInv

LEMMA FireConsumerKeeps ==
  ASSUME ChainInv, CN!FireConsumer
  PROVE  ChainInv'
<1> DEFINE r == own[Root]
           S == {r}
           L == {Root}
           q == CN!Q!Pop(chainQueue)
<1>0. /\ chainQueue.order # << >> /\ Head(chainQueue.order) = Consumer /\ chainFiring = None
      /\ chainQueue \in CQ!QueueOf(ChainNodes \cup {Consumer}) /\ CQ!Distinct(chainQueue)
  BY LocFacts DEF CN!FireConsumer, CN!First, ChainInv, StateOK, EventOK
<1>1. /\ q \in CQ!QueueOf(ChainNodes \cup {Consumer}) /\ CQ!Distinct(q)
      /\ CQ!Queued(q) = CQ!Queued(chainQueue) \ {Consumer} /\ Consumer \in CQ!Queued(chainQueue)
  BY <1>0, ChainPopFacts
<1>2. consumer = "waiting" /\ chain[r].kind = "leaf" /\ chain[r].ready
  BY <1>1 DEF ChainInv, StateOK, EventOK
<1>3. /\ r \in ChainNodes /\ CN!Below(r) = S /\ own[r] = None /\ r \notin held
      /\ \A l \in CN!Loc : own[l] = r => l = Root
  BY <1>2, RootBelow
<1>4. /\ chain' = CN!Freed(S) /\ own' = CN!Disowned(S \cup L)
      /\ chainQueue' = CN!Dropped(q, S) /\ consumer' = "fired" /\ chainGot' = "result"
      /\ held' = held /\ chainFiring' = chainFiring
  BY <1>2, <1>3 DEF CN!FireConsumer, CN!Is
<1> HIDE DEF q
<1>5. /\ chainQueue' \in CQ!QueueOf(ChainNodes \cup {Consumer}) /\ CQ!Distinct(chainQueue')
      /\ CQ!Queued(chainQueue') = CQ!Queued(chainQueue) \ (S \cup {Consumer})
  <2>1. S = {r, r}
    OBVIOUS
  <2>2. /\ CN!Dropped(q, {r, r}) \in CQ!QueueOf(ChainNodes \cup {Consumer})
        /\ CQ!Distinct(CN!Dropped(q, {r, r}))
        /\ CQ!Queued(CN!Dropped(q, {r, r})) = CQ!Queued(q) \ {r, r}
    <3> HIDE DEF r
    <3> QED  BY <1>1, DroppedTwo
  <2> HIDE DEF r
  <2> QED  BY <1>1, <1>4, <2>1, <2>2
<1>6. /\ S \subseteq ChainNodes /\ L \subseteq {Root} /\ L # {}
      /\ \A l \in CN!Loc : own[l] \in S => l \in S \cup L
      /\ \A l \in S \cup L : own[l] # None => own[l] \in S
      /\ held \ S = held /\ None \notin S
  BY <1>3, LocFacts
<1> HIDE DEF r, S, L
<1>7. StateOK(CN!Freed(S), CN!Disowned(S \cup L), held \ S, "fired", chainQueue', chainFiring)
  BY <1>0, <1>4, <1>5, <1>6, FreedState
<1> QED
  BY <1>4, <1>6, <1>7 DEF ChainInv

LEMMA NewLeafKeeps ==
  ASSUME ChainInv, NEW n \in ChainNodes, NEW ready \in BOOLEAN, CN!NewLeaf(n, ready)
  PROVE  ChainInv'
<1> DEFINE c == IF ready THEN AlreadyReady ELSE None
           v == [CN!Free EXCEPT !.kind = "leaf", !.ready = ready, !.cell = c]
<1>1. /\ chain[n].kind = "free" /\ chain' = [chain EXCEPT ![n] = v] /\ held' = held \cup {n}
      /\ own' = own /\ chainQueue' = chainQueue /\ chainFiring' = chainFiring
      /\ consumer' = consumer /\ chainGot' = chainGot
  BY DEF CN!NewLeaf, CN!Is
<1>2. c \in {None, AlreadyReady} /\ (ready => c # None) /\ (~ready => c # AlreadyReady)
      /\ c # Consumer
  BY LocFacts
<1> HIDE DEF c
<1>3. v \in CN!NodeType /\ v.kind = "leaf" /\ v.selfPtr = None /\ v.cell = c /\ v.ready = ready
  BY <1>2 DEF CN!Free, CN!NodeType
<1> HIDE DEF v
<1>4. StateOK(chain, own, held, consumer, chainQueue, chainFiring)
  BY DEF ChainInv
<1>5. HeapOK([chain EXCEPT ![n] = v], own, held \cup {n}, {})
  BY <1>1, <1>3, <1>4, AddedHeap DEF StateOK
<1>6. own[Root] # n
  BY <1>1, <1>4, LocFacts DEF StateOK, HeapOK
<1>7. chainFiring # n /\ n \notin CQ!Queued(chainQueue)
  BY <1>1, <1>4, LocFacts DEF StateOK, EventOK
<1>8. [chain EXCEPT ![n] = v][n] = v
  BY <1>4 DEF StateOK, HeapOK
<1>9. CellOK([chain EXCEPT ![n] = v], own, consumer, chainQueue, n)
  <2> DEFINE w == [chain EXCEPT ![n] = v]
  <2>1. w[n] = v
    BY <1>8
  <2> HIDE DEF w
  <2>2. CellOK(w, own, consumer, chainQueue, n)
    BY <1>2, <1>3, <1>6, <2>1 DEF CellOK
  <2> QED  BY <2>2 DEF w
<1>10. StateOK([chain EXCEPT ![n] = v], own, held \cup {n}, consumer, chainQueue, chainFiring)
  <2>1. chainQueue \in CQ!QueueOf(ChainNodes \cup {Consumer}) /\ CQ!Distinct(chainQueue)
    BY <1>4 DEF StateOK, EventOK
  <2> QED  BY <1>2, <1>3, <1>4, <1>5, <1>6, <1>7, <1>9, <2>1, ChangedState
<1> QED
  BY <1>1, <1>10 DEF ChainInv

LEMMA NewChainKeeps ==
  ASSUME ChainInv, NEW n \in ChainNodes, NEW ready \in BOOLEAN, CN!NewChain(n, ready)
  PROVE  ChainInv'
<1> DEFINE v == [CN!Free EXCEPT !.kind = "step1", !.ready = ready]
           q == IF ready THEN CN!Q!BreadthFirst(chainQueue, n) ELSE chainQueue
<1>1. /\ chain[n].kind = "free" /\ chain' = [chain EXCEPT ![n] = v] /\ held' = held \cup {n}
      /\ own' = own /\ chainQueue' = q /\ chainFiring' = chainFiring
      /\ consumer' = consumer /\ chainGot' = chainGot
  BY DEF CN!NewChain, CN!Is
<1>3. v \in CN!NodeType /\ v.kind = "step1" /\ v.selfPtr = None /\ v.cell = None /\ v.ready = ready
  BY DEF CN!Free, CN!NodeType
<1> HIDE DEF v
<1>4. StateOK(chain, own, held, consumer, chainQueue, chainFiring)
  BY DEF ChainInv
<1>5. HeapOK([chain EXCEPT ![n] = v], own, held \cup {n}, {})
  BY <1>1, <1>3, <1>4, AddedHeap DEF StateOK
<1>6. own[Root] # n
  BY <1>1, <1>4, LocFacts DEF StateOK, HeapOK
<1>7. chainFiring # n /\ n \notin CQ!Queued(chainQueue)
  BY <1>1, <1>4, LocFacts DEF StateOK, EventOK
<1>8. /\ q \in CQ!QueueOf(ChainNodes \cup {Consumer}) /\ CQ!Distinct(q)
      /\ CQ!Queued(q) = CQ!Queued(chainQueue) \cup (IF ready THEN {n} ELSE {})
  BY <1>4, ChainQueueFacts DEF StateOK, EventOK
<1> HIDE DEF q
<1>9. CellOK([chain EXCEPT ![n] = v], own, consumer, q, n)
  <2> DEFINE w == [chain EXCEPT ![n] = v]
  <2>1. w[n] = v
    BY <1>4 DEF StateOK, HeapOK
  <2> HIDE DEF w
  <2>2. CellOK(w, own, consumer, q, n)
    BY <1>3, <1>6, <2>1, LocFacts DEF CellOK
  <2> QED  BY <2>2 DEF w
<1>10. StateOK([chain EXCEPT ![n] = v], own, held \cup {n}, consumer, q, chainFiring)
  <2>1. \A e \in (ChainNodes \cup {Consumer}) \ {n} :
            e \in CQ!Queued(q) <=> e \in CQ!Queued(chainQueue)
    BY <1>8
  <2>2. n \in CQ!Queued(q) => v.kind = "step1" /\ v.ready /\ n # chainFiring
    BY <1>3, <1>7, <1>8
  <2>3. v.cell # Consumer
    BY <1>3, LocFacts
  <2> QED  BY <1>4, <1>5, <1>6, <1>7, <1>8, <1>9, <2>1, <2>2, <2>3, ChangedState
<1> QED
  BY <1>1, <1>10 DEF ChainInv

LEMMA StepReadyKeeps ==
  ASSUME ChainInv, NEW n \in ChainNodes, CN!StepReady(n)
  PROVE  ChainInv'
<1> DEFINE v == [chain[n] EXCEPT !.ready = TRUE]
           q == CN!Q!DepthFirst(chainQueue, n)
<1>1. /\ chain[n].kind = "step1" /\ ~chain[n].ready /\ chain' = [chain EXCEPT ![n] = v]
      /\ held' = held /\ own' = own /\ chainQueue' = q /\ chainFiring' = chainFiring
      /\ consumer' = consumer /\ chainGot' = chainGot
  BY DEF CN!StepReady, CN!Is
<1>2. StateOK(chain, own, held, consumer, chainQueue, chainFiring) /\ chain[n] \in CN!NodeType
  BY DEF ChainInv, StateOK, HeapOK
<1>3. /\ v \in CN!NodeType /\ v.kind = chain[n].kind /\ v.selfPtr = chain[n].selfPtr
      /\ v.cell = chain[n].cell /\ v.ready = TRUE
  BY <1>2, MadeReady
<1> HIDE DEF v
<1>5. HeapOK([chain EXCEPT ![n] = v], own, held, {})
  BY <1>1, <1>2, <1>3, SameHeap DEF StateOK
<1>6. chainFiring # n /\ (Consumer \in CQ!Queued(chainQueue) => own[Root] # n)
  BY <1>1, <1>2, LocFacts DEF StateOK, EventOK
<1>8. /\ q \in CQ!QueueOf(ChainNodes \cup {Consumer}) /\ CQ!Distinct(q)
      /\ CQ!Queued(q) = CQ!Queued(chainQueue) \cup {n}
  BY <1>2, ChainQueueFacts DEF StateOK, EventOK
<1> HIDE DEF q
<1>9. CellOK([chain EXCEPT ![n] = v], own, consumer, q, n)
  <2> DEFINE w == [chain EXCEPT ![n] = v]
  <2>1. w[n] = v
    BY <1>2 DEF StateOK, HeapOK
  <2> HIDE DEF w
  <2>2. CellOK(chain, own, consumer, chainQueue, n)
    BY <1>2 DEF StateOK
  <2>3. CellOK(w, own, consumer, q, n)
    BY <1>1, <1>3, <2>1, <2>2, LocFacts DEF CellOK
  <2> QED  BY <2>3 DEF w
<1>10. StateOK([chain EXCEPT ![n] = v], own, held, consumer, q, chainFiring)
  <2>1. \A e \in (ChainNodes \cup {Consumer}) \ {n} :
            e \in CQ!Queued(q) <=> e \in CQ!Queued(chainQueue)
    BY <1>8
  <2>2. n \in CQ!Queued(q) => v.kind = "step1" /\ v.ready /\ n # chainFiring
    BY <1>1, <1>3, <1>6, <1>8
  <2> QED  BY <1>2, <1>3, <1>5, <1>6, <1>8, <1>9, <2>1, <2>2, ChangedState
<1> QED
  BY <1>1, <1>10 DEF ChainInv

LEMMA LeafReadyKeeps ==
  ASSUME ChainInv, NEW n \in ChainNodes, CN!LeafReady(n)
  PROVE  ChainInv'
<1> DEFINE waits == chain[n].cell = Consumer
           c == IF waits THEN Consumer ELSE AlreadyReady
           v == [chain[n] EXCEPT !.ready = TRUE, !.cell = c]
           q == IF waits THEN CN!Q!DepthFirst(chainQueue, Consumer) ELSE chainQueue
           w == [chain EXCEPT ![n] = v]
<1>0. /\ StateOK(chain, own, held, consumer, chainQueue, chainFiring)
      /\ chain[n] \in CN!NodeType /\ chain[n].kind = "leaf" /\ ~chain[n].ready
      /\ chain \in [ChainNodes -> CN!NodeType]
      /\ \A x \in ChainNodes : CellOK(chain, own, consumer, chainQueue, x)
  BY DEF ChainInv, StateOK, HeapOK, CN!LeafReady, CN!Is
<1>1. chain[n].cell \in {None, Consumer}
  BY <1>0, NodeFacts DEF CellOK
<1>2. /\ chain' = w /\ chainQueue' = q
      /\ held' = held /\ own' = own /\ chainFiring' = chainFiring
      /\ consumer' = consumer /\ chainGot' = chainGot
  <2>1. CN!Q!ArmCell(chain[n].cell) = c
    BY <1>1, LocFacts DEF CN!Q!ArmCell
  <2>2. CN!Q!ArmQueue(chainQueue, chain[n].cell) = q
    BY <1>1, LocFacts DEF CN!Q!ArmQueue
  <2> HIDE DEF c, q
  <2>3. chain' = [chain EXCEPT ![n].ready = TRUE, ![n].cell = c]
    BY <2>1 DEF CN!LeafReady
  <2> QED  BY <1>0, <2>2, <2>3 DEF CN!LeafReady
<1>3. c \in {Consumer, AlreadyReady} /\ (c = Consumer <=> waits)
  BY LocFacts
<1> HIDE DEF c
<1>4. /\ v \in CN!NodeType /\ v.kind = "leaf" /\ v.selfPtr = chain[n].selfPtr
      /\ v.cell = c /\ v.ready = TRUE
  BY <1>0, <1>3 DEF CN!NodeType
<1> HIDE DEF v
<1>5. HeapOK(w, own, held, {})
  BY <1>0, <1>4, SameHeap DEF StateOK
<1>6. /\ q \in CQ!QueueOf(ChainNodes \cup {Consumer}) /\ CQ!Distinct(q)
      /\ CQ!Queued(q) = CQ!Queued(chainQueue) \cup (IF waits THEN {Consumer} ELSE {})
  BY <1>0, ChainQueueFacts DEF StateOK, EventOK
<1>7. w[n] = v /\ \A x \in ChainNodes \ {n} : w[x] = chain[x]
  BY <1>0
<1> HIDE DEF q, w
<1>8. waits => consumer = "waiting" /\ own[Root] = n
  BY <1>0 DEF CellOK
<1>9. consumer = "waiting" /\ own[Root] = n => waits
  BY <1>0 DEF CellOK
<1>10. Consumer \in CQ!Queued(chainQueue) => own[Root] # n /\ own[Root] \in ChainNodes
  BY <1>0, LocFacts DEF StateOK, EventOK, OwnerOK, HeapOK
<1> HIDE DEF waits
<1>11. EventOK(w, own, consumer, q, chainFiring)
  <2>1. Consumer \in CQ!Queued(q) =>
            consumer = "waiting" /\ w[own[Root]].kind = "leaf" /\ w[own[Root]].ready
    <3>1. Consumer \in CQ!Queued(chainQueue) =>
              consumer = "waiting" /\ w[own[Root]].kind = "leaf" /\ w[own[Root]].ready
      BY <1>0, <1>7, <1>10 DEF StateOK, EventOK
    <3>2. waits => consumer = "waiting" /\ w[own[Root]].kind = "leaf" /\ w[own[Root]].ready
      BY <1>4, <1>7, <1>8
    <3>3. Consumer \in CQ!Queued(q) => waits \/ Consumer \in CQ!Queued(chainQueue)
      BY <1>6
    <3> QED  BY <3>1, <3>2, <3>3
  <2>2. ASSUME NEW x \in ChainNodes, x \in CQ!Queued(q)
        PROVE  w[x].kind = "step1" /\ w[x].ready /\ x # chainFiring
    <3>1. x \in CQ!Queued(chainQueue)
      BY <1>6, <2>2, LocFacts
    <3>2. x # n
      BY <1>0, <3>1 DEF StateOK, EventOK
    <3> QED  BY <1>0, <1>7, <3>1, <3>2 DEF StateOK, EventOK
  <2>3. chainFiring # None =>
            chainFiring \in ChainNodes /\ w[chainFiring].kind = "step1" /\ w[chainFiring].ready
    BY <1>0, <1>7 DEF StateOK, EventOK
  <2> QED  BY <1>6, <2>1, <2>2, <2>3 DEF EventOK
<1>12. ASSUME NEW x \in ChainNodes  PROVE CellOK(w, own, consumer, q, x)
  <2>1. CASE x = n
    <3>1. waits => Consumer \in CQ!Queued(q)
      BY <1>6
    <3> QED
      BY <1>3, <1>4, <1>7, <1>8, <1>9, <2>1, <3>1, LocFacts DEF CellOK
  <2>2. CASE x # n
    <3>1. w[x] = chain[x] /\ CellOK(chain, own, consumer, chainQueue, x)
      BY <1>0, <1>7, <2>2
    <3>2. Consumer \in CQ!Queued(chainQueue) => Consumer \in CQ!Queued(q)
      BY <1>6
    <3> QED  BY <3>1, <3>2 DEF CellOK
  <2> QED  BY <2>1, <2>2
<1>13. StateOK(w, own, held, consumer, q, chainFiring)
  BY <1>0, <1>5, <1>11, <1>12 DEF StateOK
<1> QED
  BY <1>2, <1>13 DEF ChainInv

LEMMA AttachKeeps ==
  ASSUME ChainInv, CN!Attach
  PROVE  ChainInv'
<1>1. /\ consumer = "owner" /\ consumer' = "waiting" /\ held' = held
      /\ chainFiring' = chainFiring /\ chainGot' = chainGot
      /\ CN!OnReady([own |-> own, node |-> chain], Root, chainQueue)
  BY DEF CN!Attach
<1>2. StateOK(chain, own, held, "owner", chainQueue, chainFiring)
  BY <1>1 DEF ChainInv
<1>3. own' = own /\ StateOK(chain', own, held, "waiting", chainQueue', chainFiring)
  BY <1>1, <1>2, ListenedState
<1> QED
  BY <1>1, <1>3 DEF ChainInv

\* The loop takes the event of a chain, and other events come and go.
LEMMA QuietKeeps ==
  ASSUME ChainInv, chain' = chain, own' = own, held' = held, consumer' = consumer,
         chainGot' = chainGot, NEW n \in ChainNodes \cup {None},
         IF n = None
         THEN /\ chainFiring' = chainFiring
              /\ chainQueue' = chainQueue \/ chainQueue' = CN!Q!Rewind(chainQueue)
         ELSE /\ chainFiring' = n /\ chainQueue' = CN!Q!Pop(chainQueue)
              /\ chainQueue.order # << >> /\ Head(chainQueue.order) = n
  PROVE  ChainInv'
<1>0. /\ StateOK(chain, own, held, consumer, chainQueue, chainFiring)
      /\ chainQueue \in CQ!QueueOf(ChainNodes \cup {Consumer}) /\ CQ!Distinct(chainQueue)
  BY DEF ChainInv, StateOK, EventOK
<1> DEFINE q == IF n = None THEN chainQueue' ELSE CN!Q!Pop(chainQueue)
           f == IF n = None THEN chainFiring ELSE n
<1>1. chainQueue' = q /\ chainFiring' = f
  OBVIOUS
<1>2. /\ q \in CQ!QueueOf(ChainNodes \cup {Consumer}) /\ CQ!Distinct(q)
      /\ CQ!Queued(q) = CQ!Queued(chainQueue) \ {n}
      /\ n # None => n \in CQ!Queued(chainQueue)
  <2>1. CASE n = None
    <3>1. n \notin CQ!Queued(chainQueue)
      <4>1. \A e \in CQ!Queued(chainQueue) : e \in ChainNodes \cup {Consumer}
        BY <1>0, CQ!QueueFacts DEF CQ!Queued
      <4> QED  BY <2>1, <4>1, LocFacts
    <3>2. q = chainQueue \/ q = CN!Q!Rewind(chainQueue)
      BY <2>1
    <3> HIDE DEF q
    <3> QED  BY <1>0, <2>1, <3>1, <3>2, ChainQueueFacts
  <2>2. CASE n # None
    <3>1. q = CN!Q!Pop(chainQueue) /\ chainQueue.order # << >> /\ Head(chainQueue.order) = n
      BY <2>2
    <3> HIDE DEF q
    <3> QED  BY <1>0, <3>1, ChainPopFacts
  <2> QED  BY <2>1, <2>2
<1>3. n # Consumer
  BY LocFacts
<1>4. f # None => f \in ChainNodes /\ chain[f].kind = "step1" /\ chain[f].ready
  BY <1>0, <1>2 DEF StateOK, EventOK
<1>5. \A x \in ChainNodes : x \in CQ!Queued(q) => chain[x].kind = "step1" /\ chain[x].ready /\ x # f
  BY <1>0, <1>2 DEF StateOK, EventOK
<1> HIDE DEF q, f
<1>6. Consumer \in CQ!Queued(q) <=> Consumer \in CQ!Queued(chainQueue)
  BY <1>2, <1>3
<1>7. EventOK(chain, own, consumer, q, f)
  BY <1>0, <1>2, <1>4, <1>5, <1>6 DEF StateOK, EventOK
<1>8. \A x \in ChainNodes : CellOK(chain, own, consumer, q, x)
  BY <1>0, <1>6 DEF StateOK, CellOK
<1>9. StateOK(chain, own, held, consumer, q, f)
  BY <1>0, <1>7, <1>8 DEF StateOK
<1> QED
  BY <1>1, <1>9 DEF ChainInv

\* A promise m goes to the place l, and an owner comes with it when that is Root.
LEMMA MovedState ==
  ASSUME NEW nd, NEW o, NEW hd, NEW m, NEW l, Fits(nd, o, hd, m, l),
         NEW c, NEW q, NEW f, EventOK(nd, o, c, q, f), OwnerOK(o, c),
         \A x \in ChainNodes : CellOK(nd, o, c, q, x), l = Root => c = "none"
  PROVE  StateOK(MovedNode(nd, o, m, l), MovedOwn(nd, o, m, l), hd \ {m},
                 IF l = Root THEN "owner" ELSE c, q, f)
<1> DEFINE u == MovedOwn(nd, o, m, l)
           w == MovedNode(nd, o, m, l)
           c2 == IF l = Root THEN "owner" ELSE c
<1>a. m \in ChainNodes /\ LastOf(nd, o, m) \in ChainNodes
  BY LastFacts
<1>b. Moved(nd, o, hd, m, l)
  BY MovedFacts
<1>c. /\ HeapOK(w, u, hd \ {m}, {}) /\ u[l] = LastOf(nd, o, m)
      /\ \A x \in CN!Loc \ {l, m} : u[x] = o[x]
      /\ \A x \in ChainNodes :
            \/ x = m /\ nd[m].kind = "step2" /\ w[x] = CN!Free
            \/ w[x].kind = nd[x].kind /\ w[x].ready = nd[x].ready /\ w[x].cell = nd[x].cell
  BY <1>b DEF Moved
<1> HIDE DEF u, w
<1>1. /\ HeapOK(w, u, hd \ {m}, {}) /\ u[l] = LastOf(nd, o, m) /\ LastOf(nd, o, m) \in ChainNodes
      /\ \A x \in CN!Loc \ {l, m} : u[x] = o[x]
      /\ \A x \in ChainNodes :
            \/ x = m /\ nd[m].kind = "step2" /\ w[x] = CN!Free
            \/ w[x].kind = nd[x].kind /\ w[x].ready = nd[x].ready /\ w[x].cell = nd[x].cell
      /\ m \in ChainNodes
  BY <1>a, <1>c
<1>2. CASE l = Root
  <2>1. c2 = "owner" /\ c = "none" /\ u[Root] # None
    BY <1>1, <1>2, LocFacts
  <2> HIDE DEF c2
  <2>2. Consumer \notin CQ!Queued(q)
    BY <2>1 DEF EventOK
  <2>3. EventOK(w, u, c2, q, f)
    BY <1>1, <2>1, <2>2, FreeFacts DEF EventOK
  <2>4. ASSUME NEW x \in ChainNodes  PROVE CellOK(w, u, c2, q, x)
    <3>1. CellOK(nd, o, c, q, x)
      OBVIOUS
    <3> QED  BY <1>1, <2>1, <3>1, FreeFacts, LocFacts DEF CellOK
  <2>5. OwnerOK(u, c2)
    BY <2>1 DEF OwnerOK
  <2>6. StateOK(w, u, hd \ {m}, c2, q, f)
    BY <1>1, <2>3, <2>4, <2>5 DEF StateOK
  <2> QED  BY <2>6 DEF u, w, c2
<1>3. CASE l # Root
  <2>1. c2 = c /\ u[Root] = o[Root] /\ o[Root] # m /\ o[Root] \in ChainNodes \cup {None}
    <3>1. m \in hd /\ HeapOK(nd, o, hd, {l})
      BY DEF Fits
    <3>2. o[Root] # m /\ o[Root] \in ChainNodes \cup {None}
      BY <1>1, <3>1, LocFacts DEF HeapOK
    <3> QED  BY <1>1, <1>3, <3>2, LocFacts
  <2> HIDE DEF c2
  <2>2. EventOK(w, u, c2, q, f)
    <3>1. Consumer \in CQ!Queued(q) => c2 = "waiting" /\ w[u[Root]].kind = "leaf" /\ w[u[Root]].ready
      <4>1. Consumer \in CQ!Queued(q) => o[Root] \in ChainNodes
        BY <2>1 DEF EventOK, OwnerOK
      <4> QED  BY <1>1, <2>1, <4>1 DEF EventOK
    <3>2. \A x \in ChainNodes : x \in CQ!Queued(q) => w[x].kind = "step1" /\ w[x].ready /\ x # f
      BY <1>1 DEF EventOK
    <3>3. f # None => f \in ChainNodes /\ w[f].kind = "step1" /\ w[f].ready
      BY <1>1 DEF EventOK
    <3> QED  BY <3>1, <3>2, <3>3 DEF EventOK
  <2>3. ASSUME NEW x \in ChainNodes  PROVE CellOK(w, u, c2, q, x)
    <3>1. CellOK(nd, o, c, q, x)
      OBVIOUS
    <3>2. CASE x = m
      BY <1>1, <2>1, <3>1, <3>2, FreeFacts, LocFacts DEF CellOK
    <3>3. CASE x # m
      BY <1>1, <2>1, <3>1, <3>3 DEF CellOK
    <3> QED  BY <3>2, <3>3
  <2>4. OwnerOK(u, c2)
    BY <2>1 DEF OwnerOK
  <2>5. StateOK(w, u, hd \ {m}, c2, q, f)
    BY <1>1, <2>2, <2>3, <2>4 DEF StateOK
  <2> QED  BY <2>5 DEF u, w, c2
<1> QED  BY <1>2, <1>3

LEMMA AdoptKeeps ==
  ASSUME ChainInv, NEW n \in ChainNodes, CN!Adopt(n)
  PROVE  ChainInv'
<1>0. /\ StateOK(chain, own, held, "none", chainQueue, chainFiring) /\ n \in held
      /\ consumer = "none" /\ consumer' = "owner" /\ held' = held \ {n}
      /\ chainQueue' = chainQueue /\ chainFiring' = chainFiring /\ chainGot' = chainGot
  BY DEF CN!Adopt, ChainInv
<1>1. own[Root] = None
  BY <1>0 DEF StateOK, OwnerOK
<1>2. Fits(chain, own, held, n, Root)
  BY <1>0, <1>1, LocFacts DEF StateOK, HeapOK, Fits
<1>3. /\ own' = MovedOwn(chain, own, n, Root) /\ chain' = MovedNode(chain, own, n, Root)
  <2> DEFINE h == CN!SetSelf([own |-> [own EXCEPT ![Root] = n], node |-> chain], Root)
  <2>1. own' = h.own /\ chain' = h.node
    BY DEF CN!Adopt
  <2>2. h = [own |-> MovedOwn(chain, own, n, Root), node |-> MovedNode(chain, own, n, Root)]
    BY <1>2, SetSelfFacts
  <2> HIDE DEF h
  <2> QED  BY <2>1, <2>2
<1>4. StateOK(MovedNode(chain, own, n, Root), MovedOwn(chain, own, n, Root), held \ {n},
              IF Root = Root THEN "owner" ELSE "none", chainQueue, chainFiring)
  BY <1>0, <1>2, MovedState DEF StateOK
<1>5. StateOK(MovedNode(chain, own, n, Root), MovedOwn(chain, own, n, Root), held \ {n},
              "owner", chainQueue, chainFiring)
  BY <1>4
<1> QED
  BY <1>0, <1>3, <1>5 DEF ChainInv

\* The place that the chain in whose fire() we are leaves: it goes, and its location is
\* empty, or it stays and is what the promise goes to.
LEMMA HoleFits ==
  ASSUME ChainInv, NEW m, CN!Given(m)
  PROVE  LET f == chainFiring
             l == CN!Place
             r == CN!Replaced(m)
         IN  /\ l = Root => own[Root] = f
             /\ chain[f].cell = Consumer => l = Root
             /\ f \in ChainNodes /\ f # m /\ l \in CN!Loc
             /\ \E nd, o :
                   /\ r = [own |-> [o EXCEPT ![l] = m], node |-> nd]
                   /\ Fits(nd, o, held, m, l)
                   /\ nd[f].kind # "step1" /\ nd[f].kind # "leaf" /\ nd[f].cell = None
                   /\ \A x \in ChainNodes \ {f} : nd[x] = chain[x]
                   /\ l = Root => o[Root] = None
                   /\ l # Root => o[Root] = own[Root] /\ own[Root] # f
<1> DEFINE f == chainFiring
           l == CN!Place
<1>0. /\ HeapOK(chain, own, held, {}) /\ f \in ChainNodes /\ chain[f].kind = "step1"
      /\ m \in held /\ f \notin CN!Below(m)
      /\ \A x \in ChainNodes : CellOK(chain, own, consumer, chainQueue, x)
  BY DEF CN!Given, ChainInv, StateOK, EventOK
<1>1. m \in ChainNodes /\ f # m /\ own[m] # f
  <2>1. m \in ChainNodes
    BY <1>0 DEF HeapOK
  <2>2. m \in CN!Below(m) /\ (own[m] # None => own[m] \in CN!Below(m))
    BY <1>0, <2>1, BelowFacts
  <2> QED  BY <1>0, <2>1, <2>2, LocFacts
<1>2. /\ chain \in [ChainNodes -> CN!NodeType] /\ own \in [CN!Loc -> ChainNodes \cup {None}]
      /\ chain[f] \in CN!NodeType /\ own[f] = None /\ f # None /\ f \in CN!Loc
  BY <1>0, LocFacts DEF HeapOK
<1>3. CASE chain[f].selfPtr # None
  <2>1. l = chain[f].selfPtr /\ f \notin held /\ l \in CN!Loc /\ own[l] = f
    BY <1>0, <1>3 DEF HeapOK, CN!Place
  <2> HIDE DEF l
  <2>2. \A k \in CN!Loc : own[k] = f => k = l
    BY <1>0, <1>2, <2>1 DEF HeapOK
  <2>3. l # f /\ l # m
    BY <1>1, <1>2, <2>1
  <2> DEFINE nd == [chain EXCEPT ![f] = CN!Free]
             o == [own EXCEPT ![l] = None]
  <2>4. /\ nd \in [ChainNodes -> CN!NodeType] /\ nd[f] = CN!Free
        /\ \A x \in ChainNodes \ {f} : nd[x] = chain[x]
    BY <1>0, <1>2, FreeFacts
  <2>5. /\ o \in [CN!Loc -> ChainNodes \cup {None}] /\ o[l] = None
        /\ \A k \in CN!Loc \ {l} : o[k] = own[k]
    BY <1>2, <2>1
  <2>6. CN!Replaced(m) = [own |-> [o EXCEPT ![l] = m], node |-> nd]
    <3>1. [o EXCEPT ![l] = m] = [own EXCEPT ![l] = m]
      BY <1>2, <2>1
    <3> HIDE DEF o, nd
    <3>2. CN!Place = l /\ l # f
      BY <2>3 DEF l
    <3> QED  BY <3>1, <3>2 DEF CN!Replaced, nd
  <2> HIDE DEF nd, o
  <2>7. HeapOK(nd, o, held, {l})
    <3>1. ASSUME NEW x \in ChainNodes
          PROVE  /\ nd[x].kind = "free" => nd[x] = CN!Free /\ x \notin held
                 /\ nd[x].kind # "free" => x \in held \/ \E k \in CN!Loc : o[k] = x
                 /\ o[x] # None => nd[x].kind = "step2"
                 /\ nd[x].kind = "step2" /\ x \notin {l} => o[x] # None
                 /\ nd[x].kind = "step1" =>
                       IF x \in held THEN nd[x].selfPtr = None
                       ELSE nd[x].selfPtr \in CN!Loc /\ o[nd[x].selfPtr] = x
      <4>1. CASE x = f
        BY <1>2, <2>1, <2>3, <2>4, <2>5, <4>1, FreeFacts
      <4>2. CASE x # f
        <5>1. nd[x] = chain[x] /\ \A k \in CN!Loc : own[k] = x => o[k] = x
          BY <2>1, <2>4, <2>5, <4>2
        <5>2. o[x] # None => own[x] # None
          BY <2>5, LocFacts
        <5>3. x # l => o[x] = own[x]
          BY <2>5, LocFacts
        <5> QED  BY <1>0, <5>1, <5>2, <5>3 DEF HeapOK
      <4> QED  BY <4>1, <4>2
    <3>2. \A k \in CN!Loc : o[k] # None => o[k] = own[k] /\ own[k] \in ChainNodes \ {f}
      BY <1>2, <2>2, <2>5
    <3>3. \A k \in CN!Loc : o[k] # None => nd[o[k]].kind \in {"leaf", "step1"} /\ o[k] \notin held
      BY <1>0, <2>4, <3>2 DEF HeapOK
    <3>4. \A j, k \in CN!Loc : o[j] = o[k] /\ o[j] # None => j = k
      BY <1>0, <3>2 DEF HeapOK
    <3> QED  BY <1>0, <2>4, <2>5, <3>1, <3>3, <3>4 DEF HeapOK
  <2>8. Fits(nd, o, held, m, l)
    <3>1. l \in ChainNodes => nd[l].kind = "step2"
      BY <1>0, <1>2, <2>1, <2>3, <2>4 DEF HeapOK
    <3> QED  BY <1>0, <2>1, <2>3, <2>5, <2>7, <3>1 DEF Fits
  <2>9. /\ l = Root => own[Root] = f /\ o[Root] = None
        /\ l # Root => o[Root] = own[Root] /\ own[Root] # f
        /\ chain[f].cell = Consumer => l = Root
    <3>1. chain[f].cell = Consumer => own[Root] = f
      BY <1>0 DEF CellOK
    <3> QED  BY <2>1, <2>2, <2>5, <3>1, LocFacts
  <2>10. nd[f].kind # "step1" /\ nd[f].kind # "leaf" /\ nd[f].cell = None
    BY <2>4, FreeFacts
  <2>11. \E nd2, o2 :
             /\ CN!Replaced(m) = [own |-> [o2 EXCEPT ![l] = m], node |-> nd2]
             /\ Fits(nd2, o2, held, m, l)
             /\ nd2[f].kind # "step1" /\ nd2[f].kind # "leaf" /\ nd2[f].cell = None
             /\ \A x \in ChainNodes \ {f} : nd2[x] = chain[x]
             /\ l = Root => o2[Root] = None
             /\ l # Root => o2[Root] = own[Root] /\ own[Root] # f
    <3> HIDE DEF f
    <3> QED  BY <2>4, <2>6, <2>8, <2>9, <2>10, Zenon
  <2> QED  BY <1>0, <1>1, <2>1, <2>9, <2>11, Zenon DEF l
<1>4. CASE chain[f].selfPtr = None
  <2>1. l = f /\ f \in held
    BY <1>0, <1>4, LocFacts DEF HeapOK, CN!Place
  <2> DEFINE v == [chain[f] EXCEPT !.kind = "step2", !.cell = None]
             nd == [chain EXCEPT ![f] = v]
  <2>2. v \in CN!NodeType /\ v.kind = "step2" /\ v.cell = None
    <3> HIDE DEF f
    <3> QED  BY <1>2, SecondStep
  <2>3. CN!Replaced(m) = [own |-> [own EXCEPT ![l] = m], node |-> nd]
    <3>1. nd = [chain EXCEPT ![f].kind = "step2", ![f].cell = None]
      BY <1>0, <1>2
    <3> HIDE DEF nd
    <3> QED  BY <2>1, <3>1 DEF CN!Replaced
  <2> HIDE DEF v
  <2>4. /\ nd \in [ChainNodes -> CN!NodeType] /\ nd[f] = v
        /\ \A x \in ChainNodes \ {f} : nd[x] = chain[x]
    BY <1>0, <1>2, <2>2
  <2> HIDE DEF nd
  <2>5. HeapOK(nd, own, held, {l})
    <3>1. ASSUME NEW x \in ChainNodes
          PROVE  /\ nd[x].kind = "free" => nd[x] = CN!Free /\ x \notin held
                 /\ nd[x].kind # "free" => x \in held \/ \E k \in CN!Loc : own[k] = x
                 /\ own[x] # None => nd[x].kind = "step2"
                 /\ nd[x].kind = "step2" /\ x \notin {l} => own[x] # None
                 /\ nd[x].kind = "step1" =>
                       IF x \in held THEN nd[x].selfPtr = None
                       ELSE nd[x].selfPtr \in CN!Loc /\ own[nd[x].selfPtr] = x
      <4>1. CASE x = f
        BY <2>1, <2>2, <2>4, <4>1
      <4>2. CASE x # f
        BY <1>0, <2>4, <4>2 DEF HeapOK
      <4> QED  BY <4>1, <4>2
    <3>2. \A k \in CN!Loc : own[k] # None => own[k] # f /\ own[k] \in ChainNodes
      BY <1>0, <1>2, <2>1 DEF HeapOK
    <3>3. \A k \in CN!Loc : own[k] # None => nd[own[k]].kind \in {"leaf", "step1"} /\ own[k] \notin held
      BY <1>0, <2>4, <3>2 DEF HeapOK
    <3> QED  BY <1>0, <1>2, <2>4, <3>1, <3>3 DEF HeapOK
  <2>6. Fits(nd, own, held, m, l)
    BY <1>0, <1>1, <1>2, <2>1, <2>2, <2>4, <2>5 DEF Fits
  <2>7. /\ l # Root /\ own[Root] # f /\ l \in CN!Loc /\ chain[f].cell # Consumer
        /\ nd[f].kind # "step1" /\ nd[f].kind # "leaf" /\ nd[f].cell = None
    <3>1. own[Root] # f
      BY <1>0, <1>2, <2>1, LocFacts DEF HeapOK
    <3>2. chain[f].cell # Consumer
      BY <1>0, <3>1 DEF CellOK
    <3> QED  BY <1>0, <1>2, <2>1, <2>2, <2>4, <3>1, <3>2, LocFacts
  <2>8. \E nd2, o2 :
             /\ CN!Replaced(m) = [own |-> [o2 EXCEPT ![l] = m], node |-> nd2]
             /\ Fits(nd2, o2, held, m, l)
             /\ nd2[f].kind # "step1" /\ nd2[f].kind # "leaf" /\ nd2[f].cell = None
             /\ \A x \in ChainNodes \ {f} : nd2[x] = chain[x]
             /\ l = Root => o2[Root] = None
             /\ l # Root => o2[Root] = own[Root] /\ own[Root] # f
    <3> HIDE DEF f, l
    <3> QED  BY <2>3, <2>4, <2>6, <2>7, Zenon
  <2> QED  BY <1>0, <1>1, <2>7, <2>8, Zenon
<1> QED  BY <1>3, <1>4

LEMMA ChainFinishKeeps ==
  ASSUME ChainInv, NEW m \in ChainNodes, CN!ChainFinish(m)
  PROVE  ChainInv'
<1> DEFINE f == chainFiring
           l == CN!Place
           q == CN!Q!Rewind(chainQueue)
           c == IF l = Root THEN "none" ELSE consumer
           c2 == IF l = Root THEN "owner" ELSE c
<1>0. /\ CN!Given(m) /\ CN!Hand(CN!Replaced(m), l, f, q)
      /\ held' = held \ {m} /\ chainFiring' = None /\ consumer' = consumer /\ chainGot' = chainGot
  BY DEF CN!ChainFinish, CN!Given
<1>1. PICK nd, o :
          /\ CN!Replaced(m) = [own |-> [o EXCEPT ![l] = m], node |-> nd]
          /\ Fits(nd, o, held, m, l)
          /\ nd[f].kind # "step1" /\ nd[f].kind # "leaf" /\ nd[f].cell = None
          /\ \A x \in ChainNodes \ {f} : nd[x] = chain[x]
          /\ l = Root => o[Root] = None
          /\ l # Root => o[Root] = own[Root] /\ own[Root] # f
  BY <1>0, HoleFits
<1>2. /\ l = Root => own[Root] = f
      /\ chain[f].cell = Consumer => l = Root
      /\ f \in ChainNodes /\ l \in CN!Loc
  BY <1>0, HoleFits
<1>3. /\ EventOK(chain, own, consumer, chainQueue, f) /\ OwnerOK(own, consumer)
      /\ HeapOK(chain, own, held, {}) /\ f # None /\ chain[f].kind = "step1"
      /\ \A x \in ChainNodes : CellOK(chain, own, consumer, chainQueue, x)
  BY <1>0 DEF ChainInv, StateOK, EventOK, CN!Given
<1>4. /\ q \in CQ!QueueOf(ChainNodes \cup {Consumer}) /\ CQ!Distinct(q)
      /\ CQ!Queued(q) = CQ!Queued(chainQueue)
  BY <1>3, ChainQueueFacts DEF EventOK
<1>5. chain[f].cell \in {None, Consumer}
  <2>1. chain[f] \in CN!NodeType
    BY <1>2, <1>3 DEF HeapOK
  <2> HIDE DEF f
  <2> QED  BY <1>2, <1>3, <2>1, NodeFacts DEF CellOK
<1> HIDE DEF q, f, l
<1>6. l = Root => consumer \in {"owner", "waiting"} /\ Consumer \notin CQ!Queued(q)
  BY <1>2, <1>3, <1>4 DEF OwnerOK, EventOK
<1>7. l = Root => \A x \in ChainNodes \ {f} : chain[x].cell # Consumer
  BY <1>2, <1>3 DEF CellOK
<1>8. EventOK(nd, o, c, q, None)
  <2>1. Consumer \in CQ!Queued(q) => c = "waiting" /\ nd[o[Root]].kind = "leaf" /\ nd[o[Root]].ready
    <3>1. SUFFICES ASSUME Consumer \in CQ!Queued(q)
                   PROVE  c = "waiting" /\ nd[o[Root]].kind = "leaf" /\ nd[o[Root]].ready
      OBVIOUS
    <3>2. l # Root /\ o[Root] = own[Root] /\ own[Root] # f
      BY <1>1, <1>6, <3>1
    <3>3. consumer = "waiting" /\ own[Root] \in ChainNodes
      BY <1>3, <1>4, <3>1, LocFacts DEF EventOK, OwnerOK, HeapOK
    <3> QED  BY <1>1, <1>3, <1>4, <3>1, <3>2, <3>3 DEF EventOK
  <2>2. \A x \in ChainNodes :
            x \in CQ!Queued(q) => nd[x].kind = "step1" /\ nd[x].ready /\ x # None
    BY <1>1, <1>3, <1>4, LocFacts DEF EventOK
  <2> QED  BY <1>4, <2>1, <2>2 DEF EventOK
<1>9. ASSUME NEW x \in ChainNodes  PROVE CellOK(nd, o, c, q, x)
  <2>1. CellOK(chain, own, consumer, chainQueue, x)
    BY <1>3
  <2>2. CASE x = f
    BY <1>1, <2>2, LocFacts DEF CellOK
  <2>3. CASE x # f
    BY <1>1, <1>4, <1>7, <2>1, <2>3 DEF CellOK
  <2> QED  BY <2>2, <2>3
<1>10. OwnerOK(o, c)
  BY <1>1, <1>3 DEF OwnerOK
<1> DEFINE u == MovedOwn(nd, o, m, l)
           w == MovedNode(nd, o, m, l)
<1>11. StateOK(w, u, held \ {m}, c2, q, None)
  <2>1. l = Root => c = "none"
    OBVIOUS
  <2> HIDE DEF c
  <2> QED  BY <1>1, <1>8, <1>9, <1>10, <2>1, MovedState
<1> DEFINE s == CN!SetSelf(CN!Replaced(m), l)
<1>12. s = [own |-> u, node |-> w]
  BY <1>1, SetSelfFacts
<1> HIDE DEF u, w, c, c2
<1>13. CASE chain[f].cell = None
  <2>1. own' = s.own /\ chain' = s.node /\ chainQueue' = q
    BY <1>0, <1>13 DEF CN!Hand
  <2> HIDE DEF s
  <2>2. own' = u /\ chain' = w
    BY <1>12, <2>1
  <2>3. c2 = consumer
    <3>1. l = Root => consumer # "waiting"
      BY <1>2, <1>3, <1>13, LocFacts DEF CellOK
    <3> QED  BY <1>6, <3>1 DEF c, c2
  <2> QED
    BY <1>0, <1>11, <2>1, <2>2, <2>3 DEF ChainInv
<1>14. CASE chain[f].cell = Consumer
  <2>1. l = Root /\ consumer = "waiting" /\ c2 = "owner"
    BY <1>2, <1>3, <1>14 DEF CellOK, c2
  <2>2. CN!OnReady(s, l, q)
    BY <1>0, <1>14, LocFacts DEF CN!Hand
  <2> HIDE DEF s
  <2>3. CN!OnReady([own |-> u, node |-> w], Root, q)
    BY <1>12, <2>1, <2>2
  <2>4. own' = u /\ StateOK(chain', u, held \ {m}, "waiting", chainQueue', None)
    BY <1>11, <2>1, <2>3, ListenedState
  <2> QED
    BY <1>0, <2>1, <2>4 DEF ChainInv
<1> QED  BY <1>5, <1>13, <1>14

LEMMA NextChain == ChainInv /\ [CN!Next]_chains => ChainInv'
<1> SUFFICES ASSUME ChainInv, [CN!Next]_chains  PROVE ChainInv'
  OBVIOUS
<1> DEFINE Same == /\ chain' = chain /\ own' = own /\ held' = held /\ consumer' = consumer
                   /\ chainGot' = chainGot
<1>1. ASSUME Same, chainFiring' = chainFiring,
             chainQueue' = chainQueue \/ chainQueue' = CN!Q!Rewind(chainQueue)
      PROVE  ChainInv'
  <2> DEFINE n == None
  <2>1. n \in ChainNodes \cup {None} /\ n = None
    OBVIOUS
  <2> HIDE DEF n
  <2> QED  BY <1>1, <2>1, QuietKeeps
<1>2. ASSUME NEW n \in ChainNodes, CN!ChainTake(n)  PROVE ChainInv'
  <2>1. /\ Same /\ chainFiring' = n /\ chainQueue' = CN!Q!Pop(chainQueue)
        /\ CN!First = n /\ n # None
    BY <1>2, LocFacts DEF CN!ChainTake
  <2>2. chainQueue.order # << >> /\ Head(chainQueue.order) = n
    BY <2>1 DEF CN!First
  <2> QED  BY <2>1, <2>2, QuietKeeps
<1>3. CASE CN!User
  <2>1. ASSUME NEW n \in ChainNodes, NEW ready \in BOOLEAN,
               CN!NewLeaf(n, ready) \/ CN!NewChain(n, ready)
        PROVE  ChainInv'
    BY <2>1, NewLeafKeeps, NewChainKeeps
  <2>2. ASSUME NEW n \in ChainNodes,
               CN!StepReady(n) \/ CN!LeafReady(n) \/ CN!Adopt(n) \/ CN!Drop(n)
        PROVE  ChainInv'
    BY <2>2, StepReadyKeeps, LeafReadyKeeps, AdoptKeeps, DropKeeps
  <2> QED  BY <1>3, <2>1, <2>2, AttachKeeps, CancelKeeps DEF CN!User
<1>4. CASE CN!Turn
  <2>1. ASSUME NEW n \in ChainNodes, CN!ChainFinish(n)  PROVE ChainInv'
    BY <2>1, ChainFinishKeeps
  <2> QED  BY <1>2, <1>4, <2>1, FireConsumerKeeps DEF CN!Turn
<1>5. CASE CN!ReturnOther
  BY <1>1, <1>5 DEF CN!ReturnOther
<1>6. CASE UNCHANGED chains
  BY <1>1, <1>6 DEF chains
<1> QED
  BY <1>3, <1>4, <1>5, <1>6 DEF CN!Next

LEMMA AtMostOne ==
  ASSUME NEW S, NEW a, S \subseteq {a}
  PROVE  Cardinality(S) = IF S = {} THEN 0 ELSE 1
  BY FS_EmptySet, FS_Singleton

LEMMA AtMostTwo ==
  ASSUME NEW n, NEW a
  PROVE  Cardinality({n, a}) <= 2
<1>1. IsFiniteSet({a}) /\ Cardinality({a}) = 1
  BY FS_Singleton
<1>2. {n, a} = {a} \cup {n}
  OBVIOUS
<1> QED
  BY <1>1, <1>2, FS_AddElement

LEMMA ChainEnough == ChainInv => CN!TypeOK /\ CN!SingleOwner /\ CN!Registered /\ CN!Shortened
<1> SUFFICES ASSUME ChainInv
             PROVE  CN!TypeOK /\ CN!SingleOwner /\ CN!Registered /\ CN!Shortened
  OBVIOUS
<1>0. /\ HeapOK(chain, own, held, {}) /\ OwnerOK(own, consumer)
      /\ EventOK(chain, own, consumer, chainQueue, chainFiring)
      /\ \A n \in ChainNodes : CellOK(chain, own, consumer, chainQueue, n)
      /\ chainGot \in {None, "result"}
  BY DEF ChainInv, StateOK
<1>1. CN!TypeOK
  <2>1. chainQueue.order \in Seq(ChainNodes \cup {Consumer})
        /\ chainQueue.ins \in 0 .. Len(chainQueue.order)
    <3>1. chainQueue \in CQ!QueueOf(ChainNodes \cup {Consumer})
      BY <1>0 DEF EventOK
    <3> QED  BY <3>1, CQ!QueueFacts
  <2>2. chainFiring \in ChainNodes \cup {None}
    BY <1>0 DEF EventOK
  <2> QED  BY <1>0, <2>1, <2>2 DEF CN!TypeOK, HeapOK, OwnerOK
<1>2. CN!SingleOwner
  <2> SUFFICES ASSUME NEW n \in ChainNodes
               PROVE  LET owners == {l \in CN!Loc : own[l] = n}
                      IN  /\ Cardinality(owners) + (IF n \in held THEN 1 ELSE 0)
                               = IF CN!Is(n, "free") THEN 0 ELSE 1
                          /\ CN!Is(n, "step1") =>
                                IF n \in held THEN chain[n].selfPtr = None
                                ELSE chain[n].selfPtr # None /\ own[chain[n].selfPtr] = n
    BY SameCardinality DEF CN!SingleOwner
  <2> DEFINE owners == {l \in CN!Loc : own[l] = n}
  <2>0. n # None /\ None \notin CN!Loc
    BY LocFacts
  <2>1. Cardinality(owners) = IF owners = {} THEN 0 ELSE 1
    <3>1. CASE owners = {}
      <4> HIDE DEF owners
      <4> QED  BY <3>1, FS_EmptySet
    <3>2. CASE owners # {}
      <4>1. PICK a : a \in owners
        BY <3>2
      <4>2. owners \subseteq {a}
        BY <1>0, <2>0, <4>1 DEF HeapOK
      <4> HIDE DEF owners
      <4> QED  BY <4>2, AtMostOne
    <3> QED  BY <3>1, <3>2
  <2>2. chain[n].kind = "free" => owners = {} /\ n \notin held
    BY <1>0, <2>0 DEF HeapOK, CN!Free
  <2>3. chain[n].kind # "free" => (owners = {} <=> n \in held)
    BY <1>0, <2>0 DEF HeapOK
  <2>4. chain[n].kind = "step1" =>
            IF n \in held THEN chain[n].selfPtr = None
            ELSE chain[n].selfPtr # None /\ own[chain[n].selfPtr] = n
    BY <1>0, <2>0 DEF HeapOK
  <2>5. Cardinality(owners) + (IF n \in held THEN 1 ELSE 0)
          = IF chain[n].kind = "free" THEN 0 ELSE 1
    <3> HIDE DEF owners
    <3> QED  BY <2>1, <2>2, <2>3
  <2> QED  BY <2>4, <2>5 DEF CN!Is
<1>3. CN!Registered
  <2> DEFINE n == own[Root]
             keepers == {x \in ChainNodes : chain[x].cell = Consumer /\ ~chain[x].ready}
  <2>1. consumer = "waiting" =>
            IF CN!Is(n, "leaf") /\ chain[n].ready THEN Consumer \in CQ!Queued(chainQueue)
            ELSE chain[n].cell = Consumer /\ keepers \subseteq {n}
    <3>1. consumer = "waiting" => n \in ChainNodes
      BY <1>0, LocFacts DEF OwnerOK, HeapOK
    <3>2. keepers \subseteq {n}
      BY <1>0 DEF CellOK
    <3> HIDE DEF keepers
    <3> QED  BY <1>0, <3>1, <3>2 DEF CellOK, CN!Is
  <2>2. chainGot # "not ready"
    BY <1>0, JoinAssumption
  <2> QED  BY <2>1, <2>2, SameChainQueue DEF CN!Registered
<1>4. CN!Shortened
  <2>1. CN!Cardinality(CN!Below(own[Root])) <= 1
    <3>1. CASE consumer \in {"owner", "waiting"}
      <4>1. CN!Below(own[Root]) = {own[Root]}
        BY <3>1, RootBelow
      <4>2. Cardinality({own[Root]}) = 1
        BY FS_Singleton
      <4>3. CN!Cardinality(CN!Below(own[Root])) = 1
        BY <4>1, <4>2, SameCardinality
      <4> QED  BY <4>3
    <3>2. CASE consumer \notin {"owner", "waiting"}
      <4>1. own[Root] = None
        BY <1>0, <3>2 DEF OwnerOK
      <4>2. CN!Below(own[Root]) = {}
        BY <4>1, BelowNothing
      <4> QED  BY <4>2, SameCardinality, FS_EmptySet
    <3> QED  BY <3>1, <3>2
  <2>2. ASSUME NEW n \in held  PROVE CN!Cardinality(CN!Below(n)) <= 2
    <3> DEFINE S == CN!Below(n)
    <3>1. \E a \in S : S = {n, a}
      BY HeldBelow
    <3> HIDE DEF S
    <3>2. Cardinality(S) <= 2
      BY <3>1, AtMostTwo
    <3> QED  BY <3>2, SameCardinality DEF S
  <2> QED  BY <2>1, <2>2 DEF CN!Shortened
<1> QED
  BY <1>1, <1>2, <1>3, <1>4

\* ChainPromiseNode (async.cpp:666-755) and the shortening that async-inl.h:148 speaks of:
\* however promises for promises are made, handed on and dropped, nodes have one owner
\* each, chains stay short, and the consumer's event is where it will be heard of.
THEOREM ChainsAlwaysSound == PromisesSpec => []ChainsAreSound
<1>1. PromisesInit => ChainInv
  BY InitChain DEF PromisesInit
<1>2. [PromisesNext]_<< part, vars, join, chains, nodes, tasks >> => [CN!Next]_chains
  BY DEF PromisesNext
<1>3. ChainInv => ChainsAreSound
  BY ChainEnough DEF ChainsAreSound
<1> QED
  BY <1>1, <1>2, <1>3, NextChain, PTL DEF PromisesSpec

-----------------------------------------------------------------------------
(* Tasks.                                                                  *)

TQ == INSTANCE EventQueueProofs WITH Event <- Task, queue <- taskQueue

LEMMA SameTaskQueue ==
  /\ TS!Q!Empty = TQ!Empty
  /\ \A q : TS!Q!Pop(q) = TQ!Pop(q) /\ TS!Q!Rewind(q) = TQ!Rewind(q) /\ TS!Q!Queued(q) = TQ!Queued(q)
  /\ \A q, e : /\ TS!Q!DepthFirst(q, e) = TQ!DepthFirst(q, e)
               /\ TS!Q!BreadthFirst(q, e) = TQ!BreadthFirst(q, e)
               /\ TS!Q!Drop(q, e) = TQ!Drop(q, e)
<1>1. \A q : TS!Q!Queued(q) = TQ!Queued(q)
  BY DEF TS!Q!Queued, TQ!Queued
<1>2. \A q, e : TS!Q!DepthFirst(q, e) = TQ!DepthFirst(q, e)
  BY <1>1 DEF TS!Q!DepthFirst, TQ!DepthFirst, TS!Q!InsertAt, TQ!InsertAt
<1>3. \A q, e : TS!Q!BreadthFirst(q, e) = TQ!BreadthFirst(q, e)
  BY <1>1 DEF TS!Q!BreadthFirst, TQ!BreadthFirst
<1>4. \A q, e : TS!Q!Drop(q, e) = TQ!Drop(q, e)
  BY <1>1 DEF TS!Q!Drop, TQ!Drop, TS!Q!RemoveAt, TQ!RemoveAt
<1>5. \A q : TS!Q!Pop(q) = TQ!Pop(q) /\ TS!Q!Rewind(q) = TQ!Rewind(q)
  BY DEF TS!Q!Pop, TQ!Pop, TS!Q!Rewind, TQ!Rewind
<1> QED
  BY <1>1, <1>2, <1>3, <1>4, <1>5 DEF TS!Q!Empty, TQ!Empty

Holders == {"none", "set", "daemons", "gone"}
EffectType == [does : {"nothing", "throw", "fulfil", "detach"}, to : Task \cup {None}]

WorldType ==
    [daemons : BOOLEAN, holder : [Task -> Holders],
     promise : [Task -> {"none", "pending", "value", "exception"}],
     effect : [Task -> EffectType], queue : TQ!QueueOf(Task), thrown : BOOLEAN]

In(w, t) == w.holder[t] \in {"set", "daemons"}

\* What an effect acts on is another task.
Aimed(t, e) == e \in EffectType /\ (e.does \in {"fulfil", "detach"} => e.to \in Task \ {t})

\* What is queued is in a set and ready; X are the tasks that are being destroyed.
WorldOK(w, X) ==
    /\ w \in WorldType /\ TQ!Distinct(w.queue)
    /\ \A t \in Task : Aimed(t, w.effect[t])
    /\ \A t \in Task \ X : t \in TQ!Queued(w.queue) =>
           In(w, t) /\ w.promise[t] \in {"value", "exception"}

\* What v may be after w, when the tasks X are destroyed in between.
Follows(w, v, X) ==
    /\ v.daemons = w.daemons
    /\ \A t \in Task :
          /\ w.holder[t] = "gone" => v.holder[t] = "gone"
          /\ v.holder[t] = "none" => w.holder[t] = "none"
          /\ w.holder[t] # "none" /\ w.promise[t] = "none" => v.promise[t] = "none"
          /\ v.holder[t] = "daemons" /\ w.holder[t] # "daemons" => loop = "current" /\ w.daemons
          /\ loop # "current" => v.effect[t] \in {w.effect[t], TS!Nothing}
    /\ \A t \in Task \ X :
          /\ w.holder[t] # "none" => v.holder[t] = w.holder[t]
          /\ In(v, t) /\ v.promise[t] = "none" => In(w, t) /\ w.promise[t] = "none"

LEMMA FollowsTwice ==
  ASSUME NEW u, NEW v, NEW w, NEW X, NEW Y, NEW Z, X \subseteq Z, Y \subseteq Z,
         Follows(u, v, X), Follows(v, w, Y)
  PROVE  Follows(u, w, Z)
  BY DEF Follows

LEMMA NothingAimed == \A t : Aimed(t, TS!Nothing)
  BY DEF Aimed, TS!Nothing, EffectType

\* The fields of a world, and what becomes of it when some of them change.
LEMMA WorldFields ==
  ASSUME NEW w \in WorldType
  PROVE  /\ w.daemons \in BOOLEAN /\ w.holder \in [Task -> Holders]
         /\ w.promise \in [Task -> {"none", "pending", "value", "exception"}]
         /\ w.effect \in [Task -> EffectType] /\ w.queue \in TQ!QueueOf(Task)
         /\ w.thrown \in BOOLEAN
  BY DEF WorldType

\* Task::Task.
LEMMA AddedOK ==
  ASSUME NEW w, NEW X, WorldOK(w, X), NEW t \in Task \ X, w.holder[t] = "none",
         NEW to \in {"set", "daemons"}, NEW ready \in {"pending", "value", "exception"},
         NEW does, Aimed(t, does), loop = "current", to = "daemons" => w.daemons
  PROVE  LET v == TS!Added(w, t, to, ready, does)
         IN  /\ WorldOK(v, X) /\ Follows(w, v, {})
             /\ \A x \in Task \ {t} : /\ v.holder[x] = w.holder[x] /\ v.promise[x] = w.promise[x]
                                      /\ x \in TQ!Queued(v.queue) <=> x \in TQ!Queued(w.queue)
<1> DEFINE v == TS!Added(w, t, to, ready, does)
           h == [w.holder EXCEPT ![t] = to]
           p == [w.promise EXCEPT ![t] = ready]
           e == [w.effect EXCEPT ![t] = does]
           q == IF ready = "pending" THEN w.queue ELSE TQ!BreadthFirst(w.queue, t)
<1>1. /\ w \in WorldType /\ TQ!Distinct(w.queue) /\ w.queue \in TQ!QueueOf(Task)
      /\ w.holder \in [Task -> Holders] /\ w.effect \in [Task -> EffectType]
      /\ w.promise \in [Task -> {"none", "pending", "value", "exception"}]
  BY WorldFields DEF WorldOK
<1>2. /\ v \in [daemons : BOOLEAN, holder : {h}, promise : {p}, effect : {e}, queue : {q}, thrown : BOOLEAN]
      /\ v.daemons = w.daemons
  BY <1>1, SameTaskQueue DEF TS!Added, WorldType
<1>3. /\ q \in TQ!QueueOf(Task) /\ TQ!Distinct(q)
      /\ TQ!Queued(q) = TQ!Queued(w.queue) \cup (IF ready = "pending" THEN {} ELSE {t})
  BY <1>1, TQ!ArmedFacts
<1>4. /\ h \in [Task -> Holders] /\ h[t] = to /\ \A x \in Task \ {t} : h[x] = w.holder[x]
      /\ p \in [Task -> {"none", "pending", "value", "exception"}]
      /\ p[t] = ready /\ \A x \in Task \ {t} : p[x] = w.promise[x]
      /\ e \in [Task -> EffectType] /\ e[t] = does /\ \A x \in Task \ {t} : e[x] = w.effect[x]
  BY <1>1 DEF Holders, Aimed
<1> HIDE DEF v, h, p, e, q
<1>5. v.holder = h /\ v.promise = p /\ v.effect = e /\ v.queue = q
  BY <1>2
<1>6. v \in WorldType
  BY <1>2, <1>3, <1>4 DEF WorldType
<1>7. t \notin TQ!Queued(w.queue)
  BY DEF WorldOK, In
<1>8. WorldOK(v, X)
  <2>1. \A x \in Task : Aimed(x, v.effect[x])
    BY <1>4, <1>5 DEF WorldOK
  <2>2. ASSUME NEW x \in Task \ X, x \in TQ!Queued(v.queue)
        PROVE  In(v, x) /\ v.promise[x] \in {"value", "exception"}
    <3>1. CASE x = t
      BY <1>3, <1>4, <1>5, <1>7, <2>2, <3>1 DEF In
    <3>2. CASE x # t
      BY <1>3, <1>4, <1>5, <2>2, <3>2 DEF In, WorldOK
    <3> QED  BY <3>1, <3>2
  <2> QED  BY <1>3, <1>5, <1>6, <2>1, <2>2 DEF WorldOK
<1>9. Follows(w, v, {})
  BY <1>2, <1>4, <1>5 DEF Follows, In
<1> QED
  BY <1>3, <1>4, <1>5, <1>8, <1>9 DEF v

\* A fulfiller is called.
LEMMA FulfilledOK ==
  ASSUME NEW w, NEW X, WorldOK(w, X), NEW t \in Task \ X, NEW ready \in {"value", "exception"}
  PROVE  LET v == TS!Fulfilled(w, t, ready)
         IN  /\ WorldOK(v, X) /\ Follows(w, v, {}) /\ v.holder = w.holder
             /\ \A x \in Task \ {t} : /\ v.promise[x] = w.promise[x]
                                      /\ x \in TQ!Queued(v.queue) <=> x \in TQ!Queued(w.queue)
<1> DEFINE v == TS!Fulfilled(w, t, ready)
           p == [w.promise EXCEPT ![t] = ready]
           q == TQ!DepthFirst(w.queue, t)
<1>1. /\ w \in WorldType /\ TQ!Distinct(w.queue) /\ w.queue \in TQ!QueueOf(Task)
      /\ w.holder \in [Task -> Holders] /\ w.effect \in [Task -> EffectType]
      /\ w.promise \in [Task -> {"none", "pending", "value", "exception"}]
  BY WorldFields DEF WorldOK
<1>2. CASE ~(In(w, t) /\ w.promise[t] = "pending")
  <2>1. v = w
    BY <1>2 DEF TS!Fulfilled, In
  <2> HIDE DEF v
  <2>2. Follows(w, w, {})
    BY DEF Follows
  <2> QED  BY <2>1, <2>2 DEF v
<1>3. CASE In(w, t) /\ w.promise[t] = "pending"
  <2>1. v = [w EXCEPT !.promise = p, !.queue = q]
    BY <1>1, <1>3, SameTaskQueue DEF TS!Fulfilled, In
  <2>2. /\ q \in TQ!QueueOf(Task) /\ TQ!Distinct(q) /\ TQ!Queued(q) = TQ!Queued(w.queue) \cup {t}
    BY <1>1, TQ!ArmedFacts
  <2>3. /\ p \in [Task -> {"none", "pending", "value", "exception"}]
        /\ p[t] = ready /\ \A x \in Task \ {t} : p[x] = w.promise[x]
    BY <1>1
  <2> HIDE DEF v, p, q
  <2>4. v \in WorldType /\ v.promise = p /\ v.queue = q /\ v.holder = w.holder /\ v.effect = w.effect
        /\ v.daemons = w.daemons
    BY <1>1, <2>1, <2>2, <2>3 DEF WorldType
  <2>5. WorldOK(v, X)
    <3>1. ASSUME NEW x \in Task \ X, x \in TQ!Queued(v.queue)
          PROVE  In(v, x) /\ v.promise[x] \in {"value", "exception"}
      <4>1. CASE x = t
        BY <1>3, <2>3, <2>4, <4>1 DEF In
      <4>2. CASE x # t
        BY <2>2, <2>3, <2>4, <3>1, <4>2 DEF In, WorldOK
      <4> QED  BY <4>1, <4>2
    <3> QED  BY <2>2, <2>4, <3>1 DEF WorldOK
  <2>6. Follows(w, v, {})
    BY <1>3, <2>3, <2>4 DEF Follows, In
  <2> QED
    BY <2>2, <2>3, <2>4, <2>5, <2>6 DEF v
<1> QED
  BY <1>2, <1>3

\* Promise::detach, of what a promise owns.
LEMMA DetachedOK ==
  ASSUME NEW w, NEW X, WorldOK(w, X), NEW t \in Task \ X, w.holder[t] = "none"
  PROVE  LET v == TS!Detached(w, t, "value")
         IN  /\ WorldOK(v, X) /\ Follows(w, v, {})
             /\ \A x \in Task \ {t} : /\ v.holder[x] = w.holder[x] /\ v.promise[x] = w.promise[x]
                                      /\ x \in TQ!Queued(v.queue) <=> x \in TQ!Queued(w.queue)
             /\ loop # "current" => v.queue = w.queue
<1> DEFINE v == TS!Detached(w, t, "value")
<1>1. CASE loop = "current" /\ w.daemons
  <2>1. v = TS!Added(w, t, "daemons", "value", TS!Nothing)
    BY <1>1 DEF TS!Detached
  <2> HIDE DEF v
  <2>2. /\ WorldOK(v, X) /\ Follows(w, v, {})
        /\ \A x \in Task \ {t} : /\ v.holder[x] = w.holder[x] /\ v.promise[x] = w.promise[x]
                                 /\ x \in TQ!Queued(v.queue) <=> x \in TQ!Queued(w.queue)
    BY <1>1, <2>1, AddedOK, NothingAimed
  <2> QED  BY <1>1, <2>2 DEF v
<1>2. CASE ~(loop = "current" /\ w.daemons)
  <2> DEFINE h == [w.holder EXCEPT ![t] = "gone"]
  <2>1. v = [w EXCEPT !.holder = h, !.thrown = TRUE]
    <3>1. w \in WorldType
      BY DEF WorldOK
    <3> QED  BY <1>2, <3>1 DEF TS!Detached, WorldType
  <2>2. /\ w \in WorldType /\ w.holder \in [Task -> Holders]
    BY WorldFields DEF WorldOK
  <2>3. h \in [Task -> Holders] /\ h[t] = "gone" /\ \A x \in Task \ {t} : h[x] = w.holder[x]
    BY <2>2 DEF Holders
  <2> HIDE DEF v, h
  <2>4. v \in WorldType /\ v.holder = h /\ v.promise = w.promise /\ v.queue = w.queue
        /\ v.effect = w.effect /\ v.daemons = w.daemons
    BY <2>1, <2>2, <2>3 DEF WorldType
  <2>5. t \notin TQ!Queued(w.queue)
    BY DEF WorldOK, In
  <2>6. WorldOK(v, X)
    <3>1. ASSUME NEW x \in Task \ X, x \in TQ!Queued(v.queue)
          PROVE  In(v, x) /\ v.promise[x] \in {"value", "exception"}
      <4>1. x # t
        BY <2>4, <2>5, <3>1
      <4> QED  BY <2>3, <2>4, <3>1, <4>1 DEF In, WorldOK
    <3> QED  BY <2>4, <3>1 DEF WorldOK
  <2>7. Follows(w, v, {})
    BY <2>3, <2>4 DEF Follows, In
  <2> QED
    BY <2>3, <2>4, <2>6, <2>7 DEF v
<1> QED
  BY <1>1, <1>2

LEMMA FollowsItself == ASSUME NEW w, NEW X  PROVE Follows(w, w, X)
  BY DEF Follows

\* The promise of t is destroyed, and what it owned acts.
LEMMA PromiseGoneOK ==
  ASSUME NEW w, NEW t \in Task, WorldOK(w, {t})
  PROVE  LET v == TS!PromiseGone(w, t)
         IN  /\ WorldOK(v, {t}) /\ Follows(w, v, {t})
             /\ v.promise[t] = "none" /\ v.holder[t] = w.holder[t]
             /\ t \in TQ!Queued(v.queue) <=> t \in TQ!Queued(w.queue)
             /\ loop # "current" /\ w.effect[t].does # "fulfil" => v.queue = w.queue
<1> DEFINE v == TS!PromiseGone(w, t)
           p == [w.promise EXCEPT ![t] = "none"]
           e == [w.effect EXCEPT ![t] = TS!Nothing]
           b == [w EXCEPT !.promise[t] = "none", !.effect[t] = TS!Nothing, !.thrown = FALSE]
           OK(u) == /\ WorldOK(u, {t}) /\ Follows(b, u, {})
                    /\ u.promise[t] = b.promise[t] /\ u.holder[t] = b.holder[t]
                    /\ t \in TQ!Queued(u.queue) <=> t \in TQ!Queued(b.queue)
                    /\ loop # "current" /\ w.effect[t].does # "fulfil" => u.queue = b.queue
<1>1. /\ w \in WorldType /\ TQ!Distinct(w.queue) /\ w.effect \in [Task -> EffectType]
      /\ w.promise \in [Task -> {"none", "pending", "value", "exception"}]
  BY WorldFields DEF WorldOK
<1>2. b = [w EXCEPT !.promise = p, !.effect = e, !.thrown = FALSE]
  BY <1>1 DEF WorldType
<1>3. TS!Nothing \in EffectType
  BY DEF TS!Nothing, EffectType
<1>4. /\ p \in [Task -> {"none", "pending", "value", "exception"}] /\ p[t] = "none"
      /\ \A x \in Task \ {t} : p[x] = w.promise[x]
      /\ e \in [Task -> EffectType] /\ e[t] = TS!Nothing
      /\ \A x \in Task \ {t} : e[x] = w.effect[x]
  BY <1>1, <1>3
<1>5. w.effect[t] \in EffectType /\ Aimed(t, w.effect[t])
  BY <1>1 DEF WorldOK
<1>6. v = IF w.promise[t] = "none" THEN b
          ELSE CASE w.effect[t].does = "nothing" -> b
                 [] w.effect[t].does = "throw" -> [b EXCEPT !.thrown = TRUE]
                 [] w.effect[t].does = "fulfil" -> TS!Fulfilled(b, w.effect[t].to, "value")
                 [] w.effect[t].does = "detach" ->
                       IF b.holder[w.effect[t].to] = "none"
                       THEN TS!Detached(b, w.effect[t].to, "value") ELSE b
  BY DEF TS!PromiseGone
<1> HIDE DEF v, b, p, e
<1>7. /\ b \in WorldType /\ b.promise = p /\ b.effect = e /\ b.holder = w.holder
      /\ b.queue = w.queue /\ b.daemons = w.daemons
  BY <1>1, <1>2, <1>4 DEF WorldType
<1>8. WorldOK(b, {t})
  <2>1. \A x \in Task : Aimed(x, b.effect[x])
    BY <1>4, <1>7, NothingAimed DEF WorldOK
  <2>2. \A x \in Task \ {t} : x \in TQ!Queued(b.queue) => In(b, x) /\ b.promise[x] \in {"value", "exception"}
    BY <1>4, <1>7 DEF WorldOK, In
  <2> QED  BY <1>1, <1>7, <2>1, <2>2 DEF WorldOK
<1>9. Follows(w, b, {t})
  BY <1>4, <1>7 DEF Follows, In
<1>10. OK(b)
  BY <1>8, FollowsItself
<1>11. OK(v)
  <2>1. CASE v = b
    BY <1>10, <2>1
  <2>2. CASE v # b
    <3>0. w.promise[t] # "none" /\ w.effect[t].does \in {"throw", "fulfil", "detach"}
      <4>1. w.effect[t].does \in {"nothing", "throw", "fulfil", "detach"}
        BY <1>5 DEF EffectType
      <4> QED  BY <1>6, <2>2, <4>1
    <3>1. CASE w.effect[t].does = "throw"
      <4>1. v = [b EXCEPT !.thrown = TRUE]
        BY <1>6, <3>0, <3>1
      <4>2. /\ v \in WorldType /\ v.promise = b.promise /\ v.effect = b.effect /\ v.holder = b.holder
            /\ v.queue = b.queue /\ v.daemons = b.daemons
        BY <1>7, <4>1 DEF WorldType
      <4>3. WorldOK(v, {t})
        BY <1>8, <4>2 DEF WorldOK, In
      <4>4. Follows(b, v, {})
        BY <4>2 DEF Follows, In
      <4> QED  BY <4>2, <4>3, <4>4
    <3> DEFINE x == w.effect[t].to
    <3>2. CASE w.effect[t].does = "fulfil"
      <4>1. x \in Task \ {t}
        BY <1>5, <3>2 DEF Aimed
      <4>2. v = TS!Fulfilled(b, x, "value")
        BY <1>6, <3>0, <3>2
      <4> HIDE DEF x
      <4>3. /\ WorldOK(v, {t}) /\ Follows(b, v, {}) /\ v.holder = b.holder
            /\ v.promise[t] = b.promise[t]
            /\ t \in TQ!Queued(v.queue) <=> t \in TQ!Queued(b.queue)
        BY <1>8, <4>1, <4>2, FulfilledOK
      <4> QED  BY <3>2, <4>3
    <3>3. CASE w.effect[t].does = "detach"
      <4>1. x \in Task \ {t}
        BY <1>5, <3>3 DEF Aimed
      <4>2. b.holder[x] = "none" /\ v = TS!Detached(b, x, "value")
        BY <1>6, <2>2, <3>0, <3>3
      <4> HIDE DEF x
      <4>3. /\ WorldOK(v, {t}) /\ Follows(b, v, {})
            /\ v.holder[t] = b.holder[t] /\ v.promise[t] = b.promise[t]
            /\ t \in TQ!Queued(v.queue) <=> t \in TQ!Queued(b.queue)
            /\ loop # "current" => v.queue = b.queue
        BY <1>8, <4>1, <4>2, DetachedOK
      <4> QED  BY <4>3
    <3> QED  BY <3>0, <3>1, <3>2, <3>3
  <2> QED  BY <2>1, <2>2
<1>12. Follows(w, v, {t})
  BY <1>9, <1>11, FollowsTwice
<1> QED
  BY <1>4, <1>7, <1>11, <1>12 DEF v

\* A task is destroyed: its promise, and then the event.
LEMMA TaskGoneOK ==
  ASSUME NEW w, NEW t \in Task, WorldOK(w, {})
  PROVE  LET v == TS!TaskGone(w, t)
         IN  /\ WorldOK(v, {}) /\ Follows(w, v, {t}) /\ v.holder[t] = "gone"
             /\ loop # "current" /\ w.effect[t].does # "fulfil" => v.queue = TQ!Drop(w.queue, t)
<1> DEFINE v == TS!TaskGone(w, t)
           u == TS!PromiseGone(w, t)
           h == [u.holder EXCEPT ![t] = "gone"]
           q == TQ!Drop(u.queue, t)
<1>1. WorldOK(w, {t})
  BY DEF WorldOK
<1>2. /\ WorldOK(u, {t}) /\ Follows(w, u, {t}) /\ u.promise[t] = "none"
      /\ loop # "current" /\ w.effect[t].does # "fulfil" => u.queue = w.queue
  BY <1>1, PromiseGoneOK
<1> HIDE DEF u
<1>3. /\ u \in WorldType /\ u.queue \in TQ!QueueOf(Task) /\ TQ!Distinct(u.queue)
      /\ u.holder \in [Task -> Holders]
  BY <1>2, WorldFields DEF WorldOK
<1>4. v = [u EXCEPT !.holder = h, !.queue = q]
  BY <1>3, SameTaskQueue DEF TS!TaskGone, u, WorldType
<1>5. q \in TQ!QueueOf(Task) /\ TQ!Distinct(q) /\ TQ!Queued(q) = TQ!Queued(u.queue) \ {t}
  BY <1>3, TQ!DroppedFacts
<1>6. h \in [Task -> Holders] /\ h[t] = "gone" /\ \A x \in Task \ {t} : h[x] = u.holder[x]
  BY <1>3 DEF Holders
<1> HIDE DEF v, h, q
<1>7. /\ v \in WorldType /\ v.holder = h /\ v.queue = q /\ v.promise = u.promise
      /\ v.effect = u.effect /\ v.daemons = u.daemons
  BY <1>3, <1>4, <1>5, <1>6 DEF WorldType
<1>8. WorldOK(v, {})
  <2>1. ASSUME NEW x \in Task, x \in TQ!Queued(v.queue)
        PROVE  In(v, x) /\ v.promise[x] \in {"value", "exception"}
    BY <1>2, <1>5, <1>6, <1>7, <2>1 DEF WorldOK, In
  <2> QED  BY <1>2, <1>5, <1>7, <2>1 DEF WorldOK
<1>9. Follows(u, v, {t})
  BY <1>6, <1>7 DEF Follows, In
<1>10. Follows(w, v, {t})
  BY <1>2, <1>9, FollowsTwice
<1> QED
  BY <1>2, <1>6, <1>7, <1>8, <1>10 DEF v, q

\* A set is destroyed, its tasks in any order.
LEMMA SetGoneOK ==
  ASSUME NEW w, WorldOK(w, {}), NEW S, S \subseteq Task, NEW s \in TS!SetToSeqs(S)
  PROVE  LET v == TS!SetGone(w, s)
         IN  /\ WorldOK(v, {}) /\ Follows(w, v, S)
             /\ \A t \in S : v.holder[t] = "gone"
             /\ (/\ loop # "current" /\ w.queue = TQ!Empty
                 /\ \A t \in S : w.effect[t].does # "fulfil") => v.queue = TQ!Empty
<1> DEFINE n == Len(s)
           X == {u \in WorldType : WorldOK(u, {})}
           D == 0 .. n
           after(u, i) == LET v == TS!TaskGone(u, s[i]) IN [v EXCEPT !.thrown = @ \/ u.thrown]
           step(f, i) == IF i = 0 THEN w ELSE after(f[i - 1], i)
           g == [i \in 1 .. n |-> [u \in X |-> after(u, i)]]
<1>1. /\ n \in Nat /\ \A i \in 1 .. n : s[i] \in S /\ s[i] \in Task
      /\ \A t \in S : \E i \in 1 .. n : s[i] = t
  <2> DEFINE c == Cardinality(S)
  <2>1. IsFiniteSet(S) /\ c \in Nat
    BY TasksAssumption, FS_Subset, FS_CardinalityType
  <2>2. s \in [1 .. c -> S] /\ \A i, j \in 1 .. c : i # j => s[i] # s[j]
    <3>1. TS!Cardinality(S) = c
      BY DEF TS!Cardinality, Cardinality
    <3> QED  BY <3>1 DEF TS!SetToSeqs
  <2> HIDE DEF c
  <2>3. n = c
    BY <2>1, <2>2
  <2>4. s \in Injection(1 .. c, S)
    BY <2>2 DEF Injection, IsInjective
  <2>5. Cardinality(1 .. c) = c
    <3>1. 1 \in Int /\ c \in Int
      BY <2>1
    <3>2. Cardinality(1 .. c) = IF 1 > c THEN 0 ELSE c - 1 + 1
      BY <3>1, FS_Interval
    <3> QED  BY <2>1, <3>2
  <2>6. s \in Surjection(1 .. c, S)
    BY <2>1, <2>4, <2>5, FS_Injection DEF c
  <2> QED  BY <2>1, <2>2, <2>3, <2>6 DEF Surjection
<1> HIDE DEF n
\* What one task more makes of it.
<1>2. ASSUME NEW u, WorldOK(u, {}), NEW i \in 1 .. n
      PROVE  /\ WorldOK(after(u, i), {}) /\ Follows(u, after(u, i), {s[i]})
             /\ after(u, i).holder[s[i]] = "gone"
             /\ loop # "current" /\ u.effect[s[i]].does # "fulfil" =>
                   after(u, i).queue = TQ!Drop(u.queue, s[i])
  <2> DEFINE v == TS!TaskGone(u, s[i])
             c == v.thrown \/ u.thrown
  <2>1. /\ WorldOK(v, {}) /\ Follows(u, v, {s[i]}) /\ v.holder[s[i]] = "gone"
        /\ loop # "current" /\ u.effect[s[i]].does # "fulfil" => v.queue = TQ!Drop(u.queue, s[i])
    BY <1>1, <1>2, TaskGoneOK
  <2>2. after(u, i) = [v EXCEPT !.thrown = c]
    <3>1. v \in WorldType
      BY <2>1 DEF WorldOK
    <3> HIDE DEF v
    <3> QED  BY <3>1 DEF v, WorldType
  <2>3. c \in BOOLEAN
    OBVIOUS
  <2> DEFINE r == after(u, i)
  <2> HIDE DEF v, c, after
  <2>4. /\ r \in WorldType /\ r.daemons = v.daemons /\ r.holder = v.holder
        /\ r.promise = v.promise /\ r.effect = v.effect /\ r.queue = v.queue
    <3>1. v \in WorldType
      BY <2>1 DEF WorldOK
    <3> QED  BY <2>2, <2>3, <3>1 DEF WorldType
  <2> HIDE DEF r
  <2>5. WorldOK(r, {})
    BY <2>1, <2>4 DEF WorldOK, In
  <2>6. Follows(u, r, {s[i]})
    BY <2>1, <2>4 DEF Follows, In
  <2> QED  BY <2>1, <2>4, <2>5, <2>6 DEF r
<1> HIDE DEF after
<1>3. g \in [1 .. n -> [X -> X]]
  <2>1. \A i \in 1 .. n, u \in X : after(u, i) \in X
    BY <1>2 DEF WorldOK
  <2> HIDE DEF X
  <2> QED  BY <2>1
<1>4. PICK f \in [D -> X] : f[0] = w /\ \A i \in 1 .. n : f[i] = g[i][f[i - 1]]
  <2>1. w \in X
    BY DEF WorldOK
  <2> HIDE DEF X, g
  <2>2. PICK f : TQ!Iterates(f, X, w, g, n)
    BY <1>1, <1>3, <2>1, TQ!Iterate
  <2> QED  BY <2>2 DEF TQ!Iterates
<1> HIDE DEF X
<1>5. f = [i \in D |-> step(f, i)]
  <2>1. ASSUME NEW i \in D  PROVE f[i] = step(f, i)
    <3>1. CASE i = 0
      BY <1>4, <3>1
    <3>2. CASE i # 0
      <4>1. i \in 1 .. n /\ i - 1 \in D
        BY <1>1, <3>2
      <4>2. f[i - 1] \in X /\ f[i] = g[i][f[i - 1]]
        BY <1>4, <4>1
      <4> QED  BY <3>2, <4>1, <4>2
    <3> QED  BY <3>1, <3>2
  <2>2. f = [i \in D |-> f[i]]
    OBVIOUS
  <2> HIDE DEF step
  <2> QED  BY <2>1, <2>2
<1> DEFINE a == CHOOSE h : h = [i \in D |-> step(h, i)]
<1>6. TS!SetGone(w, s) = a[n]
  BY DEF TS!SetGone, n, after
<1> HIDE DEF a, step, g
<1>7. a = [i \in D |-> step(a, i)]
  BY <1>5 DEF a
<1>8. a[0] = w /\ \A i \in 1 .. n : a[i] = after(a[i - 1], i)
  <2>1. \A i \in D : a[i] = step(a, i)
    BY <1>7
  <2>2. 0 \in D /\ \A i \in 1 .. n : i \in D /\ i # 0
    BY <1>1
  <2> QED  BY <2>1, <2>2 DEF step
<1> DEFINE Quietly == /\ loop # "current" /\ w.queue = TQ!Empty
                      /\ \A t \in S : w.effect[t].does # "fulfil"
           Good(v, i) == /\ WorldOK(v, {}) /\ Follows(w, v, S)
                         /\ \A j \in 1 .. i : v.holder[s[j]] = "gone"
                         /\ Quietly => v.queue = TQ!Empty
           T == {i \in Nat : i <= n => Good(a[i], i)}
<1>9. 0 \in T
  <2>1. Follows(w, w, S) /\ 0 \in Nat
    BY FollowsItself
  <2>2. \A j \in 1 .. 0 : FALSE
    OBVIOUS
  <2> QED  BY <1>8, <2>1, <2>2
<1>10. ASSUME NEW i \in Nat, i \in T  PROVE i + 1 \in T
  <2> SUFFICES ASSUME i + 1 <= n  PROVE Good(a[i + 1], i + 1)
    OBVIOUS
  <2> DEFINE u == a[i]
             r == a[i + 1]
             k == i + 1
  <2>1. k \in 1 .. n /\ k - 1 = i /\ i <= n
    BY <1>1
  <2>2. Good(u, i)
    BY <1>10, <2>1
  <2>3. r = after(u, k)
    BY <1>8, <2>1
  <2> HIDE DEF u, r
  <2>4. /\ WorldOK(r, {}) /\ Follows(u, r, {s[k]}) /\ r.holder[s[k]] = "gone"
        /\ loop # "current" /\ u.effect[s[k]].does # "fulfil" => r.queue = TQ!Drop(u.queue, s[k])
    BY <1>2, <2>1, <2>2, <2>3
  <2>5. s[k] \in S
    BY <1>1, <2>1
  <2>6. Follows(w, r, S)
    BY <2>2, <2>4, <2>5, FollowsTwice
  <2>7. \A j \in 1 .. k : r.holder[s[j]] = "gone"
    <3>1. \A j \in 1 .. k : j = k \/ j \in 1 .. i
      OBVIOUS
    <3>2. \A j \in 1 .. i : s[j] \in Task
      BY <1>1, <2>1
    <3> HIDE DEF k
    <3> QED  BY <2>2, <2>4, <3>1, <3>2 DEF Follows
  <2>8. ASSUME Quietly  PROVE r.queue = TQ!Empty
    <3>1. u.queue = TQ!Empty /\ loop # "current"
      BY <2>2, <2>8
    <3>2. u.effect[s[k]].does # "fulfil"
      <4>1. u.effect[s[k]] \in {w.effect[s[k]], TS!Nothing}
        BY <1>1, <2>1, <2>2, <3>1 DEF Follows
      <4> QED  BY <2>5, <2>8, <4>1 DEF TS!Nothing
    <3>3. s[k] \notin TQ!Queued(TQ!Empty)
      BY TQ!EmptyFacts
    <3> QED  BY <2>4, <3>1, <3>2, <3>3 DEF TQ!Drop
  <2> QED  BY <2>4, <2>6, <2>7, <2>8 DEF k, r
<1> HIDE DEF T
<1>11. n \in T
  BY <1>1, <1>9, <1>10, TQ!Induction
<1>12. Good(a[n], n)
  BY <1>1, <1>11 DEF T
<1>13. \A t \in S : a[n].holder[t] = "gone"
  BY <1>1, <1>12
<1> QED
  BY <1>6, <1>12, <1>13

\* The inductive invariant: a task that failed has ended or is stuck, and a task in a set
\* without a promise is one whose error handler threw.
TasksInv ==
    /\ loop \in {"current", "left", "gone", "dangling"} /\ set \in BOOLEAN
    /\ WorldOK(TS!World, {})
    /\ told \in [Task -> Nat] /\ failed \subseteq Task /\ stuck \subseteq failed
    /\ \A t \in failed : holder[t] = "gone" \/ t \in stuck
    /\ \A t \in stuck : holder[t] # "none" /\ owned[t] = "none"
    /\ \A t \in Task : TS!There(t) /\ owned[t] = "none" => t \in stuck
    /\ \A t \in Task : told[t] = IF t \in failed THEN 1 ELSE 0
    /\ ~TS!Destroyed => daemons
    /\ TS!Destroyed => /\ \A t \in Task : holder[t] # "daemons"
                       /\ taskQueue = TQ!Empty \/ "exception" \in complaints
    /\ loop = "dangling" => /\ complaints \cap {"exception", "leak"} # {}
                            /\ "current" \notin complaints

LEMMA WorldIs ==
  /\ TS!World.daemons = daemons /\ TS!World.holder = holder /\ TS!World.promise = owned
  /\ TS!World.effect = effect /\ TS!World.queue = taskQueue /\ TS!World.thrown = FALSE
  BY DEF TS!World

\* The state after a step is a world that is in order.
LEMMA BecomeOK ==
  ASSUME NEW w, WorldOK(w, {}), TS!Become(w)
  PROVE  WorldOK(TS!World, {})'
<1>1. /\ w.daemons \in BOOLEAN /\ w.holder \in [Task -> Holders] /\ w.effect \in [Task -> EffectType]
      /\ w.promise \in [Task -> {"none", "pending", "value", "exception"}]
      /\ w.queue \in TQ!QueueOf(Task)
  BY WorldFields DEF WorldOK
<1>2. /\ daemons' = w.daemons /\ holder' = w.holder /\ owned' = w.promise
      /\ effect' = w.effect /\ taskQueue' = w.queue
  BY DEF TS!Become
<1>3. TS!World' \in WorldType
  BY <1>1, <1>2 DEF TS!World, WorldType
<1>4. /\ (TS!World').holder = w.holder /\ (TS!World').promise = w.promise
      /\ (TS!World').effect = w.effect /\ (TS!World').queue = w.queue
  BY <1>2 DEF TS!World
<1> QED
  BY <1>3, <1>4 DEF WorldOK, In

\* A step that tells no error handler anything.
LEMMA UntoldStep ==
  ASSUME TasksInv, NEW u, u.holder = holder, u.promise = owned,
         NEW w, NEW v, NEW X, X \subseteq Task, Follows(u, v, X), \A t \in X : v.holder[t] = "gone",
         WorldOK(w, {}), w.holder = v.holder, w.promise = v.promise, TS!Become(w),
         loop' \in {"current", "left", "gone", "dangling"}, set' \in BOOLEAN,
         UNCHANGED << told, failed, stuck >>, ~TS!Destroyed' => w.daemons,
         TS!Destroyed' => /\ \A t \in Task : v.holder[t] # "daemons"
                          /\ w.queue = TQ!Empty \/ "exception" \in complaints',
         loop' = "dangling" => /\ complaints' \cap {"exception", "leak"} # {}
                               /\ "current" \notin complaints'
  PROVE  TasksInv'
<1>1. WorldOK(TS!World, {})'
  BY BecomeOK
<1>2. holder' = v.holder /\ owned' = v.promise /\ taskQueue' = w.queue
  BY DEF TS!Become
<1>3. \A t \in stuck : t \in Task
  BY DEF TasksInv
<1>4. \A t \in failed' : holder'[t] = "gone" \/ t \in stuck'
  BY <1>2 DEF TasksInv, Follows
<1>5. \A t \in stuck' : holder'[t] # "none" /\ owned'[t] = "none"
  BY <1>2, <1>3 DEF TasksInv, Follows
<1>6. ASSUME NEW t \in Task, TS!There(t)', owned'[t] = "none"  PROVE t \in stuck'
  <2>1. In(v, t) /\ v.promise[t] = "none"
    BY <1>2, <1>6 DEF TS!There, In
  <2>2. t \notin X
    BY <2>1 DEF In
  <2>3. In(u, t) /\ u.promise[t] = "none"
    BY <2>1, <2>2 DEF Follows
  <2> QED  BY <2>3 DEF TasksInv, TS!There, In
<1>7. TS!Destroyed' => /\ \A t \in Task : holder'[t] # "daemons"
                       /\ taskQueue' = TQ!Empty \/ "exception" \in complaints'
  BY <1>2
<1>8. ~TS!Destroyed' => daemons'
  BY DEF TS!Become
<1> QED
  BY <1>1, <1>4, <1>5, <1>6, <1>7, <1>8 DEF TasksInv

LEMMA EffectsAimed ==
  ASSUME NEW t \in Task, NEW does \in TS!Effects(t)
  PROVE  Aimed(t, does)
  BY DEF TS!Effects, TS!Nothing, Aimed, EffectType

LEMMA AddStep ==
  ASSUME TasksInv, NEW t \in Task, NEW ready \in {"pending", "value", "exception"},
         NEW does \in TS!Effects(t), TS!Add(t, ready, does) \/ TS!Detach(t, ready, does)
  PROVE  TasksInv'
<1>1. PICK to \in {"set", "daemons"} : /\ TS!Become(TS!Added(TS!World, t, to, ready, does))
                                       /\ to = "daemons" => daemons
  BY DEF TS!Add, TS!Detach, TasksInv, TS!Destroyed
<1>2. /\ loop = "current" /\ holder[t] = "none"
      /\ UNCHANGED << loop, set, told, failed, stuck, complaints >>
  BY DEF TS!Add, TS!Detach
<1>3. PICK u, w : u = TS!World /\ w = TS!Added(u, t, to, ready, does)
  OBVIOUS
<1>4. u.holder = holder /\ u.promise = owned /\ u.daemons = daemons
  BY <1>3, WorldIs
<1>5. WorldOK(u, {})
  BY <1>3 DEF TasksInv
<1>6. WorldOK(w, {}) /\ Follows(u, w, {})
  BY <1>1, <1>2, <1>3, <1>4, <1>5, EffectsAimed, AddedOK
<1>7. TS!Become(w)
  BY <1>1, <1>3
<1>8. /\ ~TS!Destroyed' /\ loop' = "current" /\ set' \in BOOLEAN /\ w.daemons
  BY <1>2, <1>4, <1>6 DEF TasksInv, Follows, TS!Destroyed
<1> QED
  BY <1>2, <1>4, <1>6, <1>7, <1>8, UntoldStep

LEMMA FulfilStep ==
  ASSUME TasksInv, NEW t \in Task, NEW ready \in {"value", "exception"}, TS!Fulfil(t, ready)
  PROVE  TasksInv'
<1>2. loop = "current" /\ UNCHANGED << loop, set, told, failed, stuck, complaints >>
  BY DEF TS!Fulfil
<1>3. PICK u, w : u = TS!World /\ w = TS!Fulfilled(u, t, ready)
  OBVIOUS
<1>4. u.holder = holder /\ u.promise = owned /\ u.daemons = daemons
  BY <1>3, WorldIs
<1>5. WorldOK(u, {})
  BY <1>3 DEF TasksInv
<1>6. WorldOK(w, {}) /\ Follows(u, w, {})
  BY <1>3, <1>5, FulfilledOK
<1>7. TS!Become(w)
  BY <1>3 DEF TS!Fulfil
<1>8. /\ ~TS!Destroyed' /\ loop' = "current" /\ set' \in BOOLEAN /\ w.daemons
  BY <1>2, <1>4, <1>6 DEF TasksInv, Follows, TS!Destroyed
<1> QED
  BY <1>2, <1>4, <1>6, <1>7, <1>8, UntoldStep

LEMMA DestroySetStep ==
  ASSUME TasksInv, TS!DestroySet
  PROVE  TasksInv'
<1>1. PICK S : S = {t \in Task : holder[t] = "set"}
  OBVIOUS
<1>2. PICK s \in TS!SetToSeqs(S) : TS!Become(TS!SetGone(TS!World, s))
  BY <1>1 DEF TS!DestroySet
<1>3. /\ UNCHANGED << loop, told, failed, stuck, complaints >> /\ set' = FALSE
      /\ TS!Destroyed => \A t \in S : effect[t].does # "fulfil"
  BY <1>1 DEF TS!DestroySet
<1>4. PICK u, w : u = TS!World /\ w = TS!SetGone(u, s)
  OBVIOUS
<1>5. /\ u.holder = holder /\ u.promise = owned /\ u.effect = effect /\ u.queue = taskQueue
  BY <1>4, WorldIs
<1>6. WorldOK(u, {}) /\ S \subseteq Task
  BY <1>1, <1>4 DEF TasksInv
<1>7. /\ WorldOK(w, {}) /\ Follows(u, w, S) /\ \A t \in S : w.holder[t] = "gone"
      /\ (/\ loop # "current" /\ u.queue = TQ!Empty
          /\ \A t \in S : u.effect[t].does # "fulfil") => w.queue = TQ!Empty
  BY <1>4, <1>6, SetGoneOK
<1>8. /\ TS!Become(w) /\ set' \in BOOLEAN /\ loop' \in {"current", "left", "gone", "dangling"}
      /\ ~TS!Destroyed' => w.daemons
      /\ loop' = "dangling" => /\ complaints' \cap {"exception", "leak"} # {}
                               /\ "current" \notin complaints'
  BY <1>2, <1>3, <1>4, <1>7, WorldIs DEF TasksInv, Follows, TS!Destroyed
<1>9. ASSUME TS!Destroyed'
      PROVE  /\ \A t \in Task : w.holder[t] # "daemons"
             /\ w.queue = TQ!Empty \/ "exception" \in complaints'
  <2>1. TS!Destroyed /\ loop # "current" /\ \A t \in Task : holder[t] # "daemons"
    BY <1>3, <1>9 DEF TasksInv, TS!Destroyed
  <2>2. \A t \in Task : w.holder[t] # "daemons"
    BY <1>5, <1>7, <2>1 DEF Follows
  <2>3. taskQueue = TQ!Empty \/ "exception" \in complaints
    BY <2>1 DEF TasksInv
  <2> QED  BY <1>3, <1>5, <1>7, <2>1, <2>2, <2>3
<1> QED
  BY <1>3, <1>5, <1>6, <1>7, <1>8, <1>9, UntoldStep

LEMMA DestroyLoopStep ==
  ASSUME TasksInv, TS!DestroyLoop
  PROVE  TasksInv'
<1>1. PICK S : S = {t \in Task : holder[t] = "daemons"}
  OBVIOUS
<1>2. PICK u : u = [TS!World EXCEPT !.daemons = FALSE]
  OBVIOUS
<1>3. PICK s \in TS!SetToSeqs(S), unwinding \in BOOLEAN :
          TS!LoopGoes(TS!SetGone(u, s), unwinding)
  BY <1>1, <1>2 DEF TS!DestroyLoop
<1>4. UNCHANGED << set, told, failed, stuck >> /\ set \in BOOLEAN
  BY DEF TS!DestroyLoop, TasksInv
<1>5. TS!World \in WorldType
  BY DEF TasksInv, WorldOK
<1>6. /\ u \in WorldType /\ u.holder = holder /\ u.promise = owned /\ u.daemons = FALSE
      /\ u.effect = TS!World.effect /\ u.queue = TS!World.queue
      /\ u.holder = TS!World.holder /\ u.promise = TS!World.promise
  BY <1>2, <1>5, WorldIs DEF WorldType
<1>7. WorldOK(u, {}) /\ S \subseteq Task
  BY <1>1, <1>6 DEF TasksInv, WorldOK, In
<1>8. PICK v : v = TS!SetGone(u, s)
  OBVIOUS
<1>9. WorldOK(v, {}) /\ Follows(u, v, S) /\ \A t \in S : v.holder[t] = "gone"
  BY <1>7, <1>8, SetGoneOK
<1>10. \A t \in Task : v.holder[t] # "daemons"
  BY <1>1, <1>6, <1>9 DEF Follows
<1>11. TS!LoopGoes(v, unwinding)
  BY <1>3, <1>8
<1>12. /\ TS!Destroyed' /\ loop' \in {"gone", "dangling"}
       /\ loop' = "dangling" => /\ complaints' \cap {"exception", "leak"} # {}
                                /\ "current" \notin complaints'
  <2>1. CASE unwinding
    BY <1>11, <2>1 DEF TS!LoopGoes, TS!Destroyed
  <2>2. CASE ~unwinding
    BY <1>11, <2>2 DEF TS!LoopGoes, TS!Destroyed
  <2> QED  BY <2>1, <2>2
<1>13. CASE v.thrown /\ ~unwinding
  <2>1. TS!Become(v) /\ "exception" \in complaints'
    BY <1>11, <1>13 DEF TS!LoopGoes
  <2> QED  BY <1>4, <1>6, <1>7, <1>9, <1>10, <1>12, <2>1, UntoldStep
<1>14. CASE ~(v.thrown /\ ~unwinding)
  <2>1. PICK w : w = [v EXCEPT !.queue = TQ!Empty]
    OBVIOUS
  <2>2. TS!Become(w)
    BY <1>11, <1>14, <2>1, SameTaskQueue DEF TS!LoopGoes
  <2>3. v \in WorldType /\ TQ!Empty \in TQ!QueueOf(Task) /\ TQ!Distinct(TQ!Empty)
        /\ TQ!Queued(TQ!Empty) = {}
    BY <1>9, TQ!EmptyFacts DEF WorldOK
  <2>4. /\ w \in WorldType /\ w.holder = v.holder /\ w.promise = v.promise
        /\ w.effect = v.effect /\ w.queue = TQ!Empty
    BY <2>1, <2>3 DEF WorldType
  <2>5. WorldOK(w, {})
    BY <1>9, <2>3, <2>4 DEF WorldOK, In
  <2> QED  BY <1>4, <1>6, <1>7, <1>9, <1>10, <1>12, <2>2, <2>4, <2>5, UntoldStep
<1> QED
  BY <1>13, <1>14

\* A task is fired: its promise goes, and then it is told to the error handler if it failed.
LEMMA FireStep ==
  ASSUME TasksInv, NEW t \in Task, NEW handlerThrows \in BOOLEAN, TS!Fire(t, handlerThrows)
  PROVE  TasksInv'
<1>1. PICK u : u = [TS!World EXCEPT !.queue = TS!Q!Pop(@)]
  OBVIOUS
<1>2. PICK w : w = TS!PromiseGone(u, t)
  OBVIOUS
<1>3. PICK fails \in BOOLEAN : fails <=> owned[t] = "exception" \/ w.thrown
  OBVIOUS
<1>4. /\ loop = "current" /\ taskQueue.order # << >> /\ Head(taskQueue.order) = t
      /\ handlerThrows => holder[t] = "set"
      /\ failed' = IF fails THEN failed \cup {t} ELSE failed
      /\ told' = IF fails THEN [told EXCEPT ![t] = @ + 1] ELSE told
      /\ IF fails /\ handlerThrows
         THEN stuck' = stuck \cup {t} /\ TS!Become(w)
         ELSE /\ UNCHANGED stuck
              /\ TS!Become([w EXCEPT !.holder[t] = "gone", !.queue = TS!Q!Rewind(@)])
      /\ UNCHANGED << loop, set, complaints >>
  BY <1>1, <1>2, <1>3 DEF TS!Fire
<1>5. /\ TS!World \in WorldType /\ taskQueue \in TQ!QueueOf(Task) /\ TQ!Distinct(taskQueue)
      /\ \A x \in Task : x \in TQ!Queued(taskQueue) =>
             holder[x] \in {"set", "daemons"} /\ owned[x] \in {"value", "exception"}
  <2>1. TS!World \in WorldType
    BY DEF TasksInv, WorldOK
  <2> QED  BY <2>1, WorldIs, WorldFields DEF TasksInv, WorldOK, In
<1>6. /\ TQ!Pop(taskQueue) \in TQ!QueueOf(Task) /\ TQ!Distinct(TQ!Pop(taskQueue))
      /\ TQ!Queued(TQ!Pop(taskQueue)) = TQ!Queued(taskQueue) \ {t}
      /\ t \in TQ!Queued(taskQueue)
  <2>1. /\ TQ!Pop(taskQueue) \in TQ!QueueOf(Task) /\ TQ!Distinct(TQ!Pop(taskQueue))
        /\ TQ!Queued(TQ!Pop(taskQueue)) = TQ!Queued(taskQueue) \ {taskQueue.order[1]}
        /\ taskQueue.order[1] = t /\ Len(taskQueue.order) >= 1
    BY <1>4, <1>5, TQ!PopFacts
  <2>2. 1 \in DOMAIN taskQueue.order
    BY <1>5, <2>1, TQ!QueueFacts
  <2> QED  BY <2>1, <2>2 DEF TQ!Queued
<1>7. /\ holder[t] \in {"set", "daemons"} /\ owned[t] \in {"value", "exception"}
      /\ t \notin stuck /\ t \notin failed /\ told[t] = 0
  BY <1>5, <1>6 DEF TasksInv
<1>8. /\ u \in WorldType /\ u.holder = holder /\ u.promise = owned /\ u.daemons = daemons
      /\ u.effect = effect /\ u.queue = TQ!Pop(taskQueue)
  BY <1>1, <1>5, <1>6, SameTaskQueue, WorldIs DEF WorldType
<1>9. WorldOK(u, {t})
  <2>1. \A x \in Task : Aimed(x, u.effect[x])
    BY <1>8, WorldIs DEF TasksInv, WorldOK
  <2> QED  BY <1>5, <1>6, <1>8, <2>1 DEF WorldOK, In
<1>10. /\ WorldOK(w, {t}) /\ Follows(u, w, {t}) /\ w.promise[t] = "none"
       /\ w.holder[t] = holder[t] /\ t \notin TQ!Queued(w.queue)
  BY <1>2, <1>6, <1>8, <1>9, PromiseGoneOK
<1>11. WorldOK(w, {})
  BY <1>10 DEF WorldOK
<1>12. w \in WorldType /\ w.holder \in [Task -> Holders] /\ w.queue \in TQ!QueueOf(Task)
       /\ TQ!Distinct(w.queue)
  BY <1>11, WorldFields DEF WorldOK
<1>13. told' \in [Task -> Nat] /\ \A x \in Task : told'[x] = IF x \in failed' THEN 1 ELSE 0
  <2>1. told \in [Task -> Nat] /\ \A x \in Task : told[x] = IF x \in failed THEN 1 ELSE 0
    BY DEF TasksInv
  <2> QED  BY <1>4, <1>7, <2>1
<1>14. failed' \subseteq Task /\ loop' = "current" /\ set' \in BOOLEAN /\ w.daemons
  BY <1>4, <1>8, <1>10 DEF TasksInv, TS!Destroyed, Follows
<1>15. CASE fails /\ handlerThrows
  <2>1. TS!Become(w) /\ failed' = failed \cup {t} /\ stuck' = stuck \cup {t}
    BY <1>4, <1>15
  <2>2. holder' = w.holder /\ owned' = w.promise /\ daemons' = w.daemons
    BY <2>1 DEF TS!Become
  <2>3. WorldOK(TS!World, {})'
    BY <1>11, <2>1, BecomeOK
  <2>4. \A x \in failed' : holder'[x] = "gone" \/ x \in stuck'
    BY <1>8, <1>10, <2>1, <2>2 DEF TasksInv, Follows
  <2>5. \A x \in stuck' : holder'[x] # "none" /\ owned'[x] = "none"
    BY <1>7, <1>8, <1>10, <2>1, <2>2 DEF TasksInv, Follows
  <2>6. ASSUME NEW x \in Task, TS!There(x)', owned'[x] = "none"  PROVE x \in stuck'
    <3>1. CASE x = t
      BY <2>1, <3>1
    <3>2. CASE x # t
      <4>1. In(w, x) /\ w.promise[x] = "none"
        BY <2>2, <2>6 DEF TS!There, In
      <4>2. In(u, x) /\ u.promise[x] = "none"
        BY <1>10, <3>2, <4>1 DEF Follows
      <4> QED  BY <1>8, <2>1, <4>2 DEF TasksInv, TS!There, In
    <3> QED  BY <3>1, <3>2
  <2>7. stuck' \subseteq failed'
    BY <2>1 DEF TasksInv
  <2> QED  BY <1>13, <1>14, <2>2, <2>3, <2>4, <2>5, <2>6, <2>7 DEF TasksInv, TS!Destroyed
<1>16. CASE ~(fails /\ handlerThrows)
  <2> DEFINE h == [w.holder EXCEPT ![t] = "gone"]
             q == TQ!Rewind(w.queue)
  <2>1. PICK v : v = [w EXCEPT !.holder[t] = "gone", !.queue = TS!Q!Rewind(@)]
    OBVIOUS
  <2>2. v = [w EXCEPT !.holder = h, !.queue = q]
    BY <1>12, <2>1, SameTaskQueue DEF WorldType
  <2>3. TS!Become(v) /\ stuck' = stuck
    BY <1>4, <1>16, <2>1
  <2>4. /\ h \in [Task -> Holders] /\ h[t] = "gone" /\ \A x \in Task \ {t} : h[x] = w.holder[x]
    BY <1>12 DEF Holders
  <2>5. q \in TQ!QueueOf(Task) /\ TQ!Distinct(q) /\ TQ!Queued(q) = TQ!Queued(w.queue)
    BY <1>12, TQ!RewindFacts
  <2> HIDE DEF h, q
  <2>6. /\ v \in WorldType /\ v.holder = h /\ v.queue = q /\ v.promise = w.promise
        /\ v.effect = w.effect /\ v.daemons = w.daemons
    BY <1>12, <2>2, <2>4, <2>5 DEF WorldType
  <2>7. WorldOK(v, {})
    BY <1>10, <1>11, <2>4, <2>5, <2>6 DEF WorldOK, In
  <2>8. holder' = h /\ owned' = w.promise /\ daemons' = w.daemons
    BY <2>3, <2>6 DEF TS!Become
  <2>9. WorldOK(TS!World, {})'
    BY <2>3, <2>7, BecomeOK
  <2>10. \A x \in failed' : holder'[x] = "gone" \/ x \in stuck'
    <3>1. \A x \in failed : x \in Task
      BY DEF TasksInv
    <3> QED  BY <1>4, <1>8, <1>10, <2>3, <2>4, <2>8, <3>1 DEF TasksInv, Follows
  <2>11. \A x \in stuck' : holder'[x] # "none" /\ owned'[x] = "none"
    <3>1. \A x \in stuck : x \in Task \ {t}
      BY <1>7 DEF TasksInv
    <3> QED  BY <1>8, <1>10, <2>3, <2>4, <2>8, <3>1 DEF TasksInv, Follows
  <2>12. ASSUME NEW x \in Task, TS!There(x)', owned'[x] = "none"  PROVE x \in stuck'
    <3>1. x # t
      BY <2>4, <2>8, <2>12 DEF TS!There
    <3>2. In(w, x) /\ w.promise[x] = "none"
      BY <2>4, <2>8, <2>12, <3>1 DEF TS!There, In
    <3>3. In(u, x) /\ u.promise[x] = "none"
      BY <1>10, <3>1, <3>2 DEF Follows
    <3> QED  BY <1>8, <2>3, <3>3 DEF TasksInv, TS!There, In
  <2>13. stuck' \subseteq failed'
    BY <1>4, <2>3 DEF TasksInv
  <2> QED  BY <1>13, <1>14, <2>8, <2>9, <2>10, <2>11, <2>12, <2>13 DEF TasksInv, TS!Destroyed
<1> QED
  BY <1>15, <1>16

LEMMA TasksInitInv == TS!Init => TasksInv
<1> SUFFICES ASSUME TS!Init  PROVE TasksInv
  OBVIOUS
<1>1. TS!World \in WorldType
  BY TQ!EmptyFacts, SameTaskQueue DEF TS!Init, TS!World, WorldType, Holders, EffectType, TS!Nothing
<1>2. /\ taskQueue = TQ!Empty /\ TQ!Distinct(taskQueue) /\ TQ!Queued(taskQueue) = {}
  BY TQ!EmptyFacts, SameTaskQueue DEF TS!Init
<1>3. \A t \in Task : Aimed(t, effect[t])
  BY NothingAimed DEF TS!Init
<1>4. WorldOK(TS!World, {})
  BY <1>1, <1>2, <1>3, WorldIs DEF WorldOK
<1> QED
  BY <1>2, <1>4 DEF TS!Init, TasksInv, TS!There

LEMMA TasksNextInv == TasksInv /\ [TS!Next]_tasks => TasksInv'
<1> SUFFICES ASSUME TasksInv, [TS!Next]_tasks  PROVE TasksInv'
  OBVIOUS
<1>1. CASE \E t \in Task, ready \in {"pending", "value", "exception"} : \E does \in TS!Effects(t) :
              TS!Add(t, ready, does) \/ TS!Detach(t, ready, does)
  BY <1>1, AddStep
<1>2. CASE \E t \in Task, ready \in {"value", "exception"} : TS!Fulfil(t, ready)
  BY <1>2, FulfilStep
<1>3. CASE TS!DestroySet
  BY <1>3, DestroySetStep
<1>4. CASE TS!DestroyLoop
  BY <1>4, DestroyLoopStep
<1>5. CASE TS!Turn
  BY <1>5, FireStep DEF TS!Turn
<1>6. CASE TS!LeaveScope
  <2>1. WorldOK(TS!World, {})'
    <3>1. TS!World' = TS!World
      BY <1>6 DEF TS!LeaveScope, TS!World
    <3>2. WorldOK(TS!World, {})
      BY DEF TasksInv
    <3> QED  BY <3>1, <3>2 DEF WorldOK, In
  <2> QED  BY <1>6, <2>1 DEF TS!LeaveScope, TasksInv, TS!Destroyed, TS!There
<1>7. CASE UNCHANGED tasks
  <2>1. WorldOK(TS!World, {})'
    <3>1. TS!World' = TS!World
      BY <1>7 DEF tasks, TS!World
    <3>2. WorldOK(TS!World, {})
      BY DEF TasksInv
    <3> QED  BY <3>1, <3>2 DEF WorldOK, In
  <2> QED  BY <1>7, <2>1 DEF tasks, TasksInv, TS!Destroyed, TS!There
<1>8. CASE TS!ReturnOther
  <2>1. PICK q : q = taskQueue
    OBVIOUS
  <2>2. WorldOK(TS!World, {})
    BY DEF TasksInv
  <2>3. q \in TQ!QueueOf(Task) /\ TQ!Distinct(q) /\ loop = "current"
    BY <1>8, <2>1, <2>2, WorldIs, WorldFields DEF WorldOK, TS!ReturnOther
  <2>4. PICK r : r = TQ!Rewind(q)
    OBVIOUS
  <2>5. r \in TQ!QueueOf(Task) /\ TQ!Distinct(r) /\ TQ!Queued(r) = TQ!Queued(q)
    BY <2>3, <2>4, TQ!RewindFacts
  <2>6. /\ taskQueue' = r
        /\ UNCHANGED << loop, daemons, set, holder, owned, effect, told, failed, stuck, complaints >>
    BY <1>8, <2>1, <2>4, SameTaskQueue DEF TS!ReturnOther
  <2>7. WorldOK(TS!World, {})'
    <3>1. PICK w : w = TS!World
      OBVIOUS
    <3>2. PICK v : v = [w EXCEPT !.queue = r]
      OBVIOUS
    <3>3. /\ w \in WorldType /\ w.queue = q /\ w.daemons = daemons /\ w.holder = holder
          /\ w.promise = owned /\ w.effect = effect
      BY <2>1, <2>2, <3>1, WorldIs DEF WorldOK
    <3>4. /\ v \in WorldType /\ v.queue = r /\ v.effect = w.effect /\ v.holder = w.holder
          /\ v.promise = w.promise /\ v.daemons = w.daemons
      BY <2>5, <3>2, <3>3 DEF WorldType
    <3>5. WorldOK(v, {})
      BY <2>1, <2>2, <2>5, <3>1, <3>3, <3>4 DEF WorldOK, In
    <3>6. TS!Become(v)
      BY <2>6, <3>3, <3>4 DEF TS!Become
    <3> QED  BY <3>5, <3>6, BecomeOK
  <2> QED  BY <2>3, <2>6, <2>7 DEF TasksInv, TS!Destroyed, TS!There
<1> QED
  BY <1>1, <1>2, <1>3, <1>4, <1>5, <1>6, <1>7, <1>8 DEF TS!Next

LEMMA TasksInvariant == PromisesSpec => []TasksInv
<1>1. PromisesInit => TasksInv
  BY TasksInitInv DEF PromisesInit
<1>2. [PromisesNext]_<< part, vars, join, chains, nodes, tasks >> => [TS!Next]_tasks
  BY DEF PromisesNext
<1> QED
  BY <1>1, <1>2, TasksNextInv, PTL DEF PromisesSpec

\* For any finite set of tasks, in a TaskSet or detached, whatever their promises own:
\* a failure is told to the error handler once, and a task that has ended is in no set
\* unless its error handler threw (async.cpp, TaskSetImpl::Task::fire).
THEOREM HandlersHearOnce == PromisesSpec => []HandlerHearsOnce
<1>1. TasksInv => HandlerHearsOnce
  BY DEF TasksInv, HandlerHearsOnce, TS!HandlerHearsOnce
<1> QED
  BY <1>1, TasksInvariant, PTL

\* For any finite set of tasks: when ~EventLoop has destroyed the daemons, whatever they did
\* then, no daemon is left and no event is queued unless one of them threw, and no event is
\* ever queued whose task is gone (async.cpp:215-229).
THEOREM LoopEndsClean == PromisesSpec => []NothingOutlivesTheLoop
<1> SUFFICES ASSUME TasksInv  PROVE NothingOutlivesTheLoop
  BY TasksInvariant, PTL
<1>1. /\ TS!World \in WorldType /\ TS!World.daemons = daemons /\ TS!World.holder = holder
      /\ TS!World.queue = taskQueue /\ TS!World.promise = owned
  BY WorldIs DEF TasksInv, WorldOK
<1>2. /\ daemons \in BOOLEAN /\ holder \in [Task -> Holders] /\ taskQueue \in TQ!QueueOf(Task)
  BY <1>1, WorldFields
<1>3. TS!TypeOK
  BY <1>2 DEF TasksInv, TS!TypeOK, Holders
<1>4. \A t \in TQ!Queued(taskQueue) : t \in Task
  BY <1>2, TQ!QueueFacts DEF TQ!Queued
<1>5. \A t \in TQ!Queued(taskQueue) : TS!There(t) /\ t \notin stuck
  BY <1>1, <1>4 DEF TasksInv, WorldOK, TS!There, In
<1> QED
  BY <1>3, <1>5, SameTaskQueue DEF TasksInv, NothingOutlivesTheLoop, TS!NothingOutlivesTheLoop

-----------------------------------------------------------------------------
(* Exclusive joins.                                                        *)
(*                                                                         *)
(* A branch fires only because its side resolved, and the first to fire    *)
(* drops the dependency of the other.  What makes the rest an invariant is *)
(* the order of the queue: the winner arms the consumer depth first, so    *)
(* that no branch stands before it (Ahead), and whoever takes the result   *)
(* finds the side that won, although the loser may have resolved since.    *)

JQ == INSTANCE EventQueueProofs WITH Event <- EJ!Events, queue <- joinQueue

LEMMA SameJoinQueue ==
  /\ EJ!Q!Empty = JQ!Empty
  /\ \A q : /\ EJ!Q!Pop(q) = JQ!Pop(q) /\ EJ!Q!Rewind(q) = JQ!Rewind(q)
            /\ EJ!Q!Queued(q) = JQ!Queued(q)
  /\ \A q, e : /\ EJ!Q!DepthFirst(q, e) = JQ!DepthFirst(q, e)
               /\ EJ!Q!BreadthFirst(q, e) = JQ!BreadthFirst(q, e)
               /\ EJ!Q!Drop(q, e) = JQ!Drop(q, e)
<1>1. \A q : EJ!Q!Queued(q) = JQ!Queued(q)
  BY DEF EJ!Q!Queued, JQ!Queued
<1>2. \A q, e : EJ!Q!DepthFirst(q, e) = JQ!DepthFirst(q, e)
  BY <1>1 DEF EJ!Q!DepthFirst, JQ!DepthFirst, EJ!Q!InsertAt, JQ!InsertAt
<1>3. \A q, e : EJ!Q!BreadthFirst(q, e) = JQ!BreadthFirst(q, e)
  BY <1>1 DEF EJ!Q!BreadthFirst, JQ!BreadthFirst
<1>4. \A q, e : EJ!Q!Drop(q, e) = JQ!Drop(q, e)
  BY <1>1 DEF EJ!Q!Drop, JQ!Drop, EJ!Q!RemoveAt, JQ!RemoveAt
<1>5. \A q : EJ!Q!Pop(q) = JQ!Pop(q) /\ EJ!Q!Rewind(q) = JQ!Rewind(q)
  BY DEF EJ!Q!Pop, JQ!Pop, EJ!Q!Rewind, JQ!Rewind
<1> QED
  BY <1>1, <1>2, <1>3, <1>4, <1>5 DEF EJ!Q!Empty, JQ!Empty

\* The consumer comes before any branch.
Ahead(q) ==
    \E i \in 1 .. Len(q.order) :
        /\ q.order[i] = "consumer"
        /\ \A j \in 1 .. i - 1 : q.order[j] \notin EJ!Side

\* The consumer has been told, or will be by whoever attaches it.
Announced == "consumer" \in JQ!Queued(joinQueue) \/ onReady = "ALREADY_READY" \/ fires > 0

JoinTypes ==
    /\ holds \in BOOLEAN /\ keeps \in BOOLEAN /\ attached \in BOOLEAN /\ badPointer \in BOOLEAN
    /\ joinQueue \in JQ!QueueOf(EJ!Events) /\ JQ!Distinct(joinQueue)
    /\ state \in {"unborn", "alive", "gone"}
    /\ dependency \subseteq EJ!Side /\ resolved \subseteq EJ!Side
    /\ onReady \in {None, "ALREADY_READY", "consumer"}
    /\ fires \in Nat
    /\ joinGot \in EJ!Side \cup {None, "not ready"}
    /\ first \in EJ!Side \cup {None}

\* Before the join is made, and after it is gone, none of its events is queued.
Idle ==
    /\ JQ!Queued(joinQueue) \subseteq Others
    /\ state = "unborn" => first = None /\ onReady = None /\ fires = 0 /\ joinGot = None
    /\ dependency = {}

\* A branch is queued because it resolved.  Until one of them fires both dependencies are
\* there and the consumer has heard nothing; afterwards the loser's is gone, and the
\* winner's unless the loser fired too.
Branches ==
    /\ JQ!Queued(joinQueue) \cap EJ!Side \subseteq resolved
    /\ joinGot = None
    /\ first = None =>
          /\ dependency = EJ!Side /\ resolved \subseteq JQ!Queued(joinQueue) /\ ~Announced
    /\ first # None =>
          /\ first \in resolved /\ dependency \subseteq {first}
          /\ first \notin dependency => resolved = EJ!Side

\* Who waits is known to the join; and when the consumer waits from the start and goes
\* with its result, no branch fires between the winner and the consumer.
Listener ==
    /\ attached => onReady # None
    /\ ~attached => onReady # "consumer" /\ fires = 0 /\ "consumer" \notin JQ!Queued(joinQueue)
    /\ onReady = "consumer" => attached
    /\ first # None =>
          /\ onReady # None
          /\ attached /\ ~keeps => "consumer" \in JQ!Queued(joinQueue)
    /\ ~holds => attached /\ onReady = "consumer"
    /\ ~keeps => fires = 0
    /\ ~holds /\ ~keeps /\ first # None => Ahead(joinQueue) /\ first \in dependency

JoinInv ==
    /\ JoinTypes
    /\ state # "alive" => Idle
    /\ state = "alive" => Branches /\ Listener
    /\ EJ!FirstWins

LEMMA EventFacts ==
  /\ EJ!Side = {"left", "right"} /\ EJ!Side \subseteq EJ!Events /\ "consumer" \in EJ!Events
  /\ Others \subseteq EJ!Events /\ Others \cap EJ!Side = {} /\ "consumer" \notin Others
  /\ "ALREADY_READY" \notin EJ!Events /\ None \notin EJ!Events /\ None # "ALREADY_READY"
  /\ None # "not ready" /\ "consumer" \notin EJ!Side
  /\ \A s \in EJ!Side : EJ!Opposite(s) \in EJ!Side \ {s} /\ EJ!Side = {s, EJ!Opposite(s)}
  BY JoinAssumption DEF EJ!Side, EJ!Events, EJ!Opposite

LEMMA TwoSides == EJ!Cardinality(EJ!Side) # 1
<1>1. \A S : EJ!Cardinality(S) = Cardinality(S)
  BY DEF EJ!Cardinality, Cardinality
<1>2. IsFiniteSet({"left"}) /\ Cardinality({"left"}) = 1
  BY FS_Singleton
<1>3. {"left"} \cup {"right"} = EJ!Side /\ "right" \notin {"left"}
  BY DEF EJ!Side
<1>4. Cardinality({"left"} \cup {"right"}) = Cardinality({"left"}) + 1
  BY <1>2, <1>3, FS_AddElement
<1> QED
  BY <1>1, <1>2, <1>3, <1>4

\* The front of the queue.
LEMMA JoinFront ==
  ASSUME NEW q \in JQ!QueueOf(EJ!Events), q = joinQueue, EJ!Front # None
  PROVE  q.order # << >> /\ q.order[1] = EJ!Front /\ EJ!Front \in JQ!Queued(q)
<1>1. q.order # << >> /\ Head(q.order) = EJ!Front
  BY DEF EJ!Front
<1>2. Len(q.order) >= 1 /\ q.order[1] = Head(q.order)
  BY <1>1, JQ!PopFacts
<1>3. 1 \in 1 .. Len(q.order)
  BY <1>2, JQ!QueueFacts
<1> QED
  BY <1>1, <1>2, <1>3, JQ!QueueFacts

\* Nothing but a branch comes between the consumer and the front.
LEMMA AheadArmed ==
  ASSUME NEW q \in JQ!QueueOf(EJ!Events), NEW e \in EJ!Events \ EJ!Side, Ahead(q)
  PROVE  Ahead(JQ!DepthFirst(q, e)) /\ Ahead(JQ!BreadthFirst(q, e))
<1>1. CASE e \in JQ!Queued(q)
  BY <1>1 DEF JQ!DepthFirst, JQ!BreadthFirst
<1>2. CASE e \notin JQ!Queued(q)
  <2> DEFINE n == Len(q.order)
  <2>1. n \in Nat /\ q.ins \in 0 .. n
    BY JQ!QueueFacts
  <2>2. PICK i \in 1 .. n : /\ q.order[i] = "consumer"
                            /\ \A j \in 1 .. i - 1 : q.order[j] \notin EJ!Side
    BY DEF Ahead
  <2> HIDE DEF n
  <2>3. ASSUME NEW r, NEW k \in 0 .. n, Len(r.order) = n + 1,
               \A j \in 1 .. n + 1 :
                   r.order[j] = IF j <= k THEN q.order[j] ELSE IF j = k + 1 THEN e ELSE q.order[j - 1]
        PROVE  Ahead(r)
    <3> DEFINE m == IF i <= k THEN i ELSE i + 1
    <3>1. m \in 1 .. n + 1 /\ r.order[m] = "consumer"
      BY <2>1, <2>2, <2>3
    <3>2. ASSUME NEW j \in 1 .. m - 1  PROVE r.order[j] \notin EJ!Side
      <4>1. j \in 1 .. n + 1 /\ (j <= k => j \in 1 .. i - 1) /\ (j > k + 1 => j - 1 \in 1 .. i - 1)
        BY <2>1, <3>2
      <4> QED  BY <2>1, <2>2, <2>3, <4>1
    <3> HIDE DEF m
    <3> QED  BY <2>3, <3>1, <3>2 DEF Ahead
  <2>4. Ahead(JQ!DepthFirst(q, e))
    BY <1>2, <2>1, <2>3, JQ!DepthFirstFacts DEF n
  <2>5. Ahead(JQ!BreadthFirst(q, e))
    <3> DEFINE r == JQ!BreadthFirst(q, e)
    <3>1. /\ Len(r.order) = n + 1
          /\ \A j \in 1 .. n + 1 : r.order[j] = IF j <= n THEN q.order[j] ELSE e
      BY <1>2, JQ!BreadthFirstFacts DEF n
    <3> HIDE DEF r
    <3>2. n \in 0 .. n /\ \A j \in 1 .. n + 1 : ~(j <= n) => j = n + 1
      BY <2>1
    <3>3. \A j \in 1 .. n + 1 :
             r.order[j] = IF j <= n THEN q.order[j] ELSE IF j = n + 1 THEN e ELSE q.order[j - 1]
      BY <3>1, <3>2
    <3> QED  BY <2>3, <3>1, <3>2, <3>3 DEF r
  <2> QED  BY <2>4, <2>5
<1> QED
  BY <1>1, <1>2

LEMMA AheadPopped ==
  ASSUME NEW q \in JQ!QueueOf(EJ!Events), q.order # << >>, q.order[1] # "consumer", Ahead(q)
  PROVE  Ahead(JQ!Pop(q)) /\ q.order[1] \notin EJ!Side
<1> DEFINE n == Len(q.order)
           r == JQ!Pop(q)
<1>1. n \in Nat
  BY JQ!QueueFacts
<1>2. PICK i \in 1 .. n : /\ q.order[i] = "consumer"
                          /\ \A j \in 1 .. i - 1 : q.order[j] \notin EJ!Side
  BY DEF Ahead
<1>3. Len(r.order) = n - 1 /\ \A j \in 1 .. n - 1 : r.order[j] = q.order[j + 1]
  BY JQ!PopFacts
<1> HIDE DEF n, r
<1>4. i # 1 /\ i - 1 \in 1 .. n - 1 /\ (i - 1) + 1 = i /\ 1 \in 1 .. i - 1
  BY <1>1, <1>2
<1>5. r.order[i - 1] = "consumer"
  BY <1>2, <1>3, <1>4
<1>6. ASSUME NEW j \in 1 .. (i - 1) - 1  PROVE r.order[j] \notin EJ!Side
  <2>1. j \in 1 .. n - 1 /\ j + 1 \in 1 .. i - 1
    BY <1>1, <1>4
  <2> QED  BY <1>2, <1>3, <2>1
<1>7. Ahead(r)
  BY <1>3, <1>4, <1>5, <1>6 DEF Ahead
<1> QED
  BY <1>2, <1>4, <1>7 DEF r

\* A consumer that is armed by the first branch goes to the front.
LEMMA AheadFirst ==
  ASSUME NEW q \in JQ!QueueOf(EJ!Events), q.ins = 0, "consumer" \notin JQ!Queued(q)
  PROVE  Ahead(JQ!DepthFirst(q, "consumer"))
<1> DEFINE r == JQ!DepthFirst(q, "consumer")
<1>1. /\ Len(r.order) = Len(q.order) + 1
      /\ \A j \in 1 .. Len(q.order) + 1 :
             r.order[j] = IF j <= q.ins THEN q.order[j]
                          ELSE IF j = q.ins + 1 THEN "consumer" ELSE q.order[j - 1]
  <2>1. "consumer" \in EJ!Events
    BY EventFacts
  <2> QED  BY <2>1, JQ!DepthFirstFacts
<1>0. Len(q.order) \in Nat
  BY JQ!QueueFacts
<1> HIDE DEF r
<1>2. 1 \in 1 .. Len(q.order) + 1 /\ r.order[1] = "consumer"
  BY <1>0, <1>1
<1>3. Ahead(r)
  BY <1>0, <1>1, <1>2 DEF Ahead
<1> QED
  BY <1>3 DEF r

\* What arming one of the events makes of the queue.
LEMMA JoinArmed ==
  ASSUME NEW q \in JQ!QueueOf(EJ!Events), JQ!Distinct(q),
         NEW e \in EJ!Side \cup {"consumer"} \cup Others
  PROVE  /\ JQ!DepthFirst(q, e) \in JQ!QueueOf(EJ!Events) /\ JQ!Distinct(JQ!DepthFirst(q, e))
         /\ JQ!Queued(JQ!DepthFirst(q, e)) = JQ!Queued(q) \cup {e}
         /\ JQ!BreadthFirst(q, e) \in JQ!QueueOf(EJ!Events) /\ JQ!Distinct(JQ!BreadthFirst(q, e))
         /\ JQ!Queued(JQ!BreadthFirst(q, e)) = JQ!Queued(q) \cup {e}
<1>1. e \in EJ!Events
  BY DEF EJ!Events
<1> QED
  BY <1>1, JQ!ArmedFacts

LEMMA JoinQueueIs ==
  ASSUME JoinTypes
  PROVE  joinQueue \in JQ!QueueOf(EJ!Events) /\ JQ!Distinct(joinQueue)
  BY DEF JoinTypes

\* While the join is there nobody has its result.
LEMMA NoResultYet ==
  ASSUME joinGot' = None
  PROVE  EJ!FirstWins'
  BY DEF EJ!FirstWins

LEMMA JoinCreated ==
  ASSUME JoinInv, NEW ready \in SUBSET EJ!Side, EJ!Create(ready), holds' = holds, keeps' = keeps
  PROVE  JoinInv'
<1> DEFINE l == IF "left" \in ready THEN JQ!BreadthFirst(joinQueue, "left") ELSE joinQueue
           r == IF "right" \in ready THEN JQ!BreadthFirst(l, "right") ELSE l
<1>1. JoinTypes /\ Idle /\ state = "unborn"
  BY DEF JoinInv, EJ!Create
<1>2. /\ state' = "alive" /\ dependency' = EJ!Side /\ resolved' = ready /\ joinQueue' = r
      /\ attached' = ~holds /\ onReady' = (IF holds THEN None ELSE "consumer")
      /\ UNCHANGED << fires, joinGot, first, badPointer >>
  BY SameJoinQueue DEF EJ!Create
<1>3. /\ l \in JQ!QueueOf(EJ!Events) /\ JQ!Distinct(l)
      /\ JQ!Queued(l) = JQ!Queued(joinQueue) \cup (ready \cap {"left"})
  <2>1. "left" \in EJ!Side \cup {"consumer"} \cup Others
    BY EventFacts
  <2>2. "left" \in ready => /\ l \in JQ!QueueOf(EJ!Events) /\ JQ!Distinct(l)
                            /\ JQ!Queued(l) = JQ!Queued(joinQueue) \cup {"left"}
    BY <1>1, <2>1, JoinQueueIs, JoinArmed
  <2>3. "left" \notin ready => l = joinQueue
    OBVIOUS
  <2> HIDE DEF l
  <2> QED  BY <1>1, <2>2, <2>3, JoinQueueIs
<1> HIDE DEF l
<1>4. /\ r \in JQ!QueueOf(EJ!Events) /\ JQ!Distinct(r)
      /\ JQ!Queued(r) = JQ!Queued(joinQueue) \cup ready
  <2>1. "right" \in ready => /\ r \in JQ!QueueOf(EJ!Events) /\ JQ!Distinct(r)
                             /\ JQ!Queued(r) = JQ!Queued(l) \cup {"right"}
    <3>1. "right" \in EJ!Side \cup {"consumer"} \cup Others
      BY EventFacts
    <3> QED  BY <1>3, <3>1, JoinArmed
  <2> HIDE DEF r
  <2>2. "right" \notin ready => r = l
    BY DEF r
  <2>3. ready = (ready \cap {"left"}) \cup (ready \cap {"right"})
    BY EventFacts
  <2> QED  BY <1>3, <2>1, <2>2, <2>3
<1> HIDE DEF r
<1>5. JoinTypes'
  BY <1>1, <1>2, <1>4 DEF JoinTypes
<1>6. Branches'
  <2>1. /\ JQ!Queued(joinQueue) \subseteq Others /\ first = None /\ onReady = None /\ fires = 0
        /\ joinGot = None
    BY <1>1 DEF Idle
  <2>2. /\ JQ!Queued(joinQueue') \cap EJ!Side \subseteq ready
        /\ ready \subseteq JQ!Queued(joinQueue') /\ "consumer" \notin JQ!Queued(joinQueue')
    BY <1>2, <1>4, <2>1, EventFacts
  <2>3. onReady' # "ALREADY_READY" /\ ~(fires' > 0) /\ first' = None /\ joinGot' = None
    <3>1. None # "ALREADY_READY" /\ "consumer" # "ALREADY_READY"
      BY JoinAssumption
    <3>2. onReady' # "ALREADY_READY"
      BY <1>2, <3>1
    <3> QED  BY <1>2, <2>1, <3>2
  <2>4. ~Announced'
    BY <2>2, <2>3 DEF Announced
  <2>5. dependency' = EJ!Side /\ resolved' = ready
    BY <1>2
  <2> QED  BY <2>2, <2>3, <2>4, <2>5 DEF Branches
<1>7. Listener'
  BY <1>1, <1>2, <1>4, EventFacts DEF Listener, Idle, JoinTypes
<1> QED
  BY <1>1, <1>2, <1>5, <1>6, <1>7, NoResultYet DEF JoinInv, Idle

LEMMA JoinResolved ==
  ASSUME JoinInv, NEW s \in EJ!Side, EJ!Resolve(s), holds' = holds, keeps' = keeps
  PROVE  JoinInv'
<1>1. JoinTypes /\ Branches /\ Listener /\ state = "alive" /\ s \in dependency \ resolved
  BY DEF JoinInv, EJ!Resolve, EJ!Alive
<1>2. /\ resolved' = resolved \cup {s} /\ joinQueue' = JQ!DepthFirst(joinQueue, s)
      /\ UNCHANGED << state, dependency, onReady, attached, fires, joinGot, first, badPointer >>
  BY SameJoinQueue DEF EJ!Resolve
<1>3. first = None
  BY <1>1 DEF Branches
<1>4. /\ joinQueue' \in JQ!QueueOf(EJ!Events) /\ JQ!Distinct(joinQueue')
      /\ JQ!Queued(joinQueue') = JQ!Queued(joinQueue) \cup {s}
  BY <1>1, <1>2, JoinQueueIs, JoinArmed
<1>5. JoinTypes'
  BY <1>1, <1>2, <1>4 DEF JoinTypes
<1>6. Branches'
  <2>1. /\ JQ!Queued(joinQueue) \cap EJ!Side \subseteq resolved /\ joinGot = None
        /\ dependency = EJ!Side /\ resolved \subseteq JQ!Queued(joinQueue)
        /\ "consumer" \notin JQ!Queued(joinQueue) /\ onReady # "ALREADY_READY" /\ ~(fires > 0)
    BY <1>1, <1>3 DEF Branches, Announced
  <2>2. "consumer" # s
    BY EventFacts
  <2> QED  BY <1>2, <1>3, <1>4, <2>1, <2>2 DEF Branches, Announced
<1>7. Listener'
  BY <1>1, <1>2, <1>3, <1>4, EventFacts DEF Listener
<1> QED
  BY <1>1, <1>2, <1>5, <1>6, <1>7, NoResultYet DEF JoinInv, Branches

LEMMA JoinAttached ==
  ASSUME JoinInv, EJ!Attach, holds' = holds, keeps' = keeps
  PROVE  JoinInv'
<1>1. JoinTypes /\ Branches /\ Listener /\ state = "alive" /\ ~attached
  BY DEF JoinInv, EJ!Attach, EJ!Alive
<1>2. /\ attached' = TRUE
      /\ joinQueue' = IF onReady = "ALREADY_READY" THEN JQ!BreadthFirst(joinQueue, "consumer") ELSE joinQueue
      /\ onReady' = IF onReady = "ALREADY_READY" THEN onReady ELSE "consumer"
      /\ UNCHANGED << state, dependency, resolved, fires, joinGot, first, badPointer >>
  BY SameJoinQueue DEF EJ!Attach, EJ!Q!InitQueue, EJ!Q!InitCell
<1>3. /\ joinQueue' \in JQ!QueueOf(EJ!Events) /\ JQ!Distinct(joinQueue')
      /\ JQ!Queued(joinQueue') = JQ!Queued(joinQueue) \cup (IF onReady = "ALREADY_READY" THEN {"consumer"} ELSE {})
  <2>1. "consumer" \in EJ!Side \cup {"consumer"} \cup Others
    OBVIOUS
  <2>2. onReady = "ALREADY_READY" =>
          /\ joinQueue' \in JQ!QueueOf(EJ!Events) /\ JQ!Distinct(joinQueue')
          /\ JQ!Queued(joinQueue') = JQ!Queued(joinQueue) \cup {"consumer"}
    BY <1>1, <1>2, <2>1, JoinQueueIs, JoinArmed
  <2>3. onReady # "ALREADY_READY" => joinQueue' = joinQueue
    BY <1>2
  <2> QED  BY <1>1, <2>2, <2>3, JoinQueueIs
<1>4. first # None => onReady = "ALREADY_READY"
  BY <1>1 DEF JoinTypes, Listener
<1>5. JoinTypes'
  BY <1>1, <1>2, <1>3 DEF JoinTypes
<1>6. Branches'
  BY <1>1, <1>2, <1>3, <1>4, EventFacts DEF Branches, Announced
<1>7. Listener'
  BY <1>1, <1>2, <1>3, <1>4, EventFacts DEF Listener
<1> QED
  BY <1>1, <1>2, <1>5, <1>6, <1>7, NoResultYet DEF JoinInv, Branches

\* What Gone makes of a queue.
LEMMA JoinGone ==
  ASSUME NEW q \in JQ!QueueOf(EJ!Events), JQ!Distinct(q), EJ!Gone(q)
  PROVE  /\ state' = "gone" /\ dependency' = {}
         /\ joinQueue' \in JQ!QueueOf(EJ!Events) /\ JQ!Distinct(joinQueue')
         /\ JQ!Queued(joinQueue') = JQ!Queued(q) \ EJ!Side
<1> DEFINE r == JQ!Drop(q, "right")
<1>1. state' = "gone" /\ dependency' = {} /\ joinQueue' = JQ!Drop(r, "left")
  BY SameJoinQueue DEF EJ!Gone
<1>2. r \in JQ!QueueOf(EJ!Events) /\ JQ!Distinct(r) /\ JQ!Queued(r) = JQ!Queued(q) \ {"right"}
  BY JQ!DroppedFacts
<1> HIDE DEF r
<1>3. /\ joinQueue' \in JQ!QueueOf(EJ!Events) /\ JQ!Distinct(joinQueue')
      /\ JQ!Queued(joinQueue') = JQ!Queued(r) \ {"left"}
  BY <1>1, <1>2, JQ!DroppedFacts
<1>4. JQ!Queued(joinQueue') = JQ!Queued(q) \ EJ!Side
  BY <1>2, <1>3, EventFacts
<1> QED
  BY <1>1, <1>3, <1>4

LEMMA QueuedEvents ==
  ASSUME NEW q \in JQ!QueueOf(EJ!Events)
  PROVE  JQ!Queued(q) \subseteq EJ!Side \cup {"consumer"} \cup Others
<1>1. \A i \in 1 .. Len(q.order) : q.order[i] \in EJ!Events
  BY JQ!QueueFacts
<1> QED
  BY <1>1, JQ!QueueFacts DEF JQ!Queued, EJ!Events

LEMMA JoinCancelled ==
  ASSUME JoinInv, EJ!Cancel, holds' = holds, keeps' = keeps
  PROVE  JoinInv'
<1> DEFINE q == JQ!Drop(joinQueue, "consumer")
<1>1. JoinTypes /\ Branches /\ state = "alive"
  BY DEF JoinInv, EJ!Cancel, EJ!Alive
<1>2. EJ!Gone(q) /\ UNCHANGED << resolved, onReady, attached, fires, joinGot, first, badPointer >>
  BY SameJoinQueue DEF EJ!Cancel
<1>3. /\ q \in JQ!QueueOf(EJ!Events) /\ JQ!Distinct(q)
      /\ JQ!Queued(q) = JQ!Queued(joinQueue) \ {"consumer"}
  BY <1>1, JQ!DroppedFacts DEF JoinTypes
<1> HIDE DEF q
<1>4. PICK p : p = q
  OBVIOUS
<1>5. /\ state' = "gone" /\ dependency' = {}
      /\ joinQueue' \in JQ!QueueOf(EJ!Events) /\ JQ!Distinct(joinQueue')
      /\ JQ!Queued(joinQueue') = JQ!Queued(p) \ EJ!Side
  BY <1>2, <1>3, <1>4, JoinGone
<1>6. JQ!Queued(joinQueue) \subseteq EJ!Side \cup {"consumer"} \cup Others
  BY <1>1, QueuedEvents DEF JoinTypes
<1>7. JoinTypes'
  BY <1>1, <1>2, <1>5 DEF JoinTypes
<1>8. Idle'
  BY <1>3, <1>4, <1>5, <1>6 DEF Idle
<1> QED
  BY <1>1, <1>2, <1>5, <1>7, <1>8, NoResultYet DEF JoinInv, Branches

\* Another event is queued, or the insert point goes back.
LEMMA OtherQueued ==
  ASSUME JoinInv, NEW q, joinQueue' = q, q \in JQ!QueueOf(EJ!Events), JQ!Distinct(q),
         JQ!Queued(q) \subseteq JQ!Queued(joinQueue) \cup Others,
         JQ!Queued(joinQueue) \subseteq JQ!Queued(q) \cup Others,
         Ahead(joinQueue) => Ahead(q), holds' = holds, keeps' = keeps,
         UNCHANGED << state, dependency, resolved, onReady, attached, fires, joinGot, first, badPointer >>
  PROVE  JoinInv'
<1>1. JoinTypes'
  BY DEF JoinInv, JoinTypes
<1>2. \A e \in EJ!Side \cup {"consumer"} : e \in JQ!Queued(joinQueue') <=> e \in JQ!Queued(joinQueue)
  <2>1. \A e \in EJ!Side \cup {"consumer"} : e \notin Others
    BY EventFacts
  <2>2. JQ!Queued(joinQueue') = JQ!Queued(q)
    OBVIOUS
  <2> QED  BY <2>1, <2>2
<1>3. Idle => Idle'
  BY DEF Idle
<1>4. Branches => Branches'
  <2> SUFFICES ASSUME Branches  PROVE Branches'
    OBVIOUS
  <2>1. resolved \subseteq EJ!Side
    BY DEF JoinInv, JoinTypes
  <2>2. JQ!Queued(joinQueue') \cap EJ!Side = JQ!Queued(joinQueue) \cap EJ!Side
    BY <1>2
  <2>3. "consumer" \in JQ!Queued(joinQueue') <=> "consumer" \in JQ!Queued(joinQueue)
    BY <1>2
  <2>4. resolved \subseteq JQ!Queued(joinQueue) => resolved \subseteq JQ!Queued(joinQueue')
    BY <2>1, <2>2
  <2> HIDE <1>2
  <2> QED  BY <2>2, <2>3, <2>4 DEF Branches, Announced
<1>5. Listener => Listener'
  <2>1. "consumer" \in JQ!Queued(joinQueue') <=> "consumer" \in JQ!Queued(joinQueue)
    BY <1>2
  <2>2. Ahead(joinQueue) => Ahead(joinQueue')
    OBVIOUS
  <2> QED  BY <2>1, <2>2 DEF Listener
<1>6. EJ!FirstWins'
  BY DEF JoinInv, EJ!FirstWins
<1> QED
  BY <1>1, <1>3, <1>4, <1>5, <1>6 DEF JoinInv

LEMMA JoinOther ==
  ASSUME JoinInv, holds' = holds, keeps' = keeps,
         \/ \E e \in Others : EJ!YieldOther(e) \/ EJ!ContinueOther(e)
         \/ EJ!TurnOther \/ EJ!ReturnOther
  PROVE  JoinInv'
<1>0. JoinTypes
  BY DEF JoinInv
<1>1. PICK q : q = joinQueue
  OBVIOUS
<1>2. q \in JQ!QueueOf(EJ!Events) /\ JQ!Distinct(q)
  BY <1>0, <1>1, JoinQueueIs
<1>3. ASSUME NEW e \in Others, EJ!YieldOther(e) \/ EJ!ContinueOther(e)  PROVE JoinInv'
  <2>1. /\ joinQueue' \in {JQ!BreadthFirst(q, e), JQ!DepthFirst(q, e)}
        /\ UNCHANGED << state, dependency, resolved, onReady, attached, fires, joinGot, first, badPointer >>
    BY <1>1, <1>3, SameJoinQueue DEF EJ!YieldOther, EJ!ContinueOther
  <2>2. e \in EJ!Events \ EJ!Side /\ e \in EJ!Side \cup {"consumer"} \cup Others
    BY EventFacts
  <2>3. PICK r \in {JQ!BreadthFirst(q, e), JQ!DepthFirst(q, e)} : r = joinQueue'
    BY <2>1
  <2>4. /\ r \in JQ!QueueOf(EJ!Events) /\ JQ!Distinct(r)
        /\ JQ!Queued(r) = JQ!Queued(q) \cup {e}
    BY <1>2, <2>2, <2>3, JoinArmed
  <2>5. Ahead(q) => Ahead(r)
    BY <1>2, <2>2, <2>3, AheadArmed
  <2> QED  BY <1>1, <2>1, <2>3, <2>4, <2>5, OtherQueued
<1>4. CASE EJ!TurnOther
  <2>1. /\ EJ!Front \in Others /\ joinQueue' = JQ!Pop(q)
        /\ UNCHANGED << state, dependency, resolved, onReady, attached, fires, joinGot, first, badPointer >>
    BY <1>1, <1>4, SameJoinQueue DEF EJ!TurnOther
  <2>2. EJ!Front # None /\ EJ!Front # "consumer"
    <3>1. None \notin Others /\ "consumer" \notin Others
      BY JoinAssumption
    <3> QED  BY <2>1, <3>1
  <2>3. q.order # << >> /\ q.order[1] \in Others /\ q.order[1] # "consumer"
    BY <1>1, <1>2, <2>1, <2>2, JoinFront
  <2>4. PICK r : r = JQ!Pop(q)
    OBVIOUS
  <2>5. /\ r \in JQ!QueueOf(EJ!Events) /\ JQ!Distinct(r)
        /\ JQ!Queued(r) = JQ!Queued(q) \ {q.order[1]}
    BY <1>2, <2>3, <2>4, JQ!PopFacts
  <2>6. Ahead(q) => Ahead(r)
    BY <1>2, <2>3, <2>4, AheadPopped
  <2> QED  BY <1>1, <2>1, <2>3, <2>4, <2>5, <2>6, OtherQueued
<1>5. CASE EJ!ReturnOther
  <2>1. /\ joinQueue' = JQ!Rewind(q)
        /\ UNCHANGED << state, dependency, resolved, onReady, attached, fires, joinGot, first, badPointer >>
    BY <1>1, <1>5, SameJoinQueue DEF EJ!ReturnOther
  <2>2. PICK r : r = JQ!Rewind(q)
    OBVIOUS
  <2>3. /\ r \in JQ!QueueOf(EJ!Events) /\ JQ!Distinct(r)
        /\ JQ!Queued(r) = JQ!Queued(q) /\ r.order = q.order
    BY <1>2, <2>2, JQ!RewindFacts
  <2>4. Ahead(q) => Ahead(r)
    BY <2>3 DEF Ahead
  <2> QED  BY <1>1, <2>1, <2>2, <2>3, <2>4, OtherQueued
<1> QED
  BY <1>3, <1>4, <1>5

\* What the turn takes from the queue.
LEMMA JoinTurn ==
  ASSUME JoinTypes, NEW e \in EJ!Side \cup {"consumer"}, EJ!Front = e
  PROVE  /\ JQ!Pop(joinQueue) \in JQ!QueueOf(EJ!Events) /\ JQ!Distinct(JQ!Pop(joinQueue))
         /\ JQ!Pop(joinQueue).ins = 0 /\ e \in JQ!Queued(joinQueue)
         /\ JQ!Queued(JQ!Pop(joinQueue)) = JQ!Queued(joinQueue) \ {e}
         /\ Ahead(joinQueue) => e \notin EJ!Side
<1>1. PICK q : q = joinQueue
  OBVIOUS
<1>2. q \in JQ!QueueOf(EJ!Events) /\ JQ!Distinct(q)
  BY <1>1, JoinQueueIs
<1>3. EJ!Front # None
  BY JoinAssumption DEF EJ!Side
<1>4. q.order # << >> /\ q.order[1] = e /\ e \in JQ!Queued(q)
  BY <1>1, <1>2, <1>3, JoinFront
<1>5. /\ JQ!Pop(q) \in JQ!QueueOf(EJ!Events) /\ JQ!Distinct(JQ!Pop(q))
      /\ JQ!Pop(q).ins = 0 /\ JQ!Queued(JQ!Pop(q)) = JQ!Queued(q) \ {e}
  BY <1>2, <1>4, JQ!PopFacts
<1>6. Ahead(q) => e \notin EJ!Side
  <2>1. CASE e = "consumer"
    BY <2>1, EventFacts
  <2>2. CASE e # "consumer"
    BY <1>2, <1>4, <2>2, AheadPopped
  <2> QED  BY <2>1, <2>2
<1> QED
  BY <1>1, <1>4, <1>5, <1>6

\* A branch fires: the other side's dependency goes, and the consumer is armed.
LEMMA JoinFired ==
  ASSUME JoinInv, NEW s \in EJ!Side, EJ!FireBranch(s), holds' = holds, keeps' = keeps
  PROVE  JoinInv'
<1> DEFINE o == EJ!Opposite(s)
<1>0. JoinTypes
  BY DEF JoinInv
<1>1. PICK q : q = JQ!Pop(joinQueue)
  OBVIOUS
<1>2. /\ q \in JQ!QueueOf(EJ!Events) /\ JQ!Distinct(q) /\ q.ins = 0
      /\ s \in JQ!Queued(joinQueue) /\ JQ!Queued(q) = JQ!Queued(joinQueue) \ {s}
      /\ ~Ahead(joinQueue)
  <2>1. EJ!Front = s
    BY DEF EJ!FireBranch
  <2> QED  BY <1>0, <1>1, <2>1, JoinTurn
<1>3. /\ dependency' = dependency \ {o}
      /\ joinQueue' = JQ!Rewind(IF onReady \in EJ!Events THEN JQ!DepthFirst(q, onReady) ELSE q)
      /\ onReady' = IF onReady = None THEN "ALREADY_READY" ELSE onReady
      /\ badPointer' \in BOOLEAN
      /\ first' = IF first = None THEN s ELSE first
      /\ UNCHANGED << state, resolved, attached, fires, joinGot >>
  BY <1>1, SameJoinQueue DEF EJ!FireBranch, EJ!ArmOnReady, EJ!Q!ArmQueue, EJ!Q!ArmCell
<1>4. Branches /\ Listener /\ state = "alive"
  <2>1. state # "alive" => s \in Others
    BY <1>2 DEF JoinInv, Idle
  <2>2. s \notin Others
    BY EventFacts
  <2> QED  BY <2>1, <2>2 DEF JoinInv
<1>5. o \in EJ!Side \ {s} /\ EJ!Side = {s, o} /\ s # "consumer"
  BY EventFacts
<1> HIDE DEF o
<1>6. onReady \in EJ!Events <=> onReady = "consumer"
  <2>1. onReady \in {None, "ALREADY_READY", "consumer"}
    BY <1>0 DEF JoinTypes
  <2>2. None \notin EJ!Events /\ "ALREADY_READY" \notin EJ!Events /\ "consumer" \in EJ!Events
    BY EventFacts
  <2> QED  BY <2>1, <2>2
<1>7. PICK r : r = (IF onReady = "consumer" THEN JQ!DepthFirst(q, "consumer") ELSE q)
  OBVIOUS
<1>8. /\ r \in JQ!QueueOf(EJ!Events) /\ JQ!Distinct(r)
      /\ JQ!Queued(r) = JQ!Queued(q) \cup (IF onReady = "consumer" THEN {"consumer"} ELSE {})
  <2>1. "consumer" \in EJ!Side \cup {"consumer"} \cup Others
    OBVIOUS
  <2>2. onReady = "consumer" => /\ r \in JQ!QueueOf(EJ!Events) /\ JQ!Distinct(r)
                                /\ JQ!Queued(r) = JQ!Queued(q) \cup {"consumer"}
    BY <1>2, <1>7, <2>1, JoinArmed
  <2> QED  BY <1>2, <1>7, <2>2
<1>9. /\ joinQueue' = JQ!Rewind(r)
      /\ joinQueue' \in JQ!QueueOf(EJ!Events) /\ JQ!Distinct(joinQueue')
      /\ JQ!Queued(joinQueue') = JQ!Queued(r) /\ joinQueue'.order = r.order
  BY <1>3, <1>6, <1>7, <1>8, JQ!RewindFacts
<1>10. JQ!Queued(joinQueue') = (JQ!Queued(joinQueue) \ {s})
                                  \cup (IF onReady = "consumer" THEN {"consumer"} ELSE {})
  BY <1>2, <1>8, <1>9
<1>11. s \in resolved /\ first' \in resolved /\ resolved \subseteq EJ!Side /\ first' # None
  <2>1. s \in resolved /\ resolved \subseteq EJ!Side /\ (first # None => first \in resolved)
    BY <1>0, <1>2, <1>4 DEF Branches, JoinTypes
  <2>2. s # None
    BY JoinAssumption DEF EJ!Side
  <2> QED  BY <1>3, <2>1, <2>2
<1>12. JoinTypes'
  <2>1. onReady' \in {None, "ALREADY_READY", "consumer"} /\ first' \in EJ!Side \cup {None}
        /\ dependency' \subseteq EJ!Side
    BY <1>0, <1>3 DEF JoinTypes
  <2> QED  BY <1>0, <1>3, <1>9, <2>1 DEF JoinTypes
\* What is left of the dependencies.
<1>13. /\ dependency' \subseteq {first'}
       /\ first' \notin dependency' => resolved = EJ!Side
  <2>1. CASE first = None
    <3>1. dependency = EJ!Side /\ first' = s
      BY <1>3, <1>4, <2>1 DEF Branches
    <3> QED  BY <1>3, <1>5, <3>1
  <2>2. CASE first # None
    <3>1. /\ first \in resolved /\ dependency \subseteq {first} /\ first' = first
          /\ first \notin dependency => resolved = EJ!Side
      BY <1>3, <1>4, <2>2 DEF Branches
    <3>2. first = s => (first \in dependency' <=> first \in dependency)
      BY <1>3, <1>5
    <3>3. first # s => first = o /\ resolved = EJ!Side
      BY <1>5, <1>11, <3>1
    <3> QED  BY <1>3, <3>1, <3>2, <3>3
  <2> QED  BY <2>1, <2>2
<1>14. Branches'
  <2>1. JQ!Queued(joinQueue') \cap EJ!Side \subseteq resolved /\ joinGot = None
    BY <1>4, <1>10, EventFacts DEF Branches
  <2> QED  BY <1>3, <1>11, <1>13, <2>1 DEF Branches
<1>15. Listener'
  <2>1. /\ attached => onReady # None
        /\ ~attached => onReady # "consumer" /\ fires = 0 /\ "consumer" \notin JQ!Queued(joinQueue)
        /\ onReady = "consumer" => attached
        /\ first # None /\ attached /\ ~keeps => "consumer" \in JQ!Queued(joinQueue)
        /\ ~holds => attached /\ onReady = "consumer"
        /\ ~keeps => fires = 0
    BY <1>4 DEF Listener
  <2>2. onReady' # None /\ (onReady' = "consumer" <=> onReady = "consumer")
    <3>1. None # "ALREADY_READY" /\ "consumer" # "ALREADY_READY" /\ None # "consumer"
      BY JoinAssumption
    <3> QED  BY <1>3, <3>1
  <2>3. "consumer" \in JQ!Queued(joinQueue') <=>
           "consumer" \in JQ!Queued(joinQueue) \/ onReady = "consumer"
    BY <1>5, <1>10
  <2>4. attached /\ ~keeps => "consumer" \in JQ!Queued(joinQueue')
    <3>1. first = None /\ attached => onReady = "consumer"
      BY <1>0, <1>4, <2>1 DEF Branches, Announced, JoinTypes
    <3> QED  BY <2>1, <2>3, <3>1
  <2>5. ~holds /\ ~keeps => Ahead(joinQueue') /\ first' \in dependency'
    <3> SUFFICES ASSUME ~holds, ~keeps  PROVE Ahead(joinQueue') /\ first' \in dependency'
      OBVIOUS
    <3>1. first = None
      BY <1>2, <1>4 DEF Listener
    <3>2. "consumer" \notin JQ!Queued(q) /\ dependency = EJ!Side
      BY <1>2, <1>4, <3>1 DEF Branches, Announced
    <3>3. r = JQ!DepthFirst(q, "consumer")
      BY <1>7, <2>1
    <3>4. Ahead(r)
      BY <1>2, <3>2, <3>3, AheadFirst
    <3>5. Ahead(joinQueue')
      BY <1>9, <3>4 DEF Ahead
    <3> QED  BY <1>3, <1>5, <3>1, <3>2, <3>5
  <2> QED  BY <1>3, <2>1, <2>2, <2>3, <2>4, <2>5 DEF Listener
<1>16. joinGot' = None /\ state' = "alive"
  BY <1>3, <1>4 DEF Branches
<1> QED
  BY <1>12, <1>14, <1>15, <1>16, NoResultYet DEF JoinInv

\* What get() delivers once the consumer has been told.
LEMMA JoinDelivers ==
  ASSUME JoinInv, state = "alive", Announced
  PROVE  /\ EJ!Delivered \in EJ!Side \cup {"not ready"}
         /\ ~holds /\ ~keeps => EJ!Delivered = first
         /\ EJ!Cardinality(resolved) = 1 => EJ!Delivered \in resolved
<1>1. Branches /\ Listener /\ dependency \subseteq EJ!Side
  BY DEF JoinInv, JoinTypes
<1>2. /\ first # None /\ first \in resolved /\ dependency \subseteq {first}
      /\ first \notin dependency => resolved = EJ!Side
  BY <1>1 DEF Branches
<1>3. first \in dependency => EJ!Delivered = first
  <2>1. first \in EJ!Side
    BY <1>1, <1>2
  <2> QED  BY <1>2, <2>1 DEF EJ!Delivered, EJ!Side
<1>4. EJ!Delivered \in EJ!Side \cup {"not ready"}
  BY DEF EJ!Delivered, EJ!Side
<1>5. ~holds /\ ~keeps => first \in dependency
  BY <1>1, <1>2 DEF Listener
<1>6. EJ!Cardinality(resolved) = 1 => first \in dependency
  BY <1>2, TwoSides
<1> QED
  BY <1>2, <1>3, <1>4, <1>5, <1>6

\* The consumer takes the result and the node goes; q is the queue without the consumer.
LEMMA JoinTaken ==
  ASSUME JoinInv, state = "alive", Announced,
         NEW q \in JQ!QueueOf(EJ!Events), JQ!Distinct(q),
         JQ!Queued(q) = JQ!Queued(joinQueue) \ {"consumer"}, EJ!Gone(q),
         joinGot' = EJ!Delivered, fires' \in Nat, holds' = holds, keeps' = keeps,
         UNCHANGED << resolved, onReady, attached, first, badPointer >>
  PROVE  JoinInv'
<1>1. JoinTypes
  BY DEF JoinInv
<1>2. /\ state' = "gone" /\ dependency' = {}
      /\ joinQueue' \in JQ!QueueOf(EJ!Events) /\ JQ!Distinct(joinQueue')
      /\ JQ!Queued(joinQueue') = JQ!Queued(q) \ EJ!Side
  BY JoinGone
<1>3. JQ!Queued(joinQueue) \subseteq EJ!Side \cup {"consumer"} \cup Others
  BY <1>1, JoinQueueIs, QueuedEvents
<1>4. /\ EJ!Delivered \in EJ!Side \cup {"not ready"}
      /\ ~holds /\ ~keeps => EJ!Delivered = first
      /\ EJ!Cardinality(resolved) = 1 => EJ!Delivered \in resolved
  BY JoinDelivers
<1>5. JoinTypes'
  BY <1>1, <1>2, <1>4 DEF JoinTypes
<1>6. Idle'
  BY <1>2, <1>3 DEF Idle
<1>7. EJ!FirstWins'
  BY <1>4 DEF EJ!FirstWins
<1> QED
  BY <1>2, <1>5, <1>6, <1>7 DEF JoinInv

LEMMA JoinConsumed ==
  ASSUME JoinInv, EJ!FireTaker \/ EJ!FireArrayBranch \/ EJ!GetArray, holds' = holds, keeps' = keeps
  PROVE  JoinInv'
<1>0. JoinTypes /\ fires \in Nat
  BY DEF JoinInv, JoinTypes
<1>1. ASSUME EJ!Front = "consumer"
      PROVE  /\ state = "alive" /\ "consumer" \in JQ!Queued(joinQueue)
             /\ JQ!Pop(joinQueue) \in JQ!QueueOf(EJ!Events) /\ JQ!Distinct(JQ!Pop(joinQueue))
             /\ JQ!Queued(JQ!Pop(joinQueue)) = JQ!Queued(joinQueue) \ {"consumer"}
  <2>1. /\ JQ!Pop(joinQueue) \in JQ!QueueOf(EJ!Events) /\ JQ!Distinct(JQ!Pop(joinQueue))
        /\ "consumer" \in JQ!Queued(joinQueue)
        /\ JQ!Queued(JQ!Pop(joinQueue)) = JQ!Queued(joinQueue) \ {"consumer"}
    BY <1>0, <1>1, JoinTurn
  <2>2. "consumer" \notin Others
    BY JoinAssumption
  <2>3. state # "alive" => JQ!Queued(joinQueue) \subseteq Others
    BY DEF JoinInv, Idle
  <2> QED  BY <2>1, <2>2, <2>3
<1>2. PICK p : p = JQ!Pop(joinQueue)
  OBVIOUS
<1>3. CASE EJ!FireTaker
  <2>1. /\ EJ!Front = "consumer" /\ EJ!Gone(p) /\ joinGot' = EJ!Delivered /\ fires' = fires + 1
        /\ UNCHANGED << resolved, onReady, attached, first, badPointer >>
    BY <1>2, <1>3, SameJoinQueue DEF EJ!FireTaker
  <2>2. Announced /\ fires' \in Nat
    BY <1>0, <1>1, <2>1 DEF Announced
  <2> QED  BY <1>1, <1>2, <2>1, <2>2, JoinTaken
<1>4. CASE EJ!FireArrayBranch
  <2>1. /\ EJ!Front = "consumer" /\ keeps /\ joinQueue' = p /\ fires' = fires + 1
        /\ UNCHANGED << state, dependency, resolved, onReady, attached, joinGot, first, badPointer >>
    BY <1>2, <1>4, SameJoinQueue DEF EJ!FireArrayBranch
  <2>2. /\ state = "alive" /\ Branches /\ Listener /\ "consumer" \in JQ!Queued(joinQueue)
        /\ joinQueue' \in JQ!QueueOf(EJ!Events) /\ JQ!Distinct(joinQueue')
        /\ JQ!Queued(joinQueue') = JQ!Queued(joinQueue) \ {"consumer"}
    BY <1>1, <1>2, <2>1 DEF JoinInv
  <2>3. JoinTypes'
    <3>1. fires' \in Nat
      BY <1>0, <2>1
    <3>2. state' = "alive" /\ joinQueue' \in JQ!QueueOf(EJ!Events) /\ JQ!Distinct(joinQueue')
      BY <2>1, <2>2
    <3> QED  BY <1>0, <2>1, <3>1, <3>2 DEF JoinTypes
  <2>4. first # None /\ attached
    BY <2>2 DEF Branches, Listener, Announced
  <2>5. Branches'
    BY <2>1, <2>2, <2>4 DEF Branches
  <2>6. Listener'
    BY <2>1, <2>2, <2>4 DEF Listener
  <2>7. joinGot' = None
    BY <2>1, <2>2 DEF Branches
  <2> QED  BY <2>1, <2>2, <2>3, <2>5, <2>6, <2>7, NoResultYet DEF JoinInv
<1>5. CASE EJ!GetArray
  <2>1. PICK q : q = JQ!Drop(joinQueue, "consumer")
    OBVIOUS
  <2>2. /\ q \in JQ!QueueOf(EJ!Events) /\ JQ!Distinct(q)
        /\ JQ!Queued(q) = JQ!Queued(joinQueue) \ {"consumer"}
    BY <1>0, <2>1, JoinQueueIs, JQ!DroppedFacts
  <2>3. /\ state = "alive" /\ fires > 0 /\ EJ!Gone(q) /\ joinGot' = EJ!Delivered /\ fires' = fires
        /\ UNCHANGED << resolved, onReady, attached, first, badPointer >>
    BY <1>5, <2>1, SameJoinQueue DEF EJ!GetArray, EJ!Alive
  <2>4. Announced /\ fires' \in Nat
    BY <1>0, <2>3 DEF Announced
  <2> QED  BY <2>2, <2>3, <2>4, JoinTaken
<1> QED
  BY <1>3, <1>4, <1>5

LEMMA JoinInitInv == EJ!Init => JoinInv
<1> SUFFICES ASSUME EJ!Init  PROVE JoinInv
  OBVIOUS
<1>1. joinQueue = JQ!Empty /\ state = "unborn" /\ dependency = {} /\ joinGot = None
  BY SameJoinQueue DEF EJ!Init
<1>2. JQ!Empty \in JQ!QueueOf(EJ!Events) /\ JQ!Distinct(JQ!Empty) /\ JQ!Queued(JQ!Empty) = {}
  BY JQ!EmptyFacts
<1>3. JoinTypes
  BY <1>1, <1>2 DEF EJ!Init, JoinTypes
<1>4. Idle
  BY <1>1, <1>2 DEF EJ!Init, Idle
<1> QED
  BY <1>1, <1>3, <1>4 DEF JoinInv, EJ!FirstWins

LEMMA JoinNextInv == JoinInv /\ [EJ!Next]_join => JoinInv'
<1> SUFFICES ASSUME JoinInv, [EJ!Next]_join  PROVE JoinInv'
  OBVIOUS
<1>1. CASE UNCHANGED join
  <2>1. UNCHANGED << holds, keeps, joinQueue, state, dependency, resolved, onReady, attached,
                     fires, joinGot, first, badPointer >>
    BY <1>1 DEF join
  <2> QED  BY <2>1 DEF JoinInv, JoinTypes, Idle, Branches, Listener, Announced, Ahead, EJ!FirstWins
<1>2. CASE EJ!Next
  <2>1. holds' = holds /\ keeps' = keeps
    BY <1>2 DEF EJ!Next, EJ!use
  <2>2. \/ \E s \in EJ!Side : EJ!FireBranch(s) \/ EJ!Resolve(s)
        \/ EJ!FireTaker \/ EJ!FireArrayBranch \/ EJ!GetArray
        \/ \E ready \in SUBSET EJ!Side : EJ!Create(ready)
        \/ EJ!Attach \/ EJ!Cancel
        \/ \E e \in Others : EJ!YieldOther(e) \/ EJ!ContinueOther(e)
        \/ EJ!TurnOther \/ EJ!ReturnOther
    BY <1>2 DEF EJ!Next, EJ!Turn, EJ!Environment
  <2> QED
    BY <2>1, <2>2, JoinFired, JoinResolved, JoinConsumed, JoinCreated, JoinAttached,
       JoinCancelled, JoinOther
<1> QED
  BY <1>1, <1>2

LEMMA JoinInvariant == PromisesSpec => []JoinInv
<1>1. PromisesInit => JoinInv
  BY JoinInitInv DEF PromisesInit
<1>2. [PromisesNext]_<< part, vars, join, chains, nodes, tasks >> => [EJ!Next]_join
  BY DEF PromisesNext
<1> QED
  BY <1>1, <1>2, JoinNextInv, PTL DEF PromisesSpec

\* For any other events of the loop, which may come between two of the join: the result is
\* that of the side whose branch fired first, whenever the consumer waited from the start
\* and goes with its result, and of the only side that resolved otherwise; and the loser's
\* dependency is gone from then on (async.h:243-244; ExclusiveJoinPromiseNode::Branch::fire).
THEOREM FirstAlwaysWins == PromisesSpec => []FirstWins
<1>1. JoinInv => FirstWins
  <2> SUFFICES ASSUME JoinInv  PROVE EJ!TypeOK /\ EJ!FirstWins /\ EJ!LoserCancelled
    BY DEF FirstWins
  <2>1. JoinTypes /\ EJ!FirstWins
    BY DEF JoinInv
  <2>2. joinQueue.order \in Seq(EJ!Events) /\ joinQueue.ins \in 0 .. Len(joinQueue.order)
    BY <2>1, JoinQueueIs, JQ!QueueFacts
  <2>3. EJ!TypeOK
    BY <2>1, <2>2 DEF EJ!TypeOK, JoinTypes
  <2>4. EJ!LoserCancelled
    BY <2>1 DEF EJ!LoserCancelled, JoinInv, JoinTypes, Idle, Branches
  <2> QED  BY <2>1, <2>3, <2>4
<1> QED
  BY <1>1, JoinInvariant, PTL

\* A side that has resolved leads to a result: when the loop has nothing left to do, a
\* join that is awaited has delivered it (see NobodyForgotten).
THEOREM JoinResolves == PromisesSpec => []EJ!Resolves
<1>1. JoinInv => EJ!Resolves
  <2> SUFFICES ASSUME JoinInv, joinQueue.order = << >>, state = "alive", attached, ~keeps,
                      resolved # {}
               PROVE  FALSE
    BY DEF EJ!Resolves, EJ!Alive
  <2>1. JQ!Queued(joinQueue) = {}
    BY DEF JQ!Queued
  <2> QED  BY <2>1 DEF JoinInv, Branches, Listener
<1> QED
  BY <1>1, JoinInvariant, PTL
=============================================================================
