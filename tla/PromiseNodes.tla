---------------------------- MODULE PromiseNodes ----------------------------
(***************************************************************************)
(* The promise nodes of async.cpp and async-inl.h that combine others:     *)
(* immediate, adapter, attachment, transform (then), eager and array join, *)
(* in trees that an application builds, awaits, fulfils and drops in any   *)
(* order, on one event queue.                                              *)
(*                                                                         *)
(* Nodes are numbered as they are made, so that what a node depends on has *)
(* a lower number.  Event n is the one that waits for node n: part of an   *)
(* eager node, a branch of an array join, or a consumer of the application *)
(* (a task, a wait, a fork hub), which takes the result and drops the      *)
(* node.                                                                   *)
(***************************************************************************)
EXTENDS Naturals, SequencesExt

CONSTANTS
    None,            \* nullptr, nothing
    AlreadyReady,    \* _kJ_ALREADY_READY
    MaxNodes         \* bound: nodes that are ever made

Node == 1 .. MaxNodes

VARIABLES
    made,            \* the nodes in the order of their making: kind, dependencies and
                     \* what the application passed
    alive,           \* the nodes that are not destroyed
    cell,            \* OnReadyEvent of adapter, eager and array join nodes
    result,          \* of immediate, adapter and eager nodes: their ExceptionOr
    left,            \* ArrayJoinPromiseNodeBase::countLeft
    awaited,         \* the nodes whose consumer has called onReady()
    queue,           \* the loop's event queue
    got,             \* what consumers were given
    misordered       \* history: something went before what may use it

nodes == << made, alive, cell, result, left, awaited, queue, got, misordered >>

Q == INSTANCE OnReadyEvent WITH Event <- Node

-----------------------------------------------------------------------------
(* ExceptionOr: a value, which names the nodes it came through, and an     *)
(* exception, which names the node it came from.                           *)

Value(v) == [value |-> v, exception |-> None]
Broken(n) == [value |-> None, exception |-> n]
NotReady == Broken(0)

\* Mutant of AddException: the last exception wins.
AddExceptionLast(out, e) == IF e = None THEN out ELSE [out EXCEPT !.exception = e]

\* ExceptionOrValue::addException: the first one stays.
AddException(out, e) == IF out.exception = None THEN [out EXCEPT !.exception = e] ELSE out

-----------------------------------------------------------------------------
(* The trees.                                                              *)

New == Len(made) + 1
Kind(n) == made[n].kind
Deps(n) == made[n].deps
Dep(n) == made[n].deps[1]
Made == 1 .. Len(made)

Parents(n) == {p \in alive : \E i \in DOMAIN Deps(p) : Deps(p)[i] = n}

\* The promises the application holds and does not wait for.
Held == {n \in alive \ awaited : Parents(n) = {}}

\* n and what it depends on, as far as it is there.
Below ==
    LET below[n \in Made] ==
            IF n \notin alive THEN {}
            ELSE {n} \cup UNION {below[Deps(n)[i]] : i \in DOMAIN Deps(n)}
    IN  below

\* onReady() of attachment and transform nodes passes the event on; this is the
\* node that keeps it.
Source ==
    LET source[n \in Made] ==
            IF Kind(n) \in {"attachment", "transform"} THEN source[Dep(n)] ELSE n
    IN  source

-----------------------------------------------------------------------------
(* get() and the destructors: what is given, and the order in which        *)
(* functions run and objects go.                                           *)

\* Mutant of Destroyed: the attachment goes, and then the dependency.
DestroyedLast(n, ofDeps) == << [does |-> "go", node |-> n] >> \o ofDeps

\* ~AttachmentPromiseNode and ~TransformPromiseNode drop the dependency first.
Destroyed(n, ofDeps) == Append(ofDeps, [does |-> "go", node |-> n])

Destruction ==
    LET destruction[n \in Made] ==
            IF n \notin alive THEN << >>
            ELSE Destroyed(n, FlattenSeq([i \in DOMAIN Deps(n) |-> destruction[Deps(n)[i]]]))
    IN  destruction

\* TransformPromiseNode::getImpl: one of the two functions is called, and what it
\* throws is caught.
Applied(n, in) ==
    IF in.exception = None
    THEN IF made[n].func = "throws" THEN Broken(n) ELSE Value(Append(in.value, n))
    ELSE IF made[n].func = "recovers" THEN Value(<< n >>) ELSE Broken(in.exception)

\* ArrayJoinPromiseNodeBase::get and getNoError.
Joined(outs) ==
    LET all == FoldLeft(LAMBDA all, out : AddException(all, out.exception), Value(<< >>), outs)
    IN  IF all.exception = None
        THEN Value(FlattenSeq([i \in DOMAIN outs |-> outs[i].value]))
        ELSE Broken(all.exception)

\* What was got from n, and n is dropped: what get() has not dropped yet goes now, and the
\* exception that an attached object throws from its destructor is caught.
Dropped(n, taken) ==
    LET rest == SelectSeq(Destruction[n], LAMBDA x : x \notin Range(taken.log))
        bad == {x \in Range(rest) : made[x.node].throws}
    IN  [out |-> IF bad = {} THEN taken.out
                 ELSE AddException(taken.out, (CHOOSE x \in bad : TRUE).node),
         log |-> taken.log \o rest]

Got ==
    LET get[n \in Made] ==
            CASE Kind(n) \in {"immediate", "adapter", "eager"} ->
                    [out |-> IF result[n] = None THEN NotReady ELSE result[n], log |-> << >>]
              [] Kind(n) = "attachment" -> get[Dep(n)]
              [] Kind(n) = "transform" ->
                    LET in == Dropped(Dep(n), get[Dep(n)])       \* getDepResult()
                    IN  [out |-> Applied(n, in.out),
                         log |-> Append(in.log, [does |-> "run", node |-> n])]
              [] Kind(n) = "join" ->
                    LET parts == [i \in DOMAIN Deps(n) |-> get[Deps(n)[i]]]
                    IN  [out |-> Joined([i \in DOMAIN parts |-> parts[i].out]),
                         log |-> FlattenSeq([i \in DOMAIN parts |-> parts[i].log])]
    IN  get

\* What fire() of an eager node and of a consumer does: get(), and node = nullptr.
Taken(n) == Dropped(n, Got[n])

\* An attachment or a function goes, or a function runs, while a node it depends on
\* is still there.
Misordered(log) ==
    LET below == Below IN
    \E i \in DOMAIN log :
        /\ Kind(log[i].node) \in {"attachment", "transform"}
        /\ \E m \in below[log[i].node] \ {log[i].node} :
               \A j \in 1 .. i - 1 : log[j] # [does |-> "go", node |-> m]

\* The events of the nodes in S, and those that wait for them, leave the queue.
WithoutEvents(q, S) == FoldLeft(LAMBDA r, e : Q!Drop(r, e), q, SetToSeq(S))

-----------------------------------------------------------------------------
(* The application makes promises.                                         *)

\* Bound: one promise, of all that were made, is awaited or dropped in the end.
Building == awaited = {} /\ \A n \in Made \ alive : \E p \in alive : Kind(p) = "eager" /\ n < p
IsWhole(n) == \A m \in alive : m \in Below[n]

Make(kind, deps, func, throws, out) ==
    /\ New \in Node /\ Building
    /\ made' = Append(made, [kind |-> kind, deps |-> deps, func |-> func, throws |-> throws])
    /\ alive' = alive \cup {New}
    /\ result' = [result EXCEPT ![New] = out]
    /\ left' = [left EXCEPT ![New] = IF kind = "join" THEN Len(deps) ELSE 0]
    /\ UNCHANGED << awaited, got, misordered >>

\* onReady(event n) on each node of a sequence; an immediate node arms the event.
Listened(listening, n) ==
    LET s == Source[n]
    IN  IF Kind(s) = "immediate"
        THEN [listening EXCEPT !.queue = Q!BreadthFirst(@, n)]
        ELSE [queue |-> Q!InitQueue(listening.queue, listening.cell[s], n),
              cell |-> [listening.cell EXCEPT ![s] = Q!InitCell(@, n)]]

Listen(seq, cells) ==
    LET all == FoldLeft(Listened, [queue |-> queue, cell |-> cells], seq)
    IN  queue' = all.queue /\ cell' = all.cell

\* A Promise made of a value or an exception, or yield().
Immediate(broken) ==
    /\ Make("immediate", << >>, None, FALSE, IF broken THEN Broken(New) ELSE Value(<< New >>))
    /\ UNCHANGED << cell, queue >>

Adapter == Make("adapter", << >>, None, FALSE, None) /\ UNCHANGED << cell, queue >>

\* Promise::then: the function returns or throws; the error handler passes the
\* exception on or recovers.
Then(d, func) ==
    /\ d \in Held
    /\ Make("transform", << d >>, func, FALSE, None)
    /\ UNCHANGED << cell, queue >>

\* Promise::attach.  Two objects that throw in one destruction would end the program.
Attach(d, throws) ==
    /\ d \in Held
    /\ throws => \A n \in Made : ~made[n].throws
    /\ Make("attachment", << d >>, None, throws, None)
    /\ UNCHANGED << cell, queue >>

\* Promise::eagerlyEvaluate.
Eager(d) ==
    /\ d \in Held
    /\ Make("eager", << d >>, None, FALSE, None)
    /\ Listen(<< d >>, cell)

\* Mutant of Join: a join of nothing does not become ready.
JoinNeverEmpty(ds) ==
    /\ Range(ds) \subseteq Held
    /\ Make("join", ds, None, FALSE, None)
    /\ Listen(ds, cell)

\* joinPromises: the branches register in order; a join of nothing is ready.
Join(ds) ==
    /\ Range(ds) \subseteq Held
    /\ Make("join", ds, None, FALSE, None)
    /\ Listen(ds, IF ds = << >> THEN [cell EXCEPT ![New] = Q!ArmCell(@)] ELSE cell)

-----------------------------------------------------------------------------
(* It waits for them, fulfils them and drops them.                         *)

Await(n) ==
    /\ n \in Held /\ IsWhole(n)
    /\ awaited' = awaited \cup {n}
    /\ Listen(<< n >>, cell)
    /\ UNCHANGED << made, alive, result, left, got, misordered >>

\* OnReadyEvent::arm() of n, with q the queue before.
Armed(n, q) == Q!ArmQueue(q, cell[n])
ArmedCell(n) == [cell EXCEPT ![n] = Q!ArmCell(@)]

Fulfil(n, broken) ==
    /\ n \in alive /\ Kind(n) = "adapter" /\ result[n] = None
    /\ result' = [result EXCEPT ![n] = IF broken THEN Broken(n) ELSE Value(<< n >>)]
    /\ queue' = Armed(n, queue) /\ cell' = ArmedCell(n)
    /\ UNCHANGED << made, alive, left, awaited, got, misordered >>

\* A promise is dropped, or its consumer with it.
Cancel(n) ==
    /\ n \in alive /\ Parents(n) = {} /\ IsWhole(n)
    /\ alive' = alive \ Below[n]
    /\ queue' = WithoutEvents(queue, Below[n])
    /\ misordered' = (misordered \/ Misordered(Destruction[n]))
    /\ UNCHANGED << made, cell, result, left, awaited, got >>

-----------------------------------------------------------------------------
(* The turns of the loop.                                                  *)

Firing(n) == queue.order # << >> /\ Head(queue.order) = n

\* EagerPromiseNodeBase::fire.
FireEager(n, p) ==
    /\ Firing(n) /\ p \in Parents(n) /\ Kind(p) = "eager"
    /\ LET taken == Taken(n)
           below == Below[n]
       IN  /\ result' = [result EXCEPT ![p] = taken.out]
           /\ alive' = alive \ below
           /\ cell' = ArmedCell(p)
           /\ queue' = Q!Rewind(Armed(p, WithoutEvents(Q!Pop(queue), below)))
           /\ misordered' = (misordered \/ Misordered(taken.log))
    /\ UNCHANGED << made, left, awaited, got >>

\* ArrayJoinPromiseNodeBase::Branch::fire.
FireBranch(n, p) ==
    /\ Firing(n) /\ p \in Parents(n) /\ Kind(p) = "join"
    /\ left' = [left EXCEPT ![p] = @ - 1]
    /\ IF left'[p] = 0
       THEN cell' = ArmedCell(p) /\ queue' = Q!Rewind(Armed(p, Q!Pop(queue)))
       ELSE queue' = Q!Pop(queue) /\ UNCHANGED cell
    /\ UNCHANGED << made, alive, result, awaited, got, misordered >>

\* A consumer: get(), and node = nullptr, as in Task::fire and waitImpl.
FireConsumer(n) ==
    /\ Firing(n) /\ n \in awaited
    /\ LET taken == Taken(n)
           below == Below[n]
       IN  /\ got' = [got EXCEPT ![n] = taken.out]
           /\ alive' = alive \ below
           /\ queue' = WithoutEvents(Q!Pop(queue), below)
           /\ misordered' = (misordered \/ Misordered(taken.log))
    /\ UNCHANGED << made, cell, result, left, awaited >>

\* The callback of another event returns: see Return in EventQueue.
ReturnOther ==
    /\ queue.ins > 0
    /\ queue' = Q!Rewind(queue)
    /\ UNCHANGED << made, alive, cell, result, left, awaited, got, misordered >>

-----------------------------------------------------------------------------
Init ==
    /\ made = << >> /\ alive = {} /\ awaited = {}
    /\ cell = [n \in Node |-> None]
    /\ result = [n \in Node |-> None]
    /\ left = [n \in Node |-> 0]
    /\ queue = Q!Empty
    /\ got = [n \in Node |-> None]
    /\ misordered = FALSE

Turn == \E n \in alive : FireConsumer(n) \/ \E p \in alive : FireEager(n, p) \/ FireBranch(n, p)

Construction ==
    \/ \E broken \in BOOLEAN : Immediate(broken)
    \/ Adapter
    \/ \E d \in Held :
         \/ \E func \in {"throws", "recovers"} : Then(d, func)
         \/ \E throws \in BOOLEAN : Attach(d, throws)
         \/ Eager(d)
    \/ \E n \in 0 .. 2 : \E ds \in [1 .. n -> Held] : IsInjective(ds) /\ Join(ds)

Next ==
    \/ Construction
    \/ \E n \in alive : Await(n) \/ Cancel(n) \/ \E broken \in BOOLEAN : Fulfil(n, broken)
    \/ ReturnOther
    \/ Turn

Spec == Init /\ [][Next]_nodes

-----------------------------------------------------------------------------
TypeOK ==
    /\ alive \subseteq Made /\ awaited \subseteq Made
    /\ queue.ins \in 0 .. Len(queue.order) /\ Range(queue.order) \subseteq Node
    /\ \A n \in Node : cell[n] \in Node \cup {None, AlreadyReady} /\ left[n] \in 0 .. 2

\* What a promise means whatever happens when: a function is applied to what comes
\* before it, an array is as good as its parts and has its first exception in the
\* order of the array, and an exception on the way out of an attachment counts when
\* there is none.
Meaning ==
    LET drops[n \in Made] ==         \* what is thrown when n goes after get()
            IF Kind(n) = "attachment" THEN (IF made[n].throws THEN n ELSE drops[Dep(n)])
            ELSE IF Kind(n) = "join" /\ \E d \in Range(Deps(n)) : drops[d] # None
                 THEN drops[CHOOSE d \in Range(Deps(n)) : drops[d] # None]
                 ELSE None
        means[n \in Made] ==
            IF Kind(n) \in {"immediate", "adapter"} THEN result[n]
            ELSE LET ins == [i \in DOMAIN Deps(n) |-> means[Deps(n)[i]]]
                     bad == {i \in DOMAIN ins : ins[i].exception # None}
                     whole == IF ins # << >> /\ bad = {} /\ drops[Dep(n)] # None
                              THEN [ins[1] EXCEPT !.exception = drops[Dep(n)]]
                              ELSE ins[1]
                 IN  CASE Kind(n) = "attachment" -> ins[1]
                       [] Kind(n) = "eager" -> whole
                       [] Kind(n) = "transform" /\ whole.exception = None ->
                            IF made[n].func = "throws" THEN Broken(n)
                            ELSE Value(Append(whole.value, n))
                       [] Kind(n) = "transform" /\ whole.exception # None ->
                            IF made[n].func = "recovers" THEN Value(<< n >>)
                            ELSE Broken(whole.exception)
                       [] Kind(n) = "join" /\ bad # {} ->
                            Broken(ins[CHOOSE i \in bad : \A j \in bad : i <= j].exception)
                       [] Kind(n) = "join" /\ bad = {} ->
                            Value(FlattenSeq([i \in DOMAIN ins |-> ins[i].value]))
    IN  [n \in Made |->
            IF means[n].exception = None /\ drops[n] # None
            THEN [means[n] EXCEPT !.exception = drops[n]] ELSE means[n]]

\* async.h:142-150: a consumer is given what its promise means, no matter in which order
\* leaves were fulfilled, nodes made and awaited, and eager nodes evaluated; never a
\* result that is not there yet.
ResultIsRight == \A n \in Made : got[n] # None => got[n] = Meaning[n]

\* async-inl.h:246-248, 283-286: a function runs, and it and an attached object are
\* destroyed, when everything the promise depended on is gone, since that may use them.
UsersGoFirst == ~misordered

\* Whatever is dropped, no node keeps and the queue never holds the event of a node
\* that is gone, so that nothing dangles.
NothingDangles ==
    LET there == {n \in alive : n \in awaited \/ \E p \in Parents(n) : Kind(p) \in {"eager", "join"}}
    IN  /\ Range(queue.order) \subseteq there
        /\ \A n \in alive : cell[n] \in Node => cell[n] \in there

\* async-inl.h:595-596, async.cpp:816-879: when the loop has nothing left to do, each
\* promise that somebody waits for, and each eager one although nobody waits for it,
\* is delivered, unless something below it is not fulfilled: no wakeup is lost on the
\* way up.
Settled(n) == \A m \in Below[n] : Kind(m) = "adapter" => result[m] # None

Unfinished(n) == n \in awaited \/ (Kind(n) = "eager" /\ result[n] = None)

Evaluated == queue.order = << >> => \A n \in alive : Settled(n) => ~Unfinished(n)
=============================================================================
