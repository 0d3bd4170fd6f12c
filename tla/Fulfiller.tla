------------------------------ MODULE Fulfiller ------------------------------
(***************************************************************************)
(* newPromiseAndFulfiller() (async-inl.h): an AdapterPromiseNode, owned by *)
(* whoever waits for the promise, and the WeakFulfiller through which the  *)
(* application fulfils it.  Either side may go first, and the wrapper is   *)
(* deleted by the one that goes last: by disposeImpl(), when the           *)
(* application discards it, or by detach(), when the promise is destroyed. *)
(*                                                                         *)
(* Several pairs share one event queue.                                    *)
(***************************************************************************)
EXTENDS Naturals, Sequences, FiniteSets

CONSTANTS
    None,            \* nullptr, no result yet
    AlreadyReady,    \* _kJ_ALREADY_READY
    Pair             \* the pairs; p is also the event that waits for p's promise

Outcomes == {"value", "exception", "discarded"}

ASSUME FulfillerAssumption ==
    /\ {None, AlreadyReady} \cap Pair = {}
    /\ None # AlreadyReady /\ None \notin Outcomes

VARIABLES
    queue,           \* the loop's event queue
    promise,         \* the fields of every AdapterPromiseNode
    wrapper          \* the fields of every WeakFulfiller

vars == << queue, promise, wrapper >>

Q == INSTANCE OnReadyEvent WITH Event <- Pair

First == IF queue.order = << >> THEN None ELSE Head(queue.order)

PromiseType ==
    [state : {"unborn", "alive", "gone"},
     waiting : BOOLEAN,
     result : Outcomes \cup {None},
     cell : Pair \cup {None, AlreadyReady},
     attached : BOOLEAN,                  \* its consumer has called onReady()
     got : Outcomes \cup {None, "not ready"}]

WrapperType ==
    [state : {"unborn", "alive", "deleted"},
     owned : BOOLEAN,                     \* the application has not discarded it
     inner : BOOLEAN,                     \* WeakFulfiller::inner is not null
     first : Outcomes \cup {None}]        \* history: the first thing it was told

Alive(p) == promise[p].state = "alive"

-----------------------------------------------------------------------------
\* AdapterPromiseNode::fulfill and reject: whoever comes first sets the result.
\* Parts of an action: q is the queue before.
Settle(p, outcome, q) ==
    IF promise[p].waiting
    THEN /\ promise' = [promise EXCEPT ![p].waiting = FALSE,
                                       ![p].result = outcome,
                                       ![p].cell = Q!ArmCell(@)]
         /\ queue' = Q!ArmQueue(q, promise[p].cell)
    ELSE UNCHANGED promise /\ queue' = q

\* newPromiseAndFulfiller, with WeakFulfiller::attach.
Make(p) ==
    /\ promise[p].state = "unborn"
    /\ promise' = [promise EXCEPT ![p].state = "alive", ![p].waiting = TRUE]
    /\ wrapper' = [wrapper EXCEPT ![p].state = "alive", ![p].owned = TRUE,
                                  ![p].inner = TRUE]
    /\ UNCHANGED queue

\* WeakFulfiller::fulfill and reject, called by the application.
Tell(p, outcome) ==
    /\ wrapper[p].owned
    /\ IF wrapper[p].inner
       THEN Settle(p, outcome, queue)
       ELSE UNCHANGED << promise, queue >>
    /\ wrapper' = [wrapper EXCEPT ![p].first = IF @ = None THEN outcome ELSE @]

\* Mutants of Discard: an unfulfilled promise is not rejected; the wrapper goes
\* although the promise still refers to it.
DiscardSilently(p) ==
    /\ wrapper[p].owned
    /\ wrapper' = [wrapper EXCEPT
           ![p].owned = FALSE,
           ![p].state = IF wrapper[p].inner THEN @ ELSE "deleted",
           ![p].inner = FALSE,
           ![p].first = IF @ = None THEN "discarded" ELSE @]
    /\ UNCHANGED << promise, queue >>

DiscardDeletes(p) ==
    /\ wrapper[p].owned
    /\ IF wrapper[p].inner
       THEN Settle(p, "discarded", queue)
       ELSE UNCHANGED << promise, queue >>
    /\ wrapper' = [wrapper EXCEPT
           ![p].owned = FALSE, ![p].state = "deleted", ![p].inner = FALSE,
           ![p].first = IF @ = None THEN "discarded" ELSE @]

\* WeakFulfiller::disposeImpl: the application discards the fulfiller.
Discard(p) ==
    /\ wrapper[p].owned
    /\ IF wrapper[p].inner
       THEN Settle(p, "discarded", queue)
       ELSE UNCHANGED << promise, queue >>
    /\ wrapper' = [wrapper EXCEPT
           ![p].owned = FALSE,
           ![p].state = IF wrapper[p].inner THEN @ ELSE "deleted",
           ![p].inner = FALSE,
           ![p].first = IF @ = None THEN "discarded" ELSE @]

\* AdapterPromiseNodeBase::onReady.
Attach(p) ==
    /\ Alive(p) /\ ~promise[p].attached
    /\ promise' = [promise EXCEPT ![p].attached = TRUE,
                                  ![p].cell = Q!InitCell(@, p)]
    /\ queue' = Q!InitQueue(queue, promise[p].cell, p)
    /\ UNCHANGED wrapper

\* The promise is destroyed, before or after its consumer fired; the consumer
\* goes too.  ~PromiseAndFulfillerAdapter calls WeakFulfiller::detach.
DropPromise(p) ==
    /\ Alive(p)
    /\ promise' = [promise EXCEPT ![p].state = "gone"]
    /\ wrapper' = [wrapper EXCEPT
           ![p].state = IF wrapper[p].inner THEN @ ELSE "deleted",
           ![p].inner = FALSE]
    /\ queue' = Q!Drop(queue, p)

\* The consumer fires and calls AdapterPromiseNode::get.
Fire(p) ==
    /\ First = p
    /\ promise' = [promise EXCEPT
           ![p].got = IF promise[p].waiting THEN "not ready" ELSE promise[p].result]
    /\ queue' = Q!Pop(queue)
    /\ UNCHANGED wrapper

\* The callback of another event returns: see Return in EventQueue.
ReturnOther ==
    /\ queue.ins > 0
    /\ queue' = Q!Rewind(queue)
    /\ UNCHANGED << promise, wrapper >>

-----------------------------------------------------------------------------
Init ==
    /\ queue = Q!Empty
    /\ promise = [p \in Pair |-> [state |-> "unborn", waiting |-> FALSE, result |-> None,
                                  cell |-> None, attached |-> FALSE, got |-> None]]
    /\ wrapper = [p \in Pair |-> [state |-> "unborn", owned |-> FALSE,
                                  inner |-> FALSE, first |-> None]]

Turn == \E p \in Pair : Fire(p)

Application ==
    \E p \in Pair :
        \/ Make(p)
        \/ \E outcome \in {"value", "exception"} : Tell(p, outcome)
        \/ Discard(p)
        \/ Attach(p)
        \/ DropPromise(p)

Next == Turn \/ Application \/ ReturnOther

Spec == Init /\ [][Next]_vars

-----------------------------------------------------------------------------
TypeOK ==
    /\ queue.order \in Seq(Pair)
    /\ queue.ins \in 0 .. Len(queue.order)
    /\ promise \in [Pair -> PromiseType]
    /\ wrapper \in [Pair -> WrapperType]

\* async-inl.h:780-786: the wrapper is deleted when, and only when, it has been
\* discarded and detached, in whichever order, so that nothing leaks; and it
\* refers to its promise just as long as both exist, so that nothing dangles.
DeletedByTheLast ==
    \A p \in Pair :
        /\ wrapper[p].state # "unborn" =>
              (wrapper[p].state = "alive" <=> wrapper[p].owned \/ Alive(p))
        /\ wrapper[p].inner <=> wrapper[p].owned /\ Alive(p)

\* async-inl.h:778: a promise whose fulfiller was discarded does not wait for
\* ever; of all that is said to a fulfiller only the first counts, and that is
\* what the consumer gets.
FirstWordCounts ==
    \A p \in Pair :
        /\ Alive(p) /\ ~wrapper[p].owned => ~promise[p].waiting
        /\ Alive(p) => promise[p].result = wrapper[p].first
        /\ promise[p].got \in {None, wrapper[p].first}

\* When the loop has nothing left to do, a promise that was told or abandoned has
\* reached its consumer, in whichever order they came, unless it was dropped.
ConsumerHears ==
    queue.order = << >> =>
        \A p \in Pair : Alive(p) /\ promise[p].attached /\ wrapper[p].first # None
                           => promise[p].got # None
=============================================================================
