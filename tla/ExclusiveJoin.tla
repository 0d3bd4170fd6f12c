---------------------------- MODULE ExclusiveJoin ----------------------------
(***************************************************************************)
(* One ExclusiveJoinPromiseNode (async.cpp, Promise::exclusiveJoin) on its *)
(* event loop: two branches, each an event that waits for a dependency,    *)
(* and a consumer, the event that waits for the join.                      *)
(*                                                                         *)
(* The queue is the abstract one of EventQueue.  Anything else the thread  *)
(* does between two events of the join is the Others, events with nothing  *)
(* to do, and the steps of the environment: resolving a dependency,        *)
(* attaching the consumer, dropping the promise.                           *)
(***************************************************************************)
EXTENDS Naturals, Sequences, FiniteSets

CONSTANTS
    None,            \* nullptr, and no result
    Others           \* the other events of the loop

Side == {"left", "right"}
Opposite(s) == IF s = "left" THEN "right" ELSE "left"

VARIABLES
    holds,           \* TRUE: the program may let the loop turn before anything
                     \* waits for the join; FALSE: join and wait in one go
    keeps,           \* TRUE: the consumer is a branch of an array join, which
                     \* notes that the join is ready and calls get() later;
                     \* FALSE: its fire() takes the result and drops the node
    queue,           \* the loop's event queue
    state,           \* of the join node: "unborn", "alive", "gone"
    dependency,      \* the sides whose Branch::dependency is not null
    resolved,        \* the sides whose dependency has become ready
    onReady,         \* OnReadyEvent::event: None, "ALREADY_READY" or "consumer"
    attached,        \* the consumer has called onReady() on the join
    fires,           \* how often the consumer was fired
    got,             \* what get() delivered: a side, "not ready", or None
    first,           \* history: the side whose branch fired first
    badPointer       \* OnReadyEvent::arm dereferenced _kJ_ALREADY_READY

\* How the program uses the join, which does not change.
use == << holds, keeps >>

vars == << use, queue, state, dependency, resolved, onReady, attached, fires, got,
           first, badPointer >>

Events == Side \cup {"consumer"} \cup Others

Q == INSTANCE OnReadyEvent WITH Event <- Events, AlreadyReady <- "ALREADY_READY"

Front == IF queue.order = << >> THEN None ELSE Head(queue.order)

Alive == state = "alive"

-----------------------------------------------------------------------------
(* Steps of the code around the join.                                      *)

\* The constructor, left before right: Branch::Branch calls onReady() on its
\* dependency, which arms the branch breadth-first if it is ready already.
Create(ready) ==
    LET armLeft == IF "left" \in ready THEN Q!BreadthFirst(queue, "left") ELSE queue
    IN  /\ state = "unborn"
        /\ state' = "alive"
        /\ dependency' = Side
        /\ resolved' = ready
        /\ queue' = IF "right" \in ready THEN Q!BreadthFirst(armLeft, "right")
                    ELSE armLeft
        /\ attached' = ~holds
        /\ onReady' = IF holds THEN None ELSE "consumer"
        /\ UNCHANGED << fires, got, first, badPointer >>

\* A pending dependency becomes ready: its OnReadyEvent arms the branch.  A
\* dependency that was cancelled is not there to be resolved.
Resolve(s) ==
    /\ Alive
    /\ s \in dependency \ resolved
    /\ resolved' = resolved \cup {s}
    /\ queue' = Q!DepthFirst(queue, s)
    /\ UNCHANGED << state, dependency, onReady, attached, fires, got, first,
                    badPointer >>

\* ExclusiveJoinPromiseNode::onReady, that is OnReadyEvent::init.
Attach ==
    /\ Alive
    /\ ~attached
    /\ attached' = TRUE
    /\ queue' = Q!InitQueue(queue, onReady, "consumer")
    /\ onReady' = Q!InitCell(onReady, "consumer")
    /\ UNCHANGED << state, dependency, resolved, fires, got, first, badPointer >>

\* Destroying the node destroys its branches, which leaves the queue.
Gone(q) == /\ state' = "gone"
           /\ dependency' = {}
           /\ queue' = Q!Drop(Q!Drop(q, "right"), "left")

\* The promise is dropped before its consumer was fired; the consumer, which
\* owns it once attached, goes too.
Cancel ==
    /\ Alive
    /\ fires = 0
    /\ Gone(Q!Drop(queue, "consumer"))
    /\ UNCHANGED << resolved, onReady, attached, fires, got, first, badPointer >>

\* Anything else on the loop.
YieldOther(e) ==
    /\ e \notin Q!Queued(queue)
    /\ queue' = Q!BreadthFirst(queue, e)
    /\ UNCHANGED << state, dependency, resolved, onReady, attached, fires, got,
                    first, badPointer >>

ContinueOther(e) ==
    /\ e \notin Q!Queued(queue)
    /\ queue' = Q!DepthFirst(queue, e)
    /\ UNCHANGED << state, dependency, resolved, onReady, attached, fires, got,
                    first, badPointer >>

\* The callback of another event returns: see Return in EventQueue.
ReturnOther ==
    /\ queue.ins > 0
    /\ queue' = Q!Rewind(queue)
    /\ UNCHANGED << state, dependency, resolved, onReady, attached, fires, got,
                    first, badPointer >>

TurnOther ==
    /\ Front \in Others
    /\ queue' = Q!Pop(queue)
    /\ UNCHANGED << state, dependency, resolved, onReady, attached, fires, got,
                    first, badPointer >>

-----------------------------------------------------------------------------
(* The join.                                                               *)

\* Mutant of ArmOnReady: breadth-first.
ArmOnReadyLater(q) ==
    /\ queue' = Q!Rewind(IF onReady = "consumer" THEN Q!BreadthFirst(q, "consumer") ELSE q)
    /\ onReady' = Q!ArmCell(onReady)
    /\ badPointer' = (onReady = "ALREADY_READY")

\* OnReadyEvent::arm, after which the callback returns.  What follows from calling
\* armDepthFirst() on address 1 is undefined; here the program stops.
ArmOnReady(q) ==
    /\ queue' = Q!Rewind(Q!ArmQueue(q, onReady))
    /\ onReady' = Q!ArmCell(onReady)
    /\ badPointer' = (onReady = "ALREADY_READY")

\* ExclusiveJoinPromiseNode::Branch::fire.
FireBranch(s) ==
    /\ Front = s
    /\ ~badPointer
    /\ dependency' = dependency \ {Opposite(s)}
    /\ ArmOnReady(Q!Pop(queue))
    /\ first' = IF first = None THEN s ELSE first
    /\ UNCHANGED << state, resolved, attached, fires, got >>

\* ExclusiveJoinPromiseNode::get: the left dependency if it is there, else the
\* right one, else "get() called before ready".  A dependency that has not
\* become ready fails the same way.
Delivered ==
    LET asked == IF "left" \in dependency THEN "left" ELSE "right"
    IN  IF asked \in dependency \cap resolved THEN asked ELSE "not ready"

\* fire() of a fork hub, a chain, a task, a wait: get(), then node = nullptr.
FireTaker ==
    /\ Front = "consumer"
    /\ ~keeps
    /\ fires' = fires + 1
    /\ got' = Delivered
    /\ Gone(Q!Pop(queue))
    /\ UNCHANGED << resolved, onReady, attached, first, badPointer >>

\* ArrayJoinPromiseNodeBase::Branch::fire counts down, no more.
FireArrayBranch ==
    /\ Front = "consumer"
    /\ keeps
    /\ fires' = fires + 1
    /\ queue' = Q!Pop(queue)
    /\ UNCHANGED << state, dependency, resolved, onReady, attached, got, first,
                    badPointer >>

\* ArrayJoinPromiseNodeBase::get, when all its branches have been counted:
\* getPart() of this branch; the array and its nodes go afterwards.
GetArray ==
    /\ Alive /\ keeps
    /\ fires > 0
    /\ got' = Delivered
    /\ Gone(Q!Drop(queue, "consumer"))
    /\ UNCHANGED << resolved, onReady, attached, fires, first, badPointer >>

-----------------------------------------------------------------------------
Init ==
    /\ holds \in BOOLEAN /\ keeps \in BOOLEAN
    /\ queue = Q!Empty
    /\ state = "unborn"
    /\ dependency = {}
    /\ resolved = {}
    /\ onReady = None
    /\ attached = FALSE
    /\ fires = 0
    /\ got = None
    /\ first = None
    /\ badPointer = FALSE

Turn ==
    \/ \E s \in Side : FireBranch(s)
    \/ FireTaker
    \/ FireArrayBranch
    \/ TurnOther

Environment ==
    \/ \E ready \in SUBSET Side : Create(ready)
    \/ \E s \in Side : Resolve(s)
    \/ Attach
    \/ Cancel
    \/ \E e \in Others : YieldOther(e)
    \/ GetArray
    \/ ReturnOther

Next ==
    /\ ~badPointer
    /\ UNCHANGED use
    /\ Turn \/ Environment \/ \E e \in Others : ContinueOther(e)

Spec == Init /\ [][Next]_vars

-----------------------------------------------------------------------------
TypeOK ==
    /\ holds \in BOOLEAN /\ keeps \in BOOLEAN
    /\ queue.order \in Seq(Events)
    /\ queue.ins \in 0 .. Len(queue.order)
    /\ state \in {"unborn", "alive", "gone"}
    /\ dependency \subseteq Side /\ resolved \subseteq Side
    /\ onReady \in {None, "ALREADY_READY", "consumer"}
    /\ attached \in BOOLEAN /\ badPointer \in BOOLEAN
    /\ fires \in Nat
    /\ got \in Side \cup {None, "not ready"}
    /\ first \in Side \cup {None}

\* async.h:243 "resolves when either the original promise resolves or `other`
\* resolves (whichever comes first)": the consumer of a join that is awaited from
\* the start, and goes with its result, gets the result of the side whose branch
\* fired first.  Any other consumer gets the only side that resolves, if it is one.
FirstWins ==
    got # None =>
        /\ (~holds /\ ~keeps) => got = first
        /\ Cardinality(resolved) = 1 => got \in resolved

\* async.h:244 "The promise that didn't resolve first is canceled.": from the
\* moment a branch fires, the dependency of the other is destroyed, however
\* far that one had got, and is not resolved later.
LoserCancelled == first # None => dependency \subseteq {first}

\* A promise becomes ready once: the consumer is not fired again while it
\* still holds the node, and is never armed through the ALREADY_READY marker.
ReadyOnce == fires <= 1 /\ ~badPointer

\* When the loop has nothing left to do, a side that has resolved has led to a
\* result, whatever else there was on the loop, unless the promise was dropped.
Resolves ==
    queue.order = << >> /\ Alive /\ attached /\ ~keeps /\ resolved # {} /\ ~badPointer
        => got # None
=============================================================================
