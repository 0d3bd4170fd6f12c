------------------------------ MODULE EventLoop ------------------------------
(***************************************************************************)
(* The event loop of one thread (async.cpp: EventLoop, Event, waitImpl).   *)
(*                                                                         *)
(* All kj code of a loop runs on one thread, so what interleaves here is   *)
(* the loop and the callbacks it calls: a callback may create, arm and     *)
(* destroy events, throw, and call back into the loop.  "stack" is the     *)
(* thread's call stack as far as the loop can tell: one frame for every    *)
(* call of EventLoop::run() or waitImpl() that has not returned.  User     *)
(* code runs when the stack is empty, or when its last frame is in         *)
(* Event::fire(), in EventPort::wait(), or in PromiseNode::get().          *)
(*                                                                         *)
(* A promise node is seen from here only as code that may arm the event    *)
(* it was given, when onReady() is called or later.                        *)
(***************************************************************************)
EXTENDS EventList, Integers, SequencesExt

CONSTANTS
    TurnCounts,      \* the values of maxTurnCount that run() is called with
    Unlimited,       \* maxTurnCount's default, maxValue: never reached
    MaxDepth         \* bound: frames on the stack

ASSUME LoopAssumption ==
    /\ Unlimited \notin Nat
    /\ TurnCounts \subseteq Nat \cup {Unlimited}
    /\ MaxDepth \in Nat

VARIABLES
    list,            \* the queue: head, tail, depthFirstInsertPoint, next, prev
    alive,           \* the events that are constructed and not yet destroyed
    firing,          \* the memory in which a flag Event::firing is set, also
                     \* that of an event that was destroyed while it was fired
    running,         \* EventLoop::running
    lastRunnable,    \* EventLoop::lastRunnableState, what the port was last told
    stack            \* the calls of run() and waitImpl() in progress

vars == << list, alive, firing, running, lastRunnable, stack >>

-----------------------------------------------------------------------------
Kinds == {"run", "wait"}

\* "loop": at the test of the loop; "fire": in the callback of Frame.event;
\* "port": in port.wait(); "get": in node->get() at the end of waitImpl.
Places == {"loop", "fire", "port", "get"}

Frame ==
    [kind  : Kinds,
     at    : Places,
     event : Event \cup {Null},         \* the event in fire()
     left  : Nat \cup {Unlimited},      \* run(): turns still allowed
     done  : Event \cup {Null},         \* waitImpl(): its doneEvent
     fired : BOOLEAN]                   \* waitImpl(): doneEvent.fired

RunFrame(n) ==
    [kind |-> "run", at |-> "loop", event |-> Null,
     left |-> n, done |-> Null, fired |-> FALSE]

WaitFrame(d) ==
    [kind |-> "wait", at |-> "loop", event |-> Null,
     left |-> Unlimited, done |-> d, fired |-> FALSE]

Depth == Len(stack)
Top == stack[Depth]
Busy == stack # << >>

UserCode == Busy => Top.at # "loop"

At(kind, place) == Busy /\ Top.kind = kind /\ Top.at = place

\* The loop as a queue: what it is a refinement of.
Callback == IF Busy /\ Top.at = "fire" THEN Top.event ELSE Null

EventQ == INSTANCE TurnQueue WITH queue <- AsQueue(list), callback <- Callback

\* doneEvent of a wait in progress: it lives on the stack, not on the heap.
IsDone(e) == \E i \in DOMAIN stack : stack[i].done = e

-----------------------------------------------------------------------------
(* Operations that user code calls.                                        *)

\* Event::Event.  The memory may be that of an event destroyed before.
Construct(e) ==
    /\ UserCode
    /\ e \notin alive
    /\ alive' = alive \cup {e}
    /\ firing' = firing \ {e}
    /\ UNCHANGED << list, running, lastRunnable, stack >>

\* Event::armDepthFirst; a no-op on a queued event.
ArmDepthFirst(e) ==
    /\ UserCode
    /\ e \in alive
    /\ ~Linked(list, e)
    /\ list' = LinkDepthFirst(list, e)
    /\ lastRunnable' = TRUE
    /\ UNCHANGED << alive, firing, running, stack >>

\* Mutant of ArmBreadthFirst: the port is not told.
ArmBreadthFirstSilently(e) ==
    /\ UserCode
    /\ e \in alive
    /\ ~Linked(list, e)
    /\ list' = LinkBreadthFirst(list, e)
    /\ UNCHANGED << alive, firing, running, lastRunnable, stack >>

\* Event::armBreadthFirst; a no-op on a queued event.
ArmBreadthFirst(e) ==
    /\ UserCode
    /\ e \in alive
    /\ ~Linked(list, e)
    /\ list' = LinkBreadthFirst(list, e)
    /\ lastRunnable' = TRUE
    /\ UNCHANGED << alive, firing, running, stack >>

\* Event::~Event, called by the owner of the event.  The owner may do it while
\* the event is being fired: KJ_REQUIRE(!firing) complains when the event is
\* unlinked already and the rest of it is destroyed all the same.  The callback
\* may catch that exception, and goes on, or let it pass (FireThrow).
Destroy(e) ==
    /\ UserCode
    /\ e \in alive
    /\ ~IsDone(e)
    /\ list' = Unlink(list, e)
    /\ alive' = alive \ {e}
    /\ UNCHANGED << firing, running, lastRunnable, stack >>

\* EventLoop::run up to the loop.  It does not look at "running".
Run(n) ==
    /\ UserCode
    /\ Depth < MaxDepth
    /\ running' = TRUE
    /\ stack' = Append(stack, RunFrame(n))
    /\ UNCHANGED << list, alive, firing, lastRunnable >>

\* waitImpl up to the loop.  onReady() of the awaited node arms doneEvent at
\* once if the node is ready, and keeps a pointer to it otherwise.  doneEvent is
\* on the stack, so it takes no memory of an event that is still being fired.
Wait(d, ready) ==
    /\ UserCode
    /\ Depth < MaxDepth
    /\ ~running
    /\ d \notin alive
    /\ \A i \in DOMAIN stack : stack[i].event # d
    /\ alive' = alive \cup {d}
    /\ list' = IF ready THEN LinkBreadthFirst(list, d) ELSE list
    /\ lastRunnable' = (ready \/ lastRunnable)
    /\ running' = TRUE
    /\ stack' = Append(stack, WaitFrame(d))
    /\ firing' = firing \ {d}

-----------------------------------------------------------------------------
(* The loop.                                                               *)

\* The conditions under which run() and waitImpl() call turn().
WantsTurn ==
    \/ At("run", "loop") /\ Top.left # 0
    \/ At("wait", "loop") /\ ~Top.fired

CountTurn(f) ==
    IF f.left = Unlimited THEN f ELSE [f EXCEPT !.left = @ - 1]

\* EventLoop::turn up to the call of fire(), for an event of the user.
Turn ==
    LET e == list.nxt[HeadSlot]
    IN  /\ WantsTurn
        /\ ~IsEmpty(list)
        /\ ~IsDone(e)
        /\ list' = PopFront(list)
        /\ firing' = firing \cup {e}
        /\ stack' = [stack EXCEPT ![Depth] =
                        [CountTurn(@) EXCEPT !.at = "fire", !.event = e]]
        /\ UNCHANGED << alive, running, lastRunnable >>

\* EventLoop::turn when the event is the doneEvent of a wait in progress:
\* BoolEvent::fire runs no code of the user.
TurnDone ==
    LET e == list.nxt[HeadSlot]
    IN  /\ WantsTurn
        /\ ~IsEmpty(list)
        /\ IsDone(e)
        /\ list' = PopFront(list)
        /\ stack' = [i \in DOMAIN stack |->
                        [(IF i = Depth THEN CountTurn(stack[i]) ELSE stack[i])
                            EXCEPT !.fired = @ \/ stack[i].done = e]]
        /\ UNCHANGED << alive, firing, running, lastRunnable >>

\* fire() returns and turn() ends.  KJ_DEFER resets "firing" in the memory of
\* the event, whether or not the event is still there.  fire() may return an Own
\* pointer to its own event, which is destroyed after the insert point was reset.
FireReturn(returnsSelf) ==
    LET e == Top.event
        rewound == ResetInsertPoint(list)
    IN  /\ Busy /\ Top.at = "fire"
        /\ returnsSelf => e \in alive
        /\ firing' = firing \ {e}
        /\ list' = IF returnsSelf THEN Unlink(rewound, e) ELSE rewound
        /\ alive' = IF returnsSelf THEN alive \ {e} ELSE alive
        /\ stack' = [stack EXCEPT ![Depth] =
                        [@ EXCEPT !.at = "loop", !.event = Null]]
        /\ UNCHANGED << running, lastRunnable >>

\* Mutant of PopFrame: doneEvent goes without unlinking itself.
PopFrameDangling(L, live) ==
    /\ running' = FALSE
    /\ list' = L
    /\ alive' = live \ {Top.done}
    /\ stack' = Front(stack)

\* Leaving the last frame: KJ_DEFER resets "running", and a wait destroys its
\* doneEvent.
PopFrame(L, live) ==
    LET d == Top.done
    IN  /\ running' = FALSE
        /\ list' = IF d = Null THEN L ELSE Unlink(L, d)
        /\ alive' = live \ {d}
        /\ stack' = Front(stack)

\* fire() throws, perhaps what ~Event threw, out of turn() and of the run() or
\* waitImpl() that called it.  Neither the insert point nor the port hears of it.
FireThrow ==
    /\ Busy /\ Top.at = "fire"
    /\ firing' = firing \ {Top.event}
    /\ PopFrame(list, alive)
    /\ UNCHANGED lastRunnable

\* EventLoop::run leaves its loop and returns.
RunReturn ==
    /\ At("run", "loop")
    /\ Top.left = 0 \/ IsEmpty(list)
    /\ lastRunnable' = ~IsEmpty(list)
    /\ PopFrame(list, alive)
    /\ UNCHANGED firing

\* turn() found nothing: port.wait(), during which the user's EventPort runs.
PortWait ==
    /\ At("wait", "loop")
    /\ ~Top.fired
    /\ IsEmpty(list)
    /\ stack' = [stack EXCEPT ![Depth] = [@ EXCEPT !.at = "port"]]
    /\ UNCHANGED << list, alive, firing, running, lastRunnable >>

PortReturn ==
    /\ At("wait", "port")
    /\ stack' = [stack EXCEPT ![Depth] = [@ EXCEPT !.at = "loop"]]
    /\ UNCHANGED << list, alive, firing, running, lastRunnable >>

\* NullEventPort::wait always throws, any other port may.
PortThrow ==
    /\ At("wait", "port")
    /\ PopFrame(list, alive)
    /\ UNCHANGED << firing, lastRunnable >>

\* waitImpl leaves its loop and calls node->get(), which runs continuations.
WaitGet ==
    /\ At("wait", "loop")
    /\ Top.fired
    /\ lastRunnable' = ~IsEmpty(list)
    /\ stack' = [stack EXCEPT ![Depth] = [@ EXCEPT !.at = "get"]]
    /\ UNCHANGED << list, alive, firing, running >>

WaitReturn ==
    /\ At("wait", "get")
    /\ PopFrame(list, alive)
    /\ UNCHANGED << firing, lastRunnable >>

-----------------------------------------------------------------------------
Init ==
    /\ list = EmptyList
    /\ alive = {}
    /\ firing = {}
    /\ running = FALSE
    /\ lastRunnable = FALSE
    /\ stack = << >>

UserStep ==
    \/ \E e \in Event : \/ Construct(e)
                        \/ ArmDepthFirst(e)
                        \/ ArmBreadthFirst(e)
                        \/ Destroy(e)
    \/ \E n \in TurnCounts : Run(n)
    \/ \E d \in Event, ready \in BOOLEAN : Wait(d, ready)

CallbackEnds ==
    \/ \E returnsSelf \in BOOLEAN : FireReturn(returnsSelf)
    \/ FireThrow
    \/ PortReturn
    \/ PortThrow
    \/ WaitReturn

LoopStep == Turn \/ TurnDone \/ RunReturn \/ PortWait \/ WaitGet

Next == UserStep \/ CallbackEnds \/ LoopStep

Spec == Init /\ [][Next]_vars

-----------------------------------------------------------------------------
(* Safety.                                                                 *)

TypeOK ==
    /\ list \in ListType
    /\ alive \subseteq Event
    /\ firing \subseteq Event
    /\ running \in BOOLEAN
    /\ lastRunnable \in BOOLEAN
    /\ stack \in Seq(Frame)

\* The pointers of the intrusive list agree (armDepthFirst, armBreadthFirst,
\* ~Event and turn each patch up to five of them): loop.tail,
\* loop.depthFirstInsertPoint and the neighbours of an event never point into
\* an event that was destroyed or left the queue, whatever is destroyed,
\* thrown or nested.  And an armed event is not lost: what thinks it is queued
\* (prev # nullptr, so that arming it again does nothing) is reachable from
\* loop.head.
ListOK == WellLinked(list) /\ AllReachable(list)

\* Only live events are in the queue, and the doneEvent of every wait in
\* progress is alive: ~Event is what unlinks, and every exit of waitImpl, the
\* exceptional ones too, runs it.
OnlyLiveQueued ==
    /\ \A e \in Event : Linked(list, e) => e \in alive
    /\ \A i \in DOMAIN stack : stack[i].done \in alive \cup {Null}

\* While there is work the port has been told so (EventLoop::setRunnable): an
\* external loop that obeys the port never forgets to call run().
WorkIsAnnounced == ~IsEmpty(list) => lastRunnable

\* When every call of run() and wait() has returned or thrown, "running" is
\* false: an exception out of a callback or of the port does not make every
\* later wait() fail.
IdleNotRunning == ~Busy => ~running
=============================================================================
