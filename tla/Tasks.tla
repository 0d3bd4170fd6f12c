------------------------------- MODULE Tasks -------------------------------
(***************************************************************************)
(* TaskSet, detach() and the end of an EventLoop (async.cpp): promises     *)
(* that nobody waits for, held in a TaskSet of the application or in the   *)
(* set of daemons that belongs to the loop.                                *)
(*                                                                         *)
(* A task is an event and owns its promise.  Whatever the promise owns     *)
(* goes with it, and may do something then: throw, fulfil the promise of   *)
(* another task, or detach a promise of its own.                           *)
(***************************************************************************)
EXTENDS Naturals, SequencesExt

CONSTANTS
    None,            \* nobody
    Task,            \* the tasks; t is also the event of task t
    Owner            \* bound: the tasks whose promises own something that acts when it goes

VARIABLES
    loop,            \* "current", "left" (no WaitScope any more), "gone"; "dangling":
                     \* gone, but threadLocalEventLoop still points at it
    daemons,         \* EventLoop::daemons is not null
    set,             \* the TaskSet of the application exists
    holder,          \* of a task: "none", "set", "daemons", "gone"
    promise,         \* Task::node: "none", "pending", "value", "exception"
    effect,          \* what the destruction of the promise does: [does, to]
    queue,           \* the loop's event queue
    told,            \* history: how often the error handler heard of a task
    failed,          \* history: tasks that ended with an exception
    stuck,           \* history: tasks whose error handler threw
    complaints       \* history: what came out of ~EventLoop, thrown or logged

tasks == << loop, daemons, set, holder, promise, effect, queue, told, failed, stuck,
            complaints >>

Q == INSTANCE OnReadyEvent WITH Event <- Task, AlreadyReady <- "ALREADY_READY"

Destroyed == loop \in {"gone", "dangling"}

There(t) == holder[t] \in {"set", "daemons"}

Nothing == [does |-> "nothing", to |-> None]
Effects(t) ==
    {Nothing} \cup IF t \in Owner
                   THEN {[does |-> "throw", to |-> None]}
                           \cup [does : {"fulfil", "detach"}, to : Task \ {t}]
                   ELSE {}

-----------------------------------------------------------------------------
(* A part of the state is passed from one destruction to the next, since a *)
(* step may destroy many tasks.                                            *)

World == [daemons |-> daemons, holder |-> holder, promise |-> promise, effect |-> effect,
          queue |-> queue, thrown |-> FALSE]

Become(w) ==
    /\ daemons' = w.daemons /\ holder' = w.holder /\ promise' = w.promise
    /\ effect' = w.effect /\ queue' = w.queue

\* Mutant of Added: a promise that is ready already does not arm the task.
AddedUnheard(w, t, to, ready, does) ==
    [w EXCEPT !.holder[t] = to, !.promise[t] = ready, !.effect[t] = does]

\* Task::Task, with a promise that is ready already or not.
Added(w, t, to, ready, does) ==
    [w EXCEPT !.holder[t] = to, !.promise[t] = ready, !.effect[t] = does,
              !.queue = IF ready = "pending" THEN @ ELSE Q!BreadthFirst(@, t)]

\* detach(): it throws if the thread has no loop, and while the loop is shutting down:
\* the recovery block of KJ_REQUIRE returns, and ~Fault throws.  The promise is dropped.
Detached(w, t, ready) ==
    IF loop = "current" /\ w.daemons THEN Added(w, t, "daemons", ready, Nothing)
    ELSE [w EXCEPT !.holder[t] = "gone", !.thrown = TRUE]

\* A fulfiller is called; a promise that is gone or ready takes no notice.
Fulfilled(w, t, ready) ==
    IF w.holder[t] \in {"set", "daemons"} /\ w.promise[t] = "pending"
    THEN [w EXCEPT !.promise[t] = ready, !.queue = Q!DepthFirst(@, t)]
    ELSE w

\* The promise of t is destroyed, with what it owns.
PromiseGone(w, t) ==
    LET e == w.effect[t]
        v == [w EXCEPT !.promise[t] = "none", !.effect[t] = Nothing, !.thrown = FALSE]
    IN  IF w.promise[t] = "none" THEN v
        ELSE CASE e.does = "nothing" -> v
               [] e.does = "throw" -> [v EXCEPT !.thrown = TRUE]
               [] e.does = "fulfil" -> Fulfilled(v, e.to, "value")
               [] e.does = "detach" ->
                     IF v.holder[e.to] = "none" THEN Detached(v, e.to, "value") ELSE v

\* The task is destroyed: its promise, and then the event leaves the queue.
TaskGone(w, t) ==
    LET v == PromiseGone(w, t)
    IN  [v EXCEPT !.holder[t] = "gone", !.queue = Q!Drop(@, t)]

\* ~TaskSetImpl, in the order of the map, that is of addresses: any order.  The tasks are
\* all destroyed before an exception goes on.
SetGone(w, order) ==
    LET after[i \in 0 .. Len(order)] ==
            IF i = 0 THEN w
            ELSE LET v == after[i - 1]
                     u == TaskGone(v, order[i])
                 IN  [u EXCEPT !.thrown = @ \/ v.thrown]
    IN  after[Len(order)]

-----------------------------------------------------------------------------
(* The application.                                                        *)

\* TaskSet::add.
Add(t, ready, does) ==
    /\ loop = "current" /\ set /\ holder[t] = "none"
    /\ Become(Added(World, t, "set", ready, does))
    /\ UNCHANGED << loop, set, told, failed, stuck, complaints >>

\* Promise::detach.
Detach(t, ready, does) ==
    /\ loop = "current" /\ holder[t] = "none"
    /\ Become(Added(World, t, "daemons", ready, does))
    /\ UNCHANGED << loop, set, told, failed, stuck, complaints >>

Fulfil(t, ready) ==
    /\ loop = "current" /\ There(t) /\ promise[t] = "pending"
    /\ Become(Fulfilled(World, t, ready))
    /\ UNCHANGED << loop, set, told, failed, stuck, complaints >>

\* ~TaskSet.  It should go before the loop does; if it does not, none of its events may
\* be linked to the loop any more, and what it owns must not touch the loop.
DestroySet ==
    /\ set /\ set' = FALSE
    /\ Destroyed => \A t \in Task : holder[t] = "set" =>
                       /\ t \notin Q!Queued(queue)
                       /\ effect[t].does # "fulfil"
                       /\ loop = "dangling" => effect[t].does # "detach"
    /\ \E order \in SetToSeqs({t \in Task : holder[t] = "set"}) : Become(SetGone(World, order))
    /\ UNCHANGED << loop, told, failed, stuck, complaints >>

\* ~WaitScope.
LeaveScope ==
    /\ loop = "current" /\ loop' = "left"
    /\ UNCHANGED << daemons, set, holder, promise, effect, queue, told, failed, stuck, complaints >>

\* ~EventLoop when its daemons are destroyed: if one of them threw, the rest is not done;
\* whatever is still queued is unlinked, and ~Fault throws, after which the thread's pointer
\* is not looked at; a pointer that is still there is reset, and ~Fault throws.  While an
\* exception passes, all that is only logged.
LoopGoes(w, unwinding) ==
    LET leak == w.queue # Q!Empty
        noRest == w.thrown /\ ~unwinding
        noReset == (w.thrown \/ leak) /\ ~unwinding
    IN  /\ Become(IF noRest THEN w ELSE [w EXCEPT !.queue = Q!Empty])
        /\ loop' = IF loop = "current" /\ noReset THEN "dangling" ELSE "gone"
        /\ complaints' = (IF w.thrown THEN {"exception"} ELSE {})
                             \cup (IF leak /\ ~noRest THEN {"leak"} ELSE {})
                             \cup (IF loop = "current" /\ ~noReset THEN {"current"} ELSE {})

\* Mutant of DestroyLoop: the daemons are destroyed while the pointer is still set.
DestroyLoopLate ==
    /\ loop \in {"current", "left"}
    /\ \E order \in SetToSeqs({t \in Task : holder[t] = "daemons"}), unwinding \in BOOLEAN :
           LoopGoes([SetGone(World, order) EXCEPT !.daemons = FALSE], unwinding)
    /\ UNCHANGED << set, told, failed, stuck >>

\* ~EventLoop: the pointer to the daemons is cleared before they are destroyed.
DestroyLoop ==
    /\ loop \in {"current", "left"}
    /\ \E order \in SetToSeqs({t \in Task : holder[t] = "daemons"}), unwinding \in BOOLEAN :
           LoopGoes(SetGone([World EXCEPT !.daemons = FALSE], order), unwinding)
    /\ UNCHANGED << set, told, failed, stuck >>

-----------------------------------------------------------------------------
(* The loop.                                                               *)

\* Mutant of Fire: the task is not taken out of its set when it failed.
FireKeepsFailed(t, handlerThrows) ==
    /\ loop = "current" /\ queue.order # << >> /\ Head(queue.order) = t
    /\ handlerThrows => holder[t] = "set"
    /\ LET w == PromiseGone([World EXCEPT !.queue = Q!Pop(@)], t)
           fails == promise[t] = "exception" \/ w.thrown
       IN  /\ failed' = IF fails THEN failed \cup {t} ELSE failed
           /\ told' = IF fails THEN [told EXCEPT ![t] = @ + 1] ELSE told
           /\ stuck' = IF fails /\ handlerThrows THEN stuck \cup {t} ELSE stuck
           /\ Become([w EXCEPT !.holder[t] = IF fails THEN @ ELSE "gone",
                               !.queue = Q!Rewind(@)])
    /\ UNCHANGED << loop, set, complaints >>

\* TaskSetImpl::Task::fire: take the result, drop the promise, tell the error handler
\* if either failed, and leave the set; the event is destroyed when fire() returns.  An
\* error handler that throws leaves the task in the set, with no promise; the one of the
\* daemons only logs.  turn() rewinds the insert point unless fire() throws.
Fire(t, handlerThrows) ==
    /\ loop = "current" /\ queue.order # << >> /\ Head(queue.order) = t
    /\ handlerThrows => holder[t] = "set"
    /\ LET w == PromiseGone([World EXCEPT !.queue = Q!Pop(@)], t)
           fails == promise[t] = "exception" \/ w.thrown
       IN  /\ failed' = IF fails THEN failed \cup {t} ELSE failed
           /\ told' = IF fails THEN [told EXCEPT ![t] = @ + 1] ELSE told
           /\ IF fails /\ handlerThrows
              THEN stuck' = stuck \cup {t} /\ Become(w)
              ELSE /\ UNCHANGED stuck
                   /\ Become([w EXCEPT !.holder[t] = "gone", !.queue = Q!Rewind(@)])
    /\ UNCHANGED << loop, set, complaints >>

\* The callback of another event returns: see Return in EventQueue.
ReturnOther ==
    /\ loop = "current" /\ queue.ins > 0
    /\ queue' = Q!Rewind(queue)
    /\ UNCHANGED << loop, daemons, set, holder, promise, effect, told, failed, stuck,
                    complaints >>

-----------------------------------------------------------------------------
Init ==
    /\ loop = "current" /\ daemons = TRUE /\ set = TRUE
    /\ holder = [t \in Task |-> "none"]
    /\ promise = [t \in Task |-> "none"]
    /\ effect = [t \in Task |-> Nothing]
    /\ queue = Q!Empty
    /\ told = [t \in Task |-> 0]
    /\ failed = {} /\ stuck = {} /\ complaints = {}

Turn == \E t \in Task, handlerThrows \in BOOLEAN : Fire(t, handlerThrows)

Next ==
    \/ \E t \in Task, ready \in {"pending", "value", "exception"} : \E does \in Effects(t) :
           Add(t, ready, does) \/ Detach(t, ready, does)
    \/ \E t \in Task, ready \in {"value", "exception"} : Fulfil(t, ready)
    \/ DestroySet \/ LeaveScope \/ DestroyLoop
    \/ ReturnOther
    \/ Turn

Spec == Init /\ [][Next]_tasks

\* The loop turns while it has events.
Fairness == WF_tasks(Turn)

-----------------------------------------------------------------------------
TypeOK ==
    /\ loop \in {"current", "left", "gone", "dangling"} /\ daemons \in BOOLEAN /\ set \in BOOLEAN
    /\ \A t \in Task : holder[t] \in {"none", "set", "daemons", "gone"} /\ told[t] \in Nat
    /\ failed \subseteq Task /\ stuck \subseteq failed

\* async.h:523-527: a failure of a task, or of what it owned, is told to the error
\* handler once, also when one task makes others ready or goes while another one is
\* destroyed; and a task that has ended is in no set, unless its error handler threw.
HandlerHearsOnce ==
    /\ \A t \in Task : told[t] = IF t \in failed THEN 1 ELSE 0
    /\ \A t \in Task : There(t) /\ promise[t] = "none" => t \in stuck

\* async.cpp:215-238: the daemons' destructors may use the loop as it goes, fulfil
\* promises, throw and try to detach others; when it is gone no daemon is left, no event is
\* linked to it unless one of them threw, and the thread points to it no more unless an
\* exception, also the one about the leak, cut ~EventLoop short, which then does not
\* complain that the loop was current; and no event is ever queued whose task is gone.
NothingOutlivesTheLoop ==
    /\ Destroyed => /\ \A t \in Task : holder[t] # "daemons"
                    /\ queue = Q!Empty \/ "exception" \in complaints
    /\ loop = "dangling" => /\ complaints \cap {"exception", "leak"} # {}
                            /\ "current" \notin complaints
    /\ \A t \in Q!Queued(queue) : There(t) /\ t \notin stuck

\* async.h:509-510: a task whose promise is ready ends, unless it is cancelled or the loop
\* is left: no other task's failure, and no handler that throws, stops it.
TasksEnd ==
    []<>(loop = "current" => \A t \in Task : There(t) => promise[t] \notin {"value", "exception"})
=============================================================================
