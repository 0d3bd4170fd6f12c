----------------------------- MODULE MCEventLoop -----------------------------
(***************************************************************************)
(* Checking EventLoop: its safety properties under all that a program may  *)
(* do, and its liveness under a program that is disciplined: it arms every *)
(* event breadth-first and calls neither run() nor wait() in a callback.   *)
(***************************************************************************)
EXTENDS EventLoop

VARIABLE disciplined

BreadthFirstStep ==
    \/ \E e \in Event : Construct(e) \/ ArmBreadthFirst(e) \/ Destroy(e)
    \/ \E n \in TurnCounts : Run(n)
    \/ \E d \in Event, ready \in BOOLEAN : Wait(d, ready)
    \/ CallbackEnds
    \/ LoopStep

LoopInit == Init /\ disciplined \in BOOLEAN

LoopNext ==
    /\ UNCHANGED disciplined
    /\ IF disciplined THEN BreadthFirstStep /\ Len(stack') <= 1 ELSE Next

\* The thread keeps executing the loop it is in; a callback and port.wait() return.
LoopSpec ==
    /\ LoopInit /\ [][LoopNext]_<< vars, disciplined >>
    /\ WF_vars(LoopStep)
    /\ WF_vars(\E r \in BOOLEAN : FireReturn(r))
    /\ WF_vars(PortReturn)
    /\ WF_vars(WaitReturn)

-----------------------------------------------------------------------------
\* The list implements the promised queue, whichever operations are mixed
\* (async.cpp:252-282, 358-418).
ImplementsQueue == EventQ!Spec

\* While a loop goes on, an event that is queued leaves the queue: it fires or is
\* destroyed, even if every callback arms itself again (async-inl.h:104-110); and a
\* wait whose doneEvent is queued comes to its end.
NoStarvation ==
    \A e \in Event :
        /\ (disciplined /\ Linked(list, e) /\ Busy) ~> (~Linked(list, e) \/ ~Busy)
        /\ (disciplined /\ IsDone(e) /\ Linked(list, e)) ~> ~IsDone(e)

-----------------------------------------------------------------------------
(***************************************************************************)
(* What the sources say and the code does not do: see the findings.        *)
(***************************************************************************)

\* async.h:631 "True while looping -- wait() is then not allowed.": a waitImpl
\* frame is never above another frame.  A callback that calls run() gets
\* "running" reset to false when it returns, and may then call wait().
WaitOnlyAtTheBottom ==
    \A i \in DOMAIN stack : stack[i].kind = "wait" => i = 1
=============================================================================
