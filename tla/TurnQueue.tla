----------------------------- MODULE TurnQueue -----------------------------
(***************************************************************************)
(* What kj::EventLoop promises: the queue of EventQueue, and which event's *)
(* callback runs, so that only the end of that callback takes the insert   *)
(* point back to the front, and only its own event may go with it.         *)
(***************************************************************************)
EXTENDS EventQueue

CONSTANT Null

VARIABLE
    callback         \* the event whose callback is the innermost code that
                     \* runs, or Null: none, or a call of run() or wait() that
                     \* is between two events

Init == queue = Empty /\ callback = Null

\* A wait() that arms its own event begins a loop inside the callback.
Arm ==
    /\ \E e \in Event : queue' \in {DepthFirst(queue, e), BreadthFirst(queue, e)}
    /\ callback' \in {callback, Null}

\* A turn begins; the event that ends a wait has no callback.
Take ==
    /\ queue.order # << >> /\ callback = Null
    /\ queue' = Pop(queue) /\ callback' \in {Head(queue.order), Null}

\* The callback of a turn has returned; it may hand back its own event to be
\* destroyed.
Return ==
    /\ callback # Null /\ callback' = Null
    /\ queue' \in {Rewind(queue), Drop(Rewind(queue), callback)}

\* An event is destroyed, by its owner or by the end of the wait that it is for,
\* which an exception out of its callbacks may be; callbacks around it go on.
Destroy == \E e \in Event : queue' = Drop(queue, e) /\ callback' \in Event \cup {Null}

\* A call of run() or wait() begins or ends, or an exception ends callbacks.
Nest == queue' = queue /\ callback' \in Event \cup {Null}

Next == Arm \/ Take \/ Return \/ Destroy \/ Nest

Spec == Init /\ [][Next]_<< queue, callback >>
=============================================================================
