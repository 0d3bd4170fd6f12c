---------------------------- MODULE OnReadyEvent ----------------------------
(***************************************************************************)
(* PromiseNode::OnReadyEvent (async.cpp), by which a promise node tells    *)
(* the one event that waits for it that it is ready.  Its only field is a  *)
(* pointer, the "cell" below: null, the event, or the marker that the node *)
(* became ready before anyone waited.                                      *)
(***************************************************************************)
EXTENDS EventQueue

CONSTANTS
    None,            \* nullptr
    AlreadyReady     \* _kJ_ALREADY_READY, the marker

\* OnReadyEvent::init: a late event is armed at once, breadth-first.
InitCell(cell, e) == IF cell = AlreadyReady THEN cell ELSE e

InitQueue(Q, cell, e) == IF cell = AlreadyReady THEN BreadthFirst(Q, e) ELSE Q

\* OnReadyEvent::arm: an event that waits is armed depth-first.
ArmCell(cell) == IF cell = None THEN AlreadyReady ELSE cell
ArmQueue(Q, cell) == IF cell \in Event THEN DepthFirst(Q, cell) ELSE Q
=============================================================================
