----------------------------- MODULE EventQueue -----------------------------
(***************************************************************************)
(* What kj's event queue promises (async-inl.h, class Event): a sequence   *)
(* of events without repetition, and the point at which the next event     *)
(* that is armed depth-first is inserted.  Events armed depth-first while  *)
(* one callback runs go to the front, in the order in which they were      *)
(* armed; events armed breadth-first go to the back; arming an event that  *)
(* is already queued changes nothing.                                      *)
(*                                                                         *)
(* The operations are functions from a queue to a queue, so that a module  *)
(* may do several of them in one step.  TurnQueue is what a loop does with *)
(* them, and EventList implements them with the intrusive list of the code.*)
(***************************************************************************)
EXTENDS Naturals, Sequences

CONSTANT
    Event            \* the kj::_::Event objects

VARIABLE
    queue            \* [order |-> the queued events, front first,
                     \*  ins   |-> how many of them precede the insert point]

\* Two operators of SequencesExt, alone: this module has many instances, and each
\* would bring in all the others.
InsertAt(s, i, e) == SubSeq(s, 1, i - 1) \o << e >> \o SubSeq(s, i, Len(s))
RemoveAt(s, i) == SubSeq(s, 1, i - 1) \o SubSeq(s, i + 1, Len(s))

Queued(Q) == {Q.order[i] : i \in DOMAIN Q.order}

Empty == [order |-> << >>, ins |-> 0]

\* Mutant of DepthFirst: the insert point does not move past e.
DepthFirstReversed(Q, e) ==
    IF e \in Queued(Q) THEN Q ELSE [Q EXCEPT !.order = InsertAt(@, Q.ins + 1, e)]

\* Event::armDepthFirst: insert at the insert point, which moves past e.
DepthFirst(Q, e) ==
    IF e \in Queued(Q)
    THEN Q
    ELSE [order |-> InsertAt(Q.order, Q.ins + 1, e), ins |-> Q.ins + 1]

\* Event::armBreadthFirst: append; the insert point stays where it is.
BreadthFirst(Q, e) ==
    IF e \in Queued(Q)
    THEN Q
    ELSE [Q EXCEPT !.order = Append(@, e)]

\* EventLoop::turn, before fire(): take the front, insert at the front again.
Pop(Q) == [order |-> Tail(Q.order), ins |-> 0]

\* EventLoop::turn, after fire().
Rewind(Q) == [Q EXCEPT !.ins = 0]

\* Event::~Event: the others keep their order and their side of the insert
\* point.
Drop(Q, e) ==
    LET p == CHOOSE i \in DOMAIN Q.order : Q.order[i] = e
    IN  IF e \in Queued(Q)
        THEN [order |-> RemoveAt(Q.order, p),
              ins   |-> IF p <= Q.ins THEN Q.ins - 1 ELSE Q.ins]
        ELSE Q

=============================================================================
