------------------------------ MODULE EventList ------------------------------
(***************************************************************************)
(* The intrusive list behind kj's event queue (async.cpp: Event::          *)
(* armDepthFirst, armBreadthFirst, ~Event; EventLoop::turn).               *)
(*                                                                         *)
(* In the code EventLoop::head and every Event::next are "slots", words    *)
(* that hold a pointer to an event; Event::prev, EventLoop::tail and       *)
(* EventLoop::depthFirstInsertPoint are pointers to slots.  Here a slot is *)
(* HeadSlot, for &loop.head, or an event e, for &e->next, and the list is a    *)
(* record of the four kinds of pointers.  An operation is a function from  *)
(* a list to a list, one field at a time in the order of the code.         *)
(***************************************************************************)
EXTENDS Naturals, FiniteSets

CONSTANTS
    Event,           \* the kj::_::Event objects
    HeadSlot,        \* the slot &loop.head
    Null             \* nullptr

ASSUME ListAssumption == HeadSlot \notin Event /\ Null \notin Event \cup {HeadSlot}

\* A program has room for so many events only.
ASSUME FiniteEvents == IsFiniteSet(Event)

Slot == Event \cup {HeadSlot}

ListType ==
    [nxt  : [Slot -> Event \cup {Null}],    \* *slot: loop.head, e->next
     prv  : [Event -> Slot \cup {Null}],    \* e->prev
     tail : Slot,                           \* loop.tail
     dfip : Slot]                           \* loop.depthFirstInsertPoint

EmptyList ==
    [nxt |-> [s \in Slot |-> Null], prv |-> [e \in Event |-> Null],
     tail |-> HeadSlot, dfip |-> HeadSlot]

IsEmpty(L) == L.nxt[HeadSlot] = Null

\* e->prev != nullptr: e is in the queue.
Linked(L, e) == L.prv[e] # Null

\* The slot that holds e, or what follows e, has a new owner.
Link(L, e, s) ==
    LET n == L.nxt[s]
    IN  [L EXCEPT !.nxt[e] = n,
                  !.nxt[s] = e,
                  !.prv = [x \in Event |-> IF x = n THEN e
                                           ELSE IF x = e THEN s ELSE L.prv[x]]]

\* Mutant of LinkDepthFirst: an event armed into an empty queue is not its tail.
LinkDepthFirstKeepsTail(L, e) == [Link(L, e, L.dfip) EXCEPT !.dfip = e]

\* Event::armDepthFirst; the caller tests prev == nullptr.
LinkDepthFirst(L, e) ==
    LET s == L.dfip
    IN  [Link(L, e, s) EXCEPT !.dfip = e,
                              !.tail = IF L.tail = s THEN e ELSE @]

\* Mutant of LinkBreadthFirst: a yield that goes to the insert point.
LinkBreadthFirstJumpsQueue(L, e) ==
    [Link(L, e, L.dfip) EXCEPT !.tail = IF L.tail = L.dfip THEN e ELSE @]

\* Event::armBreadthFirst; the caller tests prev == nullptr.
LinkBreadthFirst(L, e) == [Link(L, e, L.tail) EXCEPT !.tail = e]

\* EventLoop::turn up to fire(): unlink the front, insert depth-first at it.
PopFront(L) ==
    LET e == L.nxt[HeadSlot]
        n == L.nxt[e]
    IN  [nxt  |-> [L.nxt EXCEPT ![HeadSlot] = n, ![e] = Null],
         prv  |-> [x \in Event |-> IF x = n THEN HeadSlot
                                   ELSE IF x = e THEN Null ELSE L.prv[x]],
         tail |-> IF L.tail = e THEN HeadSlot ELSE L.tail,
         dfip |-> HeadSlot]

\* EventLoop::turn after fire().
ResetInsertPoint(L) == [L EXCEPT !.dfip = HeadSlot]

\* Mutant of Unlink: destroying the event before the insert point moves the
\* insert point to the front.
UnlinkRewinds(L, e) ==
    LET p == L.prv[e]
        n == L.nxt[e]
    IN  IF p = Null
        THEN L
        ELSE [nxt  |-> [L.nxt EXCEPT ![p] = n, ![e] = Null],
              prv  |-> [x \in Event |-> IF x = n THEN p
                                        ELSE IF x = e THEN Null ELSE L.prv[x]],
              tail |-> IF L.tail = e THEN p ELSE L.tail,
              dfip |-> IF L.dfip = e THEN HeadSlot ELSE L.dfip]

\* Event::~Event.  The fields of e go with the object: Null, which is also
\* what the constructor of the next event at that address stores in them.
Unlink(L, e) ==
    LET p == L.prv[e]
        n == L.nxt[e]
    IN  IF p = Null
        THEN L
        ELSE [nxt  |-> [L.nxt EXCEPT ![p] = n, ![e] = Null],
              prv  |-> [x \in Event |-> IF x = n THEN p
                                        ELSE IF x = e THEN Null ELSE L.prv[x]],
              tail |-> IF L.tail = e THEN p ELSE L.tail,
              dfip |-> IF L.dfip = e THEN p ELSE L.dfip]

-----------------------------------------------------------------------------
(* Reading the list: Walk(L)[i] is the slot reached after i steps.         *)

Walk(L) ==
    LET w[i \in 0 .. Cardinality(Event)] ==
            IF i = 0 THEN HeadSlot
            ELSE IF w[i - 1] = Null THEN Null ELSE L.nxt[w[i - 1]]
    IN  w

\* The queue that the list stands for: the refinement mapping to EventQueue.
AsQueue(L) ==
    LET w == Walk(L)
        n == Cardinality({i \in 1 .. Cardinality(Event) : w[i] # Null})
    IN  [order |-> [i \in 1 .. n |-> w[i]],
         ins   |-> CHOOSE i \in 0 .. n : w[i] = L.dfip]

\* A slot that the list is using; the next of any other event is not in use.
InUse(L, s) == s = HeadSlot \/ Linked(L, s)

(***************************************************************************)
(* The pointers agree with each other: every conjunct speaks of a slot and *)
(* its neighbour only.                                                     *)
(***************************************************************************)
WellLinked(L) ==
    /\ \A e \in Event : Linked(L, e) => InUse(L, L.prv[e]) /\ L.nxt[L.prv[e]] = e
    /\ \A e \in Event : ~Linked(L, e) => L.nxt[e] = Null
    /\ \A s \in Slot : L.nxt[s] # Null => L.prv[L.nxt[s]] = s
    /\ \A s \in Slot : InUse(L, s) => (L.nxt[s] = Null <=> s = L.tail)
    /\ InUse(L, L.tail)
    /\ InUse(L, L.dfip)

(***************************************************************************)
(* Every queued event is reachable from loop.head: a set of slots that     *)
(* holds HeadSlot and follows the pointers holds the event.  WellLinked    *)
(* alone would allow a ring of events beside the queue, which no operation *)
(* on single events could rule out.                                        *)
(***************************************************************************)
Follows(L, R) ==
    /\ HeadSlot \in R
    /\ \A s \in R : L.nxt[s] # Null => L.nxt[s] \in R

AllReachable(L) ==
    \A R \in SUBSET Slot : Follows(L, R) => \A e \in Event : Linked(L, e) => e \in R

WellFormed(L) == WellLinked(L) /\ AllReachable(L)
=============================================================================
