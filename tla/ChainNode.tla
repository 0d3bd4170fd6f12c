------------------------------ MODULE ChainNode ------------------------------
(***************************************************************************)
(* ChainPromiseNode (async.cpp), which turns a promise for a promise into  *)
(* a promise, and the shortening of chains.                                *)
(*                                                                         *)
(* Nodes own each other through Own<PromiseNode> pointers, the locations   *)
(* below: the inner pointer of a chain, and Root, the pointer of the node  *)
(* or task that waits for the final result.  An owner tells its node where *)
(* that pointer is (setSelfPointer), so that the node can put another one  *)
(* in its place.  A promise that the program holds is owned by a Promise   *)
(* object, which may move and tells nothing.                               *)
(*                                                                         *)
(* A leaf is any node that is not a chain.  The inner promise of a chain   *)
(* in STEP1 is seen only as something that becomes ready and then gives a  *)
(* promise that the program held; a promise broken by an exception is a    *)
(* leaf that is ready from the start.                                      *)
(***************************************************************************)
EXTENDS Naturals, Sequences, FiniteSetsExt

CONSTANTS
    None,            \* nullptr
    AlreadyReady,    \* _kJ_ALREADY_READY
    Node,            \* the chains and leaves; bound: how many exist at a time
    Root,            \* the pointer of the final owner
    Consumer         \* the event that waits for the node in Root

VARIABLES
    queue,           \* the loop's event queue: chains in STEP1, and Consumer
    node,            \* the fields of every node
    own,             \* what every location points to
    held,            \* the nodes owned by Promise objects of the program
    firing,          \* the chain in whose fire() inner->get() runs
    consumer,        \* "none", "owner", "waiting", "fired", "gone"
    got              \* what get() on Root's node gave: None, "result", "not ready"

vars == << queue, node, own, held, firing, consumer, got >>

Q == INSTANCE OnReadyEvent WITH Event <- Node \cup {Consumer}

Loc == Node \cup {Root}

First == IF queue.order = << >> THEN None ELSE Head(queue.order)

NodeType ==
    [kind : {"free", "leaf", "step1", "step2"},
     ready : BOOLEAN,               \* a leaf; for a chain, its first step
     selfPtr : Loc \cup {None},
     cell : {None, AlreadyReady, Consumer}]

Free == [kind |-> "free", ready |-> FALSE, selfPtr |-> None, cell |-> None]

Is(n, kind) == node[n].kind = kind

-----------------------------------------------------------------------------
(* The heap: which nodes hang below a location.                            *)

\* From n along the inner pointers through the nodes in S.
Path(o, n, S) ==
    LET f[i \in 0 .. Cardinality(Node)] ==
            IF i = 0 THEN n ELSE IF f[i - 1] \in S THEN o[f[i - 1]] ELSE f[i - 1]
    IN  f

Step2(h) == {x \in Node : h.node[x].kind = "step2"}

Below(n) ==
    LET p == Path(own, n, {x \in Node : own[x] # None})
    IN  {p[i] : i \in DOMAIN p} \ {None}

\* Destroying nodes: ~Event takes the chains out of the queue.
Freed(S) == [n \in Node |-> IF n \in S THEN Free ELSE node[n]]
Disowned(S) == [l \in Loc |-> IF l \in S THEN None ELSE own[l]]
Dropped(q, S) == FoldSet(LAMBDA e, p : Q!Drop(p, e), q, S)

-----------------------------------------------------------------------------
(* The heap h is a record of own and node.                                 *)

\* Mutant of SetSelf: a chain in STEP2 stays where it is.
SetSelfKeepsChain(h, l) ==
    [h EXCEPT !.node[h.own[l]].selfPtr = l]

\* own[l]->setSelfPointer(&own[l]): a chain in STEP2 puts its inner node there,
\* which destroys the chain, and passes the call on.
SetSelf(h, l) ==
    LET p == Path(h.own, h.own[l], Step2(h))
        last == p[Cardinality(Node)]
        gone == {p[i] : i \in DOMAIN p} \ {last}
    IN  [own |-> [x \in Loc |-> IF x = l THEN last
                                ELSE IF x \in gone THEN None ELSE h.own[x]],
         node |-> [x \in Node |->
                      IF x \in gone THEN Free
                      ELSE IF x = last /\ h.node[x].kind = "step1"
                           THEN [h.node[x] EXCEPT !.selfPtr = l] ELSE h.node[x]]]

\* own[l]->onReady(Consumer): a chain in STEP2 passes the call on, one in STEP1
\* keeps the pointer, a leaf is an OnReadyEvent.
Listener(h, l) == Path(h.own, h.own[l], Step2(h))[Cardinality(Node)]

OnReady(h, l, q) ==
    LET n == Listener(h, l)
    IN  /\ own' = h.own
        /\ IF h.node[n].kind = "step1"
           THEN /\ node' = [h.node EXCEPT ![n].cell = Consumer]
                /\ queue' = q
           ELSE /\ node' = [h.node EXCEPT ![n].cell = Q!InitCell(@, Consumer)]
                /\ queue' = Q!InitQueue(q, h.node[n].cell, Consumer)

-----------------------------------------------------------------------------
(* The program.                                                            *)

\* A promise that is not a chain; ready as Promise(value) is, or later.
NewLeaf(n, ready) ==
    /\ Is(n, "free")
    /\ node' = [node EXCEPT ![n] =
                   [Free EXCEPT !.kind = "leaf", !.ready = ready,
                                !.cell = IF ready THEN AlreadyReady ELSE None]]
    /\ held' = held \cup {n}
    /\ UNCHANGED << queue, own, firing, consumer, got >>

\* ChainPromiseNode::ChainPromiseNode, over a promise that is ready or not.
NewChain(n, ready) ==
    /\ Is(n, "free")
    /\ node' = [node EXCEPT ![n] = [Free EXCEPT !.kind = "step1", !.ready = ready]]
    /\ queue' = IF ready THEN Q!BreadthFirst(queue, n) ELSE queue
    /\ held' = held \cup {n}
    /\ UNCHANGED << own, firing, consumer, got >>

\* The promise below a chain in STEP1 becomes ready.
StepReady(n) ==
    /\ Is(n, "step1") /\ ~node[n].ready
    /\ node' = [node EXCEPT ![n].ready = TRUE]
    /\ queue' = Q!DepthFirst(queue, n)
    /\ UNCHANGED << own, held, firing, consumer, got >>

LeafReady(n) ==
    /\ Is(n, "leaf") /\ ~node[n].ready
    /\ node' = [node EXCEPT ![n].ready = TRUE, ![n].cell = Q!ArmCell(@)]
    /\ queue' = Q!ArmQueue(queue, node[n].cell)
    /\ UNCHANGED << own, held, firing, consumer, got >>

\* then(), wait(), fork() and so on: the promise n gets its final owner.
Adopt(n) ==
    LET h == SetSelf([own |-> [own EXCEPT ![Root] = n], node |-> node], Root)
    IN  /\ consumer = "none"
        /\ n \in held
        /\ consumer' = "owner"
        /\ held' = held \ {n}
        /\ own' = h.own /\ node' = h.node
        /\ UNCHANGED << queue, firing, got >>

\* The owner calls onReady(), at once or when its own consumer does.
Attach ==
    /\ consumer = "owner"
    /\ consumer' = "waiting"
    /\ OnReady([own |-> own, node |-> node], Root, queue)
    /\ UNCHANGED << held, firing, got >>

\* A promise is dropped by the program, and everything it owns; not by the
\* callback that it is running.
Drop(n) ==
    /\ n \in held
    /\ firing \notin Below(n)
    /\ node' = Freed(Below(n)) /\ own' = Disowned(Below(n))
    /\ queue' = Dropped(queue, Below(n))
    /\ held' = held \ {n}
    /\ UNCHANGED << firing, consumer, got >>

\* The owner is dropped, its event with it.
Cancel ==
    LET S == Below(own[Root])
    IN  /\ consumer \in {"owner", "waiting"}
        /\ firing \notin S
        /\ node' = Freed(S) /\ own' = Disowned(S \cup {Root})
        /\ queue' = Dropped(queue, S \cup {Consumer})
        /\ consumer' = "gone"
        /\ UNCHANGED << held, firing, got >>

-----------------------------------------------------------------------------
(* The loop.                                                               *)

\* ChainPromiseNode::fire up to inner->get(), which runs code of the user.
ChainTake(n) ==
    /\ First = n
    /\ firing = None
    /\ firing' = n
    /\ queue' = Q!Pop(queue)
    /\ UNCHANGED << node, own, held, consumer, got >>

\* The end of fire(): the node that location l now owns is told so, and the
\* listener of the chain n goes to it.
Hand(h, l, n, q) ==
    LET s == SetSelf(h, l)
    IN  IF node[n].cell = None
        THEN own' = s.own /\ node' = s.node /\ queue' = q
        ELSE OnReady(s, l, q)

\* Where the promise goes that inner->get() gave: the location that owns the
\* chain, where it is known, or else the chain itself.
Place == IF node[firing].selfPtr # None THEN node[firing].selfPtr ELSE firing

\* The heap when it is there; a chain that was replaced is destroyed by turn().
Replaced(m) ==
    [own |-> [own EXCEPT ![Place] = m],
     node |-> IF Place = firing
              THEN [node EXCEPT ![firing].kind = "step2", ![firing].cell = None]
              ELSE [node EXCEPT ![firing] = Free]]

\* inner->get() gives a promise m that the program had, and which does not own
\* the chain.
Given(m) ==
    /\ firing # None
    /\ m \in held /\ firing \notin Below(m)
    /\ held' = held \ {m}
    /\ firing' = None
    /\ UNCHANGED << consumer, got >>

\* The rest of ChainPromiseNode::fire.
ChainFinish(m) ==
    Given(m) /\ Hand(Replaced(m), Place, firing, Q!Rewind(queue))

\* The consumer fires: get() on the node in Root, which is then destroyed.
FireConsumer ==
    LET n == own[Root]
    IN  /\ First = Consumer
        /\ firing = None
        /\ got' = IF Is(n, "leaf") /\ node[n].ready THEN "result" ELSE "not ready"
        /\ consumer' = "fired"
        /\ node' = Freed(Below(n)) /\ own' = Disowned(Below(n) \cup {Root})
        /\ queue' = Dropped(Q!Pop(queue), Below(n))
        /\ UNCHANGED << held, firing >>

\* The callback of another event returns: see Return in EventQueue.
ReturnOther ==
    /\ firing = None
    /\ queue.ins > 0
    /\ queue' = Q!Rewind(queue)
    /\ UNCHANGED << node, own, held, firing, consumer, got >>

-----------------------------------------------------------------------------
Init ==
    /\ queue = Q!Empty
    /\ node = [n \in Node |-> Free]
    /\ own = [l \in Loc |-> None]
    /\ held = {}
    /\ firing = None
    /\ consumer = "none"
    /\ got = None

User ==
    \/ \E n \in Node :
          \/ \E ready \in BOOLEAN : NewLeaf(n, ready) \/ NewChain(n, ready)
          \/ StepReady(n) \/ LeafReady(n) \/ Adopt(n) \/ Drop(n)
    \/ Attach
    \/ Cancel

Turn == FireConsumer \/ \E n \in Node : ChainTake(n) \/ ChainFinish(n)

Next == User \/ Turn \/ ReturnOther

Spec == Init /\ [][Next]_vars

-----------------------------------------------------------------------------
TypeOK ==
    /\ queue.order \in Seq(Node \cup {Consumer})
    /\ queue.ins \in 0 .. Len(queue.order)
    /\ node \in [Node -> NodeType]
    /\ own \in [Loc -> Node \cup {None}]
    /\ held \subseteq Node
    /\ firing \in Node \cup {None}
    /\ consumer \in {"none", "owner", "waiting", "fired", "gone"}
    /\ got \in {None, "result", "not ready"}

\* fire() and setSelfPointer() move Own pointers around while the objects that
\* hold them are destroyed: every node has exactly one owner all the same, and
\* no pointer leads to a node that is gone.  The self-pointer of a chain that may
\* still use it is the location that owns it, however the chain came there; and
\* the chain has one unless the program holds it.
SingleOwner ==
    \A n \in Node :
        LET owners == {l \in Loc : own[l] = n}
        IN  /\ Cardinality(owners) + (IF n \in held THEN 1 ELSE 0)
                 = IF Is(n, "free") THEN 0 ELSE 1
            /\ Is(n, "step1") =>
                  IF n \in held THEN node[n].selfPtr = None
                  ELSE node[n].selfPtr # None /\ own[node[n].selfPtr] = n

\* async-inl.h:148 "ChainPromiseNode uses this to shorten redundant chains": a
\* loop in which each promise returns the next one does not pile up nodes.
Shortened ==
    /\ Cardinality(Below(own[Root])) <= 1
    /\ \A n \in held : Cardinality(Below(n)) <= 2

\* The consumer's event is where it will be heard of: kept by the one node that
\* still has to become ready, or queued, and nowhere else.  So get() is called on
\* a node that is ready, never on a chain (async.cpp:697).
Registered ==
    LET keepers == {n \in Node : node[n].cell = Consumer /\ ~node[n].ready}
        n == own[Root]
    IN  /\ consumer = "waiting" =>
              IF Is(n, "leaf") /\ node[n].ready
              THEN Consumer \in Q!Queued(queue)
              ELSE node[n].cell = Consumer /\ keepers \subseteq {n}
        /\ got # "not ready"
=============================================================================
