------------------------------- MODULE ForkHub -------------------------------
(***************************************************************************)
(* A fork hub and its branches (async.cpp: ForkHubBase, ForkBranchBase;    *)
(* async-inl.h: ForkBranch::get), on the abstract event queue.             *)
(*                                                                         *)
(* The hub is an event that waits for the inner promise.  Branches that    *)
(* exist before it fires are in the hub's intrusive list; as in EventList, *)
(* a "slot" is a word that holds a branch: HeadSlot is &hub.headBranch and *)
(* a branch b is &b->next.  The hub is reference-counted, by the           *)
(* ForkedPromise and by every branch that has not delivered its result.    *)
(*                                                                         *)
(* The hub fires in two steps, because inner->get() and the destructor of  *)
(* the inner promise run code of the user, who may add and drop branches.  *)
(* That code does not drop the last reference to the hub, which would be a *)
(* callback that destroys itself.                                          *)
(***************************************************************************)
EXTENDS Naturals, FiniteSets, SequencesExt

CONSTANTS
    None,            \* nullptr
    AlreadyReady,    \* _kJ_ALREADY_READY
    Hub,             \* the hub as an event
    HeadSlot,        \* the slot &hub.headBranch
    MaxBranches      \* bound: branches are numbered in the order of addBranch()

Branch == 1 .. MaxBranches

ASSUME ForkAssumption ==
    /\ MaxBranches \in Nat
    /\ {HeadSlot, None, Hub, AlreadyReady} \cap Branch = {}
    /\ HeadSlot # None /\ Hub # None /\ AlreadyReady # None

VARIABLES
    queue,           \* the loop's event queue: Hub, and b for b's consumer
    hub,             \* the fields of the hub
    branch           \* the fields of every branch

vars == << queue, hub, branch >>

Q == INSTANCE OnReadyEvent WITH Event <- Branch \cup {Hub}

Slot == Branch \cup {HeadSlot}

First == IF queue.order = << >> THEN None ELSE Head(queue.order)

\* Where the inner promise is, as seen from fire(): "taking" while get() runs.
Phases == {"pending", "ready", "taking", "taken"}

HubType ==
    [alive : BOOLEAN,
     handle : BOOLEAN,               \* the ForkedPromise exists
     refs : Nat,                     \* Refcounted::refcount
     inner : Phases,
     made : 0 .. MaxBranches,        \* branches made so far
     head : Branch \cup {None},
     tail : Slot \cup {None}]        \* None once the branches were notified

BranchType ==
    [alive : BOOLEAN,
     hub : BOOLEAN,                  \* branch.hub is not null
     next : Branch \cup {None},
     prevPtr : Slot \cup {None},
     cell : Branch \cup {None, AlreadyReady},
     attached : BOOLEAN,             \* its consumer has called onReady()
     fires : 0 .. 2]                 \* how often its consumer fired, up to 2

NoBranch ==
    [alive |-> FALSE, hub |-> FALSE, next |-> None, prevPtr |-> None,
     cell |-> None, attached |-> FALSE, fires |-> 0]

Alive == {b \in Branch : branch[b].alive}

\* The list from the head: the branches that wait for the hub, oldest first.
Walk ==
    LET w[i \in 0 .. MaxBranches] ==
            IF i = 0 THEN hub.head
            ELSE IF w[i - 1] = None THEN None ELSE branch[w[i - 1]].next
    IN  w

Waiting ==
    LET n == Cardinality({i \in 1 .. MaxBranches : Walk[i - 1] # None})
    IN  [i \in 1 .. n |-> Walk[i - 1]]

-----------------------------------------------------------------------------
\* ~Event of the hub, when the last reference goes.
Unref(h) == [h EXCEPT !.refs = @ - 1, !.alive = h.refs # 1]

DropHub(q, h) == IF h.alive THEN q ELSE Q!Drop(q, Hub)

\* The inner promise becomes ready: OnReadyEvent::arm of the inner node.
InnerReady ==
    /\ hub.alive
    /\ hub.inner = "pending"
    /\ hub' = [hub EXCEPT !.inner = "ready"]
    /\ queue' = Q!DepthFirst(queue, Hub)
    /\ UNCHANGED branch

\* A branch made by addBranch() at the end t of the list, or outside of it if
\* t is None, holding r references to the hub.
AddAt(t, r) ==
    LET b == hub.made + 1
        new == [NoBranch EXCEPT !.alive = TRUE, !.hub = TRUE,
                                !.prevPtr = t,
                                !.cell = IF t = None THEN AlreadyReady ELSE None]
    IN  /\ hub.handle
        /\ b \in Branch
        /\ branch' = [x \in Branch |-> IF x = b THEN new
                                       ELSE IF x = t THEN [branch[x] EXCEPT !.next = b]
                                       ELSE branch[x]]
        /\ hub' = [hub EXCEPT !.made = b,
                              !.refs = @ + r,
                              !.head = IF t = HeadSlot THEN b ELSE @,
                              !.tail = IF t = None THEN @ ELSE b]
        /\ UNCHANGED queue

\* Mutant of AddBranch: the reference is not counted.
AddBranchUncounted == AddAt(hub.tail, 0)

\* ForkedPromise::addBranch, ForkBranchBase::ForkBranchBase.
AddBranch == AddAt(hub.tail, 1)

\* The ForkedPromise is destroyed.
DropHandle ==
    /\ hub.handle
    /\ hub.inner = "taking" => hub.refs > 1
    /\ hub' = Unref([hub EXCEPT !.handle = FALSE])
    /\ queue' = DropHub(queue, hub')
    /\ UNCHANGED branch

\* ForkBranchBase::onReady.
Attach(b) ==
    /\ branch[b].alive /\ ~branch[b].attached
    /\ branch' = [branch EXCEPT ![b].attached = TRUE,
                                ![b].cell = Q!InitCell(@, b)]
    /\ queue' = Q!InitQueue(queue, branch[b].cell, b)
    /\ UNCHANGED hub

\* ~ForkBranchBase unlinks the branch, then releases the hub if get() has not.
Unlinked(b) ==
    LET n == branch[b].next
        p == branch[b].prevPtr
    IN  IF p = None
        THEN << hub, [branch EXCEPT ![b] = [@ EXCEPT !.alive = FALSE, !.hub = FALSE]] >>
        ELSE << [hub EXCEPT !.head = IF p = HeadSlot THEN n ELSE @,
                            !.tail = IF n = None THEN p ELSE @],
                [x \in Branch |->
                    CASE x = b -> [branch[b] EXCEPT !.alive = FALSE, !.hub = FALSE,
                                                    !.next = None, !.prevPtr = None]
                      [] x = p -> [branch[p] EXCEPT !.next = n]
                      [] x = n -> [branch[n] EXCEPT !.prevPtr = p]
                      [] OTHER -> branch[x]] >>

\* Whoever owns the branch drops it, and its consumer goes too.
DropBranch(b) ==
    /\ branch[b].alive
    /\ hub.inner = "taking" => hub.refs > 1
    /\ hub' = IF branch[b].hub THEN Unref(Unlinked(b)[1]) ELSE hub
    /\ branch' = Unlinked(b)[2]
    /\ queue' = DropHub(Q!Drop(queue, b), hub')

\* ForkHubBase::fire up to inner->get().
HubTake ==
    /\ First = Hub
    /\ hub' = [hub EXCEPT !.inner = "taking"]
    /\ queue' = Q!Pop(queue)
    /\ UNCHANGED branch

\* The queue once the consumers of the branches in the list were armed, in this order.
ArmConsumers(list) ==
    LET q[i \in 0 .. Len(list)] ==
            IF i = 0 THEN queue ELSE Q!ArmQueue(q[i - 1], branch[list[i]].cell)
    IN  q[Len(list)]

\* The branches of the list that are told, in this order, and leave it.
Signal(list, tail) ==
    /\ hub.inner = "taking"
    /\ hub' = [hub EXCEPT !.inner = "taken", !.head = None, !.tail = tail]
    /\ branch' = [b \in Branch |->
                     IF Contains(list, b)
                     THEN [branch[b] EXCEPT !.cell = Q!ArmCell(@),
                                            !.next = None, !.prevPtr = None]
                     ELSE branch[b]]
    /\ queue' = Q!Rewind(ArmConsumers(list))

\* Mutants of HubSignal: branch->next is read after it was cleared; tailBranch
\* is reset to the head.
HubSignalFirstOnly == Signal(SelectSeq(Waiting, LAMBDA b : b = hub.head), None)
HubSignalStaysActive == Signal(Waiting, HeadSlot)

\* The rest of ForkHubBase::fire: every branch in the list is told.
HubSignal == Signal(Waiting, None)

\* The consumer of b is fired; get() follows at once, or later if the consumer
\* is a branch of an array join.
FireConsumer(b) ==
    /\ First = b
    /\ hub.inner # "taking"
    /\ queue' = Q!Pop(queue)
    /\ branch' = [branch EXCEPT ![b].fires = IF @ = 2 THEN 2 ELSE @ + 1]
    /\ UNCHANGED hub

\* ForkBranch::get: the result is copied and the hub released.
Get(b) ==
    /\ branch[b].alive /\ branch[b].hub
    /\ branch[b].fires > 0
    /\ hub.inner = "taking" => hub.refs > 1
    /\ branch' = [branch EXCEPT ![b].hub = FALSE]
    /\ hub' = Unref(hub)
    /\ queue' = DropHub(queue, hub')

-----------------------------------------------------------------------------
\* Promise::fork of a promise that is pending, or ready already.
Init ==
    \E ready \in BOOLEAN :
        /\ hub = [alive |-> TRUE, handle |-> TRUE, refs |-> 1,
                  inner |-> IF ready THEN "ready" ELSE "pending",
                  made |-> 0, head |-> None, tail |-> HeadSlot]
        /\ queue = IF ready THEN Q!BreadthFirst(Q!Empty, Hub) ELSE Q!Empty
        /\ branch = [b \in Branch |-> NoBranch]

Turn == HubTake \/ \E b \in Branch : FireConsumer(b)

User ==
    \/ InnerReady
    \/ AddBranch
    \/ DropHandle
    \/ \E b \in Branch : Attach(b) \/ DropBranch(b) \/ Get(b)

Next == Turn \/ HubSignal \/ User

Spec == Init /\ [][Next]_vars

\* The loop turns and the code that get() runs returns.
FairSpec == Spec /\ WF_vars(Turn) /\ WF_vars(HubSignal)

-----------------------------------------------------------------------------
TypeOK ==
    /\ queue.order \in Seq(Branch \cup {Hub})
    /\ queue.ins \in 0 .. Len(queue.order)
    /\ hub \in HubType
    /\ branch \in [Branch -> BranchType]

\* Refcounted: the hub is there exactly as long as the ForkedPromise or a branch that
\* has not delivered needs it, whichever goes first.  ~ForkBranchBase, its constructor
\* and fire() patch the same list: it holds just the living branches that were not
\* told, and every pointer to a branch or into one is its neighbour's.
HubIsSound ==
    LET holders == {b \in Alive : branch[b].hub}
        linked == {b \in Branch : branch[b].prevPtr # None}
        slots == << HeadSlot >> \o Waiting
    IN  /\ TypeOK
        /\ hub.refs = Cardinality(holders) + IF hub.handle THEN 1 ELSE 0
        /\ hub.alive <=> hub.refs > 0
        /\ Hub \in Q!Queued(queue) => hub.alive
        /\ hub.alive =>
              /\ ToSet(Waiting) = linked /\ linked \subseteq Alive
              /\ \A i \in DOMAIN Waiting : branch[Waiting[i]].prevPtr = slots[i]
              /\ hub.tail \in {None, Last(slots)}
              /\ hub.tail = None => linked = {}

\* A branch that has been told: it is marked, or its consumer is on its way.
Told == {b \in Alive : \/ branch[b].cell = AlreadyReady
                       \/ b \in Q!Queued(queue)
                       \/ branch[b].fires > 0}

\* As long as the hub lives its list and cells implement Fork, whatever is
\* added, attached and dropped before, during and after fire().
F == INSTANCE Fork WITH
        waiting <- Waiting, told <- Told, resolved <- (hub.tail = None)

ImplementsFork == F!Spec

\* A consumer is fired once, and then finds a living hub that has its result;
\* and since ForkHubBase::fire walks the list from the head, consumers that
\* waited for it are fired in the order in which their branches were added.
FiredInOrder ==
    /\ \A b \in Alive : branch[b].fires > 0 =>
          /\ branch[b].fires = 1
          /\ branch[b].hub => hub.alive /\ hub.inner = "taken"
    /\ \A b, c \in Alive :
          b < c /\ branch[b].cell = b /\ branch[c].cell = c /\ branch[c].fires > 0
              => branch[b].fires > 0

\* Once the inner promise is ready, every branch that someone waits for fires
\* or is dropped.
BranchesResolve ==
    \A b \in Branch :
        (branch[b].attached /\ hub.inner # "pending") ~>
            (branch[b].fires > 0 \/ ~branch[b].alive)
=============================================================================
