----------------------------- MODULE MCPromises -----------------------------
(***************************************************************************)
(* Model checking of promises on one event queue: pairs of a promise and   *)
(* its fulfiller (the module extended here), an exclusive join, chains of  *)
(* promises for promises, trees of the other nodes, and the tasks that     *)
(* nobody waits for.  They do not interact: "part" says which of them is   *)
(* running, so that their states add up.                                   *)
(***************************************************************************)
EXTENDS Fulfiller

CONSTANTS Others, ChainNodes, Root, Consumer, Task, Owner

\* A set holds finitely many tasks.
ASSUME TasksAssumption == IsFiniteSet(Task)

\* There are finitely many nodes in the heap at a time; the pointers of chains, that of their
\* owner, its event and the marker are different things.
ASSUME ChainsAssumption ==
    /\ IsFiniteSet(ChainNodes)
    /\ ChainNodes \cap {None, AlreadyReady, Root, Consumer} = {}
    /\ Root # None /\ Consumer \notin {None, AlreadyReady}

\* The other events beside a join are none of its own, and nullptr, the marker and an
\* error are no events.
ASSUME JoinAssumption ==
    /\ Others \cap {None, "left", "right", "consumer", "ALREADY_READY", "not ready"} = {}
    /\ None \notin {"left", "right", "consumer", "ALREADY_READY", "not ready"}

VARIABLES
    part,
    holds, keeps, joinQueue, state, dependency, resolved, onReady, attached, fires, joinGot,
    first, badPointer,
    chainQueue, chain, own, held, chainFiring, consumer, chainGot,
    made, alive, cell, result, left, awaited, nodeQueue, got, misordered,
    loop, daemons, set, holder, owned, effect, taskQueue, told, failed, stuck, complaints

EJ == INSTANCE ExclusiveJoin WITH queue <- joinQueue, got <- joinGot

CN == INSTANCE ChainNode WITH
    Node <- ChainNodes, queue <- chainQueue, node <- chain, firing <- chainFiring, got <- chainGot

PN == INSTANCE PromiseNodes WITH queue <- nodeQueue, MaxNodes <- 4

TS == INSTANCE Tasks WITH queue <- taskQueue, promise <- owned

join == << holds, keeps, joinQueue, state, dependency, resolved, onReady, attached, fires,
           joinGot, first, badPointer >>
chains == << chainQueue, chain, own, held, chainFiring, consumer, chainGot >>
nodes == << made, alive, cell, result, left, awaited, nodeQueue, got, misordered >>
tasks == << loop, daemons, set, holder, owned, effect, taskQueue, told, failed, stuck,
            complaints >>

PromisesInit ==
    /\ part \in {"fulfillers", "join", "chains", "nodes", "tasks"}
    /\ Init /\ EJ!Init /\ CN!Init /\ PN!Init /\ TS!Init
    /\ part # "join" => ~holds /\ ~keeps

PromisesNext ==
    /\ UNCHANGED part
    /\ IF part = "fulfillers" THEN Next ELSE UNCHANGED vars
    /\ IF part = "join" THEN EJ!Next ELSE UNCHANGED join
    /\ IF part = "chains" THEN CN!Next ELSE UNCHANGED chains
    /\ IF part = "nodes" THEN PN!Next ELSE UNCHANGED nodes
    /\ IF part = "tasks" THEN TS!Next ELSE UNCHANGED tasks

PromisesSpec ==
    /\ PromisesInit
    /\ [][PromisesNext]_<< part, vars, join, chains, nodes, tasks >>
    /\ TS!Fairness

-----------------------------------------------------------------------------
\* async.h:242-244: the first side of a join wins and the other is cancelled; see
\* FirstWins and LoserCancelled in ExclusiveJoin.
FirstWins == part = "join" => EJ!TypeOK /\ EJ!FirstWins /\ EJ!LoserCancelled

\* async.cpp:666-755, async-inl.h:148: see SingleOwner, Registered and Shortened in
\* ChainNode.
ChainsAreSound ==
    part = "chains" => CN!TypeOK /\ CN!SingleOwner /\ CN!Registered /\ CN!Shortened

\* async.h:142-150: see ResultIsRight in PromiseNodes.
ResultIsRight == part = "nodes" => PN!ResultIsRight

\* async-inl.h:246-248, 283-286, async.cpp:358-371: what goes, goes in the right order and
\* leaves no event behind; see UsersGoFirst and NothingDangles in PromiseNodes.
NothingDangles == part = "nodes" => PN!TypeOK /\ PN!UsersGoFirst /\ PN!NothingDangles

\* async.cpp:490-510: whoever comes first, the node that becomes ready or the consumer
\* that calls onReady(), nobody is forgotten when the loop runs out of work; see
\* ConsumerHears in Fulfiller, Resolves in ExclusiveJoin, Evaluated in PromiseNodes.
NobodyForgotten ==
    CASE part = "fulfillers" -> ConsumerHears
      [] part = "join" -> EJ!Resolves
      [] part = "nodes" -> PN!Evaluated
      [] OTHER -> TRUE

\* async.h:523-527: see HandlerHearsOnce in Tasks.
HandlerHearsOnce == part = "tasks" => TS!HandlerHearsOnce

\* async.cpp:215-238: see NothingOutlivesTheLoop in Tasks.
NothingOutlivesTheLoop == part = "tasks" => TS!TypeOK /\ TS!NothingOutlivesTheLoop

\* async.h:509-510: see TasksEnd in Tasks.
TasksEnd == TS!TasksEnd
=============================================================================
