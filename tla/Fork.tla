-------------------------------- MODULE Fork --------------------------------
(***************************************************************************)
(* What Promise::fork() promises: the branches that wait, in the order in  *)
(* which they were added, are all told when the promise resolves; a branch *)
(* that is added later is ready from the start.  Dropping a branch is of   *)
(* no consequence to the others.  ForkHub implements this module.          *)
(***************************************************************************)
EXTENDS Sequences, SequencesExt

CONSTANT
    Branch           \* the promises made by addBranch()

VARIABLES
    waiting,         \* the branches to be told, oldest first
    told,            \* the branches that have been told
    resolved         \* the forked promise has resolved

Init == waiting = << >> /\ told = {} /\ resolved = FALSE

Add(b) ==
    /\ b \notin told \cup ToSet(waiting)
    /\ IF resolved
       THEN told' = told \cup {b} /\ UNCHANGED waiting
       ELSE waiting' = Append(waiting, b) /\ UNCHANGED told
    /\ UNCHANGED resolved

Forget(b) ==
    /\ IF Contains(waiting, b)
       THEN \E i \in DOMAIN waiting : waiting[i] = b /\ waiting' = RemoveAt(waiting, i)
       ELSE UNCHANGED waiting
    /\ told' = told \ {b}
    /\ UNCHANGED resolved

Resolve ==
    /\ ~resolved
    /\ resolved' = TRUE
    /\ told' = told \cup ToSet(waiting)
    /\ waiting' = << >>

Next == Resolve \/ \E b \in Branch : Add(b) \/ Forget(b)

Spec == Init /\ [][Next]_<< waiting, told, resolved >>
=============================================================================
