----------------------------- MODULE MCThreads -----------------------------
(***************************************************************************)
(* Model checking of threads: those that race for a lazy value (the module *)
(* extended here) and those that share a MutexGuarded value and are        *)
(* joined.  They do not interact: "part" says which of them is running, so *)
(* that their states add up.                                               *)
(***************************************************************************)
EXTENDS Once

CONSTANTS Worker, MaxLocks

VARIABLES
    part,
    object, detached, exception, place, handles, seen, locks, queue, inside, guarded, writes,
    outcome, touched

WK == INSTANCE Workers WITH value <- guarded

workers == << object, detached, exception, place, handles, seen, locks, queue, inside, guarded,
              writes, outcome, touched >>

ThreadsInit ==
    /\ part \in {"once", "workers"}
    /\ Init /\ WK!Init

ThreadsNext ==
    /\ UNCHANGED part
    /\ IF part = "once" THEN Next ELSE UNCHANGED vars
    /\ IF part = "workers" THEN WK!Next ELSE UNCHANGED workers

ThreadsSpec ==
    /\ ThreadsInit
    /\ [][ThreadsNext]_<< part, vars, workers >>
    /\ \A t \in Thread : WF_vars(Step(t)) /\ SF_vars(Lock(t))
    /\ WK!Fairness

-----------------------------------------------------------------------------
\* mutex.h:113-116, 163-193: see Guarded in Workers.
Guarded == WK!Guarded

\* thread.h:34-36: see JoinTells in Workers.
JoinTells == WK!JoinTells

\* mutex.cpp:82-93, thread.cpp:37-47: no call of get() and no join waits for ever; see
\* GetEnds in Once and JoinEnds in Workers.
ThreadsEnd == GetEnds /\ WK!JoinEnds
=============================================================================
