-------------------------------- MODULE Once --------------------------------
(***************************************************************************)
(* Once and Lazy (mutex.h, mutex.cpp): a value that is made by the first   *)
(* of several threads that ask for it.                                     *)
(*                                                                         *)
(* The lock is a critical_section of the platform, which is taken by one   *)
(* thread at a time; taking it again in the same thread throws, so that an *)
(* initializer that asks for its own value ends like any that throws.      *)
(*                                                                         *)
(* The state is an atomic, the value is not: "sees" are the threads to     *)
(* which the last assignment of the value is visible, through the lock or  *)
(* through a load that acquires what a store released.                     *)
(***************************************************************************)
CONSTANTS
    Thread,          \* the threads, which also name the values they make
    None             \* a null pointer, nobody

ASSUME OnceAssumption == None \notin Thread

VARIABLES
    state,           \* Once::state
    mutex,           \* who holds Once::mutex
    value,           \* Lazy::value
    pc,              \* what a thread does next
    sees,            \* the threads to which the value's last write is visible
    raced            \* history: a thread read a value it does not see

vars == << state, mutex, value, pc, sees, raced >>

States == {"UNINITIALIZED", "INITIALIZED", "DISABLED"}

\* In the order of runOnce(); those of disable() have names of their own.
Places == {"idle", "lock", "test", "init", "publish", "unlock", "read",
           "disable lock", "disable", "disable unlock"}

\* The places where a thread holds the lock.
Holding == {"test", "init", "publish", "unlock", "disable", "disable unlock"}

Initializing(t) == pc[t] \in {"init", "publish"}

Go(t, place) == pc' = [pc EXCEPT ![t] = place]

-----------------------------------------------------------------------------
\* Mutant of Get: the load that acquires is relaxed.
GetRelaxed(t) ==
    /\ pc[t] = "idle"
    /\ Go(t, IF state = "INITIALIZED" THEN "read" ELSE "lock")
    /\ UNCHANGED << state, mutex, value, sees, raced >>

\* Lazy::get up to isInitialized(), the fast path.
Get(t) ==
    /\ pc[t] = "idle"
    /\ IF state = "INITIALIZED"
       THEN Go(t, "read") /\ sees' = sees \cup {t}
       ELSE Go(t, "lock") /\ sees' = sees
    /\ UNCHANGED << state, mutex, value, raced >>

\* mutex.lock() in runOnce() and in disable(): what was done under the lock
\* before is visible.
Lock(t) ==
    /\ mutex = None
    /\ \/ pc[t] = "lock" /\ Go(t, "test")
       \/ pc[t] = "disable lock" /\ Go(t, "disable")
    /\ mutex' = t
    /\ sees' = sees \cup {t}
    /\ UNCHANGED << state, value, raced >>

\* Mutant of Test: the state
\* is not looked at again under the lock.
TestNothing(t) ==
    /\ pc[t] = "test"
    /\ Go(t, "init")
    /\ UNCHANGED << state, mutex, value, sees, raced >>

\* runOnce(): another thread may have been faster.
Test(t) ==
    /\ pc[t] = "test"
    /\ Go(t, IF state = "UNINITIALIZED" THEN "init" ELSE "unlock")
    /\ UNCHANGED << state, mutex, value, sees, raced >>

\* init.run() returns: InitImpl::run assigns the value.
InitReturn(t) ==
    /\ pc[t] = "init"
    /\ value' = t
    /\ sees' = {t}
    /\ Go(t, "publish")
    /\ UNCHANGED << state, mutex, raced >>

\* Mutant of InitThrow: get() tries again instead of passing the exception on.
InitThrowRetries(t) ==
    /\ pc[t] = "init"
    /\ mutex' = None
    /\ Go(t, "lock")
    /\ UNCHANGED << state, value, sees, raced >>

\* init.run() throws: the exception leaves get(), and KJ_DEFER unlocks.
InitThrow(t) ==
    /\ pc[t] = "init"
    /\ mutex' = None
    /\ Go(t, "idle")
    /\ UNCHANGED << state, value, sees, raced >>

Publish(t) ==
    /\ pc[t] = "publish"
    /\ state' = "INITIALIZED"
    /\ Go(t, "unlock")
    /\ UNCHANGED << mutex, value, sees, raced >>

\* The end of runOnce() and of disable().
Unlock(t) ==
    /\ \/ pc[t] = "unlock" /\ Go(t, "read")
       \/ pc[t] = "disable unlock" /\ Go(t, "idle")
    /\ mutex' = None
    /\ UNCHANGED << state, value, sees, raced >>

\* Lazy::get returns *value.
Read(t) ==
    /\ pc[t] = "read"
    /\ raced' = (raced \/ (value # None /\ t \notin sees))
    /\ Go(t, "idle")
    /\ UNCHANGED << state, mutex, value, sees >>

\* Mutant of Disable: it does not take the lock.
DisableAtOnce(t) ==
    /\ pc[t] = "idle"
    /\ state' = "DISABLED"
    /\ UNCHANGED << mutex, value, pc, sees, raced >>

\* Once::disable.
Disable(t) ==
    /\ pc[t] = "idle"
    /\ Go(t, "disable lock")
    /\ UNCHANGED << state, mutex, value, sees, raced >>

DisableStore(t) ==
    /\ pc[t] = "disable"
    /\ state' = "DISABLED"
    /\ Go(t, "disable unlock")
    /\ UNCHANGED << mutex, value, sees, raced >>

\* Once::reset in thread t, which has no effect unless the state is INITIALIZED
\* (and throws if it is UNINITIALIZED).  It is an error to call it while
\* another thread may be in runOnce() or isInitialized(), and the caller
\* synchronizes with those that come after.
Reset(t) ==
    /\ pc[t] = "idle"
    /\ \A u \in Thread : pc[u] \in {"idle", "disable lock", "disable", "disable unlock"}
    /\ state = "INITIALIZED"
    /\ state' = "UNINITIALIZED"
    /\ UNCHANGED << mutex, value, pc, sees, raced >>

-----------------------------------------------------------------------------
Init ==
    /\ state = "UNINITIALIZED"
    /\ mutex = None
    /\ value = None
    /\ pc = [t \in Thread |-> "idle"]
    /\ sees = Thread
    /\ raced = FALSE

Step(t) ==
    \/ Lock(t) \/ Test(t) \/ InitReturn(t) \/ InitThrow(t)
    \/ Publish(t) \/ Unlock(t) \/ Read(t) \/ DisableStore(t)

Next == \E t \in Thread : Step(t) \/ Get(t) \/ Disable(t) \/ Reset(t)

Spec == Init /\ [][Next]_vars

\* Threads run, initializers end, and the critical section, which queues its
\* waiters, passes nobody over for ever.
FairSpec == Spec /\ \A t \in Thread : WF_vars(Step(t)) /\ SF_vars(Lock(t))

-----------------------------------------------------------------------------
\* The types; and the lock is held just where the code holds it.
TypeOK ==
    /\ \A t \in Thread : mutex = t <=> pc[t] \in Holding
    /\ state \in States
    /\ mutex \in Thread \cup {None}
    /\ value \in Thread \cup {None}
    /\ pc \in [Thread -> Places]
    /\ sees \subseteq Thread
    /\ raced \in BOOLEAN

\* mutex.h:226-227: the first thread makes the value and the others return the
\* same one.  The value is written under the lock only, when it was not there
\* since the start or the last reset, and never after it was published or while
\* another thread is about to read it.
MadeOnce ==
    [][value' # value => /\ state = "UNINITIALIZED"
                         /\ \A t \in Thread : pc[t] # "read"]_vars

\* A thread that took the fast path, the lock or the initializer sees the value
\* it returns: reading it is no data race.  And get() does not dereference null,
\* unless disable() came before the value.
ReadIsSafe ==
    /\ ~raced
    /\ \A t \in Thread : (pc[t] = "read" /\ value = None) => state = "DISABLED"

\* mutex.h:88-90: when disable() has returned no initializer is running, and no
\* runOnce() and no reset() changes anything any more.
DisableIsFinal ==
    [][state = "DISABLED" => /\ \A t \in Thread : ~Initializing(t)
                             /\ state' = state /\ value' = value]_vars

\* mutex.h:229-232: a get() ends even if initializers throw: a thread that waits
\* for the lock gets it, makes the value if nobody could, and returns.
GetEnds == \A t \in Thread : pc[t] = "lock" ~> pc[t] = "idle"
=============================================================================
