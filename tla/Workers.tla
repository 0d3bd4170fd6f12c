------------------------------ MODULE Workers ------------------------------
(***************************************************************************)
(* Threads that share a MutexGuarded value: Thread (thread.h, thread.cpp), *)
(* MutexGuarded and Locked (mutex.h, mutex.cpp).                           *)
(*                                                                         *)
(* The main thread makes the Thread objects and destroys them; each runs a *)
(* function that locks the value a number of times, keeps the lock in a    *)
(* Locked object, moves it to another one, and may throw at any time.  The *)
(* reader_writer_lock of the platform lets writers in one after another    *)
(* and readers together, but none while a writer is waiting.               *)
(***************************************************************************)
EXTENDS Integers, Sequences, FiniteSets

CONSTANTS
    Worker,          \* the threads
    MaxLocks         \* bound: how often a function locks the value

VARIABLES
    object,          \* of each Thread: "none", "there", "destroying", "gone"
    detached,        \* Thread::detached
    exception,       \* Thread::exception is set
    place,           \* of a worker: where its function is
    handles,         \* of a worker: what its two Locked objects hold
    seen,            \* what a worker has read under the lock
    locks,           \* how often a worker has locked
    queue,           \* writers that wait for the lock
    inside,          \* [who, mode] that hold the lock, by the platform's account
    value,           \* the guarded value, a counter
    writes,          \* history: completed increments
    outcome,         \* history: what ~Thread did with the exception
    touched          \* history: threads that used their Thread after ~Thread

workers == << object, detached, exception, place, handles, seen, locks, queue, inside, value,
              writes, outcome, touched >>

Modes == {"EXCLUSIVE", "SHARED"}
Empty == << "none", "none" >>

Holds(w, mode) == [who |-> w, mode |-> mode] \in inside
Go(w, p) == place' = [place EXCEPT ![w] = p]

ThreadUnchanged == UNCHANGED << object, detached, exception, outcome, touched >>

-----------------------------------------------------------------------------
(* Thread, in the main thread.                                             *)

\* The constructor; CreateThread() may fail, and then it throws.
Create(w) ==
    /\ object[w] = "none" /\ \A u \in Worker : object[u] # "destroying"
    /\ object' = [object EXCEPT ![w] = "there"]
    /\ Go(w, "function")
    /\ UNCHANGED << detached, exception, handles, seen, locks, queue, inside, value, writes,
                    outcome, touched >>

Detach(w) ==
    /\ object[w] = "there" /\ ~detached[w] /\ \A u \in Worker : object[u] # "destroying"
    /\ detached' = [detached EXCEPT ![w] = TRUE]
    /\ UNCHANGED << object, exception, place, handles, seen, locks, queue, inside, value, writes,
                    outcome, touched >>

\* ~Thread starts to wait, unless it was detached.
Destroy(w) ==
    /\ object[w] = "there" /\ \A u \in Worker : object[u] # "destroying"
    /\ object' = [object EXCEPT ![w] = IF detached[w] THEN "gone" ELSE "destroying"]
    /\ UNCHANGED << detached, exception, place, handles, seen, locks, queue, inside, value,
                    writes, outcome, touched >>

\* Mutant of Join: it does not wait.
JoinAtOnce(w, unwinding) ==
    /\ object[w] = "destroying"
    /\ object' = [object EXCEPT ![w] = "gone"]
    /\ outcome' = [outcome EXCEPT ![w] = IF ~exception[w] THEN "none"
                                         ELSE IF unwinding THEN "logged" ELSE "thrown"]
    /\ UNCHANGED << detached, exception, place, handles, seen, locks, queue, inside, value,
                    writes, touched >>

\* WaitForSingleObject() returns; throwRecoverableException() only logs what the
\* thread has thrown if the main thread is unwinding.
Join(w, unwinding) ==
    /\ object[w] = "destroying" /\ place[w] = "ended"
    /\ object' = [object EXCEPT ![w] = "gone"]
    /\ outcome' = [outcome EXCEPT ![w] = IF ~exception[w] THEN "none"
                                         ELSE IF unwinding THEN "logged" ELSE "thrown"]
    /\ UNCHANGED << detached, exception, place, handles, seen, locks, queue, inside, value,
                    writes, touched >>

-----------------------------------------------------------------------------
(* The function of a thread.                                               *)

\* lockExclusive() and lockShared() ask the platform for the lock.
Ask(w, mode) ==
    /\ place[w] = "function" /\ locks[w] < MaxLocks
    /\ locks' = [locks EXCEPT ![w] = @ + 1]
    /\ Go(w, IF mode = "EXCLUSIVE" THEN "asks exclusive" ELSE "asks shared")
    /\ queue' = IF mode = "EXCLUSIVE" THEN Append(queue, w) ELSE queue
    /\ UNCHANGED << handles, seen, inside, value, writes >> /\ ThreadUnchanged

\* The platform gives it; the value is read under the lock.
Enter(w) ==
    /\ \/ /\ place[w] = "asks exclusive"
          /\ queue[1] = w /\ inside = {}
          /\ queue' = Tail(queue)
          /\ inside' = {[who |-> w, mode |-> "EXCLUSIVE"]}
          /\ handles' = [handles EXCEPT ![w][1] = "EXCLUSIVE"]
       \/ /\ place[w] = "asks shared"
          /\ queue = << >> /\ \A h \in inside : h.mode = "SHARED"
          /\ queue' = queue
          /\ inside' = inside \cup {[who |-> w, mode |-> "SHARED"]}
          /\ handles' = [handles EXCEPT ![w][1] = "SHARED"]
    /\ seen' = [seen EXCEPT ![w] = value]
    /\ Go(w, "locked")
    /\ UNCHANGED << locks, value, writes >> /\ ThreadUnchanged

\* With the exclusive lock, and only with it, the value can be changed.
Write(w) ==
    /\ place[w] = "locked" /\ "EXCLUSIVE" \in {handles[w][1], handles[w][2]}
    /\ value' = seen[w] + 1
    /\ writes' = writes + 1
    /\ Go(w, "written")
    /\ UNCHANGED << handles, seen, locks, queue, inside >> /\ ThreadUnchanged

\* Mutex::unlock() for what the Locked object i of w holds.
Unlock(w, i) ==
    inside' = IF handles[w][i] = "none" THEN inside ELSE {h \in inside : h.who # w}

Locked(w) == place[w] \in {"locked", "written"}

\* Mutant of MoveHandle: the source keeps its mutex.
MoveHandleKeeps(w) ==
    /\ Locked(w)
    /\ Unlock(w, 2)
    /\ handles' = [handles EXCEPT ![w] = << @[1], @[1] >>]
    /\ UNCHANGED << place, seen, locks, queue, value, writes >> /\ ThreadUnchanged

\* Locked::operator=(Locked&&): what the target held is unlocked first.
MoveHandle(w) ==
    /\ Locked(w)
    /\ Unlock(w, 2)
    /\ handles' = [handles EXCEPT ![w] = << "none", @[1] >>]
    /\ Go(w, IF handles'[w] = Empty THEN "function" ELSE place[w])
    /\ UNCHANGED << seen, locks, queue, value, writes >> /\ ThreadUnchanged

\* release() or ~Locked of one of the objects, the scope going on to use no lock.
Release(w, i) ==
    /\ Locked(w)
    /\ Unlock(w, i)
    /\ handles' = [handles EXCEPT ![w][i] = "none"]
    /\ Go(w, IF handles'[w] = Empty THEN "function" ELSE place[w])
    /\ UNCHANGED << seen, locks, queue, value, writes >> /\ ThreadUnchanged

\* runThread(): the function returns, with all its Locked objects gone.
Return(w) ==
    /\ place[w] = "function"
    /\ Go(w, "ended")
    /\ touched' = IF object[w] = "gone" THEN touched \cup {w} ELSE touched
    /\ UNCHANGED << object, detached, exception, outcome, handles, seen, locks, queue, inside,
                    value, writes >>

\* The function throws; the Locked objects are destroyed as the stack is unwound,
\* and the exception is kept in the Thread.
Throw(w) ==
    /\ place[w] = "function" \/ Locked(w)
    /\ handles' = [handles EXCEPT ![w] = Empty]
    /\ inside' = IF handles[w] = Empty THEN inside ELSE {h \in inside : h.who # w}
    /\ exception' = [exception EXCEPT ![w] = TRUE]
    /\ touched' = IF object[w] = "gone" THEN touched \cup {w} ELSE touched
    /\ Go(w, "ended")
    /\ UNCHANGED << object, detached, outcome, seen, locks, queue, value, writes >>

-----------------------------------------------------------------------------
Init ==
    /\ object = [w \in Worker |-> "none"]
    /\ detached = [w \in Worker |-> FALSE]
    /\ exception = [w \in Worker |-> FALSE]
    /\ place = [w \in Worker |-> "none"]
    /\ handles = [w \in Worker |-> Empty]
    /\ seen = [w \in Worker |-> 0]
    /\ locks = [w \in Worker |-> 0]
    /\ queue = << >> /\ inside = {} /\ value = 0 /\ writes = 0
    /\ outcome = [w \in Worker |-> "none"]
    /\ touched = {}

\* What is bound to go on: a function comes to its end, and gives its locks back.
Proceed(w) ==
    \/ Enter(w) \/ Release(w, 1) \/ Release(w, 2) \/ Return(w)
    \/ \E unwinding \in BOOLEAN : Join(w, unwinding)

Next ==
    \E w \in Worker :
      \/ Create(w) \/ Detach(w) \/ Destroy(w)
      \/ \E mode \in Modes : Ask(w, mode)
      \/ Write(w) \/ MoveHandle(w) \/ Throw(w)
      \/ Proceed(w)

Spec == Init /\ [][Next]_workers

\* The threads run, the functions come to an end, and the lock is given to those who
\* wait for it.
Fairness == \A w \in Worker : WF_workers(Proceed(w))

-----------------------------------------------------------------------------
\* mutex.h:113-116, 163-193: however the Locked objects are moved and dropped, also
\* by an exception, a thread has the lock just while one of them, and only one, says
\* so; a writer is alone; and so no increment is lost and what a reader has seen
\* stays while it looks.
Guarded ==
    /\ \A w \in Worker :
          /\ \A mode \in Modes : Holds(w, mode) <=> mode \in {handles[w][1], handles[w][2]}
          /\ "none" \in {handles[w][1], handles[w][2]}
          /\ place[w] = "locked" => seen[w] = value
    /\ \A g, h \in inside : g.mode = "EXCLUSIVE" => g = h
    /\ value = writes

\* thread.h:34-36: the destructor of a thread that was not detached returns when the
\* thread has ended, and tells an exception of the thread to whoever destroys it;
\* no thread uses its Thread after that.
JoinTells ==
    \A w \in Worker : object[w] = "gone" /\ ~detached[w] =>
        /\ place[w] = "ended" /\ w \notin touched
        /\ exception[w] <=> outcome[w] \in {"thrown", "logged"}

\* A destructor that has started to wait returns: no function that keeps to one
\* lock at a time waits for ever, whatever readers and writers there are.
JoinEnds == \A w \in Worker : object[w] = "destroying" ~> object[w] = "gone"
=============================================================================
