---------------------------- MODULE ThreadsProofs ----------------------------
(***************************************************************************)
(* Lazy initialization is right for any number of threads, and so are      *)
(* MutexGuarded and Thread for any number of threads and of locks, each    *)
(* beside the other, as the run checks them.                               *)
(*                                                                         *)
(* Guarded needs the types, and that the function of a thread is at a      *)
(* place behind the lock just while one of its Locked objects holds        *)
(* something; JoinTells, that only a Thread that is gone can be touched    *)
(* too late.                                                               *)
(***************************************************************************)
EXTENDS MCThreads, Integers, Sequences, FiniteSets, TLAPS

\* What holds while a thread is at a place: whoever holds the lock sees the
\* value; an initializer runs before the state is set; what is about to be read
\* was published or given up.
PlaceOK(t) ==
    /\ pc[t] \in Holding => t \in sees
    /\ Initializing(t) => state = "UNINITIALIZED"
    /\ pc[t] = "publish" => value # None
    /\ pc[t] \in {"unlock", "read"} =>
          /\ state # "UNINITIALIZED"
          /\ t \in sees

\* The value is there once the state says so.
Published == state = "INITIALIZED" => value # None

Inv == TypeOK /\ Published /\ ~raced /\ \A t \in Thread : PlaceOK(t)

LEMMA InitInv == Init => Inv
  BY OnceAssumption
     DEF Init, Inv, TypeOK, Published, PlaceOK, States, Places, Holding,
         Initializing

LEMMA NextInv == Inv /\ [Next]_vars => Inv'
<1> SUFFICES ASSUME Inv, [Next]_vars  PROVE Inv'
  OBVIOUS
<1> USE OnceAssumption
    DEF Inv, TypeOK, Published, PlaceOK, States, Places, Holding,
        Initializing, Go
<1>1. ASSUME NEW t \in Thread, Get(t)  PROVE Inv'
  BY <1>1 DEF Get
<1>2. ASSUME NEW t \in Thread, Lock(t)  PROVE Inv'
  BY <1>2 DEF Lock
<1>3. ASSUME NEW t \in Thread, Test(t)  PROVE Inv'
  BY <1>3 DEF Test
<1>4. ASSUME NEW t \in Thread, InitReturn(t)  PROVE Inv'
  BY <1>4 DEF InitReturn
<1>5. ASSUME NEW t \in Thread, InitThrow(t)  PROVE Inv'
  BY <1>5 DEF InitThrow
<1>6. ASSUME NEW t \in Thread, Publish(t)  PROVE Inv'
  BY <1>6 DEF Publish
<1>7. ASSUME NEW t \in Thread, Unlock(t)  PROVE Inv'
  BY <1>7 DEF Unlock
<1>8. ASSUME NEW t \in Thread, Read(t)  PROVE Inv'
  BY <1>8 DEF Read
<1>9. ASSUME NEW t \in Thread, Disable(t)  PROVE Inv'
  BY <1>9 DEF Disable
<1>10. ASSUME NEW t \in Thread, DisableStore(t)  PROVE Inv'
  BY <1>10 DEF DisableStore
<1>11. ASSUME NEW t \in Thread, Reset(t)  PROVE Inv'
  BY <1>11 DEF Reset
<1>12. CASE UNCHANGED vars
  BY <1>12 DEF vars
<1> QED
  BY <1>1, <1>2, <1>3, <1>4, <1>5, <1>6, <1>7, <1>8, <1>9, <1>10, <1>11, <1>12
     DEF Next, Step

\* Reading the value that get() returns is no data race, since the fast path, the
\* lock and the initializer each make its assignment visible; and it is not null,
\* unless disable() came before the value.
THEOREM ReadIsAlwaysSafe == Init /\ [][Next]_vars => []ReadIsSafe
<1>1. Inv => ReadIsSafe
  BY DEF Inv, TypeOK, States, Published, PlaceOK, ReadIsSafe
<1> QED
  BY InitInv, NextInv, <1>1, PTL

\* The value is assigned by one thread, before it is published and read.
THEOREM ValueIsMadeOnce == Init /\ [][Next]_vars => MadeOnce
<1>1. Inv /\ [Next]_vars =>
         [value' # value => /\ state = "UNINITIALIZED"
                            /\ \A t \in Thread : pc[t] # "read"]_vars
  <2> SUFFICES ASSUME Inv, Next, value' # value
               PROVE  /\ state = "UNINITIALIZED"
                      /\ \A t \in Thread : pc[t] # "read"
    BY DEF vars
  <2>1. PICK t \in Thread : InitReturn(t)
    BY DEF Next, Step, Get, Lock, Test, InitThrow, Publish, Unlock, Read, Disable,
           DisableStore, Reset
  <2> QED
    BY <2>1 DEF InitReturn, Inv, PlaceOK, Initializing
<1> QED
  BY InitInv, NextInv, <1>1, PTL DEF MadeOnce

\* disable() is final: no initializer runs any more, and nothing changes.
THEOREM DisableIsForEver == Init /\ [][Next]_vars => DisableIsFinal
<1>1. Inv /\ [Next]_vars =>
         [state = "DISABLED" => /\ \A t \in Thread : ~Initializing(t)
                                /\ state' = state /\ value' = value]_vars
  <2> SUFFICES ASSUME Inv, Next, state = "DISABLED"
               PROVE  /\ \A t \in Thread : ~Initializing(t)
                      /\ state' = state /\ value' = value
    BY DEF vars
  <2>1. \A t \in Thread : ~Initializing(t)
    BY DEF Inv, PlaceOK
  <2>2. PICK t \in Thread : Step(t) \/ Get(t) \/ Disable(t) \/ Reset(t)
    BY DEF Next
  <2>3. ~InitReturn(t) /\ ~Publish(t)
    BY <2>1 DEF Initializing, InitReturn, Publish
  <2> QED
    BY <2>1, <2>2, <2>3 DEF Step, Get, Lock, Test, InitThrow, Unlock, Read, Disable,
                            DisableStore, Reset
<1> QED
  BY InitInv, NextInv, <1>1, PTL DEF DisableIsFinal

\* LazyBase::get() and disable(): the same as ReadIsAlwaysSafe, ValueIsMadeOnce and
\* DisableIsForEver, of the system that the run checks.
THEOREM OnceBesideWorkers == ThreadsSpec => []ReadIsSafe /\ MadeOnce /\ DisableIsFinal
<1>1. ThreadsInit => Init
  BY DEF ThreadsInit
<1>2. [ThreadsNext]_<< part, vars, workers >> => [Next]_vars
  BY DEF ThreadsNext
<1>3. Init /\ [][Next]_vars => []ReadIsSafe /\ MadeOnce /\ DisableIsFinal
  BY ReadIsAlwaysSafe, ValueIsMadeOnce, DisableIsForEver, PTL
<1> QED
  BY <1>1, <1>2, <1>3, PTL DEF ThreadsSpec

-----------------------------------------------------------------------------
(* Threads that share a guarded value.                                     *)

Held == {"none", "EXCLUSIVE", "SHARED"}

WorkerPlaces == {"none", "function", "asks exclusive", "asks shared", "locked", "written", "ended"}

WorkerTypes ==
    /\ object \in [Worker -> {"none", "there", "destroying", "gone"}]
    /\ detached \in [Worker -> BOOLEAN] /\ exception \in [Worker -> BOOLEAN]
    /\ place \in [Worker -> WorkerPlaces]
    /\ handles \in [Worker -> [1 .. 2 -> Held]]
    /\ seen \in [Worker -> Int] /\ guarded \in Int
    /\ inside \subseteq [who : Worker, mode : WK!Modes]
    /\ outcome \in [Worker -> {"none", "thrown", "logged"}]

LockedOrEmpty == \A w \in Worker : handles[w] = WK!Empty <=> ~WK!Locked(w)

\* A thread that has not been made is nowhere.
Unborn == \A w \in Worker : object[w] = "none" => place[w] = "none"

WorkersInv == WorkerTypes /\ Unborn /\ LockedOrEmpty /\ WK!Guarded

\* A pair of Locked objects.
LEMMA Pairs ==
  /\ \A a, b \in Held : << a, b >> \in [1 .. 2 -> Held] /\ << a, b >>[1] = a /\ << a, b >>[2] = b
  /\ \A f \in [1 .. 2 -> Held] : f = << f[1], f[2] >>
  /\ \A f \in [1 .. 2 -> Held] : f = WK!Empty <=> f[1] = "none" /\ f[2] = "none"
  BY DEF WK!Empty, Held

\* What becomes of a pair when one of its components changes.
LEMMA PairUpdate ==
  ASSUME NEW f \in [1 .. 2 -> Held], NEW i \in 1 .. 2, NEW v \in Held
  PROVE  /\ [f EXCEPT ![i] = v] \in [1 .. 2 -> Held]
         /\ [f EXCEPT ![i] = v][i] = v
         /\ \A j \in 1 .. 2 : j # i => [f EXCEPT ![i] = v][j] = f[j]
  OBVIOUS

LEMMA WorkersInitInv == WK!Init => WorkersInv
<1>1. WK!Init => WorkerTypes
  BY Pairs DEF WK!Init, WorkerTypes, WorkerPlaces, Held, WK!Empty
<1>2. WK!Init => LockedOrEmpty /\ Unborn
  BY DEF WK!Init, LockedOrEmpty, WK!Locked, Unborn
<1>3. WK!Init => WK!Guarded
  BY DEF WK!Init, WK!Guarded, WK!Holds, WK!Empty, WK!Modes
<1> QED
  BY <1>1, <1>2, <1>3 DEF WorkersInv

\* What the invariant says of one thread.
Fine(w) ==
    /\ object[w] = "none" => place[w] = "none"
    /\ handles[w] = WK!Empty <=> ~WK!Locked(w)
    /\ \A mode \in WK!Modes : WK!Holds(w, mode) <=> mode \in {handles[w][1], handles[w][2]}
    /\ "none" \in {handles[w][1], handles[w][2]}
    /\ place[w] = "locked" => seen[w] = guarded

LEMMA InvOfWorker ==
  ASSUME WorkersInv, NEW w \in Worker
  PROVE  /\ Fine(w)
         /\ handles[w] \in [1 .. 2 -> Held] /\ handles[w][1] \in Held /\ handles[w][2] \in Held
         /\ place[w] \in WorkerPlaces
<1>1. /\ handles[w] \in [1 .. 2 -> Held] /\ place[w] \in WorkerPlaces
  BY DEF WorkersInv, WorkerTypes
<1>2. handles[w][1] \in Held /\ handles[w][2] \in Held
  BY <1>1
<1>3. Fine(w)
  BY DEF WorkersInv, Unborn, LockedOrEmpty, WK!Guarded, Fine
<1> QED
  BY <1>1, <1>2, <1>3

\* A step of one thread: what has to hold of it, of the lock and of the value.
LEMMA StepOfWorker ==
  ASSUME WorkersInv, WorkerTypes', NEW w \in Worker, Fine(w)',
         \A u \in Worker \ {w} :
            /\ object'[u] = "none" => object[u] = "none"
            /\ place'[u] = place[u]
            /\ handles'[u] = handles[u] /\ seen'[u] = seen[u]
            /\ \A mode \in WK!Modes : WK!Holds(u, mode)' <=> WK!Holds(u, mode)
            /\ place[u] = "locked" => guarded' = guarded,
         \A g, h \in inside' : g.mode = "EXCLUSIVE" => g = h,
         guarded' = writes'
  PROVE  WorkersInv'
<1>1. ASSUME NEW u \in Worker  PROVE Fine(u)'
  <2>1. CASE u = w
    BY <2>1
  <2>2. CASE u # w
    BY <2>2, InvOfWorker DEF Fine, WK!Locked
  <2> QED  BY <2>1, <2>2
<1>2. WK!Guarded'
  BY <1>1 DEF WK!Guarded, Fine
<1>3. LockedOrEmpty' /\ Unborn'
  BY <1>1 DEF LockedOrEmpty, Unborn, Fine
<1> QED
  BY <1>2, <1>3 DEF WorkersInv

\* A step that leaves the lock, the Locked objects and the value alone, of a thread
\* that does not hold the lock and goes to a place where it does not either.
LEMMA StepOutside ==
  ASSUME WorkersInv, WorkerTypes', NEW w \in Worker, ~WK!Locked(w), ~WK!Locked(w)',
         object'[w] = "none" => place'[w] = "none",
         \A u \in Worker \ {w} : /\ object'[u] = "none" => object[u] = "none"
                                 /\ place'[u] = place[u],
         UNCHANGED << handles, seen, inside, guarded, writes >>
  PROVE  WorkersInv'
<1>1. Fine(w)'
  BY InvOfWorker DEF Fine, WK!Locked, WK!Holds
<1> QED
  BY <1>1, StepOfWorker DEF WorkersInv, WK!Guarded, WK!Holds

\* The thread w gives back the lock it holds, or another of its objects holds it now.
LEMMA StepInside ==
  ASSUME WorkersInv, WorkerTypes', NEW w \in Worker, Fine(w)',
         UNCHANGED << object, seen, guarded, writes >>,
         \A u \in Worker \ {w} : place'[u] = place[u] /\ handles'[u] = handles[u],
         inside' = inside \/ inside' = {h \in inside : h.who # w}
  PROVE  WorkersInv'
<1>1. \A u \in Worker \ {w}, mode \in WK!Modes : WK!Holds(u, mode)' <=> WK!Holds(u, mode)
  BY DEF WK!Holds
<1> QED
  BY <1>1, StepOfWorker DEF WorkersInv, WK!Guarded

LEMMA WorkersNextInv == WorkersInv /\ [WK!Next]_workers => WorkersInv'
<1> SUFFICES ASSUME WorkersInv, [WK!Next]_workers  PROVE WorkersInv'
  OBVIOUS
<1>0. WorkerTypes
  BY DEF WorkersInv
<1>1. ASSUME NEW w \in Worker, WK!Create(w)  PROVE WorkersInv'
  <2>1. WorkerTypes'
    BY <1>0, <1>1 DEF WK!Create, WorkerTypes, WK!Go, WorkerPlaces
  <2>2. place[w] = "none"
    BY <1>1 DEF WK!Create, WorkersInv, Unborn
  <2>3. place'[w] = "function" /\ object'[w] = "there"
    BY <1>0, <1>1 DEF WK!Create, WK!Go, WorkerTypes
  <2>4. \A u \in Worker \ {w} : place'[u] = place[u] /\ object'[u] = object[u]
    BY <1>0, <1>1 DEF WK!Create, WK!Go, WorkerTypes
  <2> QED
    BY <1>1, <2>1, <2>2, <2>3, <2>4, StepOutside DEF WK!Create, WK!Locked
<1>2. ASSUME NEW w \in Worker, WK!Detach(w) \/ WK!Destroy(w) \/ \E b \in BOOLEAN : WK!Join(w, b)
      PROVE  WorkersInv'
  <2>1. WorkerTypes'
    BY <1>0, <1>2 DEF WK!Detach, WK!Destroy, WK!Join, WorkerTypes
  <2>2. /\ UNCHANGED << place, handles, seen, inside, guarded, writes >>
        /\ \A u \in Worker : object'[u] = "none" => object[u] = "none"
    BY <1>0, <1>2 DEF WK!Detach, WK!Destroy, WK!Join, WorkerTypes
  <2>3. WK!Guarded'
    BY <2>2 DEF WorkersInv, WK!Guarded, WK!Holds
  <2>4. LockedOrEmpty' /\ Unborn'
    BY <2>2 DEF WorkersInv, LockedOrEmpty, WK!Locked, Unborn
  <2> QED
    BY <2>1, <2>3, <2>4 DEF WorkersInv
<1>3. ASSUME NEW w \in Worker, NEW mode \in WK!Modes, WK!Ask(w, mode)  PROVE WorkersInv'
  <2>1. /\ place' = [place EXCEPT ![w] = IF mode = "EXCLUSIVE" THEN "asks exclusive"
                                                              ELSE "asks shared"]
        /\ place[w] = "function" /\ object' = object
        /\ UNCHANGED << handles, seen, inside, guarded, writes >>
    BY <1>3 DEF WK!Ask, WK!Go, WK!ThreadUnchanged
  <2>2. WorkerTypes'
    BY <1>0, <1>3, <2>1 DEF WK!Ask, WK!ThreadUnchanged, WorkerTypes, WorkerPlaces
  <2>3. /\ place'[w] \in {"asks exclusive", "asks shared"}
        /\ \A u \in Worker \ {w} : place'[u] = place[u]
    BY <1>0, <2>1 DEF WorkerTypes
  <2>4. object[w] # "none"
    BY <2>1 DEF WorkersInv, Unborn
  <2> QED
    BY <2>1, <2>2, <2>3, <2>4, StepOutside DEF WK!Locked
<1>4. ASSUME NEW w \in Worker, WK!Enter(w)  PROVE WorkersInv'
  <2>1. PICK mode \in WK!Modes :
          /\ place[w] \in {"asks exclusive", "asks shared"}
          /\ mode = "EXCLUSIVE" => inside = {}
          /\ mode = "SHARED" => \A h \in inside : h.mode = "SHARED"
          /\ inside' = inside \cup {[who |-> w, mode |-> mode]}
          /\ handles' = [handles EXCEPT ![w][1] = mode]
    <3>1. CASE place[w] = "asks exclusive"
      BY <1>4, <3>1 DEF WK!Enter, WK!Modes
    <3>2. CASE place[w] = "asks shared"
      BY <1>4, <3>2 DEF WK!Enter, WK!Modes
    <3> QED  BY <1>4, <3>1, <3>2 DEF WK!Enter
  <2>2. /\ UNCHANGED << guarded, writes, object, detached, exception, outcome >>
        /\ seen' = [seen EXCEPT ![w] = guarded]
        /\ place' = [place EXCEPT ![w] = "locked"]
    BY <1>4 DEF WK!Enter, WK!Go, WK!ThreadUnchanged
  <2>3. handles[w][1] = "none" /\ handles[w][2] = "none"
    <3>1. handles[w] = WK!Empty
      BY <2>1, InvOfWorker DEF Fine, WK!Locked
    <3> QED  BY <3>1 DEF WK!Empty
  <2>4. /\ handles' \in [Worker -> [1 .. 2 -> Held]]
        /\ handles'[w][1] = mode /\ handles'[w][2] = "none"
        /\ \A u \in Worker \ {w} : handles'[u] = handles[u]
    <3> DEFINE f == [handles[w] EXCEPT ![1] = mode]
    <3>1. f \in [1 .. 2 -> Held] /\ f[1] = mode /\ f[2] = "none"
      BY <2>3, InvOfWorker, PairUpdate DEF Held, WK!Modes
    <3>2. handles' = [handles EXCEPT ![w] = f]
      BY <2>1
    <3> HIDE DEF f
    <3> QED  BY <1>0, <3>1, <3>2 DEF WorkerTypes
  <2>5. WorkerTypes'
    <3>1. inside' \subseteq [who : Worker, mode : WK!Modes]
      <4>1. [who |-> w, mode |-> mode] \in [who : Worker, mode : WK!Modes]
        OBVIOUS
      <4>2. inside \subseteq [who : Worker, mode : WK!Modes]
        BY <1>0 DEF WorkerTypes
      <4> QED  BY <2>1, <4>1, <4>2, Zenon
    <3>2. place' \in [Worker -> WorkerPlaces] /\ seen' \in [Worker -> Int]
      BY <1>0, <2>2 DEF WorkerTypes, WorkerPlaces
    <3> QED  BY <1>0, <2>2, <2>4, <3>1, <3>2 DEF WorkerTypes
  <2>6. /\ place'[w] = "locked" /\ seen'[w] = guarded
        /\ \A u \in Worker \ {w} : place'[u] = place[u] /\ seen'[u] = seen[u]
    BY <1>0, <2>2 DEF WorkerTypes
  <2>7. \A m \in WK!Modes : ~WK!Holds(w, m)
    BY <2>3, InvOfWorker DEF Fine, WK!Modes
  <2>8. \A u \in Worker, m \in WK!Modes :
          WK!Holds(u, m)' <=> WK!Holds(u, m) \/ (u = w /\ m = mode)
    BY <2>1 DEF WK!Holds
  <2>9. Fine(w)'
    <3>1. handles'[w] # WK!Empty
      BY <2>4 DEF WK!Empty, WK!Modes
    <3>2. object[w] # "none"
      BY <2>1 DEF WorkersInv, Unborn
    <3> QED
      BY <2>2, <2>4, <2>6, <2>7, <2>8, <3>1, <3>2 DEF Fine, WK!Locked, WK!Modes
  <2>10. \A g, h \in inside' : g.mode = "EXCLUSIVE" => g = h
    <3> DEFINE r == [who |-> w, mode |-> mode]
    <3>1. r.mode = mode /\ inside' = inside \cup {r}
      BY <2>1
    <3> HIDE DEF r
    <3>2. CASE mode = "EXCLUSIVE"
      BY <2>1, <3>1, <3>2
    <3>3. CASE mode = "SHARED"
      BY <2>1, <3>1, <3>3
    <3> QED  BY <3>2, <3>3 DEF WK!Modes
  <2>11. guarded' = writes'
    BY <2>2 DEF WorkersInv, WK!Guarded
  <2> QED
    BY <2>2, <2>4, <2>5, <2>6, <2>8, <2>9, <2>10, <2>11, StepOfWorker
<1>5. ASSUME NEW w \in Worker, WK!Write(w)  PROVE WorkersInv'
  <2>1. /\ place[w] = "locked" /\ "EXCLUSIVE" \in {handles[w][1], handles[w][2]}
        /\ guarded' = seen[w] + 1 /\ writes' = writes + 1
        /\ place' = [place EXCEPT ![w] = "written"]
        /\ UNCHANGED << handles, seen, inside, object, detached, exception, outcome >>
    BY <1>5 DEF WK!Write, WK!Go, WK!ThreadUnchanged
  <2>2. WorkerTypes'
    <3>1. guarded' \in Int
      BY <1>0, <2>1 DEF WorkerTypes
    <3>2. place' \in [Worker -> WorkerPlaces]
      BY <1>0, <2>1 DEF WorkerTypes, WorkerPlaces
    <3> QED  BY <1>0, <2>1, <3>1, <3>2 DEF WorkerTypes
  <2>3. place'[w] = "written" /\ \A u \in Worker \ {w} : place'[u] = place[u]
    BY <1>0, <2>1 DEF WorkerTypes
  <2>4. guarded' = writes'
    BY <2>1, InvOfWorker DEF Fine, WorkersInv, WK!Guarded
  <2>5. ASSUME NEW u \in Worker \ {w}  PROVE place[u] # "locked"
    <3>1. WK!Holds(w, "EXCLUSIVE")
      BY <2>1, InvOfWorker DEF Fine, WK!Modes
    <3>2. \A m \in WK!Modes : ~WK!Holds(u, m)
      BY <2>5, <3>1 DEF WorkersInv, WK!Guarded, WK!Holds
    <3>3. handles[u][1] = "none" /\ handles[u][2] = "none"
      BY <2>5, <3>2, InvOfWorker DEF Fine, Held, WK!Modes
    <3>4. handles[u] = WK!Empty
      BY <3>3, Pairs, InvOfWorker
    <3> QED
      BY <3>4, InvOfWorker DEF Fine, WK!Locked
  <2>6. Fine(w)'
    BY <2>1, <2>3, InvOfWorker DEF Fine, WK!Locked, WK!Holds
  <2>7. \A u \in Worker, m \in WK!Modes : WK!Holds(u, m)' <=> WK!Holds(u, m)
    BY <2>1 DEF WK!Holds
  <2>8. \A g, h \in inside' : g.mode = "EXCLUSIVE" => g = h
    BY <2>1 DEF WorkersInv, WK!Guarded
  <2> QED
    BY <2>1, <2>2, <2>3, <2>4, <2>5, <2>6, <2>7, <2>8, StepOfWorker
\* A Locked object i gives up what it holds, and the two hold a and b afterwards.
<1>a. ASSUME NEW w \in Worker, NEW i \in 1 .. 2, NEW a \in Held, NEW b \in Held,
             WK!Locked(w), WK!Unlock(w, i),
             handles' = [handles EXCEPT ![w] = << a, b >>],
             WK!Go(w, IF handles'[w] = WK!Empty THEN "function" ELSE place[w]),
             \/ handles[w][i] = "none" /\ {a, b} = {handles[w][1], handles[w][2]}
             \/ handles[w][i] # "none" /\ a = "none" /\ b = "none",
             UNCHANGED << seen, guarded, writes, object, detached, exception, outcome >>
      PROVE  WorkersInv'
  <2>1. /\ << a, b >> \in [1 .. 2 -> Held] /\ << a, b >>[1] = a /\ << a, b >>[2] = b
        /\ << a, b >> = WK!Empty <=> a = "none" /\ b = "none"
    BY Pairs
  <2> DEFINE f == << a, b >>
  <2> HIDE DEF f
  <2>2. /\ handles' \in [Worker -> [1 .. 2 -> Held]] /\ handles'[w] = << a, b >>
        /\ \A u \in Worker \ {w} : handles'[u] = handles[u]
    <3>1. handles' = [handles EXCEPT ![w] = f] /\ f \in [1 .. 2 -> Held]
      BY <1>a, <2>1 DEF f
    <3> QED  BY <1>0, <3>1 DEF WorkerTypes, f
  <2>3. /\ place'[w] = IF << a, b >> = WK!Empty THEN "function" ELSE place[w]
        /\ place' \in [Worker -> WorkerPlaces]
        /\ \A u \in Worker \ {w} : place'[u] = place[u]
    BY <1>0, <1>a, <2>2 DEF WK!Go, WorkerTypes, WorkerPlaces
  <2>4. /\ handles[w][i] = "none" => inside' = inside
        /\ handles[w][i] # "none" => inside' = {h \in inside : h.who # w}
    BY <1>a DEF WK!Unlock
  <2>5. WorkerTypes'
    BY <1>0, <1>a, <2>2, <2>3, <2>4 DEF WorkerTypes
  <2>6. /\ object[w] # "none" /\ Fine(w) /\ "none" \in {handles[w][1], handles[w][2]}
    BY <1>a, InvOfWorker DEF WK!Locked, WorkersInv, Unborn, Fine
  <2>7. Fine(w)'
    <3>1. \A mode \in WK!Modes : WK!Holds(w, mode)' <=> mode \in {a, b}
      <4>1. CASE handles[w][i] = "none"
        BY <1>a, <2>4, <2>6, <4>1 DEF Fine, WK!Holds
      <4>2. CASE handles[w][i] # "none"
        BY <1>a, <2>4, <4>2 DEF WK!Holds, WK!Modes
      <4> QED  BY <4>1, <4>2
    <3>2. WK!Locked(w)' <=> << a, b >> # WK!Empty
      BY <1>a, <2>3 DEF WK!Locked
    <3>3. place'[w] = "locked" => seen'[w] = guarded'
      BY <1>a, <2>3, <2>6 DEF Fine
    <3>4. "none" \in {a, b}
      BY <1>a, <2>6
    <3> QED
      BY <1>a, <2>1, <2>2, <2>6, <3>1, <3>2, <3>3, <3>4 DEF Fine
  <2> QED
    BY <1>a, <2>2, <2>3, <2>4, <2>5, <2>7, StepInside
<1>6. ASSUME NEW w \in Worker, WK!MoveHandle(w)  PROVE WorkersInv'
  <2>1. handles[w][1] \in Held /\ handles[w][2] \in Held
    BY InvOfWorker
  <2>2. "none" \in Held /\ "none" \in {handles[w][1], handles[w][2]}
    BY InvOfWorker DEF Held, Fine
  <2>3. handles' = [handles EXCEPT ![w] = << "none", handles[w][1] >>]
    BY <1>6 DEF WK!MoveHandle
  <2>4. \/ handles[w][2] = "none" /\ {"none", handles[w][1]} = {handles[w][1], handles[w][2]}
        \/ handles[w][2] # "none" /\ handles[w][1] = "none"
    BY <2>2
  <2>5. /\ WK!Locked(w) /\ WK!Unlock(w, 2)
        /\ WK!Go(w, IF handles'[w] = WK!Empty THEN "function" ELSE place[w])
        /\ UNCHANGED << seen, guarded, writes, object, detached, exception, outcome >>
    BY <1>6 DEF WK!MoveHandle, WK!ThreadUnchanged
  <2>6. PICK a \in Held, b \in Held : a = "none" /\ b = handles[w][1]
    BY <2>1, <2>2
  <2>7. handles' = [handles EXCEPT ![w] = << a, b >>]
    BY <2>3, <2>6
  <2>8. \/ handles[w][2] = "none" /\ {a, b} = {handles[w][1], handles[w][2]}
        \/ handles[w][2] # "none" /\ a = "none" /\ b = "none"
    BY <2>4, <2>6
  <2>9. 2 \in 1 .. 2
    OBVIOUS
  <2> QED
    BY <2>5, <2>7, <2>8, <2>9, <1>a
<1>7. ASSUME NEW w \in Worker, NEW i \in 1 .. 2, WK!Release(w, i)  PROVE WorkersInv'
  <2> DEFINE a == IF i = 1 THEN "none" ELSE handles[w][1]
             b == IF i = 2 THEN "none" ELSE handles[w][2]
  <2>1. handles[w] \in [1 .. 2 -> Held] /\ handles[w][1] \in Held /\ handles[w][2] \in Held
    BY InvOfWorker
  <2>2. "none" \in Held /\ "none" \in {handles[w][1], handles[w][2]}
    BY InvOfWorker DEF Held, Fine
  <2>3. a \in Held /\ b \in Held
    BY <2>1, <2>2
  <2>4. handles' = [handles EXCEPT ![w] = << a, b >>]
    <3> DEFINE f == [handles[w] EXCEPT ![i] = "none"]
    <3>1. f = << a, b >>
      <4>1. f \in [1 .. 2 -> Held] /\ f[1] = a /\ f[2] = b
        BY <2>1, <2>2, PairUpdate
      <4> HIDE DEF f, a, b
      <4> QED  BY <4>1, Pairs
    <3>2. handles' = [handles EXCEPT ![w] = f]
      BY <1>7 DEF WK!Release
    <3> HIDE DEF f, a, b
    <3> QED  BY <3>1, <3>2
  <2>5. \/ handles[w][i] = "none" /\ {a, b} = {handles[w][1], handles[w][2]}
        \/ handles[w][i] # "none" /\ a = "none" /\ b = "none"
    BY <2>2
  <2>6. /\ WK!Locked(w) /\ WK!Unlock(w, i)
        /\ WK!Go(w, IF handles'[w] = WK!Empty THEN "function" ELSE place[w])
        /\ UNCHANGED << seen, guarded, writes, object, detached, exception, outcome >>
    BY <1>7 DEF WK!Release, WK!ThreadUnchanged
  <2>7. PICK c \in Held, d \in Held : c = a /\ d = b
    BY <2>3
  <2> HIDE DEF a, b
  <2> QED
    BY <2>4, <2>5, <2>6, <2>7, <1>a
<1>8. ASSUME NEW w \in Worker, WK!Return(w)  PROVE WorkersInv'
  <2>1. /\ place[w] = "function" /\ place' = [place EXCEPT ![w] = "ended"]
        /\ UNCHANGED << object, detached, exception, outcome, handles, seen, inside, guarded,
                        writes >>
    BY <1>8 DEF WK!Return, WK!Go
  <2>2. WorkerTypes'
    BY <1>0, <2>1 DEF WorkerTypes, WorkerPlaces
  <2>3. place'[w] = "ended" /\ \A u \in Worker \ {w} : place'[u] = place[u]
    BY <1>0, <2>1 DEF WorkerTypes
  <2>4. object[w] # "none"
    BY <2>1 DEF WorkersInv, Unborn
  <2> QED
    BY <2>1, <2>2, <2>3, <2>4, StepOutside DEF WK!Locked
<1>9. ASSUME NEW w \in Worker, WK!Throw(w)  PROVE WorkersInv'
  <2>1. /\ place[w] = "function" \/ WK!Locked(w)
        /\ place' = [place EXCEPT ![w] = "ended"]
        /\ handles' = [handles EXCEPT ![w] = WK!Empty]
        /\ inside' = IF handles[w] = WK!Empty THEN inside ELSE {h \in inside : h.who # w}
        /\ exception' = [exception EXCEPT ![w] = TRUE]
        /\ UNCHANGED << object, detached, outcome, seen, guarded, writes >>
    BY <1>9 DEF WK!Throw, WK!Go
  <2>2. WK!Empty \in [1 .. 2 -> Held] /\ WK!Empty[1] = "none" /\ WK!Empty[2] = "none"
    BY Pairs DEF WK!Empty, Held
  <2>3. /\ handles' \in [Worker -> [1 .. 2 -> Held]] /\ handles'[w] = WK!Empty
        /\ \A u \in Worker \ {w} : handles'[u] = handles[u]
        /\ place' \in [Worker -> WorkerPlaces] /\ place'[w] = "ended"
        /\ \A u \in Worker \ {w} : place'[u] = place[u]
    BY <1>0, <2>1, <2>2 DEF WorkerTypes, WorkerPlaces
  <2>4. WorkerTypes'
    BY <1>0, <2>1, <2>3 DEF WorkerTypes
  <2>5. \A mode \in WK!Modes : ~WK!Holds(w, mode)'
    <3>1. CASE handles[w] = WK!Empty
      BY <2>1, <2>2, <3>1, InvOfWorker DEF Fine, WK!Holds, WK!Modes
    <3>2. CASE handles[w] # WK!Empty
      BY <2>1, <3>2 DEF WK!Holds
    <3> QED  BY <3>1, <3>2
  <2>6. object[w] # "none"
    BY <2>1 DEF WorkersInv, Unborn, WK!Locked
  <2>7. Fine(w)'
    BY <2>1, <2>2, <2>3, <2>5, <2>6 DEF Fine, WK!Locked, WK!Modes
  <2> QED
    BY <2>1, <2>3, <2>4, <2>7, StepInside
<1>10. CASE UNCHANGED workers
  <2>1. WorkerTypes' /\ WK!Guarded'
    BY <1>0, <1>10 DEF workers, WorkerTypes, WorkersInv, WK!Guarded, WK!Holds
  <2>2. LockedOrEmpty' /\ Unborn'
    BY <1>10 DEF workers, WorkersInv, LockedOrEmpty, WK!Locked, Unborn
  <2> QED
    BY <2>1, <2>2 DEF WorkersInv
<1> QED
  BY <1>1, <1>2, <1>3, <1>4, <1>5, <1>6, <1>7, <1>8, <1>9, <1>10 DEF WK!Next, WK!Proceed

\* MutexGuarded and Locked (mutex.h:113-116, 163-193): a thread has the lock just while
\* one of its Locked objects says so, a writer is alone, and no increment is lost.
THEOREM LockIsGuarded == ThreadsSpec => []Guarded
<1>1. ThreadsInit => WorkersInv
  BY WorkersInitInv DEF ThreadsInit
<1>2. [ThreadsNext]_<< part, vars, workers >> => [WK!Next]_workers
  BY DEF ThreadsNext
<1>3. WorkersInv => Guarded
  BY DEF WorkersInv, Guarded
<1> QED
  BY <1>1, <1>2, <1>3, WorkersNextInv, PTL DEF ThreadsSpec

-----------------------------------------------------------------------------
\* Only what is gone can be touched too late.
TouchedLate == \A w \in touched : w \in Worker => object[w] = "gone"

LEMMA JoinStep == WorkerTypes /\ TouchedLate /\ WK!JoinTells /\ [WK!Next]_workers
                    => TouchedLate' /\ WK!JoinTells'
<1> SUFFICES ASSUME WorkerTypes, TouchedLate, WK!JoinTells, [WK!Next]_workers
             PROVE  TouchedLate' /\ WK!JoinTells'
  OBVIOUS
<1>1. ASSUME NEW w \in Worker, WK!Create(w)  PROVE TouchedLate' /\ WK!JoinTells'
  BY <1>1 DEF WK!Create, WK!Go, WorkerTypes, TouchedLate, WK!JoinTells
<1>2. ASSUME NEW w \in Worker, WK!Detach(w) \/ WK!Destroy(w)  PROVE TouchedLate' /\ WK!JoinTells'
  BY <1>2 DEF WK!Detach, WK!Destroy, WorkerTypes, TouchedLate, WK!JoinTells
<1>3. ASSUME NEW w \in Worker, NEW b \in BOOLEAN, WK!Join(w, b)
      PROVE  TouchedLate' /\ WK!JoinTells'
  BY <1>3 DEF WK!Join, WorkerTypes, TouchedLate, WK!JoinTells
<1>4. ASSUME NEW w \in Worker, WK!Return(w) \/ WK!Throw(w)  PROVE TouchedLate' /\ WK!JoinTells'
  BY <1>4 DEF WK!Return, WK!Throw, WK!Locked, WK!Go, WorkerTypes, TouchedLate, WK!JoinTells
\* The other steps of a function leave the Thread alone, and none is made by a
\* function that has ended.
<1>5. ASSUME NEW w \in Worker, WK!ThreadUnchanged, place[w] # "ended",
             \A u \in Worker \ {w} : place'[u] = place[u]
      PROVE  TouchedLate' /\ WK!JoinTells'
  BY <1>5 DEF WK!ThreadUnchanged, WorkerTypes, TouchedLate, WK!JoinTells
<1>6. ASSUME NEW w \in Worker, NEW mode \in WK!Modes, WK!Ask(w, mode)
      PROVE  TouchedLate' /\ WK!JoinTells'
  BY <1>5, <1>6 DEF WK!Ask, WK!Go, WorkerTypes
<1>7. ASSUME NEW w \in Worker, WK!Enter(w) \/ WK!Write(w)  PROVE TouchedLate' /\ WK!JoinTells'
  BY <1>5, <1>7 DEF WK!Enter, WK!Write, WK!Go, WorkerTypes
<1>8. ASSUME NEW w \in Worker, NEW i \in 1 .. 2, WK!MoveHandle(w) \/ WK!Release(w, i)
      PROVE  TouchedLate' /\ WK!JoinTells'
  BY <1>5, <1>8 DEF WK!MoveHandle, WK!Release, WK!Locked, WK!Go, WorkerTypes
<1>9. CASE UNCHANGED workers
  BY <1>9 DEF workers, TouchedLate, WK!JoinTells
<1> QED
  BY <1>1, <1>2, <1>3, <1>4, <1>6, <1>7, <1>8, <1>9 DEF WK!Next, WK!Proceed

\* Thread (thread.h:34-36): ~Thread of a thread that was not detached returns after its
\* function has ended, and tells its exception.
THEOREM DestructorJoins == ThreadsSpec => []JoinTells
<1>1. ThreadsInit => WorkersInv /\ TouchedLate /\ WK!JoinTells
  BY WorkersInitInv DEF ThreadsInit, WK!Init, TouchedLate, WK!JoinTells
<1>2. [ThreadsNext]_<< part, vars, workers >> => [WK!Next]_workers
  BY DEF ThreadsNext
<1>3. WorkersInv => WorkerTypes
  BY DEF WorkersInv
<1>4. WK!JoinTells => JoinTells
  BY DEF JoinTells
<1> QED
  BY <1>1, <1>2, <1>3, <1>4, WorkersNextInv, JoinStep, PTL DEF ThreadsSpec
=============================================================================
