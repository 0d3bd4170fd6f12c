---------------------------- MODULE WinEventPort ----------------------------
(***************************************************************************)
(* WinEventPort (async-win.cpp): promises that wait for handles of the     *)
(* operating system.                                                       *)
(*                                                                         *)
(* Each promise from waitFor() has a HandlePromiseAdapter in an intrusive  *)
(* list of the port.  wait() and poll() take a snapshot of the list, ask   *)
(* the system which handle is signalled and fulfil its promise, then look  *)
(* at the handles behind it one by one.  Other threads signal handles      *)
(* meanwhile; the loop's own thread runs nothing else.                     *)
(*                                                                         *)
(* External: WaitForMultipleObjects returns the lowest signalled index and *)
(* fails for no handle, too many, or one given twice; waiting for an event *)
(* of the kind AutoReset takes its signal.  A mutex whose owner ended       *)
(* without releasing it is abandoned: a wait takes it, but does not return *)
(* WAIT_OBJECT_0 for it.                                                   *)
(***************************************************************************)
EXTENDS Naturals, FiniteSets, SequencesExt

CONSTANTS
    None,            \* nullptr
    HeadSlot,        \* &loop.handleHead, the first slot of the list
    Observer,        \* the HandlePromiseAdapters; bound: how many exist at a time
    Handle,          \* the handles of the system
    AutoReset,       \* those that a wait resets
    Mutex,           \* those that other threads may abandon
    MaxHandles       \* MAXIMUM_WAIT_OBJECTS, 64 in the system

ASSUME PortAssumption ==
    /\ {None, HeadSlot} \cap Observer = {} /\ None # HeadSlot
    /\ IsFiniteSet(Observer)
    /\ AutoReset \subseteq Handle /\ Mutex \subseteq Handle \ AutoReset
    /\ MaxHandles \in Nat

VARIABLES
    head,            \* handleHead
    tail,            \* handleTail, the slot at the end of the list
    obs,             \* the fields of every HandlePromiseAdapter, and its promise
    signalled,       \* the handles that a wait need not wait for
    abandoned,       \* those of them that are abandoned
    call,            \* the wait() or poll() in progress
    failed           \* the last call of WaitForMultipleObjects failed

vars == << head, tail, obs, signalled, abandoned, call, failed >>

\* The slot of an observer is its next field.
Slot == Observer \cup {HeadSlot}

ObserverType ==
    [state : {"free", "waiting", "fulfilled"},
     handle : Handle \cup {None},
     next : Observer \cup {None},
     prev : Slot \cup {None}]

Free == [state |-> "free", handle |-> None, next |-> None, prev |-> None]

\* WaitHandleContext: handleEvents, and the handles at the time of the snapshot;
\* at is the index that run() looks at, 0 before WaitForMultipleObjects.
NoCall == [kind |-> None, events |-> << >>, handles |-> << >>, at |-> 0]

Walk ==
    LET w[i \in 0 .. Cardinality(Observer)] ==
            IF i = 0 THEN head
            ELSE LET o == w[i - 1] IN IF o = None THEN None ELSE obs[o].next
    IN  w

\* The observers in the list.
Listed ==
    LET n == Cardinality({i \in 1 .. Cardinality(Observer) : Walk[i - 1] # None})
    IN  [i \in 1 .. n |-> Walk[i - 1]]

-----------------------------------------------------------------------------
(* The list.                                                               *)

\* HandlePromiseAdapter::HandlePromiseAdapter, in waitFor().
WaitFor(o, h) ==
    /\ call = NoCall
    /\ obs[o].state = "free"
    /\ obs' = [x \in Observer |->
                  IF x = o THEN [state |-> "waiting", handle |-> h,
                                 next |-> None, prev |-> tail]
                  ELSE IF x = tail THEN [obs[x] EXCEPT !.next = o]
                  ELSE obs[x]]
    /\ head' = IF tail = HeadSlot THEN o ELSE head
    /\ tail' = o
    /\ UNCHANGED << signalled, abandoned, call, failed >>

\* Mutant of Unlink: the tail stays in an observer that was the last.
UnlinkKeepsTail(o, new) ==
    LET n == obs[o].next
        p == obs[o].prev
    IN  /\ obs' = [x \in Observer |->
                      CASE x = o -> new
                        [] x = p -> [obs[x] EXCEPT !.next = n]
                        [] x = n -> [obs[x] EXCEPT !.prev = p]
                        [] OTHER -> obs[x]]
        /\ head' = IF p = HeadSlot THEN n ELSE head
        /\ tail' = tail

\* removeFromList() and ~HandlePromiseAdapter take o out of the list; new is
\* what becomes of its fields.
Unlink(o, new) ==
    LET n == obs[o].next
        p == obs[o].prev
    IN  /\ obs' = [x \in Observer |->
                      CASE x = o -> new
                        [] x = p -> [obs[x] EXCEPT !.next = n]
                        [] x = n -> [obs[x] EXCEPT !.prev = p]
                        [] OTHER -> obs[x]]
        /\ head' = IF p = HeadSlot THEN n ELSE head
        /\ tail' = IF n = None THEN p ELSE tail

\* The promise is destroyed, before or after it was fulfilled.
Destroy(o) ==
    /\ call = NoCall
    /\ obs[o].state # "free"
    /\ IF obs[o].prev # None
       THEN Unlink(o, Free)
       ELSE obs' = [obs EXCEPT ![o] = Free] /\ UNCHANGED << head, tail >>
    /\ UNCHANGED << signalled, abandoned, call, failed >>

-----------------------------------------------------------------------------
(* wait() and poll().                                                      *)

\* Another thread, or the system.
Signal(h) ==
    /\ h \notin signalled
    /\ signalled' = signalled \cup {h}
    /\ UNCHANGED << head, tail, obs, abandoned, call, failed >>

Abandon(h) ==
    /\ h \in Mutex \ signalled
    /\ signalled' = signalled \cup {h}
    /\ abandoned' = abandoned \cup {h}
    /\ UNCHANGED << head, tail, obs, call, failed >>

\* An event that a wait does not reset is reset by the program; another thread
\* takes a mutex.
ResetEvent(h) ==
    /\ h \in signalled \ AutoReset
    /\ signalled' = signalled \ {h}
    /\ abandoned' = abandoned \ {h}
    /\ UNCHANGED << head, tail, obs, call, failed >>

CanWait(handles) ==
    /\ Len(handles) \in 1 .. MaxHandles
    /\ IsInjective(handles)

\* wait() and poll() up to WaitForMultipleObjects.
Enter(kind) ==
    LET handles == [i \in DOMAIN Listed |-> obs[Listed[i]].handle]
    IN  /\ call = NoCall
        /\ IF CanWait(handles)
           THEN /\ call' = [kind |-> kind, events |-> Listed, handles |-> handles, at |-> 0]
                /\ failed' = failed
           ELSE /\ call' = call
                /\ failed' = TRUE
        /\ UNCHANGED << head, tail, obs, signalled, abandoned >>

\* The handle at index i is signalled: its promise is fulfilled, and its
\* observer leaves the list.
Take(i, event) ==
    LET h == call.handles[i]
        o == call.events[event]
    IN  /\ h \in signalled \ abandoned
        /\ UNCHANGED abandoned
        /\ signalled' = IF h \in AutoReset THEN signalled \ {h} ELSE signalled
        /\ Unlink(o, [obs[o] EXCEPT !.state = "fulfilled", !.next = None, !.prev = None])

\* The abandoned mutex at index i is now the thread's; its promise is not fulfilled.
Inherit(i) ==
    /\ call.handles[i] \in abandoned
    /\ abandoned' = abandoned \ {call.handles[i]}
    /\ UNCHANGED << head, tail, obs, signalled >>

Returns ==
    /\ call' = NoCall
    /\ failed' = FALSE

\* Mutants of WaitMany: the loop begins with the same event again; the promise
\* of another handle is fulfilled.
WaitManyAgain ==
    /\ call # NoCall /\ call.at = 0
    /\ \E i \in DOMAIN call.handles :
          /\ \A j \in 1 .. (i - 1) : call.handles[j] \notin signalled
          /\ \/ Take(i, i) /\ call' = [call EXCEPT !.at = i] /\ UNCHANGED failed
             \/ Inherit(i) /\ Returns

WaitManyShifted ==
    /\ call # NoCall /\ call.at = 0
    /\ \E i \in DOMAIN call.handles :
          /\ \A j \in 1 .. (i - 1) : call.handles[j] \notin signalled
          /\ \/ Take(i, 1) /\ call' = [call EXCEPT !.at = i + 1] /\ UNCHANGED failed
             \/ Inherit(i) /\ Returns

\* WaitForMultipleObjects in WaitHandleContext::run, which leaves off when the result
\* is no index: WAIT_ABANDONED_0 and up.
WaitMany ==
    /\ call # NoCall /\ call.at = 0
    /\ \E i \in DOMAIN call.handles :
          /\ \A j \in 1 .. (i - 1) : call.handles[j] \notin signalled
          /\ \/ Take(i, i) /\ call' = [call EXCEPT !.at = i + 1] /\ UNCHANGED failed
             \/ Inherit(i) /\ Returns

\* The timeout of poll(), which is 0.
Timeout ==
    /\ call.kind = "poll" /\ call.at = 0
    /\ \A i \in DOMAIN call.handles : call.handles[i] \notin signalled
    /\ Returns
    /\ UNCHANGED << head, tail, obs, signalled, abandoned >>

\* The loop over the handles behind it, WaitForSingleObject.
Scan ==
    /\ call.at \in DOMAIN call.handles
    /\ \/ Take(call.at, call.at)
       \/ Inherit(call.at)
       \/ /\ call.handles[call.at] \notin signalled
          /\ UNCHANGED << head, tail, obs, signalled, abandoned >>
    /\ call' = [call EXCEPT !.at = @ + 1]
    /\ UNCHANGED failed

ScanEnd ==
    /\ call.at > Len(call.handles)
    /\ Returns
    /\ UNCHANGED << head, tail, obs, signalled, abandoned >>

-----------------------------------------------------------------------------
Init ==
    /\ head = None /\ tail = HeadSlot
    /\ obs = [o \in Observer |-> Free]
    /\ signalled = {} /\ abandoned = {}
    /\ call = NoCall
    /\ failed = FALSE

Run == WaitMany \/ Timeout \/ Scan \/ ScanEnd

User ==
    \/ \E o \in Observer : (\E h \in Handle : WaitFor(o, h)) \/ Destroy(o)
    \/ \E h \in Handle : Signal(h) \/ Abandon(h) \/ ResetEvent(h)

Next == Run \/ User \/ \E kind \in {"wait", "poll"} : Enter(kind)

Spec == Init /\ [][Next]_vars

\* The loop calls the port again and again, and a call goes on.
FairSpec == Spec /\ WF_vars(Run) /\ WF_vars(\E kind \in {"wait", "poll"} : Enter(kind))

-----------------------------------------------------------------------------
TypeOK ==
    /\ head \in Observer \cup {None}
    /\ tail \in Slot
    /\ obs \in [Observer -> ObserverType]
    /\ signalled \subseteq Handle /\ abandoned \subseteq Mutex
    /\ call.kind \in {None, "wait", "poll"}
    /\ failed \in BOOLEAN
    /\ call.at \in 0 .. (Len(call.handles) + 1)
    /\ Len(call.events) = Len(call.handles)

\* Observers are unlinked twice over, by removeFromList() and by their
\* destructor, in any order of other changes: the list holds just those that
\* wait, once each, and its pointers are each other's inverse.  What handleEvents
\* still has to look at is in the list, although the list changes under the scan.
ListOK ==
    LET slots == << HeadSlot >> \o Listed
    IN  /\ TypeOK
        /\ ToSet(Listed) = {o \in Observer : obs[o].state = "waiting"}
        /\ IsInjective(Listed)
        /\ \A i \in DOMAIN Listed : obs[Listed[i]].prev = slots[i]
        /\ tail = Last(slots)
        /\ \A i \in DOMAIN call.events :
              i >= call.at => obs[call.events[i]].state = "waiting"

\* The signal of an AutoReset event goes to exactly one promise, which waits for that
\* handle, and no promise is fulfilled without a signal or by an abandoned mutex.
Fulfils(h) == {o \in Observer : /\ obs[o].state = "waiting" /\ obs[o].handle = h
                                /\ obs'[o].state = "fulfilled"}

OneSignalOnePromise ==
    [][\A h \in Handle :
          /\ h \in AutoReset => (Cardinality(Fulfils(h))
                              = IF h \in signalled \ signalled' THEN 1 ELSE 0)
          /\ Fulfils(h) # {} => h \in signalled \ abandoned]_vars

\* An observer far down the list is heard although others come, go and are
\* signalled in every call, unless the calls fail or end early at an abandoned mutex
\* (one that is abandoned again and again starves those behind it).
NobodyStarves ==
    \A o \in Observer, h \in Handle \ AutoReset :
        (obs[o].state = "waiting" /\ obs[o].handle = h /\ h \in signalled) ~>
            (obs[o].state # "waiting" \/ obs[o].handle # h \/ h \notin signalled
                \/ failed \/ abandoned # {})
=============================================================================
