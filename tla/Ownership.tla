----------------------------- MODULE Ownership -----------------------------
(***************************************************************************)
(* Own<T> with HeapDisposer, and the references of Refcounted (memory.h,   *)
(* refcount.h, refcount.cpp).  The owners are the program's variables and  *)
(* one member of every object, so objects own each other; a destructor may *)
(* do with owners whatever the program may do, and this may call further   *)
(* destructors.  DestructorOnlyDisposer differs from HeapDisposer only in  *)
(* that the memory stays.                                                  *)
(***************************************************************************)
EXTENDS Integers, Sequences, FiniteSets

CONSTANTS
    Object,         \* what is made with heap() or refcounted()
    Counted,        \* those of them that subclass Refcounted
    Local,          \* the program's own variables of type Own<T>
    Nobody          \* nullptr

ASSUME OwnershipAssumption ==
    Counted \subseteq Object /\ Nobody \notin Object

VARIABLES
    ptr,            \* [Local \cup Object -> Object or Nobody], an object for its member
    refcount,       \* [Object -> Int], of the counted ones
    life,           \* [Object -> "none", "alive", "dying", "gone"]
    destructors     \* the destructors that are running: [object, at], innermost last

ownership == << ptr, refcount, life, destructors >>

Top == destructors[Len(destructors)]

\* The owners code can use: variables, members of objects, and those of the object
\* whose destructor it is in.
Usable ==
    Local \cup {o \in Object : life[o] = "alive"}
          \cup (IF destructors = << >> THEN {} ELSE {Top.object})

Running == destructors # << >> => Top.at = "body"

\* ~T(), called by operator delete, by way of HeapDisposer or Refcounted.
Delete(o) ==
    /\ life' = [life EXCEPT ![o] = "dying"]
    /\ destructors' = Append(destructors, [object |-> o, at |-> "body"])

\* Disposer::dispose().  Refcounted::disposeImpl deletes with the last reference.
Dispose(o) ==
    IF o = Nobody THEN UNCHANGED << refcount, life, destructors >>
    ELSE IF o \in Counted
    THEN /\ refcount' = [refcount EXCEPT ![o] = @ - 1]
         /\ IF refcount[o] = 1 THEN Delete(o) ELSE UNCHANGED << life, destructors >>
    ELSE Delete(o) /\ UNCHANGED refcount

\* heap<T>() and refcounted<T>(), assigned to an owner that is empty.
Make(s, o) ==
    /\ Running /\ ptr[s] = Nobody /\ life[o] = "none"
    /\ life' = [life EXCEPT ![o] = "alive"]
    /\ refcount' = IF o \in Counted THEN [refcount EXCEPT ![o] = 1] ELSE refcount
    /\ ptr' = [ptr EXCEPT ![s] = o]
    /\ UNCHANGED destructors

\* kj::addRef() on an object that has references.
AddRef(s, t) ==
    /\ Running /\ ptr[s] = Nobody /\ ptr[t] \in Counted
    /\ refcount' = [refcount EXCEPT ![ptr[t]] = @ + 1]
    /\ ptr' = [ptr EXCEPT ![s] = ptr[t]]
    /\ UNCHANGED << life, destructors >>

\* Mutant of Move: the source keeps its pointer.
MoveKeeps(s, t) ==
    /\ Running
    /\ ptr' = [ptr EXCEPT ![s] = ptr[t]]
    /\ Dispose(ptr[s])

\* s = mv(t), where t may be a member of what s owns, or s itself.
Move(s, t) ==
    /\ Running
    /\ ptr' = [[ptr EXCEPT ![s] = ptr[t]] EXCEPT ![t] = Nobody]
    /\ Dispose(ptr[s])

\* s = nullptr, and the end of a variable's scope.
Clear(s) ==
    /\ Running /\ ptr[s] # Nobody
    /\ ptr' = [ptr EXCEPT ![s] = Nobody]
    /\ Dispose(ptr[s])

\* The body of a destructor is done, or has thrown; its member is destroyed next.
Body ==
    /\ destructors # << >> /\ Top.at = "body"
    /\ destructors' = [destructors EXCEPT ![Len(destructors)].at = "member"]
    /\ UNCHANGED << ptr, refcount, life >>

\* ~Own() of the member.
Member ==
    /\ ~Running /\ ptr[Top.object] # Nobody
    /\ ptr' = [ptr EXCEPT ![Top.object] = Nobody]
    /\ Dispose(ptr[Top.object])

\* operator delete frees the memory.
Free ==
    /\ ~Running /\ ptr[Top.object] = Nobody
    /\ life' = [life EXCEPT ![Top.object] = "gone"]
    /\ destructors' = SubSeq(destructors, 1, Len(destructors) - 1)
    /\ UNCHANGED << ptr, refcount >>

Init ==
    /\ ptr = [s \in Local \cup Object |-> Nobody]
    /\ refcount = [o \in Object |-> 0]
    /\ life = [o \in Object |-> "none"]
    /\ destructors = << >>

Next ==
    \/ \E s \in Usable :
          \/ Clear(s)
          \/ \E o \in Object : Make(s, o)
          \/ \E t \in Usable : AddRef(s, t) \/ Move(s, t)
    \/ Body \/ Member \/ Free

Spec == Init /\ [][Next]_ownership

TypeOK ==
    /\ ptr \in [Local \cup Object -> Object \cup {Nobody}]
    /\ refcount \in [Object -> Int]
    /\ life \in [Object -> {"none", "alive", "dying", "gone"}]
    /\ destructors \in Seq([object : Object, at : {"body", "member"}])

-----------------------------------------------------------------------------
Owners(o) == {s \in Local \cup Object : ptr[s] = o}

\* memory.h:130-144, 185-193 and refcount.cpp:34-38: however owners are moved and
\* whatever destructors do, an object with an owner is alive and an object alive
\* has one, never two without counting them, and a destructor runs once: no
\* pointer dangles, nothing is destroyed twice and nothing is lost.
OwnedOnce ==
    /\ \A o \in Object :
          /\ Owners(o) # {} <=> life[o] = "alive"
          /\ IF o \in Counted THEN refcount[o] = Cardinality(Owners(o))
                              ELSE \A s, t \in Owners(o) : s = t
          /\ life[o] = "dying" <=> \E i \in DOMAIN destructors : destructors[i].object = o
    /\ \A i, j \in DOMAIN destructors :
          destructors[i].object = destructors[j].object => i = j
=============================================================================
