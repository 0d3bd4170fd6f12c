------------------------------- MODULE Arrays -------------------------------
(***************************************************************************)
(* The owned arrays of kj: a Vector, which grows an ArrayBuilder, and an   *)
(* Array made by heapArray() or released by the vector (vector.h, array.h, *)
(* array.cpp).  Constructors, move constructors and destructors of the     *)
(* elements may throw; what is not destroyed yet is then destroyed by the  *)
(* guards on the stack, whose destructors do not throw a second time.      *)
(*                                                                         *)
(* A step constructs, moves or destroys one element.  "store" is the heap; *)
(* a slot is raw memory, an element, or an element that was moved from.    *)
(***************************************************************************)
EXTENDS Integers, Sequences, FiniteSetsExt

CONSTANTS
    Block,           \* pieces of memory from operator new
    Null,            \* nullptr
    FirstCapacity,   \* capacity of a vector when it first grows, 4 in the code
    MaxSize,         \* bound: elements in an array
    MaxSerial        \* bound: elements made

VARIABLES
    store,           \* [Block -> the slots, << >> when not allocated]
    owned,           \* the blocks that are allocated
    vec, arr, tmp,   \* [block, pos]: the vector's builder, the array, newBuilder
    call,            \* the call in progress: op, its argument n, where it is
    dying,           \* [block, pos]: the array that is being destroyed
    thrown,          \* an exception is on its way out of the call
    expect,          \* history: what the vector should contain,
    spoiled,         \* unless a move constructor threw
    serial,          \* history: elements made so far
    misused          \* history: a slot was built on or destroyed twice

vars == << store, owned, vec, arr, tmp, call, dying, thrown, expect, spoiled, serial, misused >>

Raw == 0
Moved == -1

Nothing == [block |-> Null, pos |-> 0]
Idle == [op |-> "none", n |-> 0, at |-> "idle"]

Capacity(h) == IF h.block = Null THEN 0 ELSE Len(store[h.block])
IsFull(h) == h.pos = Capacity(h)
Content(h) == IF h.block = Null THEN << >> ELSE SubSeq(store[h.block], 1, h.pos)

At(place) == call.at = place
Goto(place) == call' = [call EXCEPT !.at = place]

\* ctor() and dtor() of one slot.
Construct(b, i, value) ==
    /\ misused' = (misused \/ store[b][i] # Raw)
    /\ store' = [store EXCEPT ![b][i] = value]

Destruct(b, i) ==
    /\ misused' = (misused \/ store[b][i] = Raw)
    /\ store' = [store EXCEPT ![b][i] = Raw]

-----------------------------------------------------------------------------
(* Calls of the program.                                                   *)

Begin(op, n) ==
    /\ At("idle")
    /\ call' = [op |-> op, n |-> n, at |-> "start"]
    /\ UNCHANGED << store, owned, vec, arr, tmp, dying, thrown, expect, spoiled, serial, misused >>

\* Vector::add, addAll, resize and releaseAsArray: the capacity they set first, or
\* 0.  grow() at least doubles.
Grown(min) ==
    Max({min, IF Capacity(vec) = 0 THEN FirstCapacity ELSE 2 * Capacity(vec)})

NewCapacity ==
    CASE call.op = "add"     -> IF IsFull(vec) THEN Grown(0) ELSE 0
      [] call.op = "addAll"  -> IF vec.pos + call.n > Capacity(vec)
                                THEN Grown(vec.pos + call.n) ELSE 0
      [] call.op = "resize"  -> IF call.n > Capacity(vec) THEN Grown(call.n) ELSE 0
      [] call.op = "heapArray" -> call.n
      [] OTHER -> 0

Allocates == NewCapacity > 0 \/ (call.op = "release" /\ ~IsFull(vec))

\* heapArrayBuilder() for setCapacity(), and operator new in allocateImpl().
Allocate ==
    LET size == IF call.op = "release" THEN vec.pos ELSE NewCapacity
    IN  /\ At("start") /\ Allocates
        /\ \E b \in Block \ owned :
              /\ owned' = owned \cup {b}
              /\ store' = [store EXCEPT ![b] = [i \in 1 .. size |-> Raw]]
              /\ tmp' = [block |-> b, pos |-> 0]
        /\ Goto(IF call.op = "heapArray" THEN "fill" ELSE "move")
        /\ UNCHANGED << vec, arr, dying, thrown, expect, spoiled, serial, misused >>

OutOfMemory ==
    /\ At("start") /\ Allocates
    /\ call' = Idle
    /\ UNCHANGED << store, owned, vec, arr, tmp, dying, thrown, expect, spoiled, serial, misused >>

NoAllocation ==
    /\ At("start") /\ ~Allocates
    /\ Goto("work")
    /\ UNCHANGED << store, owned, vec, arr, tmp, dying, thrown, expect, spoiled, serial, misused >>

-----------------------------------------------------------------------------
(* setCapacity() and the construction of heapArray().                      *)

MoveCount == Min({Capacity(tmp), vec.pos})

\* newBuilder.add(mv(builder[i])), whose move constructor may throw.
MoveOne ==
    LET i == tmp.pos + 1
    IN  /\ At("move") /\ tmp.pos < MoveCount
        /\ misused' = (misused \/ store[tmp.block][i] # Raw \/ store[vec.block][i] = Raw)
        /\ store' = [store EXCEPT ![tmp.block][i] = store[vec.block][i],
                                  ![vec.block][i] = Moved]
        /\ tmp' = [tmp EXCEPT !.pos = i]
        /\ UNCHANGED << owned, vec, arr, call, dying, thrown, expect, spoiled, serial >>

\* ExceptionSafeArrayUtil::construct
MakeOne ==
    /\ At("fill") /\ tmp.pos < Capacity(tmp)
    /\ Construct(tmp.block, tmp.pos + 1, Moved)
    /\ tmp' = [tmp EXCEPT !.pos = @ + 1]
    /\ UNCHANGED << owned, vec, arr, call, dying, thrown, expect, spoiled, serial >>

\* A constructor throws: newBuilder or the guard destroys what was built.
BuildThrows ==
    /\ \/ At("move") /\ tmp.pos < MoveCount
       \/ At("fill") /\ tmp.pos < Capacity(tmp)
    /\ thrown' = TRUE
    /\ dying' = tmp
    /\ tmp' = Nothing
    /\ Goto("destroy")
    /\ spoiled' = (spoiled \/ At("move"))
    /\ UNCHANGED << store, owned, vec, arr, expect, serial, misused >>

\* builder = mv(newBuilder), the array replaced: the old one is disposed of first,
\* its pointers null already.
MoveEnd ==
    /\ At("move") /\ tmp.pos = MoveCount
    /\ dying' = vec /\ vec' = Nothing
    /\ Goto("destroy")
    /\ UNCHANGED << store, owned, arr, tmp, thrown, expect, spoiled, serial, misused >>

MakeEnd ==
    /\ At("fill") /\ tmp.pos = Capacity(tmp)
    /\ dying' = arr /\ arr' = Nothing
    /\ Goto("destroy")
    /\ UNCHANGED << store, owned, vec, tmp, thrown, expect, spoiled, serial, misused >>

-----------------------------------------------------------------------------
(* ArrayDisposer::dispose().                                               *)

\* ExceptionSafeArrayUtil::destroyAll, and its destructor once one has thrown.
DestroyOne(throws) ==
    /\ At("destroy") /\ dying.pos > 0
    /\ Destruct(dying.block, dying.pos)
    /\ throws => ~thrown
    /\ thrown' = (thrown \/ throws)
    /\ dying' = [dying EXCEPT !.pos = @ - 1]
    /\ UNCHANGED << owned, vec, arr, tmp, call, expect, spoiled, serial >>

Replaces == call.op \in {"heapArray", "assign"}
Grows == call.op \in {"add", "addAll", "resize", "release"}

\* ~AutoDeleter.  After an exception newBuilder goes too; otherwise it is taken.
DestroyEnd ==
    /\ At("destroy") /\ dying.pos = 0
    /\ owned' = owned \ {dying.block}
    /\ store' = IF dying.block = Null THEN store ELSE [store EXCEPT ![dying.block] = << >>]
    /\ tmp' = Nothing
    /\ dying' = IF thrown THEN tmp ELSE Nothing
    /\ thrown' = (thrown /\ tmp # Nothing)
    /\ vec' = IF ~thrown /\ Grows THEN tmp ELSE vec
    /\ arr' = IF ~thrown /\ Replaces THEN tmp ELSE arr
    /\ call' = CASE thrown' -> call
                 [] ~thrown /\ Grows -> [call EXCEPT !.at = "work"]
                 [] OTHER -> Idle
    /\ expect' = IF thrown' /\ ~Replaces THEN << >> ELSE expect
    /\ spoiled' = (spoiled /\ ~(thrown' /\ ~Replaces))
    /\ UNCHANGED << serial, misused >>

-----------------------------------------------------------------------------
(* What is left of each call when the capacity is right.                   *)

Return == call' = Idle
Stay == UNCHANGED << owned, arr, tmp, dying, thrown, spoiled >>

\* ArrayBuilder::add by add() and resize(): pos moves when the constructor is done.
AddOne ==
    /\ At("work") /\ serial < MaxSerial
    /\ call.op = "add" \/ (call.op = "resize" /\ vec.pos < call.n)
    /\ Construct(vec.block, vec.pos + 1, serial + 1)
    /\ vec' = [vec EXCEPT !.pos = @ + 1]
    /\ serial' = serial + 1
    /\ expect' = Append(expect, serial + 1)
    /\ IF call.op = "add" THEN Return ELSE UNCHANGED call
    /\ Stay

AddThrows ==
    /\ At("work")
    /\ call.op = "add" \/ (call.op = "resize" /\ vec.pos < call.n)
    /\ Return
    /\ Stay /\ UNCHANGED << store, vec, expect, serial, misused >>

\* Mutant of CopyAll: after an exception the elements already copied stay.
CopyAllUnguarded(done) ==
    /\ At("work") /\ call.op = "addAll"
    /\ serial + call.n <= MaxSerial
    /\ misused' = (misused \/ \E i \in 1 .. done : store[vec.block][vec.pos + i] # Raw)
    /\ store' = [store EXCEPT ![vec.block] =
                    [i \in DOMAIN @ |-> IF i - vec.pos \in 1 .. done
                                        THEN serial + i - vec.pos ELSE @[i]]]
    /\ IF done = call.n
       THEN /\ vec' = [vec EXCEPT !.pos = @ + done]
            /\ expect' = expect \o [i \in 1 .. done |-> serial + i]
       ELSE UNCHANGED << vec, expect >>
    /\ serial' = serial + done
    /\ Return /\ Stay

\* copyConstructArray(), whose guard destroys what it copied if one of the
\* constructors throws, so that nothing has happened.
CopyAll(done) ==
    /\ At("work") /\ call.op = "addAll"
    /\ serial + call.n <= MaxSerial
    /\ IF done = call.n
       THEN /\ misused' = (misused \/ \E i \in 1 .. done : store[vec.block][vec.pos + i] # Raw)
            /\ store' = [store EXCEPT ![vec.block] =
                            [i \in DOMAIN @ |-> IF i - vec.pos \in 1 .. done
                                                THEN serial + i - vec.pos ELSE @[i]]]
            /\ vec' = [vec EXCEPT !.pos = @ + done]
            /\ expect' = expect \o [i \in 1 .. done |-> serial + i]
       ELSE UNCHANGED << store, vec, expect, misused >>
    /\ serial' = serial + done
    /\ Return /\ Stay

\* ArrayBuilder::removeLast: pos first, then the destructor, which may throw.
RemoveOne(throws) ==
    /\ At("work") /\ vec.pos > 0
    /\ call.op = "removeLast" \/ (call.op = "resize" /\ vec.pos > call.n)
    /\ vec' = [vec EXCEPT !.pos = @ - 1]
    /\ Destruct(vec.block, vec.pos)
    /\ expect' = SubSeq(expect, 1, Len(expect) - 1)
    /\ IF throws \/ call.op = "removeLast" THEN Return ELSE UNCHANGED call
    /\ Stay /\ UNCHANGED serial

ResizeEnd ==
    /\ At("work") /\ call.op = "resize" /\ vec.pos = call.n
    /\ Return
    /\ Stay /\ UNCHANGED << store, vec, expect, serial, misused >>

\* arr = vec.releaseAsArray(), by way of ArrayBuilder::finish: arr is disposed of
\* before it takes what was the vector's.
Release ==
    /\ At("work") /\ call.op = "release"
    /\ tmp' = vec /\ vec' = Nothing
    /\ dying' = arr /\ arr' = Nothing
    /\ call' = [call EXCEPT !.op = "assign", !.at = "destroy"]
    /\ expect' = << >> /\ spoiled' = FALSE
    /\ UNCHANGED << store, owned, thrown, serial, misused >>

\* ~Vector, ~Array, or = nullptr.
DropVec ==
    /\ At("work") /\ call.op = "drop vec"
    /\ dying' = vec /\ vec' = Nothing
    /\ expect' = << >> /\ spoiled' = FALSE
    /\ Goto("destroy")
    /\ UNCHANGED << store, owned, arr, tmp, thrown, serial, misused >>

DropArr ==
    /\ At("work") /\ call.op = "drop arr"
    /\ dying' = arr /\ arr' = Nothing
    /\ Goto("destroy")
    /\ UNCHANGED << store, owned, vec, tmp, thrown, expect, spoiled, serial, misused >>

-----------------------------------------------------------------------------
Init ==
    /\ store = [b \in Block |-> << >>] /\ owned = {}
    /\ vec = Nothing /\ arr = Nothing /\ tmp = Nothing /\ dying = Nothing
    /\ call = Idle /\ thrown = FALSE
    /\ expect = << >> /\ spoiled = FALSE /\ serial = 0 /\ misused = FALSE

Calls ==
    \/ serial < MaxSerial /\ vec.pos < MaxSize /\ Begin("add", 0)
    \/ \E n \in 1 .. MaxSize - vec.pos : serial + n <= MaxSerial /\ Begin("addAll", n)
    \/ \E n \in 0 .. MaxSize : serial + n <= MaxSerial + vec.pos /\ Begin("resize", n)
    \/ vec.pos > 0 /\ Begin("removeLast", 0)
    \/ \E n \in 1 .. MaxSize : Begin("heapArray", n)
    \/ \E op \in {"release", "drop vec", "drop arr"} : Begin(op, 0)

Building == MoveOne \/ MakeOne \/ BuildThrows \/ MoveEnd \/ MakeEnd

Working ==
    \/ AddOne \/ AddThrows \/ ResizeEnd \/ Release \/ DropVec \/ DropArr
    \/ \E done \in 0 .. call.n : CopyAll(done)
    \/ \E throws \in BOOLEAN : RemoveOne(throws)

Next ==
    \/ Calls \/ Allocate \/ OutOfMemory \/ NoAllocation
    \/ Building \/ Working
    \/ \E throws \in BOOLEAN : DestroyOne(throws)
    \/ DestroyEnd

Spec == Init /\ [][Next]_vars

-----------------------------------------------------------------------------
Holders == {vec, arr, tmp, dying} \ {Nothing}

\* array.h:56-57, 65-70, 211-212: whatever constructor or destructor throws, no
\* element is built over another or destroyed twice; every block of memory is
\* freed once, and just as long as it is not, one handle holds it, below whose
\* pos there are elements and above whose pos there are none: nothing leaks.
EachDestroyedOnce ==
    /\ ~misused
    /\ owned = {h.block : h \in Holders}
    /\ \A g, h \in Holders : g.block = h.block => g = h
    /\ \A h \in Holders : \A i \in DOMAIN store[h.block] :
          (store[h.block][i] = Raw <=> i > h.pos)

\* vector.h:33-37: a vector keeps its elements in order while it grows and shrinks,
\* also when the construction of a new one fails.  Only if a move constructor
\* throws does it contain elements that were moved from.
KeepsContent ==
    At("idle") /\ ~spoiled => Content(vec) = expect
=============================================================================
