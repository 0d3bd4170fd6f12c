------------------------------- MODULE Arena -------------------------------
(***************************************************************************)
(* kj::Arena (arena.h, arena.cpp): objects placed one after another in     *)
(* chunks of memory that grow, and destroyed together when the arena is.   *)
(*                                                                         *)
(* A pointer is a chunk and an offset into it; the chunk's residue is its  *)
(* address modulo the largest alignment.  An object's constructor may      *)
(* allocate from the same arena and may throw; so may a destructor.        *)
(***************************************************************************)
EXTENDS Integers, SequencesExt

CONSTANTS
    PointerSize,    \* sizeof(void*) = sizeof(size_t)
    SizeRange,      \* 2^w, the number of values of a size_t
    NewAlign,       \* what operator new aligns to
    Memory,         \* the largest block that operator new still finds
    Hints,          \* chunk sizes that are asked for
    Scratches,      \* scratch spaces of the caller: [size, residue]
    Allocations,    \* what is allocated: [size, align, managed, elements]
    MaxObjects      \* bound: allocations from the arena

VARIABLES
    nextChunkSize,
    chunks,         \* [size, pos, residue, ours] of every chunk ever used
    chunkList,      \* indices of those to delete, newest first
    objectList,     \* objects to destroy, newest first
    blocks,         \* history: [chunk, from, start, to, req] of each allocation
    count,          \* elements of an allocation that exist: the tag of an array
    frames,         \* objects under construction, innermost last
    phase,          \* of the arena: "alive", "cleanup", "again", "gone"
    dying,          \* the object cleanup() has taken off the list, or 0
    thrown,         \* a destructor has thrown
    built,          \* history: << id, n >>, the n-th managed object of an allocation,
                    \*   as they were completed
    destroyed       \* history: the same, as their destructors ran

vars == << nextChunkSize, chunks, chunkList, objectList, blocks, count, frames, phase, dying,
           thrown, built, destroyed >>

ChunkHeader == 3 * PointerSize
ObjectHeader == 2 * PointerSize

Larger(a, b) == IF a > b THEN a ELSE b

\* alignTo(size_t, uint): (s + mask) & ~mask in the width of a size_t.
AlignSize(s, a) == LET t == (s + a - 1) % SizeRange IN t - (t % a)

\* alignTo(byte*, uint) of an offset in a chunk.
AlignPos(c, offset, a) == LET t == c.residue + offset + a - 1 IN t - (t % a) - c.residue

-----------------------------------------------------------------------------
(* allocateBytes()                                                         *)

\* Mutant of Fits: the padding is forgotten.
FitsUnpadded(c, amount, a) == amount <= c.size - c.pos

\* The sum is a size_t, and so is the difference it is compared with.
Fits(c, amount, a) ==
    (amount + (AlignPos(c, c.pos, a) - c.pos)) % SizeRange <= c.size - c.pos

\* nextChunkSize *= 2 until the amount fits.
Doubled(amount) ==
    LET grow[n \in 1 .. SizeRange] == IF n < amount THEN grow[2 * n] ELSE n
    IN  grow[nextChunkSize]

\* allocateBytesInternal(): where the bytes are and the chunks afterwards.
InCurrentChunk(amount, a) ==
    LET c == chunks[Len(chunks)]
        at == AlignPos(c, c.pos, a)
    IN  [from |-> at, chunks |-> [chunks EXCEPT ![Len(chunks)].pos = at + amount],
         list |-> chunkList, next |-> nextChunkSize]

InNewChunk(amount, a, residue) ==
    LET align == Larger(a, PointerSize)
        total == (amount + AlignSize(ChunkHeader, align)) % SizeRange
        size == Doubled(total)
        c == [size |-> size, pos |-> total, residue |-> residue, ours |-> TRUE]
    IN  [from |-> AlignPos(c, ChunkHeader, align), chunks |-> Append(chunks, c),
         list |-> << Len(chunks) + 1 >> \o chunkList, next |-> (2 * size) % SizeRange]

\* allocateBytes(): header and alignment for an object with a destructor.
Amount(req) == LET bytes == req.size * Larger(req.elements, 1) IN
    IF ~req.managed THEN bytes
    ELSE bytes + AlignSize(ObjectHeader, Larger(req.align, PointerSize))
         + IF req.elements > 0 THEN Larger(req.align, PointerSize) ELSE 0

Alignment(req) == IF req.managed THEN Larger(req.align, PointerSize) ELSE req.align

Start(c, from, req) ==
    IF req.managed THEN AlignPos(c, from + ObjectHeader, Alignment(req)) ELSE from

Place(req, r) ==
    LET n == Len(r.chunks)  IN
    /\ nextChunkSize' = r.next /\ chunks' = r.chunks /\ chunkList' = r.list
    /\ blocks' = Append(blocks, [chunk |-> n, from |-> r.from, req |-> req,
                                 start |-> Start(r.chunks[n], r.from, req),
                                 to |-> r.from + Amount(req)])
    /\ count' = Append(count, 0)

\* An object is allocated in the program, or by a constructor that is running.
Allocates(req) == phase = "alive" /\ Len(blocks) < MaxObjects

HasRoom(req) ==
    Len(chunks) > 0 /\ Fits(chunks[Len(chunks)], Amount(req), Alignment(req))

\* setDestructor() of an array comes before its elements are made.
Register(req) ==
    objectList' = IF req.managed /\ req.elements > 0
                  THEN << Len(blocks) + 1 >> \o objectList ELSE objectList

Unchanged == UNCHANGED << phase, dying, thrown, built, destroyed >>

Allocate(req, residue) ==
    /\ Allocates(req)
    /\ IF HasRoom(req)
       THEN residue = 0 /\ Place(req, InCurrentChunk(Amount(req), Alignment(req)))
       ELSE LET r == InNewChunk(Amount(req), Alignment(req), residue)
            IN  Last(r.chunks).size <= Memory /\ Place(req, r)
    /\ frames' = Append(frames, Len(blocks) + 1)
    /\ Register(req) /\ Unchanged

\* operator new fails; the size of the next chunk has been doubled by then.
OutOfMemory(req) ==
    /\ Allocates(req) /\ ~HasRoom(req)
    /\ LET size == Last(InNewChunk(Amount(req), Alignment(req), 0).chunks).size
       IN  size > Memory /\ nextChunkSize' = size
    /\ UNCHANGED << chunks, chunkList, objectList, blocks, count, frames >> /\ Unchanged

-----------------------------------------------------------------------------
(* allocate() and allocateArray()                                          *)

Top == Last(frames)
Elements(id) == Larger(blocks[id].req.elements, 1)

\* A constructor has returned.  The last one ends the allocation; an object of its
\* own is registered now.
Constructed ==
    /\ phase = "alive" /\ frames # << >>
    /\ count' = [count EXCEPT ![Top] = @ + 1]
    /\ frames' = IF count'[Top] = Elements(Top) THEN Front(frames) ELSE frames
    /\ objectList' = IF blocks[Top].req.managed /\ blocks[Top].req.elements = 0
                     THEN << Top >> \o objectList ELSE objectList
    /\ built' = IF blocks[Top].req.managed THEN Append(built, << Top, count'[Top] >>) ELSE built
    /\ UNCHANGED << nextChunkSize, chunks, chunkList, blocks, phase, dying, thrown, destroyed >>

\* A constructor throws: the allocation fails, its memory stays used.
ConstructorThrows ==
    /\ phase = "alive" /\ frames # << >>
    /\ frames' = Front(frames)
    /\ UNCHANGED << nextChunkSize, chunks, chunkList, objectList, blocks, count >> /\ Unchanged

-----------------------------------------------------------------------------
(* ~Arena()                                                                *)

Destroy ==
    /\ phase = "alive" /\ frames = << >>
    /\ phase' = "cleanup"
    /\ UNCHANGED << nextChunkSize, chunks, chunkList, objectList, blocks, count, frames, dying,
                    thrown, built, destroyed >>

Cleaning == phase \in {"cleanup", "again"}

\* The object leaves the list before its destructor is called.
TakeObject ==
    /\ Cleaning /\ dying = 0 /\ objectList # << >>
    /\ ~(thrown /\ phase = "cleanup")
    /\ dying' = Head(objectList) /\ objectList' = Tail(objectList)
    /\ UNCHANGED << nextChunkSize, chunks, chunkList, blocks, count, frames, phase, thrown, built,
                    destroyed >>

\* One destructor; destroyArray() goes on with the other elements if one throws.
\* Destructors do not throw while an exception is on its way.
DestroyElement(throws) ==
    /\ dying # 0 /\ count[dying] > 0
    /\ throws => ~thrown
    /\ thrown' = (thrown \/ throws)
    /\ count' = [count EXCEPT ![dying] = @ - 1]
    /\ destroyed' = Append(destroyed, << dying, count[dying] >>)
    /\ UNCHANGED << nextChunkSize, chunks, chunkList, objectList, blocks, frames, phase, dying,
                    built >>

ObjectGone ==
    /\ dying # 0 /\ count[dying] = 0
    /\ dying' = 0
    /\ UNCHANGED << nextChunkSize, chunks, chunkList, objectList, blocks, count, frames, phase,
                    thrown, built, destroyed >>

\* The exception leaves cleanup(): KJ_ON_SCOPE_FAILURE calls it again.
CleanupThrows ==
    /\ phase = "cleanup" /\ thrown /\ dying = 0
    /\ phase' = "again"
    /\ UNCHANGED << nextChunkSize, chunks, chunkList, objectList, blocks, count, frames, dying,
                    thrown, built, destroyed >>

DeleteChunks ==
    /\ Cleaning /\ dying = 0 /\ objectList = << >>
    /\ ~(thrown /\ phase = "cleanup")
    /\ chunks' = [i \in DOMAIN chunks |->
                     [chunks[i] EXCEPT !.ours = @ /\ ~Contains(chunkList, i)]]
    /\ chunkList' = << >>
    /\ phase' = "gone"
    /\ UNCHANGED << nextChunkSize, objectList, blocks, count, frames, dying, thrown, built,
                    destroyed >>

-----------------------------------------------------------------------------
\* Arena(chunkSizeHint), or Arena(scratch), which puts a header into the scratch
\* space and never frees it.
Init ==
    /\ \/ \E hint \in Hints : nextChunkSize = Larger(ChunkHeader, hint) /\ chunks = << >>
       \/ \E scratch \in Scratches :
             /\ nextChunkSize = Larger(ChunkHeader, scratch.size)
             /\ chunks = IF scratch.size > ChunkHeader
                         THEN << [size |-> scratch.size, pos |-> ChunkHeader,
                                  residue |-> scratch.residue, ours |-> FALSE] >>
                         ELSE << >>
    /\ chunkList = << >> /\ objectList = << >> /\ blocks = << >> /\ count = << >>
    /\ frames = << >> /\ phase = "alive" /\ dying = 0 /\ thrown = FALSE
    /\ built = << >> /\ destroyed = << >>

Next ==
    \/ \E req \in Allocations :
          OutOfMemory(req) \/ \E residue \in {0, NewAlign} : Allocate(req, residue)
    \/ Constructed \/ ConstructorThrows
    \/ Destroy \/ TakeObject \/ ObjectGone \/ CleanupThrows \/ DeleteChunks
    \/ \E throws \in BOOLEAN : DestroyElement(throws)

Spec == Init /\ [][Next]_vars

-----------------------------------------------------------------------------
\* arena.cpp:111-122, 124-153: an allocation begins behind the header of its chunk
\* (and has its own header in front), ends inside the chunk, is aligned, and no
\* byte belongs to two allocations.  Alignments above NewAlign are not asked for.
Disjoint ==
    \A i \in DOMAIN blocks :
      LET b == blocks[i]
          c == chunks[b.chunk]
          bytes == b.req.size * Larger(b.req.elements, 1)
          prefix == IF b.req.managed /\ b.req.elements > 0
                    THEN Larger(b.req.align, PointerSize) ELSE 0
      IN  /\ ChunkHeader <= b.from /\ b.to <= c.pos /\ c.pos <= c.size
          /\ b.start + prefix + bytes <= b.to
          /\ (c.residue + b.start + prefix) % b.req.align = 0
          /\ b.req.managed => /\ b.start - ObjectHeader >= b.from
                              /\ (c.residue + b.start) % PointerSize = 0
          /\ \A j \in 1 .. i - 1 : blocks[j].chunk = b.chunk => blocks[j].to <= b.from

\* y is of an array whose construction x belongs to: setDestructor() puts the array on
\* the list before its elements are made (arena.h:167), so what their constructors
\* allocate from the arena is newer there than they are.
ArrayAround(y, x) == blocks[y[1]].req.elements > 0 /\ y[1] < x[1]

\* arena.h:58-60 and arena.cpp:46-67: whatever throws, and whichever constructor uses
\* the arena, each object that was completed is destroyed once, those of a constructor
\* that failed included, and before its memory goes; of two, the one completed later
\* goes first (as it may use the other), except that the elements of an array go after
\* what was allocated while they were made.  In the end nothing is left, and the
\* caller's scratch space was not deleted.
AllDestroyed ==
    /\ IsInjective(destroyed) /\ Range(destroyed) \subseteq Range(built)
    /\ \A k, m \in DOMAIN destroyed : k < m =>
          \A i, j \in DOMAIN built :
             i < j /\ built[i] = destroyed[k] /\ built[j] = destroyed[m]
             => ArrayAround(built[j], built[i])
    /\ phase = "gone" => /\ Range(destroyed) = Range(built)
                         /\ \A i \in DOMAIN chunks : ~chunks[i].ours
=============================================================================
