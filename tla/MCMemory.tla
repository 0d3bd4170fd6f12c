------------------------------ MODULE MCMemory ------------------------------
(***************************************************************************)
(* What owns memory within one thread, put together: a program with owned  *)
(* pointers and references (the module extended here), one with an arena,  *)
(* one with arrays and vectors, and one with OneOf and Maybe.  They do not *)
(* interact: "part" says which of them is running, so that their states    *)
(* add up instead of multiplying.  MCSequential adds what is not memory.   *)
(***************************************************************************)
EXTENDS Ownership

CONSTANTS
    PointerSize, SizeRange, NewAlign, Memory,
    Hints, Scratches, Allocations, MaxObjects,         \* see Arena
    Block, Null, FirstCapacity, MaxSize, MaxSerial,    \* see Arrays
    OneOfs, Maybes, Variants                           \* see Holder

\* nullptr is no block, and a vector that grows does so.
ASSUME ArraysAssumption ==
    /\ Null \notin Block
    /\ FirstCapacity \in Nat \ {0} /\ MaxSize \in Nat /\ MaxSerial \in Nat

\* A holder is one or the other.
ASSUME HolderAssumption == OneOfs \cap Maybes = {}

VARIABLES
    part,
    nextChunkSize, chunks, chunkList, objectList, blocks, count, frames, phase, dying, thrown,
    built, destroyed,
    store, owned, vec, arr, tmp, call, ending, failed, expect, spoiled, serial, misused,
    tag, space, broken, faulty

AR == INSTANCE Arena

AA == INSTANCE Arrays WITH dying <- ending, thrown <- failed

HO == INSTANCE Holder

\* Sizes and hints are values of a size_t, and neither a block nor what is asked for is
\* half as large as the address space.  Of two alignments, that of pointers included, one
\* divides the other, and none is larger than what operator new gives.
ASSUME ArenaAssumption ==
    /\ PointerSize \in Nat \ {0} /\ NewAlign \in Nat \ {0}
    /\ SizeRange \in Nat /\ AR!ChunkHeader < SizeRange
    /\ Memory \in Nat /\ 2 * Memory < SizeRange
    /\ Hints \subseteq 0 .. SizeRange - 1
    /\ Scratches \subseteq [size : 0 .. SizeRange - 1, residue : Nat]
    /\ Allocations \subseteq [size : Nat, align : Nat \ {0}, managed : BOOLEAN, elements : Nat]
    /\ \A req \in Allocations :
          /\ 2 * (AR!Amount(req) + AR!ChunkHeader + NewAlign) <= SizeRange
          /\ LET larger == AR!Larger(req.align, PointerSize)
             IN  /\ NewAlign % larger = 0
                 /\ larger % req.align = 0 /\ larger % PointerSize = 0

arena == << nextChunkSize, chunks, chunkList, objectList, blocks, count, frames, phase, dying,
            thrown, built, destroyed >>
arrays == << store, owned, vec, arr, tmp, call, ending, failed, expect, spoiled, serial, misused >>
holders == << tag, space, broken, faulty >>

memory == << part, ownership, arena, arrays, holders >>

MemoryInit ==
    /\ Init
    /\ AR!Init /\ (part # "arena" => nextChunkSize = AR!ChunkHeader)
    /\ AA!Init /\ HO!Init

MemoryNext ==
    /\ UNCHANGED part
    /\ IF part = "own" THEN Next ELSE UNCHANGED ownership
    /\ IF part = "arena" THEN AR!Next ELSE UNCHANGED arena
    /\ IF part = "arrays" THEN AA!Next ELSE UNCHANGED arrays
    /\ IF part = "holders" THEN HO!Next ELSE UNCHANGED holders

MemorySpec == MemoryInit /\ [][MemoryNext]_memory

-----------------------------------------------------------------------------
\* arena.cpp:46-153: see Disjoint and AllDestroyed in Arena.
ArenaIsSound == part = "arena" => AR!Disjoint /\ AR!AllDestroyed

\* array.h:56-57, 65-70, vector.h:33-37: see EachDestroyedOnce and KeepsContent in
\* Arrays.
ElementsAreKept == part = "arrays" => AA!EachDestroyedOnce /\ AA!KeepsContent

\* common.h:666-679 and one-of.h:105-128: see TagTellsTheValue in Holder.
TagTellsTheValue == part = "holders" => HO!TagTellsTheValue
=============================================================================
