------------------------------ MODULE MCEffects ------------------------------
(***************************************************************************)
(* Beside what owns memory (the module extended here), what one thread     *)
(* does to the outside and what can go wrong with it: a program that       *)
(* throws and catches, and two that copy from one stream to another.       *)
(***************************************************************************)
EXTENDS MCMemory

CONSTANTS
    MaxDepth, MaxFaults,                           \* see Exceptions
    FileSize, InputSize, OutputSize, MaxRequest,   \* see StreamCopy
    SourceSize, TargetSize                         \* the arrays of PlainStreams

\* A stream buffer that can be filled has room for a byte.
ASSUME StreamsAssumption ==
    /\ FileSize \in Nat /\ InputSize \in Nat \ {0} /\ OutputSize \in Nat
    /\ SourceSize \in Nat /\ TargetSize \in Nat
    /\ MaxRequest \in Nat

VARIABLES
    stack, callback, uncaught, unwinding, dead, told, faults, misjudged,
    inner, inBuffer, from, to, consumed, last, file, outBuffer, fill, written, status, unwritten,
    due,
    pos, array, fillPos, pending, skipped, sent, state

EX == INSTANCE Exceptions

SC == INSTANCE StreamCopy WITH pending <- unwritten

PS == INSTANCE PlainStreams WITH InputSize <- SourceSize, OutputSize <- TargetSize

exceptions == << stack, callback, uncaught, unwinding, dead, told, faults, misjudged >>
buffered == << inner, inBuffer, from, to, consumed, last, file, outBuffer, fill, written, status,
               unwritten, due >>
plain == << pos, array, fillPos, pending, skipped, sent, state >>

EffectsInit == MemoryInit /\ EX!Init /\ SC!Init /\ PS!Init

EffectsNext ==
    /\ MemoryNext
    /\ IF part = "exceptions" THEN EX!Next ELSE UNCHANGED exceptions
    /\ IF part = "buffers" THEN SC!Next ELSE UNCHANGED buffered
    /\ IF part = "plain streams" THEN PS!Next ELSE UNCHANGED plain

EffectsSpec == EffectsInit /\ [][EffectsNext]_<< memory, exceptions, buffered, plain >>

-----------------------------------------------------------------------------
\* exception.h:109-112, 141-145, 209-217: see CallbacksFollowTheStack and DestructorsSurvive in
\* Exceptions.
ExceptionsAreTold ==
    part = "exceptions" => EX!CallbacksFollowTheStack /\ EX!DestructorsSurvive

\* io.cpp:77-184: see CopiedInOrder, Complete and ShortAtEnd in StreamCopy, Contiguous
\* in PlainStreams.
CopiedInOrder ==
    /\ part = "buffers" => SC!TypeOK /\ SC!CopiedInOrder /\ SC!Complete /\ SC!ShortAtEnd
    /\ part = "plain streams" => PS!Contiguous
=============================================================================
