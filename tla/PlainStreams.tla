---------------------------- MODULE PlainStreams ----------------------------
(***************************************************************************)
(* The streams without a buffer of their own (io.h, io.cpp): a program     *)
(* that copies from an ArrayInputStream to an ArrayOutputStream, through   *)
(* memory of its own or straight from one array into the other, and then   *)
(* sends what it has got to a FdOutputStream in pieces.                    *)
(*                                                                         *)
(* The bytes of the input are the numbers 1, 2, ..., so that a byte that   *)
(* is lost, repeated or out of place shows.  An operation is one step.     *)
(***************************************************************************)
EXTENDS Naturals, SequencesExt

CONSTANTS
    InputSize,       \* the size of the array that is read
    OutputSize,      \* the size of the array that is written
    MaxRequest       \* bound: of one read or skip

VARIABLES
    pos,             \* how much of ArrayInputStream::array was sliced off
    array, fillPos,  \* of the ArrayOutputStream; 0 is a byte that was never set
    pending,         \* the bytes that the program has read and not written
    skipped,         \* history: where the copy begins
    sent,            \* what WriteFile (external) was given
    state            \* "copying"; "sent", or what threw

plain == << pos, array, fillPos, pending, skipped, sent, state >>

Input == [i \in 1 .. InputSize |-> i]
Bytes(n) == SubSeq(Input, pos + 1, pos + n)
Lesser(a, b) == IF a <= b THEN a ELSE b

Ready == state = "copying" /\ pending = << >>

\* tryRead gives what there is up to the maximum; read throws if that is below the
\* minimum, with what there was read all the same.
Read(min, max) ==
    LET n == Lesser(max, InputSize - pos) IN
    /\ Ready
    /\ pending' = Bytes(n)
    /\ pos' = pos + n
    /\ state' = IF n < min THEN "premature" ELSE "copying"
    /\ UNCHANGED << array, fillPos, skipped, sent >>

\* skip of more than there is throws, and skips nothing.
Skip(n) ==
    /\ Ready /\ fillPos = 0
    /\ pos' = (IF n <= InputSize - pos THEN pos + n ELSE pos)
    /\ skipped' = pos'
    /\ state' = IF n <= InputSize - pos THEN "copying" ELSE "premature"
    /\ UNCHANGED << array, fillPos, pending, sent >>

-----------------------------------------------------------------------------
Room == OutputSize - fillPos

Filled(bytes) ==
    /\ array' = SubSeq(array, 1, fillPos) \o bytes \o SubSeq(array, fillPos + Len(bytes) + 1, OutputSize)
    /\ fillPos' = fillPos + Len(bytes)

\* tryRead into getWriteBuffer(), and write() of that: nothing is copied.
ReadInPlace(n) ==
    LET k == Lesser(n, InputSize - pos) IN
    /\ Ready /\ n <= Room
    /\ Filled(Bytes(k))
    /\ pos' = pos + k
    /\ UNCHANGED << pending, skipped, sent, state >>

\* write() of bytes from elsewhere, whole or not at all.
Write(n) ==
    /\ state = "copying" /\ n \in 1 .. Len(pending)
    /\ IF n <= Room
       THEN /\ Filled(SubSeq(pending, 1, n))
            /\ pending' = SubSeq(pending, n + 1, Len(pending))
            /\ UNCHANGED state
       ELSE state' = "too small" /\ UNCHANGED << array, fillPos, pending >>
    /\ UNCHANGED << pos, skipped, sent >>

\* getReadBuffer(), which throws if there is nothing; write() of n bytes of it, and skip().
WriteLooked(n) ==
    /\ Ready /\ n \in 0 .. InputSize - pos
    /\ IF pos < InputSize /\ n <= Room
       THEN Filled(Bytes(n)) /\ pos' = pos + n /\ UNCHANGED state
       ELSE /\ state' = IF pos = InputSize THEN "premature" ELSE "too small"
            /\ UNCHANGED << array, fillPos, pos >>
    /\ UNCHANGED << pending, skipped, sent >>

\* OutputStream::write(pieces): one after the other; the first that does not fit throws.
WritePieces(n) ==
    /\ state = "copying" /\ n \in 0 .. Len(pending)
    /\ LET fit == IF Len(pending) <= Room THEN Len(pending) ELSE IF n <= Room THEN n ELSE 0
       IN  /\ Filled(SubSeq(pending, 1, fit))
           /\ pending' = SubSeq(pending, fit + 1, Len(pending))
           /\ state' = IF Len(pending) <= Room THEN "copying" ELSE "too small"
    /\ UNCHANGED << pos, skipped, sent >>

-----------------------------------------------------------------------------
GetArray == SubSeq(array, 1, fillPos)

\* What WriteFile writes of pieces when each call succeeds: all, or less, of each.
Written(pieces) ==
    {FlattenSeq([i \in DOMAIN pieces |-> SubSeq(pieces[i], 1, k[i])]) :
        k \in {k \in [DOMAIN pieces -> 1 .. OutputSize] :
                  \A i \in DOMAIN pieces : k[i] <= Len(pieces[i])}}

\* FdOutputStream::write(pieces): one call of WriteFile for each, which throws if it
\* fails or if it has written nothing.
Send(n) ==
    LET pieces == << SubSeq(GetArray, 1, n), SubSeq(GetArray, n + 1, fillPos) >> IN
    /\ Ready /\ n \in 0 .. fillPos
    /\ \/ state' = "sent" /\ sent' \in Written(pieces)
       \/ /\ state' = "not sent"
          /\ \E i \in DOMAIN pieces : sent' \in Written(SubSeq(pieces, 1, i - 1))
    /\ UNCHANGED << pos, array, fillPos, pending, skipped >>

Init ==
    /\ pos = 0 /\ fillPos = 0 /\ skipped = 0
    /\ array = [i \in 1 .. OutputSize |-> 0]
    /\ pending = << >> /\ sent = << >>
    /\ state = "copying"

Next ==
    \/ \E min, max \in 0 .. MaxRequest : min <= max /\ Read(min, max)
    \/ \E n \in 0 .. MaxRequest :
         Skip(n) \/ ReadInPlace(n) \/ Write(n) \/ WriteLooked(n) \/ WritePieces(n)
    \/ \E n \in 0 .. OutputSize : Send(n)

Spec == Init /\ [][Next]_plain

-----------------------------------------------------------------------------
\* io.h:94-97, 112-115: whichever way the bytes go, in place or by way of a copy, and
\* whatever throws, what the array holds and what was read after it are one piece of
\* the input, in order, which ends where the input was read to; and what is sent is
\* taken from its pieces.
Contiguous ==
    /\ GetArray \o pending = SubSeq(Input, skipped + 1, pos)
    /\ \A i, j \in DOMAIN sent : i < j => sent[i] < sent[j]

\* io.h:80-82: write(pieces) is equivalent to writing each in sequence.
EverythingSent == state = "sent" => sent = GetArray
=============================================================================
