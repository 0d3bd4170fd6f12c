----------------------------- MODULE StreamCopy -----------------------------
(***************************************************************************)
(* A program that copies a file from a buffered input stream to a buffered *)
(* output stream (io.h), after skipping a part of it: by reading into      *)
(* memory of its own and writing that in pieces, or by writing what it     *)
(* finds in the input's buffer and skipping it then.                       *)
(*                                                                         *)
(* The bytes of the file are the numbers 1, 2, ..., so that a byte that is *)
(* lost, repeated or out of place shows.                                   *)
(***************************************************************************)
EXTENDS Naturals, SequencesExt

CONSTANTS
    FileSize,        \* bound: of the input file
    InputSize,       \* the size of the input buffer
    OutputSize,      \* the size of the output buffer
    MaxRequest       \* bound: of one read or skip

VARIABLES
    inner, inBuffer, from, to, consumed, last,       \* see InputBuffer
    file, outBuffer, fill, written, status,          \* see OutputBuffer
    pending,         \* the bytes that were read and not yet written
    due              \* how many bytes were written and not yet skipped

input == << inner, inBuffer, from, to, consumed, last >>
output == << file, outBuffer, fill, written, status >>
vars == << input, output, pending, due >>

In == INSTANCE InputBuffer WITH BufferSize <- InputSize, buffer <- inBuffer
Out == INSTANCE OutputBuffer WITH
          Byte <- 1 .. FileSize, BufferSize <- OutputSize, buffer <- outBuffer

Working == status = "open" /\ ~last.threw

Idle == Working /\ pending = << >> /\ due = 0

-----------------------------------------------------------------------------
Look ==
    /\ Idle
    /\ In!TryGetReadBuffer
    /\ UNCHANGED << output, pending, due >>

\* The part that is not copied comes first.
Skip ==
    /\ Idle
    /\ written = << >>
    /\ \E n \in In!Requests : In!Skip(n)
    /\ UNCHANGED << output, pending, due >>

Read ==
    /\ Idle
    /\ \E min, max \in In!Requests : min <= max /\ In!TryRead(min, max)
    /\ pending' = last'.bytes
    /\ UNCHANGED << output, due >>

WritePending ==
    /\ Working /\ pending # << >>
    /\ \E n \in 0 .. Len(pending) :
          /\ Out!Write(SubSeq(pending, 1, n))
          /\ pending' = IF status' = "open" THEN SubSeq(pending, n + 1, Len(pending))
                        ELSE pending
    /\ UNCHANGED << input, due >>

WriteLooked ==
    /\ Idle /\ last.op = "look"
    /\ \E n \in 1 .. Len(last.bytes) :
          /\ Out!Write(SubSeq(last.bytes, 1, n))
          /\ due' = IF status' = "open" THEN n ELSE 0
    /\ UNCHANGED << input, pending >>

SkipLooked ==
    /\ Working /\ due > 0
    /\ In!Skip(due)
    /\ due' = 0
    /\ UNCHANGED << output, pending >>

Flush ==
    /\ Working
    /\ Out!Flush
    /\ UNCHANGED << input, pending, due >>

\* At the end, after an exception from either side, or at any time.
Destroy ==
    /\ status \in {"open", "failed"}
    /\ Out!Destroy
    /\ UNCHANGED << input, pending, due >>

-----------------------------------------------------------------------------
Init == In!Init /\ Out!Init /\ pending = << >> /\ due = 0

Next ==
    \/ Look \/ Skip \/ Read
    \/ WritePending \/ WriteLooked \/ SkipLooked
    \/ Flush \/ Destroy

Spec == Init /\ [][Next]_vars

-----------------------------------------------------------------------------
TypeOK ==
    /\ In!TypeOK /\ Out!TypeOK
    /\ pending \in Seq(1 .. FileSize)
    /\ due \in 0 .. InputSize

\* Whatever the sizes of reads, looks, skips and writes, and wherever ReadFile and
\* WriteFile stop, the bytes in the output file, in the output buffer behind it
\* and still to be written are one piece of the input file, in order and once,
\* and the piece ends where the input stream has been read to.
CopiedInOrder ==
    LET bytes == file \o Out!Filled \o pending
        end == consumed + due
    IN  status = "open" => bytes = SubSeq(In!File, end + 1 - Len(bytes), end)

\* An output stream that is destroyed has written everything; and if WriteFile
\* fails in the middle of an operation, what is in the file is a beginning of what
\* the user wrote.
Complete ==
    LET tried == written \o pending \o (IF last.op = "look" THEN last.bytes ELSE << >>)
    IN  /\ status = "destroyed" => file = written
        /\ status = "failed" => IsPrefix(file, tried)

\* io.h:51-59: fewer bytes than the minimum are given at the end of the file only,
\* and an exception is thrown only if the minimum is not met before it.
ShortAtEnd == In!ShortAtEnd
=============================================================================
