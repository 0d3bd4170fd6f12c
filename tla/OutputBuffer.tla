---------------------------- MODULE OutputBuffer ----------------------------
(***************************************************************************)
(* BufferedOutputStreamWrapper over FdOutputStream (io.cpp), over a file   *)
(* whose WriteFile (external) may write less than it is asked to, but at   *)
(* least one byte, and may fail.                                           *)
(*                                                                         *)
(* The actions take the bytes that the user writes.  One thread uses the   *)
(* stream: an operation is one step.                                       *)
(***************************************************************************)
EXTENDS Naturals, Sequences

CONSTANTS
    Byte,            \* the bytes that a user writes
    BufferSize       \* 8192 unless the user gives a buffer

VARIABLES
    file,            \* what WriteFile has written
    buffer,          \* the bytes in the buffer; 0 is a byte never set
    fill,            \* bufferPos - buffer.begin()
    written,         \* the bytes of the writes that have returned
    status           \* how the last operation ended

vars == << file, buffer, fill, written, status >>

\* "failed": WriteFile failed and the exception came out; the last two are final.
Statuses == {"open", "failed", "destroyed", "destroyed after failure"}

Filled == SubSeq(buffer, 1, fill)

\* The buffer with the bytes copied in behind the first n.
CopiedAfter(n, bytes) ==
    SubSeq(buffer, 1, n) \o bytes \o SubSeq(buffer, n + Len(bytes) + 1, BufferSize)

\* What is written of the bytes when WriteFile fails before the last.
Parts(bytes) == {SubSeq(bytes, 1, k) : k \in 0 .. (Len(bytes) - 1)}

-----------------------------------------------------------------------------
(* FdOutputStream::write writes everything, piece by piece, or throws when *)
(* WriteFile fails on the way.                                             *)

FdWrites(bytes) == file' = file \o bytes

FdFails(bytes) ==
    /\ \E part \in Parts(bytes) : file' = file \o part
    /\ status' = "failed"

-----------------------------------------------------------------------------
(* BufferedOutputStreamWrapper.                                            *)

\* write() of a prefix of getWriteBuffer(), which the user has filled in, or from
\* elsewhere when there is room.
WriteFits(bytes) ==
    /\ Len(bytes) <= BufferSize - fill
    /\ buffer' = CopiedAfter(fill, bytes)
    /\ fill' = fill + Len(bytes)
    /\ written' = written \o bytes
    /\ UNCHANGED << file, status >>

\* write() of at most a buffer-full: the buffer is filled up and written, and the
\* rest goes to its start.
WriteMedium(bytes) ==
    LET room == BufferSize - fill
        full == Filled \o SubSeq(bytes, 1, room)
        rest == SubSeq(bytes, room + 1, Len(bytes))
    IN  /\ Len(bytes) > room /\ Len(bytes) <= BufferSize
        /\ \/ /\ FdWrites(full)
              /\ buffer' = rest \o SubSeq(full, Len(rest) + 1, BufferSize)
              /\ fill' = Len(rest)
              /\ written' = written \o bytes
              /\ UNCHANGED status
           \/ /\ FdFails(full)
              /\ buffer' = full
              /\ UNCHANGED << fill, written >>

\* write() of more than that: the buffer is written, then the bytes directly.
WriteLarge(bytes) ==
    /\ Len(bytes) > BufferSize
    /\ \/ FdWrites(Filled \o bytes) /\ fill' = 0 /\ written' = written \o bytes
          /\ UNCHANGED status
       \/ FdFails(Filled) /\ UNCHANGED << fill, written >>
       \/ /\ \E part \in Parts(bytes) : FdWrites(Filled \o part)
          /\ status' = "failed"
          /\ fill' = 0
          /\ UNCHANGED written
    /\ UNCHANGED buffer

Write(bytes) == WriteFits(bytes) \/ WriteMedium(bytes) \/ WriteLarge(bytes)

Flush ==
    /\ \/ FdWrites(Filled) /\ fill' = 0 /\ UNCHANGED status
       \/ FdFails(Filled) /\ UNCHANGED fill
    /\ UNCHANGED << buffer, written >>

\* ~BufferedOutputStreamWrapper flushes, whatever happened before; an exception
\* leaves it unless another one is under way.
Destroy ==
    /\ \/ /\ FdWrites(Filled)
          /\ status' = IF status = "open" THEN "destroyed" ELSE "destroyed after failure"
       \/ /\ \E part \in Parts(Filled) : file' = file \o part
          /\ status' = "destroyed after failure"
    /\ fill' = 0
    /\ UNCHANGED << buffer, written >>

-----------------------------------------------------------------------------
Init ==
    /\ file = << >>
    /\ buffer = [i \in 1 .. BufferSize |-> 0]
    /\ fill = 0
    /\ written = << >>
    /\ status = "open"

TypeOK ==
    /\ file \in Seq(Byte)
    /\ buffer \in [1 .. BufferSize -> Byte \cup {0}]
    /\ fill \in 0 .. BufferSize
    /\ written \in Seq(Byte)
    /\ status \in Statuses
=============================================================================
