----------------------------- MODULE InputBuffer -----------------------------
(***************************************************************************)
(* BufferedInputStreamWrapper over FdInputStream (io.cpp): reads of any    *)
(* minimum and maximum, skips and looks into the buffer, over a file of    *)
(* which ReadFile (external) gives at least one byte at a time, and none   *)
(* at the end only.                                                        *)
(*                                                                         *)
(* The bytes of the file are the numbers 1, 2, ..., FileSize, so that a    *)
(* byte out of place shows.  One thread uses the stream: an operation is   *)
(* one step.                                                               *)
(***************************************************************************)
EXTENDS Naturals, Sequences

CONSTANTS
    FileSize,
    BufferSize,      \* 8192 unless the user gives a buffer
    MaxRequest       \* bound: of one read or skip

VARIABLES
    inner,           \* how many bytes FdInputStream has read
    buffer,          \* the bytes in the buffer; 0 is a byte never set
    from, to,        \* bufferAvailable, as the slice after "from" up to "to"
    consumed,        \* how many bytes the user has read or skipped
    last             \* what the last operation gave

vars == << inner, buffer, from, to, consumed, last >>

File == [i \in 1 .. FileSize |-> i]

Least(a, b) == IF a <= b THEN a ELSE b

Available == SubSeq(buffer, from + 1, to)

Requests == 0 .. MaxRequest

NoOp == [op |-> "none", min |-> 0, bytes |-> << >>, threw |-> FALSE]

-----------------------------------------------------------------------------
(* FdInputStream.                                                          *)

\* How many bytes FdInputStream::tryRead may read: ReadFile is called until
\* there are enough or none are left.
TryReads(min, max) ==
    LET rest == FileSize - inner
    IN  IF min = 0 THEN {0}
        ELSE IF rest < min THEN {rest}
        ELSE min .. Least(max, rest)

Coming(n) == SubSeq(File, inner + 1, inner + n)

\* n bytes are read to the start of the buffer.
IntoBuffer(n) == Coming(n) \o SubSeq(buffer, n + 1, BufferSize)

\* InputStream::read throws if it gets less than the minimum: the bytes are
\* read all the same.
Premature(min) == FileSize - inner < min

-----------------------------------------------------------------------------
(* BufferedInputStreamWrapper.                                             *)

Give(op, min, bytes) ==
    /\ last' = [op |-> op, min |-> min, bytes |-> bytes, threw |-> FALSE]
    /\ consumed' = consumed + Len(bytes)

Throw(op, min) ==
    /\ last' = [op |-> op, min |-> min, bytes |-> << >>, threw |-> TRUE]
    /\ UNCHANGED consumed

\* tryGetReadBuffer: the user looks at the bytes without taking any.
TryGetReadBuffer ==
    /\ IF from = to
       THEN \E n \in TryReads(1, BufferSize) :
               /\ buffer' = IntoBuffer(n)
               /\ inner' = inner + n
               /\ from' = 0 /\ to' = n
       ELSE UNCHANGED << inner, buffer, from, to >>
    /\ last' = [op |-> "look", min |-> 1, bytes |-> SubSeq(buffer', from' + 1, to'),
                threw |-> FALSE]
    /\ UNCHANGED consumed

\* tryRead, when the buffer has enough.
ReadBuffered(min, max) ==
    /\ min <= to - from
    /\ LET n == Least(to - from, max)
       IN  Give("read", min, SubSeq(buffer, from + 1, from + n)) /\ from' = from + n
    /\ UNCHANGED << inner, buffer, to >>

\* Mutant of ReadThrough: what is given of the second buffer stays in it.
ReadThroughAll(min, max) ==
    LET first == to - from
    IN  /\ min > first /\ max - first <= BufferSize
        /\ ~Premature(min - first)
        /\ \E n \in TryReads(min - first, BufferSize) :
              /\ Give("read", min, Available \o Coming(Least(n, max - first)))
              /\ buffer' = IntoBuffer(n)
              /\ inner' = inner + n
              /\ from' = 0 /\ to' = n

\* tryRead, when another buffer-full is needed.
ReadThrough(min, max) ==
    LET first == to - from
    IN  /\ min > first /\ max - first <= BufferSize
        /\ \E n \in TryReads(min - first, BufferSize) :
              /\ buffer' = IntoBuffer(n)
              /\ inner' = inner + n
              /\ IF n < min - first
                 THEN Throw("read", min) /\ UNCHANGED << from, to >>
                 ELSE LET second == Least(n, max - first)
                      IN  /\ Give("read", min, Available \o Coming(second))
                          /\ from' = second /\ to' = n

\* tryRead, when the rest is more than a buffer-full: it is read to its place.
ReadLarge(min, max) ==
    LET first == to - from
    IN  /\ min > first /\ max - first > BufferSize
        /\ \E n \in TryReads(min - first, max - first) :
              /\ inner' = inner + n
              /\ from' = 0 /\ to' = 0
              /\ IF n < min - first
                 THEN Throw("read", min)
                 ELSE Give("read", min, Available \o Coming(n))
        /\ UNCHANGED buffer

TryRead(min, max) == ReadBuffered(min, max) \/ ReadThrough(min, max) \/ ReadLarge(min, max)

\* skip, in the same three cases; InputStream::skip reads exactly as much.
SkipBuffered(n) ==
    /\ n <= to - from
    /\ Give("skip", n, SubSeq(buffer, from + 1, from + n))
    /\ from' = from + n
    /\ UNCHANGED << inner, buffer, to >>

SkipThrough(n) ==
    LET more == n - (to - from)
    IN  /\ n > to - from /\ more <= BufferSize
        /\ \E k \in TryReads(more, BufferSize) :
              /\ buffer' = IntoBuffer(k)
              /\ inner' = inner + k
              /\ IF k < more
                 THEN Throw("skip", n) /\ UNCHANGED << from, to >>
                 ELSE Give("skip", n, Available \o Coming(more)) /\ from' = more /\ to' = k

SkipLarge(n) ==
    LET more == n - (to - from)
    IN  /\ n > to - from /\ more > BufferSize
        /\ from' = 0 /\ to' = 0
        /\ inner' = inner + Least(more, FileSize - inner)
        /\ IF Premature(more) THEN Throw("skip", n) ELSE Give("skip", n, Available \o Coming(more))
        /\ UNCHANGED buffer

Skip(n) == SkipBuffered(n) \/ SkipThrough(n) \/ SkipLarge(n)

-----------------------------------------------------------------------------
Init ==
    /\ inner = 0
    /\ buffer = [i \in 1 .. BufferSize |-> 0]
    /\ from = 0 /\ to = 0
    /\ consumed = 0
    /\ last = NoOp

\* The user gives up the stream when it throws.
Next ==
    /\ ~last.threw
    /\ \/ TryGetReadBuffer
       \/ \E min, max \in Requests : min <= max /\ TryRead(min, max)
       \/ \E n \in Requests : Skip(n)

Spec == Init /\ [][Next]_vars

-----------------------------------------------------------------------------
\* The types; and what was read of the file is consumed or in the buffer.
TypeOK ==
    /\ inner \in 0 .. FileSize
    /\ buffer \in [1 .. BufferSize -> 0 .. FileSize]
    /\ from \in 0 .. to /\ to \in 0 .. BufferSize
    /\ consumed \in 0 .. FileSize
    /\ ~last.threw => consumed + (to - from) = inner

\* io.h:51-59: less than the minimum is given at the end of the file only, and
\* an exception is thrown only if that is not met before it.
ShortAtEnd ==
    Len(last.bytes) < last.min =>
        /\ inner = FileSize
        /\ consumed + last.min > FileSize

\* io.h:61-62: tryRead() may return fewer than minBytes at the end of the file.
TryReadReturns == last.op = "read" => ~last.threw
=============================================================================
