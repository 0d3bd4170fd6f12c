---------------------------- MODULE EffectsProofs ----------------------------
(***************************************************************************)
(* What one thread does to the outside, and what can go wrong with it, for *)
(* any file, buffers, requests, arrays and depth of the stack.             *)
(*                                                                         *)
(* Streams: the bytes of a file are 1, 2, ..., so that whatever a stream   *)
(* holds of it is a run of consecutive numbers.  The proof follows the     *)
(* runs: the bytes behind the buffer's position, the bytes a read          *)
(* returned, those the copy has not written yet and those the other buffer *)
(* has not flushed yet stay neighbours in every step.                      *)
(*                                                                         *)
(* Exceptions: each frame remembers the newest callback below it and how   *)
(* many exceptions were in flight when it was entered (StackOK); of two    *)
(* neighbours these differ by what unwinding called between them.  Whom an *)
(* exception is told by the chain of callbacks, and by a recursive         *)
(* function along it, which exists since the chain leads outwards.         *)
(***************************************************************************)
EXTENDS MCEffects, SequenceTheorems, WellFoundedInduction, TLAPS

-----------------------------------------------------------------------------
(* Streams: pieces of the file, whose bytes are 1, 2, ..., are runs.       *)

\* s is the piece of the file that begins behind the first a bytes.
IsRun(s, a) == s \in Seq(Nat) /\ a \in Nat /\ \A i \in 1 .. Len(s) : s[i] = a + i

LEMMA EmptyRun == \A a \in Nat : IsRun(<< >>, a)
  BY DEF IsRun

LEMMA RunJoined ==
  ASSUME NEW s, NEW t, NEW a, IsRun(s, a), IsRun(t, a + Len(s))
  PROVE  IsRun(s \o t, a) /\ Len(s \o t) = Len(s) + Len(t)
<1>1. s \in Seq(Nat) /\ t \in Seq(Nat) /\ Len(s) \in Nat /\ Len(t) \in Nat /\ a \in Nat
  BY LenProperties DEF IsRun
<1>2. /\ s \o t \in Seq(Nat) /\ Len(s \o t) = Len(s) + Len(t)
      /\ \A i \in 1 .. Len(s) + Len(t) : (s \o t)[i] =
                     IF i <= Len(s) THEN s[i] ELSE t[i - Len(s)]
  BY <1>1, ConcatProperties
<1>3. \A i \in 1 .. Len(s) + Len(t) : (s \o t)[i] = a + i
  <2> TAKE i \in 1 .. Len(s) + Len(t)
  <2>1. CASE i <= Len(s)
    BY <2>1, <1>1, <1>2 DEF IsRun
  <2>2. CASE ~(i <= Len(s))
    <3>1. i - Len(s) \in 1 .. Len(t)
      BY <2>2, <1>1
    <3>2. t[i - Len(s)] = (a + Len(s)) + (i - Len(s))
      BY <3>1 DEF IsRun
    <3> QED  BY <3>2, <2>2, <1>1, <1>2
  <2> QED  BY <2>1, <2>2
<1> QED  BY <1>1, <1>2, <1>3 DEF IsRun

\* From the m-th to the n-th element.
LEMMA RunCut ==
  ASSUME NEW s, NEW a, IsRun(s, a), NEW m \in Nat \ {0}, NEW n \in Nat, n <= Len(s), m <= n + 1
  PROVE  IsRun(SubSeq(s, m, n), a + (m - 1)) /\ Len(SubSeq(s, m, n)) = n + 1 - m
<1>1. s \in Seq(Nat) /\ Len(s) \in Nat /\ a \in Nat /\ a + (m - 1) \in Nat
  BY LenProperties DEF IsRun
<1>2. \A i \in m .. n : s[i] \in Nat
  BY <1>1, ElementOfSeq
<1>3. /\ SubSeq(s,m,n) \in Seq(Nat)
      /\ Len(SubSeq(s,m,n)) = IF m<=n THEN n-m+1 ELSE 0
      /\ \A i \in 1 .. n-m+1 : SubSeq(s,m,n)[i] = s[m+i-1]
  BY <1>1, <1>2, SubSeqProperties
<1>4. Len(SubSeq(s, m, n)) = n + 1 - m
  BY <1>3
<1>5. \A i \in 1 .. n - m + 1 : SubSeq(s, m, n)[i] = (a + (m - 1)) + i
  <2> TAKE i \in 1 .. n - m + 1
  <2>1. m + i - 1 \in 1 .. Len(s)
    BY <1>1
  <2>2. s[m + i - 1] = a + (m + i - 1)
    BY <2>1 DEF IsRun
  <2> QED  BY <2>2, <1>3, <1>1
<1> QED  BY <1>1, <1>3, <1>4, <1>5 DEF IsRun

\* Runs from the same place are the same, as far as they go.
LEMMA RunsAgree ==
  ASSUME NEW s, NEW t, NEW a, IsRun(s, a), IsRun(t, a), Len(s) = Len(t)
  PROVE  s = t
<1>1. s \in Seq(Nat) /\ t \in Seq(Nat) /\ \A i \in 1 .. Len(s) : s[i] = t[i]
  BY DEF IsRun
<1> QED  BY <1>1, SeqEqual

\* A run that is made of two is two runs.
LEMMA RunParted ==
  ASSUME NEW s \in Seq(Nat), NEW t \in Seq(Nat), NEW a \in Nat, IsRun(s \o t, a)
  PROVE  IsRun(s, a) /\ IsRun(t, a + Len(s))
<1>1. /\ Len(s \o t) = Len(s) + Len(t) /\ Len(s) \in Nat /\ Len(t) \in Nat
      /\ \A i \in 1 .. Len(s) + Len(t) : (s \o t)[i] =
                     IF i <= Len(s) THEN s[i] ELSE t[i - Len(s)]
  BY ConcatProperties, LenProperties
<1>2. \A i \in 1 .. Len(s) : s[i] = a + i
  <2> TAKE i \in 1 .. Len(s)
  <2>1. i \in 1 .. Len(s) + Len(t) /\ i <= Len(s)
    BY <1>1
  <2>2. (s \o t)[i] = a + i
    BY <2>1, <1>1 DEF IsRun
  <2> QED  BY <2>1, <2>2, <1>1
<1>3. \A i \in 1 .. Len(t) : t[i] = (a + Len(s)) + i
  <2> TAKE i \in 1 .. Len(t)
  <2>1. i + Len(s) \in 1 .. Len(s) + Len(t) /\ ~(i + Len(s) <= Len(s)) /\ (i + Len(s)) - Len(s) = i
    BY <1>1
  <2>2. (s \o t)[i + Len(s)] = t[i]
    BY <2>1, <1>1
  <2>3. (s \o t)[i + Len(s)] = a + (i + Len(s))
    BY <2>1, <1>1 DEF IsRun
  <2> QED  BY <2>2, <2>3, <1>1
<1> QED  BY <1>1, <1>2, <1>3 DEF IsRun

\* A piece of a file is a run, and every run within the file is a piece of it.
LEMMA FileRun ==
  ASSUME NEW n \in Nat
  PROVE  IsRun([i \in 1 .. n |-> i], 0) /\ Len([i \in 1 .. n |-> i]) = n
  BY DEF IsRun

LEMMA RunOfFile ==
  ASSUME NEW n \in Nat, NEW s, NEW a, IsRun(s, a), NEW b \in Nat, b = a + Len(s), b <= n
  PROVE  s = SubSeq([i \in 1 .. n |-> i], b + 1 - Len(s), b)
<1> DEFINE F == [i \in 1 .. n |-> i]
<1>1. IsRun(F, 0) /\ Len(F) = n
  BY FileRun
<1>2. Len(s) \in Nat /\ a \in Nat
  BY LenProperties DEF IsRun
<1> HIDE DEF F
<1>3. b + 1 - Len(s) = a + 1 /\ a + 1 <= b + 1 /\ a + 1 \in Nat \ {0}
  BY <1>2
<1>4. IsRun(SubSeq(F, a + 1, b), 0 + ((a + 1) - 1)) /\ Len(SubSeq(F, a + 1, b)) = b + 1 - (a + 1)
  BY <1>1, <1>3, RunCut
<1>5. IsRun(SubSeq(F, a + 1, b), a) /\ Len(SubSeq(F, a + 1, b)) = Len(s)
  BY <1>4, <1>2
<1>6. SubSeq(F, a + 1, b) = s
  BY <1>5, RunsAgree
<1> QED  BY <1>6, <1>3 DEF F

LEMMA FunctionIsSeq ==
  ASSUME NEW n \in Nat, NEW S, NEW f \in [1 .. n -> S]
  PROVE  f \in Seq(S) /\ Len(f) = n
<1>1. f \in Seq(S)
  BY SeqDef
<1>2. DOMAIN f = 1 .. n /\ DOMAIN f = 1 .. Len(f) /\ Len(f) \in Nat
  BY <1>1, LenProperties
<1> QED  BY <1>1, <1>2

-----------------------------------------------------------------------------
(* BufferedInputStreamWrapper.                                             *)

InputTypes ==
    /\ inner \in 0 .. FileSize
    /\ inBuffer \in [1 .. InputSize -> 0 .. FileSize]
    /\ to \in 0 .. InputSize /\ from \in 0 .. to
    /\ consumed \in 0 .. FileSize
    /\ last.min \in Nat /\ last.threw \in BOOLEAN

\* Until an operation throws, the buffer has what comes in the file behind what the
\* user was given.
BufferIsNext ==
    /\ consumed + (to - from) = inner
    /\ \A i \in from + 1 .. to : inBuffer[i] = consumed + (i - from)

InputInv ==
    /\ InputTypes
    /\ ~last.threw => BufferIsNext
    /\ last.op = "look" => ~last.threw /\ last.bytes = SC!In!Available
    /\ SC!In!ShortAtEnd

LEMMA PieceRun ==
  ASSUME NEW b, NEW f \in Nat, NEW t \in Nat, f <= t, NEW a \in Nat,
         \A i \in f + 1 .. t : b[i] = a + (i - f)
  PROVE  IsRun(SubSeq(b, f + 1, t), a) /\ Len(SubSeq(b, f + 1, t)) = t - f
<1>1. \A i \in f + 1 .. t : b[i] \in Nat
  <2> TAKE i \in f + 1 .. t
  <2>1. i - f \in Nat
    OBVIOUS
  <2> QED  BY <2>1
<1>2. /\ SubSeq(b, f + 1, t) \in Seq(Nat)
      /\ Len(SubSeq(b, f + 1, t)) = IF f + 1 <= t THEN t - (f + 1) + 1 ELSE 0
      /\ \A i \in 1 .. t - (f + 1) + 1 : SubSeq(b, f + 1, t)[i] = b[f + 1 + i - 1]
  BY <1>1, SubSeqProperties
<1>3. \A i \in 1 .. t - f : SubSeq(b, f + 1, t)[i] = a + i
  <2> TAKE i \in 1 .. t - f
  <2>1. f + i \in f + 1 .. t /\ (f + i) - f = i /\ f + 1 + i - 1 = f + i /\ i \in 1 .. t - (f + 1) + 1
    OBVIOUS
  <2> QED  BY <2>1, <1>2
<1> QED  BY <1>2, <1>3 DEF IsRun

LEMMA AvailableRun ==
  ASSUME InputTypes, BufferIsNext
  PROVE  IsRun(SC!In!Available, consumed) /\ Len(SC!In!Available) = to - from
<1>1. to \in Nat /\ from \in Nat /\ from <= to /\ consumed \in Nat
  BY StreamsAssumption DEF InputTypes
<1> QED  BY <1>1, PieceRun DEF SC!In!Available, BufferIsNext

LEMMA ComingRun ==
  ASSUME InputTypes, NEW n \in Nat, inner + n <= FileSize
  PROVE  IsRun(SC!In!Coming(n), inner) /\ Len(SC!In!Coming(n)) = n
<1>1. inner \in Nat /\ FileSize \in Nat
  BY StreamsAssumption DEF InputTypes
<1>2. IsRun(SC!In!File, 0) /\ Len(SC!In!File) = FileSize
  BY <1>1, FileRun DEF SC!In!File
<1>3. /\ IsRun(SubSeq(SC!In!File, inner + 1, inner + n), 0 + ((inner + 1) - 1))
      /\ Len(SubSeq(SC!In!File, inner + 1, inner + n)) = (inner + n) + 1 - (inner + 1)
  <2>1. inner + 1 \in Nat \ {0} /\ inner + n \in Nat /\ inner + 1 <= (inner + n) + 1
    BY <1>1
  <2> QED  BY <2>1, <1>1, <1>2, RunCut
<1> QED  BY <1>1, <1>3 DEF SC!In!Coming

LEMMA IntoBufferFacts ==
  ASSUME InputTypes, NEW n \in Nat, inner + n <= FileSize, n <= InputSize
  PROVE  /\ SC!In!IntoBuffer(n) \in [1 .. InputSize -> 0 .. FileSize]
         /\ \A i \in 1 .. n : SC!In!IntoBuffer(n)[i] = inner + i
<1> DEFINE c == SC!In!Coming(n)
           d == SubSeq(inBuffer, n + 1, InputSize)
<1>1. inner \in Nat /\ FileSize \in Nat /\ InputSize \in Nat
  BY StreamsAssumption DEF InputTypes
<1>2. IsRun(c, inner) /\ Len(c) = n
  BY ComingRun
<1>3. c \in Seq(0 .. FileSize)
  <2>1. c \in [1 .. n -> 0 .. FileSize]
    <3>1. c \in [1 .. n -> Nat]
      BY <1>2, LenProperties DEF IsRun
    <3>2. \A i \in 1 .. n : c[i] \in 0 .. FileSize
      BY <1>1, <1>2 DEF IsRun
    <3> HIDE DEF c
    <3> QED  BY <3>1, <3>2
  <2> HIDE DEF c
  <2> QED  BY <2>1, FunctionIsSeq
<1>4. d \in Seq(0 .. FileSize) /\ Len(d) = InputSize - n
  <2>1. \A i \in n + 1 .. InputSize : inBuffer[i] \in 0 .. FileSize
    BY <1>1 DEF InputTypes
  <2>2. /\ d \in Seq(0 .. FileSize)
        /\ Len(d) = IF n + 1 <= InputSize THEN InputSize - (n + 1) + 1 ELSE 0
    BY <2>1, <1>1, SubSeqProperties
  <2> QED  BY <2>2, <1>1
<1> HIDE DEF c, d
<1>5. /\ c \o d \in Seq(0 .. FileSize) /\ Len(c \o d) = Len(c) + Len(d)
      /\ \A i \in 1 .. Len(c) + Len(d) : (c \o d)[i] = IF i <= Len(c) THEN c[i] ELSE d[i - Len(c)]
  BY <1>3, <1>4, ConcatProperties
<1>6. Len(c \o d) = InputSize
  BY <1>5, <1>4, <1>2, <1>1
<1>7. c \o d \in [1 .. InputSize -> 0 .. FileSize]
  BY <1>5, <1>6, LenProperties
<1>8. \A i \in 1 .. n : (c \o d)[i] = inner + i
  <2> TAKE i \in 1 .. n
  <2>1. i \in 1 .. Len(c) + Len(d) /\ i <= Len(c)
    BY <1>1, <1>2, <1>4
  <2> QED  BY <2>1, <1>5, <1>2 DEF IsRun
<1> QED  BY <1>7, <1>8 DEF c, d, SC!In!IntoBuffer

\* What FdInputStream::tryRead may read.
LEMMA TryReadsFacts ==
  ASSUME InputTypes, NEW min \in Nat, NEW max \in Nat, min <= max, NEW n \in SC!In!TryReads(min, max)
  PROVE  /\ n \in Nat /\ n <= max /\ inner + n <= FileSize
         /\ n < min => inner + n = FileSize
<1>1. inner \in Nat /\ FileSize \in Nat /\ inner <= FileSize
  BY StreamsAssumption DEF InputTypes
<1> QED  BY <1>1 DEF SC!In!TryReads, SC!In!Least

\* n bytes are read to the start of the buffer, of which the user is given k.
LEMMA Refilled ==
  ASSUME InputTypes, BufferIsNext,
         NEW n \in Nat, inner + n <= FileSize, n <= InputSize, NEW k \in 0 .. n,
         inBuffer' = SC!In!IntoBuffer(n), inner' = inner + n, from' = k, to' = n,
         consumed' = consumed + (to - from) + k,
         last'.min \in Nat, last'.threw \in BOOLEAN
  PROVE  InputTypes' /\ BufferIsNext'
<1>1. /\ inner \in Nat /\ FileSize \in Nat /\ InputSize \in Nat /\ consumed \in Nat
      /\ to - from \in Nat /\ consumed + (to - from) = inner
  BY StreamsAssumption DEF InputTypes, BufferIsNext
<1>2. /\ inBuffer' \in [1 .. InputSize -> 0 .. FileSize]
      /\ \A i \in 1 .. n : inBuffer'[i] = inner + i
  BY IntoBufferFacts
<1>3. consumed' = inner + k
  BY <1>1
<1>4. InputTypes'
  BY <1>1, <1>2, <1>3 DEF InputTypes
<1>5. \A i \in k + 1 .. n : inBuffer'[i] = (inner + k) + (i - k)
  <2> TAKE i \in k + 1 .. n
  <2>1. i \in 1 .. n /\ (inner + k) + (i - k) = inner + i
    BY <1>1
  <2> QED  BY <2>1, <1>2
<1>6. (inner + k) + (n - k) = inner + n
  BY <1>1
<1>7. BufferIsNext'
  BY <1>3, <1>5, <1>6 DEF BufferIsNext
<1> QED  BY <1>4, <1>7

\* The bytes that are given: what was in the buffer and k of those that come.
LEMMA GivenRun ==
  ASSUME InputTypes, BufferIsNext, NEW k \in Nat, inner + k <= FileSize
  PROVE  /\ IsRun(SC!In!Available \o SC!In!Coming(k), consumed)
         /\ Len(SC!In!Available \o SC!In!Coming(k)) = (to - from) + k
<1>1. IsRun(SC!In!Available, consumed) /\ Len(SC!In!Available) = to - from
  BY AvailableRun
<1>2. IsRun(SC!In!Coming(k), consumed + Len(SC!In!Available)) /\ Len(SC!In!Coming(k)) = k
  BY <1>1, ComingRun DEF BufferIsNext
<1> QED  BY <1>1, <1>2, RunJoined

\* How an operation ends.
OperationEnds ==
    \/ last'.threw /\ last'.bytes = << >> /\ UNCHANGED consumed
    \/ /\ ~last'.threw
       /\ IsRun(last'.bytes, consumed) /\ consumed' = consumed + Len(last'.bytes)

LEMMA InputLooks ==
  ASSUME InputInv, ~last.threw, SC!In!TryGetReadBuffer
  PROVE  InputInv' /\ UNCHANGED consumed /\ ~last'.threw
<1>1. InputTypes /\ BufferIsNext
  BY DEF InputInv
<1>2. /\ inner \in Nat /\ FileSize \in Nat /\ InputSize \in Nat \ {0} /\ consumed \in Nat
      /\ to \in Nat /\ from \in Nat /\ from <= to
  BY <1>1, StreamsAssumption DEF InputTypes
<1>3. /\ last' = [op |-> "look", min |-> 1, bytes |-> SubSeq(inBuffer', from' + 1, to'),
                  threw |-> FALSE]
      /\ consumed' = consumed
  BY DEF SC!In!TryGetReadBuffer
<1>4. last'.op = "look" /\ last'.min = 1 /\ last'.threw = FALSE /\ last'.bytes = SC!In!Available'
  BY <1>3 DEF SC!In!Available
<1>5. last'.min \in Nat /\ last'.threw \in BOOLEAN
  <2>1. 1 \in Nat /\ FALSE \in BOOLEAN
    OBVIOUS
  <2> QED  BY <2>1, <1>4, Zenon
<1>6. CASE from = to
  <2>1. PICK n \in SC!In!TryReads(1, InputSize) :
           /\ inBuffer' = SC!In!IntoBuffer(n) /\ inner' = inner + n
           /\ from' = 0 /\ to' = n
    BY <1>6 DEF SC!In!TryGetReadBuffer
  <2>2. /\ n \in Nat /\ n <= InputSize /\ inner + n <= FileSize
        /\ n < 1 => inner + n = FileSize
    <3>1. 1 \in Nat /\ 1 <= InputSize /\ InputSize \in Nat
      BY <1>2
    <3> QED  BY <3>1, <1>1, TryReadsFacts
  <2>3. 0 \in 0 .. n /\ consumed = consumed + (to - from) + 0 /\ consumed = inner
    BY <2>2, <1>1, <1>2, <1>6 DEF BufferIsNext
  <2>4. consumed' = consumed + (to - from) + 0
    BY <1>3, <2>3, Zenon
  <2>5. InputTypes' /\ BufferIsNext'
    BY <1>1, <1>5, <2>1, <2>2, <2>3, <2>4, Refilled, Zenon
  <2>6. Len(last'.bytes) = n
    <3>1. last'.bytes = SubSeq(SC!In!IntoBuffer(n), 0 + 1, n)
      BY <1>3, <2>1
    <3>2. \A i \in 0 + 1 .. n : SC!In!IntoBuffer(n)[i] = inner + (i - 0)
      BY <1>1, <2>2, IntoBufferFacts
    <3>3. Len(SubSeq(SC!In!IntoBuffer(n), 0 + 1, n)) = n - 0
      BY <3>2, <2>2, <1>2, PieceRun
    <3> QED  BY <3>1, <3>3, <2>2
  <2>7. SC!In!ShortAtEnd'
    BY <2>1, <2>2, <2>3, <2>6, <1>2, <1>3, <1>4 DEF SC!In!ShortAtEnd
  <2> QED  BY <1>3, <1>4, <2>5, <2>7, Zenon DEF InputInv
<1>7. CASE from # to
  <2>1. UNCHANGED << inner, inBuffer, from, to, consumed >>
    BY <1>7, <1>3 DEF SC!In!TryGetReadBuffer
  <2>2. InputTypes' /\ BufferIsNext'
    BY <2>1, <1>1, <1>5, Zenon DEF InputTypes, BufferIsNext
  <2>3. last'.bytes = SC!In!Available
    BY <2>1, <1>3, Zenon DEF SC!In!Available
  <2>4. Len(SC!In!Available) = to - from /\ 1 <= to - from
    BY <1>1, <1>2, <1>7, AvailableRun
  <2>5. SC!In!ShortAtEnd'
    BY <2>3, <2>4, <1>2, <1>4 DEF SC!In!ShortAtEnd
  <2> QED  BY <1>3, <1>4, <2>2, <2>5, Zenon DEF InputInv
<1> QED  BY <1>6, <1>7

\* What is given is at least what was asked for, or the file has ended.
LEMMA EnoughIsGiven ==
  ASSUME NEW min \in Nat, last'.min = min,
         \/ ~last'.threw /\ min <= Len(last'.bytes) /\ Len(last'.bytes) \in Nat
         \/ inner' = FileSize /\ consumed' + min > FileSize
  PROVE  SC!In!ShortAtEnd'
  BY DEF SC!In!ShortAtEnd

\* An operation whose bytes are all in the buffer.
LEMMA InputFromBuffer ==
  ASSUME InputInv, ~last.threw, NEW op, op # "look", NEW min \in Nat, NEW n \in Nat,
         min <= n, n <= to - from,
         SC!In!Give(op, min, SubSeq(inBuffer, from + 1, from + n)),
         from' = from + n, UNCHANGED << inner, inBuffer, to >>
  PROVE  InputInv' /\ OperationEnds /\ ~last'.threw
<1>1. InputTypes /\ BufferIsNext
  BY DEF InputInv
<1>2. /\ inner \in Nat /\ FileSize \in Nat /\ consumed \in Nat
      /\ to \in Nat /\ from \in Nat /\ from <= to /\ to <= InputSize /\ inner <= FileSize
  BY <1>1, StreamsAssumption DEF InputTypes
<1> DEFINE bytes == SubSeq(inBuffer, from + 1, from + n)
<1>3. IsRun(bytes, consumed) /\ Len(bytes) = n
  <2>1. from + n \in Nat /\ from <= from + n /\ (from + n) - from = n
    BY <1>2
  <2>2. \A i \in from + 1 .. from + n : inBuffer[i] = consumed + (i - from)
    BY <1>1, <1>2 DEF BufferIsNext
  <2> QED  BY <2>1, <2>2, <1>2, PieceRun
<1>4. /\ last'.op = op /\ last'.min = min /\ last'.bytes = bytes /\ last'.threw = FALSE
      /\ consumed' = consumed + n
  BY <1>3 DEF SC!In!Give
<1> HIDE DEF bytes
<1>5. OperationEnds
  BY <1>3, <1>4 DEF OperationEnds
<1>6. BufferIsNext'
  <2>1. consumed + (to - from) = inner
    BY <1>1 DEF BufferIsNext
  <2>2. (consumed + n) + (to - (from + n)) = inner
    BY <2>1, <1>2
  <2>3. \A i \in (from + n) + 1 .. to : inBuffer[i] = (consumed + n) + (i - (from + n))
    <3> TAKE i \in (from + n) + 1 .. to
    <3>1. i \in from + 1 .. to /\ (consumed + n) + (i - (from + n)) = consumed + (i - from)
      BY <1>2
    <3> QED  BY <3>1, <1>1 DEF BufferIsNext
  <2> QED  BY <2>2, <2>3, <1>4 DEF BufferIsNext
<1>7. InputTypes'
  <2>1. consumed + n \in 0 .. FileSize
    BY <1>1, <1>2 DEF BufferIsNext
  <2>2. from + n \in 0 .. to
    BY <1>2
  <2>3. last'.min \in Nat /\ last'.threw \in BOOLEAN
    BY <1>4
  <2>4. inner' = inner /\ inBuffer' = inBuffer /\ to' = to /\ from' = from + n /\ consumed' = consumed + n
    BY <1>4
  <2>5. /\ inner \in 0 .. FileSize /\ inBuffer \in [1 .. InputSize -> 0 .. FileSize]
        /\ to \in 0 .. InputSize
    BY <1>1, Zenon DEF InputTypes
  <2>6. inner' \in 0 .. FileSize /\ inBuffer' \in [1 .. InputSize -> 0 .. FileSize]
    BY <2>4, <2>5, Zenon
  <2>7. to' \in 0 .. InputSize /\ from' \in 0 .. to'
    BY <2>2, <2>4, <2>5, Zenon
  <2>8. consumed' \in 0 .. FileSize
    BY <2>1, <2>4, Zenon
  <2> QED  BY <2>3, <2>6, <2>7, <2>8, Zenon DEF InputTypes
<1>8. SC!In!ShortAtEnd'
  BY <1>3, <1>4, EnoughIsGiven
<1> QED  BY <1>4, <1>5, <1>6, <1>7, <1>8 DEF InputInv

\* The bytes behind those in the buffer do not suffice.
LEMMA InputThrows ==
  ASSUME InputInv, ~last.threw, NEW op, op # "look", NEW min \in Nat,
         inner' = FileSize, FileSize - inner < min - (to - from), SC!In!Throw(op, min),
         inBuffer' \in [1 .. InputSize -> 0 .. FileSize],
         to' \in 0 .. InputSize, from' \in 0 .. to'
  PROVE  InputInv' /\ OperationEnds
<1>1. InputTypes /\ BufferIsNext
  BY DEF InputInv
<1>2. /\ inner \in Nat /\ FileSize \in Nat /\ consumed \in Nat /\ to \in Nat /\ from \in Nat
      /\ consumed + (to - from) = inner
  BY <1>1, StreamsAssumption DEF InputTypes, BufferIsNext
<1>3. /\ last'.op = op /\ last'.min = min /\ last'.bytes = << >> /\ last'.threw = TRUE
      /\ consumed' = consumed
  BY DEF SC!In!Throw
<1>4. consumed + min > FileSize
  BY <1>2
<1>5. InputTypes'
  <2>1. consumed' \in 0 .. FileSize
    BY <1>1, <1>3, Zenon DEF InputTypes
  <2>2. inner' \in 0 .. FileSize
    <3>1. FileSize \in 0 .. FileSize
      BY <1>2
    <3> QED  BY <3>1, Zenon
  <2>3. last'.min \in Nat /\ last'.threw \in BOOLEAN
    BY <1>3, Zenon
  <2> QED  BY <2>1, <2>2, <2>3, Zenon DEF InputTypes
<1>6. SC!In!ShortAtEnd'
  BY <1>3, <1>4, EnoughIsGiven
<1> QED  BY <1>3, <1>5, <1>6 DEF InputInv, OperationEnds

\* The buffer is read again: n bytes come, of which the user is given k.
LEMMA InputRefills ==
  ASSUME InputInv, ~last.threw, NEW op, op # "look", NEW min \in Nat,
         NEW n \in Nat, n <= InputSize, inner + n <= FileSize,
         NEW k \in 0 .. n, min <= (to - from) + k,
         inBuffer' = SC!In!IntoBuffer(n), inner' = inner + n, from' = k, to' = n,
         SC!In!Give(op, min, SC!In!Available \o SC!In!Coming(k))
  PROVE  InputInv' /\ OperationEnds /\ ~last'.threw
<1>1. InputTypes /\ BufferIsNext
  BY DEF InputInv
<1>2. inner \in Nat /\ FileSize \in Nat /\ consumed \in Nat /\ to - from \in Nat
  BY <1>1, StreamsAssumption DEF InputTypes
<1> DEFINE bytes == SC!In!Available \o SC!In!Coming(k)
<1>3. IsRun(bytes, consumed) /\ Len(bytes) = (to - from) + k
  <2>1. k \in Nat /\ inner + k <= FileSize
    BY <1>2
  <2> QED  BY <2>1, <1>1, GivenRun
<1>4. /\ last'.op = op /\ last'.min = min /\ last'.bytes = bytes /\ last'.threw = FALSE
      /\ consumed' = consumed + Len(bytes)
  BY DEF SC!In!Give
<1> HIDE DEF bytes
<1>5. OperationEnds
  BY <1>3, <1>4, Zenon DEF OperationEnds
<1>6. consumed' = consumed + (to - from) + k
  <2>1. consumed + Len(bytes) = consumed + (to - from) + k
    BY <1>3, <1>2
  <2> QED  BY <2>1, <1>4, Zenon
<1>7. last'.min \in Nat /\ last'.threw \in BOOLEAN
  BY <1>4, Zenon
<1>8. InputTypes' /\ BufferIsNext'
  BY <1>1, <1>6, <1>7, Refilled, Zenon
<1>9. SC!In!ShortAtEnd'
  <2>1. ~last'.threw /\ min <= Len(bytes) /\ Len(bytes) \in Nat
    BY <1>2, <1>3, <1>4
  <2> QED  BY <2>1, <1>4, EnoughIsGiven, Zenon
<1> QED  BY <1>4, <1>5, <1>8, <1>9, Zenon DEF InputInv

\* The rest is read to its place, or skipped, and leaves the buffer empty.
LEMMA InputPasses ==
  ASSUME InputInv, ~last.threw, NEW op, op # "look", NEW min \in Nat,
         NEW n \in Nat, inner + n <= FileSize, min <= (to - from) + n,
         inBuffer' = inBuffer, inner' = inner + n, from' = 0, to' = 0,
         SC!In!Give(op, min, SC!In!Available \o SC!In!Coming(n))
  PROVE  InputInv' /\ OperationEnds /\ ~last'.threw
<1>1. InputTypes /\ BufferIsNext
  BY DEF InputInv
<1>2. inner \in Nat /\ FileSize \in Nat /\ consumed \in Nat /\ to - from \in Nat
      /\ InputSize \in Nat /\ consumed + (to - from) = inner
  BY <1>1, StreamsAssumption DEF InputTypes, BufferIsNext
<1> DEFINE bytes == SC!In!Available \o SC!In!Coming(n)
<1>3. IsRun(bytes, consumed) /\ Len(bytes) = (to - from) + n
  BY <1>1, GivenRun
<1>4. /\ last'.op = op /\ last'.min = min /\ last'.bytes = bytes /\ last'.threw = FALSE
      /\ consumed' = consumed + Len(bytes)
  BY DEF SC!In!Give
<1> HIDE DEF bytes
<1>5. OperationEnds
  BY <1>3, <1>4, Zenon DEF OperationEnds
<1>6. consumed' = inner + n
  <2>1. consumed + Len(bytes) = inner + n
    BY <1>3, <1>2
  <2> QED  BY <2>1, <1>4, Zenon
<1>7. BufferIsNext'
  <2>1. (inner + n) + (0 - 0) = inner + n /\ 0 + 1 .. 0 = {}
    BY <1>2
  <2>2. consumed' + (to' - from') = inner'
    BY <2>1, <1>6, Zenon
  <2>3. from' + 1 .. to' = {}
    BY <2>1, Zenon
  <2> QED  BY <2>2, <2>3, Zenon DEF BufferIsNext
<1>8. InputTypes'
  <2>1. inner + n \in 0 .. FileSize /\ 0 \in 0 .. InputSize /\ 0 \in 0 .. 0
    BY <1>2
  <2>2. inner' \in 0 .. FileSize /\ consumed' \in 0 .. FileSize
    BY <2>1, <1>6, Zenon
  <2>3. to' \in 0 .. InputSize /\ from' \in 0 .. to'
    BY <2>1, Zenon
  <2>4. inBuffer' \in [1 .. InputSize -> 0 .. FileSize]
    BY <1>1, Zenon DEF InputTypes
  <2>5. last'.min \in Nat /\ last'.threw \in BOOLEAN
    BY <1>4, Zenon
  <2> QED  BY <2>2, <2>3, <2>4, <2>5, Zenon DEF InputTypes
<1>9. SC!In!ShortAtEnd'
  <2>1. ~last'.threw /\ min <= Len(bytes) /\ Len(bytes) \in Nat
    BY <1>2, <1>3, <1>4
  <2> QED  BY <2>1, <1>4, EnoughIsGiven, Zenon
<1> QED  BY <1>4, <1>5, <1>7, <1>8, <1>9, Zenon DEF InputInv

\* The end of the file is read into the buffer, and does not suffice.
LEMMA InputFails ==
  ASSUME InputInv, ~last.threw, NEW op, op # "look", NEW min \in Nat,
         NEW n \in Nat, n <= InputSize, inner + n = FileSize, n < min - (to - from),
         inBuffer' = SC!In!IntoBuffer(n), inner' = inner + n, UNCHANGED << from, to >>,
         SC!In!Throw(op, min)
  PROVE  InputInv' /\ OperationEnds
<1>1. InputTypes
  BY DEF InputInv
<1>2. inner \in Nat /\ FileSize \in Nat /\ to - from \in Nat
  BY <1>1, StreamsAssumption DEF InputTypes
<1>3. SC!In!IntoBuffer(n) \in [1 .. InputSize -> 0 .. FileSize]
  <2>1. inner + n <= FileSize
    BY <1>2
  <2> QED  BY <1>1, <2>1, IntoBufferFacts
<1>4. inner' = FileSize /\ FileSize - inner < min - (to - from)
  BY <1>2
<1>5. to' \in 0 .. InputSize /\ from' \in 0 .. to'
  BY <1>1, Zenon DEF InputTypes
<1>6. inBuffer' \in [1 .. InputSize -> 0 .. FileSize]
  BY <1>3, Zenon
<1> QED  BY <1>4, <1>5, <1>6, InputThrows, Zenon

\* tryRead() in each of its cases.
LEMMA InputReads ==
  ASSUME InputInv, ~last.threw, NEW min \in Nat, NEW max \in Nat, min <= max,
         SC!In!TryRead(min, max)
  PROVE  InputInv' /\ OperationEnds
<1>1. InputTypes /\ BufferIsNext
  BY DEF InputInv
<1>2. /\ inner \in Nat /\ FileSize \in Nat /\ InputSize \in Nat /\ to \in Nat /\ from \in Nat
      /\ to - from \in Nat /\ inner <= FileSize
  BY <1>1, StreamsAssumption DEF InputTypes
<1>3. CASE SC!In!ReadBuffered(min, max)
  <2> DEFINE n == SC!In!Least(to - from, max)
  <2>1. n \in Nat /\ min <= n /\ n <= to - from
    BY <1>2, <1>3 DEF SC!In!Least, SC!In!ReadBuffered
  <2>2. /\ SC!In!Give("read", min, SubSeq(inBuffer, from + 1, from + n))
        /\ from' = from + n /\ UNCHANGED << inner, inBuffer, to >>
    BY <1>3 DEF SC!In!ReadBuffered
  <2> HIDE DEF n
  <2>3. "read" # "look"
    OBVIOUS
  <2> QED  BY <2>1, <2>2, <2>3, InputFromBuffer, Zenon
<1>4. CASE SC!In!ReadThrough(min, max)
  <2>1. min > to - from /\ max - (to - from) <= InputSize
    BY <1>4, Zenon DEF SC!In!ReadThrough
  <2>2. PICK n \in SC!In!TryReads(min - (to - from), InputSize) :
           /\ inBuffer' = SC!In!IntoBuffer(n) /\ inner' = inner + n
           /\ IF n < min - (to - from)
              THEN SC!In!Throw("read", min) /\ UNCHANGED << from, to >>
              ELSE LET second == SC!In!Least(n, max - (to - from))
                   IN  /\ SC!In!Give("read", min, SC!In!Available \o SC!In!Coming(second))
                       /\ from' = second /\ to' = n
    BY <1>4, Zenon DEF SC!In!ReadThrough
  <2>3. /\ n \in Nat /\ n <= InputSize /\ inner + n <= FileSize
        /\ n < min - (to - from) => inner + n = FileSize
    <3>1. min - (to - from) \in Nat /\ min - (to - from) <= InputSize
      BY <2>1, <1>2
    <3> QED  BY <3>1, <1>1, <1>2, TryReadsFacts
  <2>4. "read" # "look"
    OBVIOUS
  <2>5. CASE n < min - (to - from)
    BY <2>2, <2>3, <2>4, <2>5, InputFails, Zenon
  <2>6. CASE ~(n < min - (to - from))
    <3> DEFINE k == SC!In!Least(n, max - (to - from))
    <3>1. k \in 0 .. n /\ min <= (to - from) + k
      BY <2>1, <2>3, <2>6, <1>2 DEF SC!In!Least
    <3>2. SC!In!Give("read", min, SC!In!Available \o SC!In!Coming(k)) /\ from' = k /\ to' = n
      BY <2>2, <2>6, Zenon
    <3> HIDE DEF k
    <3> QED  BY <3>1, <3>2, <2>2, <2>3, <2>4, InputRefills, Zenon
  <2> QED  BY <2>5, <2>6
<1>5. CASE SC!In!ReadLarge(min, max)
  <2>1. min > to - from /\ max - (to - from) > InputSize
    BY <1>5, Zenon DEF SC!In!ReadLarge
  <2>2. PICK n \in SC!In!TryReads(min - (to - from), max - (to - from)) :
           /\ inner' = inner + n /\ from' = 0 /\ to' = 0
           /\ IF n < min - (to - from)
              THEN SC!In!Throw("read", min)
              ELSE SC!In!Give("read", min, SC!In!Available \o SC!In!Coming(n))
    BY <1>5, Zenon DEF SC!In!ReadLarge
  <2>3. inBuffer' = inBuffer
    BY <1>5, Zenon DEF SC!In!ReadLarge
  <2>4. /\ n \in Nat /\ inner + n <= FileSize
        /\ n < min - (to - from) => inner + n = FileSize
    <3>1. /\ min - (to - from) \in Nat /\ max - (to - from) \in Nat
          /\ min - (to - from) <= max - (to - from)
      BY <2>1, <1>2
    <3> QED  BY <3>1, <1>1, <1>2, TryReadsFacts
  <2>5. "read" # "look"
    OBVIOUS
  <2>6. CASE n < min - (to - from)
    <3>1. FileSize - inner < min - (to - from) /\ inner + n = FileSize
          /\ 0 \in 0 .. InputSize /\ 0 \in 0 .. 0
      BY <2>4, <2>6, <1>2
    <3>2. inner' = FileSize /\ to' \in 0 .. InputSize /\ from' \in 0 .. to'
      BY <2>2, <3>1, Zenon
    <3>3. inBuffer' \in [1 .. InputSize -> 0 .. FileSize]
      BY <2>3, <1>1, Zenon DEF InputTypes
    <3> QED  BY <3>1, <3>2, <3>3, <2>2, <2>5, <2>6, InputThrows, Zenon
  <2>7. CASE ~(n < min - (to - from))
    <3>1. min <= (to - from) + n
      BY <2>4, <2>7, <1>2
    <3> QED  BY <3>1, <2>2, <2>3, <2>4, <2>5, <2>7, InputPasses, Zenon
  <2> QED  BY <2>6, <2>7
<1> QED  BY <1>3, <1>4, <1>5 DEF SC!In!TryRead

\* skip() in each of its cases.
LEMMA InputSkips ==
  ASSUME InputInv, ~last.threw, NEW n \in Nat, SC!In!Skip(n)
  PROVE  /\ InputInv' /\ OperationEnds
         /\ n <= to - from => ~last'.threw /\ Len(last'.bytes) = n
<1>1. InputTypes /\ BufferIsNext
  BY DEF InputInv
<1>2. /\ inner \in Nat /\ FileSize \in Nat /\ InputSize \in Nat /\ to \in Nat /\ from \in Nat
      /\ to - from \in Nat /\ inner <= FileSize
  BY <1>1, StreamsAssumption DEF InputTypes
<1>s. "skip" # "look"
  OBVIOUS
<1>3. CASE SC!In!SkipBuffered(n)
  <2>1. n <= n /\ n <= to - from
    BY <1>3 DEF SC!In!SkipBuffered
  <2>2. /\ SC!In!Give("skip", n, SubSeq(inBuffer, from + 1, from + n))
        /\ from' = from + n /\ UNCHANGED << inner, inBuffer, to >>
    BY <1>3 DEF SC!In!SkipBuffered
  <2>3. InputInv' /\ OperationEnds /\ ~last'.threw
    BY <2>1, <2>2, <1>s, InputFromBuffer, Zenon
  <2>4. last'.bytes = SubSeq(inBuffer, from + 1, from + n)
    BY <2>2 DEF SC!In!Give
  <2>5. Len(SubSeq(inBuffer, from + 1, from + n)) = n
    <3>1. from + n \in Nat /\ from <= from + n /\ (from + n) - from = n /\ consumed \in Nat
      BY <1>1, <1>2, StreamsAssumption DEF InputTypes
    <3>2. \A i \in from + 1 .. from + n : inBuffer[i] = consumed + (i - from)
      BY <1>1, <1>2, <2>1 DEF BufferIsNext
    <3> QED  BY <3>1, <3>2, <1>2, PieceRun
  <2> QED  BY <2>3, <2>4, <2>5, Zenon
<1>4. CASE SC!In!SkipThrough(n)
  <2> DEFINE more == n - (to - from)
  <2>1. n > to - from /\ more <= InputSize
    BY <1>4, Zenon DEF SC!In!SkipThrough
  <2>2. PICK k \in SC!In!TryReads(more, InputSize) :
           /\ inBuffer' = SC!In!IntoBuffer(k) /\ inner' = inner + k
           /\ IF k < more
              THEN SC!In!Throw("skip", n) /\ UNCHANGED << from, to >>
              ELSE /\ SC!In!Give("skip", n, SC!In!Available \o SC!In!Coming(more))
                   /\ from' = more /\ to' = k
    BY <1>4, Zenon DEF SC!In!SkipThrough
  <2>3. more \in Nat /\ n <= (to - from) + more /\ ~(n <= to - from)
    BY <2>1, <1>2
  <2>4. /\ k \in Nat /\ k <= InputSize /\ inner + k <= FileSize
        /\ k < more => inner + k = FileSize
    <3> HIDE DEF more
    <3> QED  BY <2>1, <2>3, <1>1, <1>2, TryReadsFacts
  <2>5. CASE k < more
    BY <2>2, <2>3, <2>4, <2>5, <1>s, InputFails, Zenon
  <2>6. CASE ~(k < more)
    <3>1. more \in 0 .. k
      BY <2>3, <2>4, <2>6
    <3> HIDE DEF more
    <3> QED  BY <3>1, <2>2, <2>3, <2>4, <2>6, <1>s, InputRefills, Zenon
  <2> QED  BY <2>5, <2>6
<1>5. CASE SC!In!SkipLarge(n)
  <2> DEFINE more == n - (to - from)
  <2>1. /\ n > to - from /\ from' = 0 /\ to' = 0 /\ inBuffer' = inBuffer
        /\ inner' = inner + SC!In!Least(more, FileSize - inner)
        /\ IF SC!In!Premature(more) THEN SC!In!Throw("skip", n)
           ELSE SC!In!Give("skip", n, SC!In!Available \o SC!In!Coming(more))
    BY <1>5, Zenon DEF SC!In!SkipLarge
  <2>2. more \in Nat /\ n <= (to - from) + more /\ ~(n <= to - from)
    BY <2>1, <1>2
  <2>3. CASE FileSize - inner < more
    <3>1. inner + SC!In!Least(more, FileSize - inner) = FileSize
          /\ 0 \in 0 .. InputSize /\ 0 \in 0 .. 0
      BY <2>2, <2>3, <1>2 DEF SC!In!Least
    <3>2. inner' = FileSize /\ to' \in 0 .. InputSize /\ from' \in 0 .. to'
      BY <2>1, <3>1, Zenon
    <3>3. inBuffer' \in [1 .. InputSize -> 0 .. FileSize]
      BY <2>1, <1>1, Zenon DEF InputTypes
    <3>4. SC!In!Throw("skip", n)
      BY <2>1, <2>3, Zenon DEF SC!In!Premature
    <3> QED  BY <3>2, <3>3, <3>4, <2>2, <2>3, <1>s, InputThrows, Zenon
  <2>4. CASE ~(FileSize - inner < more)
    <3>1. SC!In!Least(more, FileSize - inner) = more /\ inner + more <= FileSize
      BY <2>2, <2>4, <1>2 DEF SC!In!Least
    <3>2. SC!In!Give("skip", n, SC!In!Available \o SC!In!Coming(more))
      BY <2>1, <2>4, Zenon DEF SC!In!Premature
    <3>3. inner' = inner + more
      BY <2>1, <3>1, Zenon
    <3> HIDE DEF more
    <3> QED  BY <3>1, <3>2, <3>3, <2>1, <2>2, <1>s, InputPasses, Zenon
  <2> QED  BY <2>3, <2>4
<1> QED  BY <1>3, <1>4, <1>5 DEF SC!In!Skip

\* A sequence and what is left of it when some of it is gone.
LEMMA Split ==
  ASSUME NEW S, NEW s \in Seq(S), NEW k \in 0 .. Len(s)
  PROVE  /\ SubSeq(s, 1, k) \in Seq(S) /\ Len(SubSeq(s, 1, k)) = k
         /\ SubSeq(s, k + 1, Len(s)) \in Seq(S) /\ Len(SubSeq(s, k + 1, Len(s))) = Len(s) - k
         /\ s = SubSeq(s, 1, k) \o SubSeq(s, k + 1, Len(s))
<1>1. Len(s) \in Nat /\ k \in Nat /\ k <= Len(s)
  BY LenProperties
<1>2. \A i \in 1 .. Len(s) : s[i] \in S
  BY ElementOfSeq
<1>3. /\ SubSeq(s, 1, k) \in Seq(S)
      /\ Len(SubSeq(s, 1, k)) = IF 1 <= k THEN k - 1 + 1 ELSE 0
  <2>1. \A i \in 1 .. k : s[i] \in S
    BY <1>1, <1>2
  <2> QED  BY <2>1, <1>1, SubSeqProperties
<1>4. /\ SubSeq(s, k + 1, Len(s)) \in Seq(S)
      /\ Len(SubSeq(s, k + 1, Len(s))) = IF k + 1 <= Len(s) THEN Len(s) - (k + 1) + 1 ELSE 0
  <2>1. \A i \in k + 1 .. Len(s) : s[i] \in S
    BY <1>1, <1>2
  <2> QED  BY <2>1, <1>1, SubSeqProperties
<1>5. SubSeq(s, 1, k) \o SubSeq(s, k + 1, Len(s)) = SubSeq(s, 1, Len(s))
  <2>1. 1 \in 1 .. Len(s) + 1 /\ k \in 1 - 1 .. Len(s) /\ Len(s) \in k .. Len(s)
    BY <1>1
  <2> QED  BY <2>1, ConcatAdjacentSubSeq
<1>6. SubSeq(s, 1, Len(s)) = s
  BY SubSeqFull
<1>7. Len(SubSeq(s, 1, k)) = k /\ Len(SubSeq(s, k + 1, Len(s))) = Len(s) - k
  BY <1>1, <1>3, <1>4
<1> QED  BY <1>3, <1>4, <1>5, <1>6, <1>7, Zenon

LEMMA JoinedBegins ==
  ASSUME NEW S, NEW s \in Seq(S), NEW t \in Seq(S)
  PROVE  SubSeq(s \o t, 1, Len(s)) = s /\ SC!IsPrefix(s, s \o t)
<1>1. /\ s \o t \in Seq(S) /\ Len(s \o t) = Len(s) + Len(t)
      /\ \A i \in 1 .. Len(s) + Len(t) : (s \o t)[i] =
                     IF i <= Len(s) THEN s[i] ELSE t[i - Len(s)]
      /\ Len(s) \in Nat /\ Len(t) \in Nat
  BY ConcatProperties, LenProperties
<1>2. \A i \in 1 .. Len(s) : (s \o t)[i] = s[i] /\ s[i] \in S
  BY <1>1, ElementOfSeq
<1>3. /\ SubSeq(s \o t, 1, Len(s)) \in Seq(S)
      /\ Len(SubSeq(s \o t, 1, Len(s))) = IF 1 <= Len(s) THEN Len(s) - 1 + 1 ELSE 0
      /\ \A i \in 1 .. Len(s) - 1 + 1 : SubSeq(s \o t, 1, Len(s))[i] = (s \o t)[1 + i - 1]
  <2>1. \A i \in 1 .. Len(s) : (s \o t)[i] \in S
    BY <1>2
  <2>2. 1 \in Int /\ Len(s) \in Int
    BY <1>1
  <2> HIDE <1>1, <1>2
  <2> QED  BY <2>1, <2>2, SubSeqProperties
<1> DEFINE u == SubSeq(s \o t, 1, Len(s))
<1>4. u \in Seq(S) /\ Len(u) = Len(s) /\ \A i \in 1 .. Len(u) : u[i] = s[i]
  <2>1. u \in Seq(S) /\ Len(u) = Len(s)
    BY <1>3, <1>1
  <2>2. \A i \in 1 .. Len(s) : u[i] = s[i]
    <3> TAKE i \in 1 .. Len(s)
    <3>1. i \in 1 .. Len(s) - 1 + 1 /\ 1 + i - 1 = i
      BY <1>1
    <3> HIDE DEF u
    <3> QED  BY <3>1, <1>3, <1>2 DEF u
  <2> QED  BY <2>1, <2>2
<1>5. u = s
  <2> HIDE DEF u
  <2> QED  BY <1>4, SeqEqual
<1>6. SubSeq(s, 1, Len(s)) = s
  BY SubSeqFull
<1> QED  BY <1>1, <1>5, <1>6 DEF SC!IsPrefix

LEMMA PartFacts ==
  ASSUME NEW S, NEW bytes \in Seq(S), NEW p \in SC!Out!Parts(bytes)
  PROVE  p \in Seq(S) /\ \E rest \in Seq(S) : bytes = p \o rest
<1>1. PICK k \in 0 .. Len(bytes) - 1 : p = SubSeq(bytes, 1, k)
  BY DEF SC!Out!Parts
<1>2. k \in 0 .. Len(bytes)
  BY LenProperties
<1>3. p \in Seq(S) /\ SubSeq(bytes, k + 1, Len(bytes)) \in Seq(S)
      /\ bytes = p \o SubSeq(bytes, k + 1, Len(bytes))
  BY <1>1, <1>2, Split
<1> QED  BY <1>3

\* What a buffer holds when it begins with u.
LEMMA BeginsWith ==
  ASSUME NEW S, NEW T, S \subseteq T, NEW u \in Seq(S), NEW v \in Seq(T), NEW n \in Nat,
         Len(u) + Len(v) = n
  PROVE  /\ u \o v \in [1 .. n -> T] /\ SubSeq(u \o v, 1, Len(u)) = u
         /\ \A i \in 1 .. Len(u) : (u \o v)[i] \in S
<1>1. u \in Seq(T)
  BY SeqMonotonic
<1>2. /\ u \o v \in Seq(T) /\ Len(u \o v) = n /\ Len(u) \in Nat /\ Len(v) \in Nat
      /\ \A i \in 1 .. Len(u) + Len(v) : (u \o v)[i] =
                     IF i <= Len(u) THEN u[i] ELSE v[i - Len(u)]
  BY <1>1, ConcatProperties, LenProperties
<1>3. u \o v \in [1 .. n -> T]
  BY <1>2, LenProperties
<1>4. SubSeq(u \o v, 1, Len(u)) = u
  BY <1>1, JoinedBegins
<1>5. \A i \in 1 .. Len(u) : (u \o v)[i] \in S
  <2> TAKE i \in 1 .. Len(u)
  <2>1. u[i] \in S
    BY ElementOfSeq
  <2> QED  BY <2>1, <1>2
<1> QED  BY <1>3, <1>4, <1>5

\* A piece of a buffer.
LEMMA PieceFacts ==
  ASSUME NEW S, NEW b, NEW m \in Nat, NEW n \in Nat, m <= n, \A i \in m + 1 .. n : b[i] \in S
  PROVE  SubSeq(b, m + 1, n) \in Seq(S) /\ Len(SubSeq(b, m + 1, n)) = n - m
<1>1. /\ SubSeq(b, m + 1, n) \in Seq(S)
      /\ Len(SubSeq(b, m + 1, n)) = IF m + 1 <= n THEN n - (m + 1) + 1 ELSE 0
  BY SubSeqProperties
<1> QED  BY <1>1

-----------------------------------------------------------------------------
(* BufferedOutputStreamWrapper.                                            *)

Byte == 1 .. FileSize

OutputInv ==
    /\ SC!Out!TypeOK
    /\ \A i \in 1 .. fill : outBuffer[i] \in Byte
    /\ status = "open" => written = file \o SC!Out!Filled

LEMMA FilledFacts ==
  ASSUME OutputInv
  PROVE  /\ SC!Out!Filled \in Seq(Byte) /\ Len(SC!Out!Filled) = fill
         /\ fill \in Nat /\ fill <= OutputSize /\ OutputSize \in Nat
         /\ file \in Seq(Byte) /\ written \in Seq(Byte)
         /\ file \o SC!Out!Filled \in Seq(Byte)
<1>1. fill \in Nat /\ fill <= OutputSize /\ OutputSize \in Nat
  BY StreamsAssumption DEF OutputInv, SC!Out!TypeOK
<1>2. SubSeq(outBuffer, 0 + 1, fill) \in Seq(Byte) /\ Len(SubSeq(outBuffer, 0 + 1, fill)) = fill - 0
  <2>1. \A i \in 0 + 1 .. fill : outBuffer[i] \in Byte
    BY DEF OutputInv
  <2> QED  BY <2>1, <1>1, PieceFacts
<1>3. SC!Out!Filled \in Seq(Byte) /\ Len(SC!Out!Filled) = fill
  BY <1>1, <1>2 DEF SC!Out!Filled
<1>4. file \in Seq(Byte) /\ written \in Seq(Byte)
  BY DEF OutputInv, SC!Out!TypeOK, Byte
<1> QED  BY <1>1, <1>3, <1>4, ConcatProperties

\* How a write of the bytes ends.
WriteEnds(bytes) ==
    \/ status' = "open" /\ written' = written \o bytes
    \/ /\ status' = "failed" /\ written' = written
       /\ \E rest \in Seq(Byte) : written \o bytes = file' \o rest

\* What the actions do not leave alone has its type.
LEMMA OutputKept ==
  ASSUME file' \in Seq(Byte), outBuffer' \in [1 .. OutputSize -> Byte \cup {0}],
         fill' \in 0 .. OutputSize, written' \in Seq(Byte), status' \in SC!Out!Statuses,
         \A i \in 1 .. fill' : outBuffer'[i] \in Byte,
         status' = "open" => written' = file' \o SC!Out!Filled'
  PROVE  OutputInv'
  BY DEF OutputInv, SC!Out!TypeOK, Byte

\* The buffer holds u, with what it held before behind that.
LEMMA BufferHolds ==
  ASSUME StreamsAssumption, NEW u \in Seq(Byte), NEW v \in Seq(Byte \cup {0}),
         Len(u) + Len(v) = OutputSize,
         outBuffer' = u \o v, fill' = Len(u), file' \in Seq(Byte), written' \in Seq(Byte),
         status' \in SC!Out!Statuses, status' = "open" => written' = file' \o u
  PROVE  OutputInv'
<1> DEFINE T == Byte \cup {0}
<1>1. /\ u \o v \in [1 .. OutputSize -> T] /\ SubSeq(u \o v, 1, Len(u)) = u
      /\ \A i \in 1 .. Len(u) : (u \o v)[i] \in Byte
  <2>1. Byte \subseteq T /\ v \in Seq(T)
    OBVIOUS
  <2>2. OutputSize \in Nat
    BY StreamsAssumption
  <2> HIDE DEF T
  <2>3. u \in Seq(Byte) /\ Len(u) + Len(v) = OutputSize
    OBVIOUS
  <2> QED  BY ONLY <2>1, <2>2, <2>3, BeginsWith
<1>2. Len(u) \in 0 .. OutputSize
  BY LenProperties, StreamsAssumption
<1>3. SC!Out!Filled' = u
  BY <1>1, Zenon DEF SC!Out!Filled
<1>4. outBuffer' \in [1 .. OutputSize -> Byte \cup {0}] /\ fill' \in 0 .. OutputSize
  BY <1>1, <1>2, Zenon
<1>5. \A i \in 1 .. fill' : outBuffer'[i] \in Byte
  BY <1>1, Zenon
<1>6. status' = "open" => written' = file' \o SC!Out!Filled'
  BY <1>3, Zenon
<1> QED  BY <1>4, <1>5, <1>6, OutputKept, Zenon

\* The buffer is empty.
LEMMA BufferEmptied ==
  ASSUME OutputInv, outBuffer' = outBuffer, fill' = 0,
         file' \in Seq(Byte), written' \in Seq(Byte),
         status' \in SC!Out!Statuses, status' = "open" => written' = file'
  PROVE  OutputInv'
<1>1. outBuffer \in [1 .. OutputSize -> Byte \cup {0}]
  BY DEF OutputInv, SC!Out!TypeOK, Byte
<1>2. 0 \in 0 .. OutputSize /\ 1 .. 0 = {} /\ SubSeq(outBuffer, 1, 0) = << >>
  BY StreamsAssumption, SubSeqEmpty
<1>3. SC!Out!Filled' = << >>
  BY <1>2, Zenon DEF SC!Out!Filled
<1>4. file' \o << >> = file'
  BY ConcatEmptySeq
<1>5. \A i \in 1 .. fill' : outBuffer'[i] \in Byte
  BY <1>2, Zenon
<1>6. status' = "open" => written' = file' \o SC!Out!Filled'
  BY <1>3, <1>4, Zenon
<1>7. outBuffer' \in [1 .. OutputSize -> Byte \cup {0}] /\ fill' \in 0 .. OutputSize
  BY <1>1, <1>2, Zenon
<1> QED  BY <1>5, <1>6, <1>7, OutputKept, Zenon

\* Nothing but the file changes, and the stream is not open any more.
LEMMA BufferKept ==
  ASSUME OutputInv, outBuffer' = outBuffer, fill' = fill, file' \in Seq(Byte),
         written' = written, status' \in SC!Out!Statuses, status' # "open"
  PROVE  OutputInv'
<1>1. /\ outBuffer \in [1 .. OutputSize -> Byte \cup {0}] /\ fill \in 0 .. OutputSize
      /\ written \in Seq(Byte) /\ \A i \in 1 .. fill : outBuffer[i] \in Byte
  BY DEF OutputInv, SC!Out!TypeOK, Byte
<1> QED  BY <1>1, OutputKept, Zenon

LEMMA Joined3 ==
  ASSUME NEW S, NEW s \in Seq(S), NEW t \in Seq(S), NEW u \in Seq(S)
  PROVE  s \o (t \o u) = (s \o t) \o u /\ s \o t \in Seq(S) /\ t \o u \in Seq(S)
         /\ (s \o t) \o u \in Seq(S)
  BY ConcatAssociative, ConcatProperties, SMTT(60)

LEMMA WritesWhatFits ==
  ASSUME OutputInv, status = "open", NEW bytes \in Seq(Byte), SC!Out!WriteFits(bytes)
  PROVE  OutputInv' /\ WriteEnds(bytes)
<1> DEFINE u == SC!Out!Filled \o bytes
           v == SubSeq(outBuffer, fill + Len(bytes) + 1, OutputSize)
           T == Byte \cup {0}
<1>1. /\ Len(bytes) <= OutputSize - fill /\ outBuffer' = SC!Out!CopiedAfter(fill, bytes)
      /\ fill' = fill + Len(bytes) /\ written' = written \o bytes /\ file' = file
      /\ status' = status
  BY DEF SC!Out!WriteFits
<1>2. outBuffer' = u \o v
  BY <1>1 DEF SC!Out!CopiedAfter, SC!Out!Filled
<1>3. /\ Len(bytes) \in Nat /\ fill \in Nat /\ OutputSize \in Nat /\ SC!Out!Filled \in Seq(Byte)
      /\ Len(SC!Out!Filled) = fill /\ file \in Seq(Byte) /\ written \in Seq(Byte)
  BY FilledFacts, LenProperties
<1>4. u \in Seq(Byte) /\ Len(u) = fill + Len(bytes)
  BY <1>3, ConcatProperties
<1>5. v \in Seq(T) /\ Len(v) = OutputSize - (fill + Len(bytes))
  <2>1. \A i \in (fill + Len(bytes)) + 1 .. OutputSize : outBuffer[i] \in T
    BY <1>3 DEF OutputInv, SC!Out!TypeOK, Byte
  <2>2. fill + Len(bytes) \in Nat /\ fill + Len(bytes) <= OutputSize
    BY <1>1, <1>3
  <2> HIDE DEF T
  <2>3. OutputSize \in Nat
    BY <1>3
  <2> QED  BY <2>1, <2>2, <2>3, PieceFacts
<1> HIDE DEF u, v
<1>6. Len(u) + Len(v) = OutputSize
  BY <1>3, <1>4, <1>5
<1>8. fill' = Len(u)
  BY <1>1, <1>4
<1>10. written \o bytes = file \o u
  <2>1. written = file \o SC!Out!Filled
    BY DEF OutputInv
  <2> QED  BY <2>1, <1>3, ConcatAssociative, SMTT(60) DEF u
<1>11. written \o bytes \in Seq(Byte)
  BY <1>3, ConcatProperties
<1>12. OutputInv'
  <2>1. file' \in Seq(Byte) /\ written' \in Seq(Byte) /\ written' = file' \o u
    BY <1>1, <1>3, <1>10, <1>11, Zenon
  <2>2. status' \in SC!Out!Statuses
    BY <1>1 DEF SC!Out!Statuses
  <2> QED  BY <2>1, <2>2, <1>2, <1>4, <1>5, <1>6, <1>8, StreamsAssumption, BufferHolds, Zenon
<1> QED  BY <1>12, <1>1 DEF WriteEnds

LEMMA WritesFull ==
  ASSUME OutputInv, status = "open", NEW bytes \in Seq(Byte), SC!Out!WriteMedium(bytes)
  PROVE  OutputInv' /\ WriteEnds(bytes)
<1> DEFINE room == OutputSize - fill
           a == SubSeq(bytes, 1, room)
           rest == SubSeq(bytes, room + 1, Len(bytes))
           full == SC!Out!Filled \o a
<1>1. /\ Len(bytes) > room /\ Len(bytes) <= OutputSize
      /\ \/ /\ file' = file \o full
            /\ outBuffer' = rest \o SubSeq(full, Len(rest) + 1, OutputSize)
            /\ fill' = Len(rest) /\ written' = written \o bytes /\ status' = status
         \/ /\ \E p \in SC!Out!Parts(full) : file' = file \o p
            /\ status' = "failed" /\ outBuffer' = full /\ fill' = fill /\ written' = written
  BY Zenon DEF SC!Out!WriteMedium, SC!Out!FdWrites, SC!Out!FdFails
<1>2. /\ Len(bytes) \in Nat /\ fill \in Nat /\ OutputSize \in Nat /\ SC!Out!Filled \in Seq(Byte)
      /\ Len(SC!Out!Filled) = fill /\ file \in Seq(Byte) /\ written \in Seq(Byte)
      /\ fill <= OutputSize
  BY FilledFacts, LenProperties
<1>3. /\ a \in Seq(Byte) /\ Len(a) = room /\ rest \in Seq(Byte)
      /\ Len(rest) = Len(bytes) - room /\ bytes = a \o rest
  <2>1. room \in 0 .. Len(bytes)
    BY <1>1, <1>2
  <2> HIDE DEF room
  <2> QED  BY <2>1, Split, Zenon
<1>4. room \in Nat /\ fill + room = OutputSize
  BY <1>2
<1> HIDE DEF room, a, rest
<1>5. full \in Seq(Byte) /\ Len(full) = OutputSize
  BY <1>2, <1>3, <1>4, ConcatProperties
<1>6. written = file \o SC!Out!Filled
  BY DEF OutputInv
<1>7. written \o bytes = (file \o full) \o rest /\ written \o bytes \in Seq(Byte)
      /\ file \o full \in Seq(Byte)
  <2>1. (file \o SC!Out!Filled) \o (a \o rest) = ((file \o SC!Out!Filled) \o a) \o rest
        /\ (file \o SC!Out!Filled) \o (a \o rest) \in Seq(Byte)
    <3>1. file \o SC!Out!Filled \in Seq(Byte)
      BY <1>2, ConcatProperties
    <3>2. a \in Seq(Byte) /\ rest \in Seq(Byte)
      BY <1>3
    <3>3. \A x \in Seq(Byte) : x \o (a \o rest) = (x \o a) \o rest /\ x \o (a \o rest) \in Seq(Byte)
      BY ONLY <3>2, Joined3
    <3> QED  BY <3>1, <3>3, Zenon
  <2>2. (file \o SC!Out!Filled) \o a = file \o full
    <3>1. file \in Seq(Byte) /\ SC!Out!Filled \in Seq(Byte) /\ a \in Seq(Byte)
      BY <1>2, <1>3
    <3> QED  BY ONLY <3>1, Joined3 DEF full
  <2>3. file \o full \in Seq(Byte)
    BY <1>2, <1>5, ConcatProperties
  <2> QED  BY <2>1, <2>2, <2>3, <1>3, <1>6, Zenon
<1> HIDE DEF full
<1>8. CASE /\ file' = file \o full
           /\ outBuffer' = rest \o SubSeq(full, Len(rest) + 1, OutputSize)
           /\ fill' = Len(rest) /\ written' = written \o bytes /\ status' = status
  <2> DEFINE v == SubSeq(full, Len(rest) + 1, Len(full))
  <2>1. Len(rest) \in 0 .. Len(full)
    BY <1>1, <1>2, <1>3, <1>4, <1>5
  <2>2. v \in Seq(Byte) /\ Len(v) = Len(full) - Len(rest)
    BY <2>1, <1>5, Split
  <2>3. outBuffer' = rest \o v
    BY <1>5, <1>8, Zenon
  <2> HIDE DEF v
  <2>4. v \in Seq(Byte \cup {0})
    BY <2>2, SeqMonotonic
  <2>5. Len(rest) + Len(v) = OutputSize
    BY <2>1, <2>2, <1>5, <1>2
  <2>6. status' \in SC!Out!Statuses
    BY <1>8 DEF SC!Out!Statuses
  <2>7. file' \in Seq(Byte) /\ written' \in Seq(Byte) /\ written' = file' \o rest
    BY <1>7, <1>8, Zenon
  <2>8. fill' = Len(rest)
    BY <1>8
  <2>9. OutputInv'
    BY <2>3, <2>4, <2>5, <2>6, <2>7, <2>8, <1>3, StreamsAssumption, BufferHolds, Zenon
  <2> QED  BY <2>9, <1>8 DEF WriteEnds
<1>9. CASE /\ \E p \in SC!Out!Parts(full) : file' = file \o p
           /\ status' = "failed" /\ outBuffer' = full /\ fill' = fill /\ written' = written
  <2>1. PICK p \in SC!Out!Parts(full) : file' = file \o p
    BY <1>9
  <2>2. p \in Seq(Byte) /\ \E r \in Seq(Byte) : full = p \o r
    BY <1>5, PartFacts, Zenon
  <2>r. PICK r \in Seq(Byte) : full = p \o r
    BY <2>2
  <2>3. file \o full = (file \o p) \o r /\ file \o p \in Seq(Byte)
    <3>1. file \in Seq(Byte) /\ p \in Seq(Byte) /\ r \in Seq(Byte) /\ full = p \o r
      BY <2>2, <2>r, <1>2
    <3> QED  BY ONLY <3>1, Joined3
  <2>4. (file' \o r) \o rest = file' \o (r \o rest) /\ r \o rest \in Seq(Byte)
        /\ file' \in Seq(Byte)
    <3>1. file' \in Seq(Byte) /\ r \in Seq(Byte) /\ rest \in Seq(Byte)
      BY <2>1, <2>2, <2>3, <1>3, Zenon
    <3> QED  BY ONLY <3>1, Joined3
  <2>5. written \o bytes = file' \o (r \o rest)
    BY <2>1, <2>3, <2>4, <1>7, Zenon
  <2>6. WriteEnds(bytes)
    BY <2>4, <2>5, <1>9, Zenon DEF WriteEnds
  <2>7. OutputInv'
    <3>1. full \in [1 .. OutputSize -> Byte]
      BY <1>5, LenProperties
    <3>2. full \in [1 .. OutputSize -> Byte \cup {0}] /\ \A i \in 1 .. fill : full[i] \in Byte
      BY <3>1, <1>2
    <3>3. fill \in 0 .. OutputSize /\ "failed" \in SC!Out!Statuses /\ "failed" # "open"
      BY <1>2 DEF SC!Out!Statuses
    <3> QED  BY <3>2, <3>3, <2>4, <1>2, <1>9, OutputKept, Zenon
  <2> QED  BY <2>6, <2>7
<1> QED  BY <1>1, <1>8, <1>9, Zenon

LEMMA WritesPast ==
  ASSUME OutputInv, status = "open", NEW bytes \in Seq(Byte), SC!Out!WriteLarge(bytes)
  PROVE  OutputInv' /\ WriteEnds(bytes)
<1> DEFINE F == SC!Out!Filled
<1>1. F \in Seq(Byte) /\ file \in Seq(Byte) /\ written \in Seq(Byte)
  BY FilledFacts
<1>2. written = file \o F
  BY DEF OutputInv
<1>3. outBuffer' = outBuffer
  BY Zenon DEF SC!Out!WriteLarge
<1>4. \/ file' = file \o (F \o bytes) /\ fill' = 0 /\ written' = written \o bytes /\ status' = status
      \/ /\ \E p \in SC!Out!Parts(F) : file' = file \o p
         /\ status' = "failed" /\ fill' = fill /\ written' = written
      \/ /\ \E p \in SC!Out!Parts(bytes) : file' = file \o (F \o p)
         /\ status' = "failed" /\ fill' = 0 /\ written' = written
  BY Zenon DEF SC!Out!WriteLarge, SC!Out!FdWrites, SC!Out!FdFails
<1> HIDE DEF F
<1>5. \A x \in Seq(Byte) : /\ file \o (F \o x) = written \o x
                           /\ file \o (F \o x) \in Seq(Byte)
  BY ONLY <1>1, <1>2, Joined3
<1>6. status \in SC!Out!Statuses /\ "failed" \in SC!Out!Statuses /\ "failed" # "open"
  BY DEF SC!Out!Statuses
<1>7. CASE file' = file \o (F \o bytes) /\ fill' = 0 /\ written' = written \o bytes
           /\ status' = status
  <2>1. file' = written \o bytes /\ file' \in Seq(Byte)
    BY <1>5, <1>7, Zenon
  <2>2. OutputInv'
    BY <2>1, <1>3, <1>6, <1>7, BufferEmptied, Zenon
  <2> QED  BY <2>2, <1>7, Zenon DEF WriteEnds
<1>8. CASE /\ \E p \in SC!Out!Parts(F) : file' = file \o p
           /\ status' = "failed" /\ fill' = fill /\ written' = written
  <2>1. PICK p \in SC!Out!Parts(F) : file' = file \o p
    BY <1>8
  <2>2. p \in Seq(Byte) /\ \E r \in Seq(Byte) : F = p \o r
    BY <1>1, PartFacts, Zenon
  <2>3. PICK r \in Seq(Byte) : F = p \o r
    BY <2>2
  <2>4. written = (file \o p) \o r /\ file \o p \in Seq(Byte)
    BY ONLY <1>1, <1>2, <2>2, <2>3, Joined3
  <2>5. \A x \in Seq(Byte) : (x \o r) \o bytes = x \o (r \o bytes) /\ r \o bytes \in Seq(Byte)
    BY ONLY r \in Seq(Byte), bytes \in Seq(Byte), Joined3
  <2>6. written \o bytes = file' \o (r \o bytes) /\ r \o bytes \in Seq(Byte)
    BY <2>1, <2>4, <2>5, Zenon
  <2>7. WriteEnds(bytes)
    BY <2>6, <1>8, Zenon DEF WriteEnds
  <2>8. file' \in Seq(Byte)
    BY <2>1, <2>4, Zenon
  <2>9. OutputInv'
    BY <2>8, <1>3, <1>6, <1>8, BufferKept, Zenon
  <2> QED  BY <2>7, <2>9
<1>9. CASE /\ \E p \in SC!Out!Parts(bytes) : file' = file \o (F \o p)
           /\ status' = "failed" /\ fill' = 0 /\ written' = written
  <2>1. PICK p \in SC!Out!Parts(bytes) : file' = file \o (F \o p)
    BY <1>9
  <2>2. p \in Seq(Byte) /\ \E r \in Seq(Byte) : bytes = p \o r
    BY PartFacts, Zenon
  <2>3. PICK r \in Seq(Byte) : bytes = p \o r
    BY <2>2
  <2>4. file' = written \o p /\ file' \in Seq(Byte)
    BY <2>1, <2>2, <1>5, Zenon
  <2>5. \A x \in Seq(Byte) : (x \o p) \o r = x \o (p \o r)
    BY ONLY <2>2, r \in Seq(Byte), Joined3
  <2>6. written \o bytes = file' \o r
    BY <2>3, <2>4, <2>5, <1>1, Zenon
  <2>7. WriteEnds(bytes)
    BY <2>6, <1>9, Zenon DEF WriteEnds
  <2>8. OutputInv'
    BY <2>4, <1>1, <1>3, <1>6, <1>9, BufferEmptied, Zenon
  <2> QED  BY <2>7, <2>8
<1> QED  BY <1>4, <1>7, <1>8, <1>9, Zenon

LEMMA OutputWrites ==
  ASSUME OutputInv, status = "open", NEW bytes \in Seq(Byte), SC!Out!Write(bytes)
  PROVE  OutputInv' /\ WriteEnds(bytes)
  BY WritesWhatFits, WritesFull, WritesPast DEF SC!Out!Write

LEMMA OutputFlushes ==
  ASSUME OutputInv, status = "open", SC!Out!Flush
  PROVE  OutputInv' /\ WriteEnds(<< >>)
<1> DEFINE F == SC!Out!Filled
<1>1. F \in Seq(Byte) /\ file \in Seq(Byte) /\ written \in Seq(Byte)
  BY FilledFacts
<1>2. written = file \o F
  BY DEF OutputInv
<1>3. outBuffer' = outBuffer /\ written' = written
  BY Zenon DEF SC!Out!Flush
<1>4. \/ file' = file \o F /\ fill' = 0 /\ status' = status
      \/ /\ \E p \in SC!Out!Parts(F) : file' = file \o p
         /\ status' = "failed" /\ fill' = fill
  BY Zenon DEF SC!Out!Flush, SC!Out!FdWrites, SC!Out!FdFails
<1> HIDE DEF F
<1>5. written \o << >> = written
  BY <1>1, ConcatEmptySeq
<1>6. status \in SC!Out!Statuses /\ "failed" \in SC!Out!Statuses /\ "failed" # "open"
  BY DEF SC!Out!Statuses
<1>7. CASE file' = file \o F /\ fill' = 0 /\ status' = status
  <2>1. file' = written
    BY <1>2, <1>7, Zenon
  <2>2. OutputInv'
    BY <2>1, <1>1, <1>3, <1>6, <1>7, BufferEmptied, Zenon
  <2> QED  BY <2>2, <1>3, <1>5, <1>7, Zenon DEF WriteEnds
<1>8. CASE /\ \E p \in SC!Out!Parts(F) : file' = file \o p
           /\ status' = "failed" /\ fill' = fill
  <2>1. PICK p \in SC!Out!Parts(F) : file' = file \o p
    BY <1>8
  <2>2. p \in Seq(Byte) /\ \E r \in Seq(Byte) : F = p \o r
    BY <1>1, PartFacts, Zenon
  <2>3. PICK r \in Seq(Byte) : F = p \o r
    BY <2>2
  <2>4. written = (file \o p) \o r /\ file \o p \in Seq(Byte)
    BY ONLY <1>1, <1>2, <2>2, <2>3, Joined3
  <2>5. file' \in Seq(Byte) /\ written \o << >> = file' \o r
    BY <2>1, <2>4, <1>5, Zenon
  <2>6. WriteEnds(<< >>)
    BY <2>5, <1>3, <1>8, Zenon DEF WriteEnds
  <2>7. OutputInv'
    BY <2>5, <1>3, <1>6, <1>8, BufferKept, Zenon
  <2> QED  BY <2>6, <2>7
<1> QED  BY <1>4, <1>7, <1>8, Zenon

LEMMA OutputDestroyed ==
  ASSUME OutputInv, SC!Out!Destroy
  PROVE  /\ OutputInv' /\ status' \in {"destroyed", "destroyed after failure"}
         /\ status' = "destroyed" => file' = written' /\ status = "open"
<1> DEFINE F == SC!Out!Filled
<1>1. F \in Seq(Byte) /\ file \in Seq(Byte) /\ written \in Seq(Byte) /\ file \o F \in Seq(Byte)
  BY FilledFacts
<1>2. outBuffer' = outBuffer /\ written' = written /\ fill' = 0
  BY Zenon DEF SC!Out!Destroy
<1>3. \/ /\ file' = file \o F
         /\ status' = IF status = "open" THEN "destroyed" ELSE "destroyed after failure"
      \/ /\ \E p \in SC!Out!Parts(F) : file' = file \o p
         /\ status' = "destroyed after failure"
  BY Zenon DEF SC!Out!Destroy, SC!Out!FdWrites
<1> HIDE DEF F
<1>4. file' \in Seq(Byte)
  <2>1. \A p \in SC!Out!Parts(F) : file \o p \in Seq(Byte)
    <3> TAKE p \in SC!Out!Parts(F)
    <3>1. p \in Seq(Byte)
      BY <1>1, PartFacts, Zenon
    <3> QED  BY <3>1, <1>1, ConcatProperties
  <2> QED  BY <2>1, <1>1, <1>3, Zenon
<1>5. status' \in {"destroyed", "destroyed after failure"}
  BY <1>3
<1>6. status' \in SC!Out!Statuses /\ status' # "open"
  BY <1>5 DEF SC!Out!Statuses
<1>7. OutputInv'
  BY <1>1, <1>2, <1>4, <1>6, BufferEmptied, Zenon
<1>8. ASSUME status' = "destroyed" PROVE file' = written' /\ status = "open"
  <2>1. "destroyed" # "destroyed after failure"
    OBVIOUS
  <2>2. file' = file \o F /\ status = "open"
    BY <2>1, <1>3, <1>8, Zenon
  <2>3. written = file \o F
    BY <2>2 DEF OutputInv, F
  <2> QED  BY <2>2, <2>3, <1>2
<1> QED  BY <1>5, <1>7, <1>8

-----------------------------------------------------------------------------
(* The copy.                                                               *)

\* s is the piece of the file that ends behind its first e bytes.
RunTo(s, e) == \E a \in Nat : IsRun(s, a) /\ a + Len(s) = e

Tried == written \o unwritten \o (IF last.op = "look" THEN last.bytes ELSE << >>)

CopyInv ==
    /\ InputInv /\ OutputInv
    /\ unwritten \in Seq(Byte)
    /\ due \in Nat
    /\ due > 0 => last.op = "look" /\ due <= to - from
    /\ status = "open" => RunTo(written \o unwritten, consumed + due)
    /\ status = "failed" => SC!IsPrefix(file, Tried)
    /\ status = "destroyed" => file = written

LEMMA RunOfBytes ==
  ASSUME NEW s, NEW a, IsRun(s, a), a + Len(s) <= FileSize
  PROVE  s \in Seq(Byte)
<1>1. s \in Seq(Nat) /\ Len(s) \in Nat /\ s \in [1 .. Len(s) -> Nat] /\ a \in Nat
      /\ \A i \in 1 .. Len(s) : s[i] = a + i
  BY LenProperties DEF IsRun
<1>2. \A i \in 1 .. Len(s) : s[i] \in Byte
  BY <1>1, StreamsAssumption DEF Byte
<1>3. s \in [1 .. Len(s) -> Byte]
  BY <1>1, <1>2
<1> QED  BY <1>1, <1>3, FunctionIsSeq

LEMMA BytesAreNumbers == ASSUME NEW s \in Seq(Byte) PROVE s \in Seq(Nat)
<1>1. Byte \subseteq Nat
  BY DEF Byte
<1> QED  BY <1>1, SeqMonotonic

LEMMA NumbersJoined ==
  \A s, t, u \in Seq(Nat) : (s \o t) \o u = s \o (t \o u) /\ s \o t \in Seq(Nat)
<1> TAKE s, t, u \in Seq(Nat)
<1> QED  BY Joined3, SMTT(60)

LEMMA FourJoined ==
  ASSUME NEW S, NEW s \in Seq(S), NEW t \in Seq(S), NEW u \in Seq(S), NEW v \in Seq(S)
  PROVE  u \o v \in Seq(S) /\ (s \o (t \o u)) \o v = (s \o t) \o (u \o v)
<1> DEFINE w == s \o t
<1>1. w \in Seq(S) /\ u \o v \in Seq(S)
  BY ConcatProperties
<1>2. s \o (t \o u) = w \o u
  BY ConcatAssociative, SMTT(60)
<1> HIDE DEF w
<1>3. (w \o u) \o v = w \o (u \o v)
  BY <1>1, ConcatAssociative, SMTT(60)
<1> QED  BY <1>1, <1>2, <1>3, Zenon DEF w

LEMMA FourNumbersJoined ==
  \A s, t, u, v \in Seq(Nat) :
      u \o v \in Seq(Nat) /\ (s \o (t \o u)) \o v = (s \o t) \o (u \o v)
<1> TAKE s, t, u, v \in Seq(Nat)
<1> QED  BY FourJoined, SMTT(60)

\* A write that fails has written a beginning of what is tried.
LEMMA TriedBegins ==
  ASSUME NEW f \in Seq(Byte), NEW r \in Seq(Byte), NEW w \in Seq(Byte), NEW b \in Seq(Byte),
         w \o b = f \o r, NEW x \in Seq(Nat)
  PROVE  SC!IsPrefix(f, w \o b \o x)
<1>1. f \in Seq(Nat) /\ r \in Seq(Nat) /\ x \in Seq(Nat)
  BY BytesAreNumbers
<1>2. (f \o r) \o x = f \o (r \o x) /\ r \o x \in Seq(Nat)
  BY <1>1, NumbersJoined, Zenon
<1>3. SC!IsPrefix(f, f \o (r \o x))
  BY <1>1, <1>2, JoinedBegins, Zenon
<1> QED  BY <1>2, <1>3, Zenon

LEMMA RunExtended ==
  ASSUME NEW s, NEW t, NEW e, RunTo(s, e), IsRun(t, e)
  PROVE  RunTo(s \o t, e + Len(t))
<1>1. PICK a \in Nat : IsRun(s, a) /\ a + Len(s) = e
  BY DEF RunTo
<1>2. IsRun(s \o t, a) /\ Len(s \o t) = Len(s) + Len(t)
  BY <1>1, RunJoined
<1>3. Len(s) \in Nat /\ Len(t) \in Nat
  BY <1>1, LenProperties DEF IsRun
<1>4. a + Len(s \o t) = e + Len(t)
  BY <1>1, <1>2, <1>3
<1> QED  BY <1>2, <1>4 DEF RunTo

LEMMA CopyInitInv == SC!Init => CopyInv
<1> SUFFICES ASSUME SC!Init PROVE CopyInv
  OBVIOUS
<1>1. /\ inner = 0 /\ inBuffer = [i \in 1 .. InputSize |-> 0] /\ from = 0 /\ to = 0
      /\ consumed = 0 /\ last = [op |-> "none", min |-> 0, bytes |-> << >>, threw |-> FALSE]
  BY DEF SC!Init, SC!In!Init, SC!In!NoOp
<1>2. /\ file = << >> /\ outBuffer = [i \in 1 .. OutputSize |-> 0] /\ fill = 0
      /\ written = << >> /\ status = "open" /\ unwritten = << >> /\ due = 0
  BY DEF SC!Init, SC!Out!Init
<1>3. FileSize \in Nat /\ InputSize \in Nat /\ OutputSize \in Nat
  BY StreamsAssumption
<1>4. InputInv
  BY <1>1, <1>3 DEF InputInv, InputTypes, BufferIsNext, SC!In!ShortAtEnd
<1>5. << >> \in Seq(Byte) /\ << >> \o << >> = << >>
  BY ConcatEmptySeq, EmptySeq
<1>6. OutputInv
  <2>1. SC!Out!Filled = << >>
    BY <1>2, SubSeqEmpty DEF SC!Out!Filled
  <2>2. SC!Out!TypeOK
    BY <1>2, <1>3, <1>5 DEF SC!Out!TypeOK, SC!Out!Statuses, Byte
  <2> QED  BY <2>1, <2>2, <1>2, <1>5 DEF OutputInv
<1>7. RunTo(written \o unwritten, consumed + due)
  <2>1. IsRun(<< >>, 0) /\ 0 + Len(<< >>) = 0
    BY EmptyRun
  <2> QED  BY <2>1, <1>1, <1>2, <1>5 DEF RunTo
<1> QED  BY <1>1, <1>2, <1>4, <1>5, <1>6, <1>7 DEF CopyInv

LEMMA InputKept == InputInv /\ UNCHANGED SC!input => InputInv'
  BY Zenon DEF SC!input, InputInv, InputTypes, BufferIsNext, SC!In!ShortAtEnd, SC!In!Available

LEMMA OutputStays == OutputInv /\ UNCHANGED SC!output => OutputInv'
  BY Zenon DEF SC!output, OutputInv, SC!Out!TypeOK, SC!Out!Filled

LEMMA CopyFacts ==
  ASSUME CopyInv
  PROVE  /\ file \in Seq(Byte) /\ written \in Seq(Byte) /\ unwritten \in Seq(Byte)
         /\ consumed \in Nat /\ to - from \in Nat /\ InputTypes
         /\ consumed + due <= FileSize /\ FileSize \in Nat
         /\ ~last.threw => IsRun(SC!In!Available, consumed) /\ Len(SC!In!Available) = to - from
         /\ last.op = "look" => ~last.threw /\ last.bytes = SC!In!Available
<1>1. InputInv /\ OutputInv /\ InputTypes /\ unwritten \in Seq(Byte)
  BY DEF CopyInv, InputInv
<1>2. file \in Seq(Byte) /\ written \in Seq(Byte)
  BY <1>1, FilledFacts
<1>3. /\ consumed \in Nat /\ consumed <= FileSize /\ to \in Nat /\ from \in Nat /\ from <= to
      /\ inner \in Nat /\ inner <= FileSize /\ FileSize \in Nat /\ to - from \in Nat
  BY <1>1, StreamsAssumption DEF InputTypes
<1>4. ~last.threw => IsRun(SC!In!Available, consumed) /\ Len(SC!In!Available) = to - from
  BY <1>1, AvailableRun DEF InputInv
<1>5. last.op = "look" => ~last.threw /\ last.bytes = SC!In!Available
  BY <1>1 DEF InputInv
<1>6. consumed + due <= FileSize
  <2>1. CASE due = 0
    BY <2>1, <1>3
  <2>2. CASE due # 0
    <3>1. due > 0 /\ due \in Nat /\ due <= to - from /\ ~last.threw
      BY <2>2, <1>5 DEF CopyInv
    <3>2. consumed + (to - from) = inner
      BY <3>1, <1>1 DEF InputInv, BufferIsNext
    <3> QED  BY <3>1, <3>2, <1>3
  <2> QED  BY <2>1, <2>2
<1> QED  BY <1>1, <1>2, <1>3, <1>4, <1>5, <1>6

\* A step of the input stream: what is given is read or skipped.
LEMMA LookStep ==
  ASSUME CopyInv, SC!Look
  PROVE  CopyInv'
<1>1. /\ ~last.threw /\ status = "open" /\ unwritten = << >> /\ due = 0
      /\ SC!In!TryGetReadBuffer /\ UNCHANGED SC!output /\ unwritten' = unwritten /\ due' = due
  BY DEF SC!Look, SC!Idle, SC!Working
<1>2. InputInv' /\ consumed' = consumed
  BY <1>1, InputLooks DEF CopyInv
<1>3. OutputInv' /\ written' = written /\ status' = status
  BY <1>1, OutputStays DEF CopyInv, SC!output
<1>4. unwritten' \in Seq(Byte) /\ due' \in Nat /\ ~(due > 0)
  BY <1>1 DEF CopyInv
<1>5. status' # "failed" /\ status' # "destroyed"
  BY <1>1, <1>3
<1>6. RunTo(written' \o unwritten', consumed' + due')
  BY <1>1, <1>2, <1>3, Zenon DEF CopyInv
<1>7. ~(due' > 0)
  BY <1>1, <1>4, Zenon
<1> QED  BY <1>2, <1>3, <1>4, <1>5, <1>6, <1>7, Zenon DEF CopyInv

LEMMA SkipStep ==
  ASSUME CopyInv, SC!Skip
  PROVE  CopyInv'
<1>1. /\ ~last.threw /\ status = "open" /\ unwritten = << >> /\ due = 0 /\ written = << >>
      /\ UNCHANGED SC!output /\ unwritten' = unwritten /\ due' = due
      /\ \E n \in SC!In!Requests : SC!In!Skip(n)
  BY DEF SC!Skip, SC!Idle, SC!Working
<1>2. PICK n \in SC!In!Requests : SC!In!Skip(n)
  BY <1>1
<1>3. n \in Nat
  BY StreamsAssumption DEF SC!In!Requests
<1>4. InputInv'
  BY <1>1, <1>2, <1>3, InputSkips DEF CopyInv
<1>5. OutputInv' /\ written' = written /\ status' = status
  BY <1>1, OutputStays DEF CopyInv, SC!output
<1>6. unwritten' \in Seq(Byte) /\ due' \in Nat /\ ~(due > 0)
  BY <1>1 DEF CopyInv
<1>7. status' # "failed" /\ status' # "destroyed"
  BY <1>1, <1>5
<1>8. RunTo(written' \o unwritten', consumed' + due')
  <2>1. consumed' \in Nat
    <3>1. \A c \in 0 .. FileSize : c \in Nat
      BY StreamsAssumption
    <3> QED  BY <3>1, <1>4, Zenon DEF InputInv, InputTypes
  <2>2. \A c \in Nat : RunTo(<< >>, c + 0)
    <3> TAKE c \in Nat
    <3>1. IsRun(<< >>, c) /\ c + Len(<< >>) = c + 0
      BY EmptyRun
    <3> QED  BY <3>1 DEF RunTo
  <2>3. written' \o unwritten' = << >>
    <3>1. << >> \o << >> = << >>
      BY ConcatEmptySeq, EmptySeq
    <3> QED  BY <3>1, <1>1, <1>5, Zenon
  <2> QED  BY <2>1, <2>2, <2>3, <1>1, Zenon
<1>9. ~(due' > 0)
  BY <1>1, <1>6, Zenon
<1> QED  BY <1>4, <1>5, <1>6, <1>7, <1>8, <1>9, Zenon DEF CopyInv

LEMMA ReadStep ==
  ASSUME CopyInv, SC!Read
  PROVE  CopyInv'
<1>1. /\ ~last.threw /\ status = "open" /\ unwritten = << >> /\ due = 0
      /\ UNCHANGED SC!output /\ unwritten' = last'.bytes /\ due' = due
      /\ \E min, max \in SC!In!Requests : min <= max /\ SC!In!TryRead(min, max)
  BY Zenon DEF SC!Read, SC!Idle, SC!Working
<1>2. PICK min \in SC!In!Requests, max \in SC!In!Requests : min <= max /\ SC!In!TryRead(min, max)
  BY <1>1
<1>3. min \in Nat /\ max \in Nat
  BY StreamsAssumption DEF SC!In!Requests
<1>4. InputInv' /\ OperationEnds
  BY <1>1, <1>2, <1>3, InputReads DEF CopyInv
<1>5. OutputInv' /\ written' = written /\ status' = status
  BY <1>1, OutputStays DEF CopyInv, SC!output
<1>6. due' \in Nat /\ ~(due > 0)
  BY <1>1 DEF CopyInv
<1>7. status' # "failed" /\ status' # "destroyed"
  BY <1>1, <1>5
<1>8. ~(due' > 0)
  BY <1>1, <1>6, Zenon
<1>9. RunTo(written, consumed) /\ written \in Seq(Byte) /\ written \o << >> = written
      /\ consumed \in Nat
  <2>1. written \in Seq(Byte) /\ consumed \in Nat
    BY CopyFacts
  <2>2. written \o << >> = written
    BY <2>1, ConcatEmptySeq
  <2>3. consumed + due = consumed
    BY <2>1, <1>1
  <2> QED  BY <2>1, <2>2, <2>3, <1>1, Zenon DEF CopyInv
<1>10. CASE last'.threw /\ last'.bytes = << >> /\ UNCHANGED consumed
  <2>1. RunTo(written' \o unwritten', consumed' + due')
    <3>1. consumed + 0 = consumed
      BY <1>9
    <3> QED  BY <3>1, <1>1, <1>5, <1>9, <1>10, Zenon
  <2>2. unwritten' \in Seq(Byte)
    BY <1>1, <1>10, EmptySeq, Zenon
  <2> QED  BY <2>1, <2>2, <1>4, <1>5, <1>6, <1>7, <1>8, Zenon DEF CopyInv
<1>11. CASE /\ ~last'.threw
            /\ IsRun(last'.bytes, consumed) /\ consumed' = consumed + Len(last'.bytes)
  <2> DEFINE b == last'.bytes
  <2>1. consumed' \in 0 .. FileSize
    BY <1>4, Zenon DEF InputInv, InputTypes
  <2>2. b = unwritten'
    BY <1>1, Zenon
  <2>3. IsRun(b, consumed) /\ consumed + Len(b) \in 0 .. FileSize /\ consumed' = consumed + Len(b)
    BY <2>1, <1>11, Zenon
  <2> HIDE DEF b
  <2>4. consumed + Len(b) <= FileSize /\ (consumed + Len(b)) + 0 = consumed + Len(b)
    BY <2>3, StreamsAssumption
  <2>5. b \in Seq(Byte)
    BY <2>3, <2>4, RunOfBytes
  <2>6. RunTo(written \o b, consumed + Len(b))
    BY <1>9, <2>3, RunExtended
  <2>7. consumed' + due' = consumed + Len(b)
    BY <2>3, <2>4, <1>1, Zenon
  <2>8. RunTo(written' \o unwritten', consumed' + due')
    BY <2>2, <2>6, <2>7, <1>5, Zenon
  <2>9. unwritten' \in Seq(Byte)
    BY <2>2, <2>5, Zenon
  <2> QED  BY <2>8, <2>9, <1>4, <1>5, <1>6, <1>7, <1>8, Zenon DEF CopyInv
<1> QED  BY <1>4, <1>10, <1>11 DEF OperationEnds

LEMMA WritePendingStep ==
  ASSUME CopyInv, SC!WritePending
  PROVE  CopyInv'
<1>1. /\ ~last.threw /\ status = "open" /\ UNCHANGED SC!input /\ due' = due
      /\ \E n \in 0 .. Len(unwritten) :
            /\ SC!Out!Write(SubSeq(unwritten, 1, n))
            /\ unwritten' = IF status' = "open" THEN SubSeq(unwritten, n + 1, Len(unwritten))
                            ELSE unwritten
  BY Zenon DEF SC!WritePending, SC!Working
<1>2. PICK n \in 0 .. Len(unwritten) :
            /\ SC!Out!Write(SubSeq(unwritten, 1, n))
            /\ unwritten' = IF status' = "open" THEN SubSeq(unwritten, n + 1, Len(unwritten))
                            ELSE unwritten
  BY <1>1
<1> DEFINE b == SubSeq(unwritten, 1, n)
           r == SubSeq(unwritten, n + 1, Len(unwritten))
<1>3. b \in Seq(Byte) /\ r \in Seq(Byte) /\ unwritten = b \o r
  BY Split DEF CopyInv
<1>4. SC!Out!Write(b) /\ unwritten' = IF status' = "open" THEN r ELSE unwritten
  BY <1>2
<1> HIDE DEF b, r
<1>5. OutputInv' /\ WriteEnds(b)
  BY <1>1, <1>3, <1>4, OutputWrites, Zenon DEF CopyInv
<1>6. InputInv' /\ consumed' = consumed /\ last' = last /\ to' = to /\ from' = from
  BY <1>1, InputKept, Zenon DEF CopyInv, SC!input
<1>7. due' \in Nat /\ (due' > 0 => last'.op = "look" /\ due' <= to' - from')
  BY <1>1, <1>6, Zenon DEF CopyInv
<1>8. written \in Seq(Byte) /\ unwritten \in Seq(Byte)
  BY CopyFacts
<1>9. CASE status' = "open" /\ written' = written \o b
  <2>1. unwritten' = r
    BY <1>4, <1>9, Zenon
  <2>2. \A x \in Seq(Byte) : x \o (b \o r) = (x \o b) \o r
    BY ONLY <1>3, Joined3
  <2>3. written' \o unwritten' = written \o unwritten
    BY <2>1, <2>2, <1>3, <1>8, <1>9, Zenon
  <2>4. RunTo(written' \o unwritten', consumed' + due')
    BY <2>3, <1>1, <1>6, Zenon DEF CopyInv
  <2>5. status' # "failed" /\ status' # "destroyed"
    BY <1>9
  <2> QED  BY <2>1, <2>4, <2>5, <1>3, <1>5, <1>6, <1>7, Zenon DEF CopyInv
<1>10. CASE /\ status' = "failed" /\ written' = written
            /\ \E rest \in Seq(Byte) : written \o b = file' \o rest
  <2>1. PICK rest \in Seq(Byte) : written \o b = file' \o rest
    BY <1>10
  <2>2. "failed" # "open" /\ "failed" # "destroyed"
    OBVIOUS
  <2>3. unwritten' = unwritten
    BY <2>2, <1>4, <1>10, Zenon
  <2>4. file' \in Seq(Byte)
    BY <1>5, Zenon DEF OutputInv, SC!Out!TypeOK, Byte
  <2> DEFINE x == IF last.op = "look" THEN last.bytes ELSE << >>
  <2>5. x \in Seq(Nat)
    BY CopyFacts, EmptySeq DEF IsRun
  <2> HIDE DEF x
  <2>6. r \o x \in Seq(Nat) /\ (written \o unwritten) \o x = (written \o b) \o (r \o x)
    <3>1. b \in Seq(Nat) /\ r \in Seq(Nat) /\ written \in Seq(Nat)
      BY <1>3, <1>8, BytesAreNumbers
    <3>2. r \o x \in Seq(Nat) /\ (written \o (b \o r)) \o x = (written \o b) \o (r \o x)
      BY <3>1, <2>5, FourNumbersJoined, SMTT(60)
    <3> QED  BY <3>2, <1>3, Zenon
  <2>7. SC!IsPrefix(file', (written \o b) \o (r \o x))
    BY <2>1, <2>4, <2>6, <1>3, <1>8, TriedBegins, Zenon
  <2>8. Tried' = (written \o unwritten) \o x
    BY <2>3, <1>6, <1>10, Zenon DEF Tried, x
  <2>9. SC!IsPrefix(file', Tried')
    BY <2>6, <2>7, <2>8, Zenon
  <2> QED  BY <2>2, <2>3, <2>9, <1>5, <1>6, <1>7, <1>8, <1>10, Zenon DEF CopyInv
<1> QED  BY <1>5, <1>9, <1>10, Zenon DEF WriteEnds

LEMMA WriteLookedStep ==
  ASSUME CopyInv, SC!WriteLooked
  PROVE  CopyInv'
<1>1. /\ ~last.threw /\ status = "open" /\ unwritten = << >> /\ due = 0 /\ last.op = "look"
      /\ UNCHANGED SC!input /\ unwritten' = unwritten
      /\ \E n \in 1 .. Len(last.bytes) :
            /\ SC!Out!Write(SubSeq(last.bytes, 1, n))
            /\ due' = IF status' = "open" THEN n ELSE 0
  BY Zenon DEF SC!WriteLooked, SC!Idle, SC!Working
<1>2. PICK n \in 1 .. Len(last.bytes) :
            /\ SC!Out!Write(SubSeq(last.bytes, 1, n))
            /\ due' = IF status' = "open" THEN n ELSE 0
  BY <1>1
<1> DEFINE L == last.bytes
           b == SubSeq(L, 1, n)
           r == SubSeq(L, n + 1, Len(L))
<1>3. /\ IsRun(L, consumed) /\ Len(L) = to - from /\ consumed \in Nat /\ to - from \in Nat
      /\ written \in Seq(Byte) /\ unwritten \in Seq(Byte)
  BY <1>1, CopyFacts
<1>4. L \in Seq(Nat)
  BY <1>3 DEF IsRun
<1>5. SC!Out!Write(b) /\ due' = IF status' = "open" THEN n ELSE 0
  BY <1>2
<1>6. n \in Nat /\ n \in 1 .. Len(L) /\ n \in 0 .. Len(L) /\ n <= to - from
  BY <1>3
<1> HIDE DEF L
<1>7. IsRun(b, consumed) /\ Len(b) = n
  <2>1. IsRun(SubSeq(L, 1, n), consumed + (1 - 1)) /\ Len(SubSeq(L, 1, n)) = n + 1 - 1
    <3>1. 1 \in Nat \ {0} /\ n \in Nat /\ n <= Len(L) /\ 1 <= n + 1
      BY <1>3, <1>6
    <3> QED  BY <3>1, <1>3, RunCut
  <2> QED  BY <2>1, <1>3, <1>6
<1>8. r \in Seq(Nat) /\ L = b \o r
  BY <1>4, <1>6, Split
<1> HIDE DEF b, r
<1>9. b \in Seq(Byte)
  <2>1. consumed + Len(b) <= FileSize
    <3>1. consumed + (to - from) = inner /\ inner \in Nat /\ inner <= FileSize /\ FileSize \in Nat
      BY <1>1, StreamsAssumption DEF CopyInv, InputInv, BufferIsNext, InputTypes
    <3> QED  BY <3>1, <1>3, <1>6, <1>7
  <2> QED  BY <2>1, <1>7, RunOfBytes
<1>10. OutputInv' /\ WriteEnds(b)
  BY <1>1, <1>5, <1>9, OutputWrites, Zenon DEF CopyInv
<1>11. InputInv' /\ consumed' = consumed /\ last' = last /\ to' = to /\ from' = from
  BY <1>1, InputKept, Zenon DEF CopyInv, SC!input
<1>12. written \o << >> = written /\ unwritten' = << >> /\ unwritten' \in Seq(Byte)
  BY <1>1, <1>3, ConcatEmptySeq
<1>13. CASE status' = "open" /\ written' = written \o b
  <2>1. due' = n
    BY <1>5, <1>13, Zenon
  <2>2. written \o b \in Seq(Byte) /\ (written \o b) \o << >> = written \o b
    BY <1>3, <1>9, ConcatEmptySeq, ConcatProperties
  <2>3. RunTo(written, consumed)
    <3>1. consumed + due = consumed
      BY <1>1, <1>3
    <3> QED  BY <3>1, <1>1, <1>12, Zenon DEF CopyInv
  <2>4. RunTo(written \o b, consumed + n)
    BY <2>3, <1>7, RunExtended
  <2>5. RunTo(written' \o unwritten', consumed' + due')
    BY <2>1, <2>2, <2>4, <1>11, <1>12, <1>13, Zenon
  <2>6. status' # "failed" /\ status' # "destroyed"
    BY <1>13
  <2>7. due' \in Nat /\ last'.op = "look" /\ due' <= to' - from'
    BY <2>1, <1>1, <1>6, <1>11, Zenon
  <2> QED  BY <2>5, <2>6, <2>7, <1>10, <1>11, <1>12, Zenon DEF CopyInv
<1>14. CASE /\ status' = "failed" /\ written' = written
            /\ \E rest \in Seq(Byte) : written \o b = file' \o rest
  <2>1. PICK rest \in Seq(Byte) : written \o b = file' \o rest
    BY <1>14
  <2>2. "failed" # "open" /\ "failed" # "destroyed" /\ 0 \in Nat /\ ~(0 > 0)
    OBVIOUS
  <2>3. due' = 0
    BY <2>2, <1>5, <1>14, Zenon
  <2>4. file' \in Seq(Byte)
    BY <1>10, Zenon DEF OutputInv, SC!Out!TypeOK, Byte
  <2>5. SC!IsPrefix(file', (written \o b) \o r)
    BY <2>1, <2>4, <1>3, <1>8, <1>9, TriedBegins, Zenon
  <2>6. (written \o b) \o r = written \o (b \o r)
    <3>1. b \in Seq(Nat) /\ written \in Seq(Nat)
      BY <1>3, <1>9, BytesAreNumbers
    <3> QED  BY <3>1, <1>8, NumbersJoined, Zenon
  <2>7. Tried' = (written \o << >>) \o L
    BY <1>1, <1>11, <1>12, <1>14, Zenon DEF Tried, L
  <2>8. SC!IsPrefix(file', Tried')
    BY <2>5, <2>6, <2>7, <1>8, <1>12, Zenon
  <2> QED  BY <2>2, <2>3, <2>8, <1>10, <1>11, <1>12, <1>14, Zenon DEF CopyInv
<1> QED  BY <1>10, <1>13, <1>14, Zenon DEF WriteEnds

LEMMA SkipLookedStep ==
  ASSUME CopyInv, SC!SkipLooked
  PROVE  CopyInv'
<1>1. /\ ~last.threw /\ status = "open" /\ due > 0 /\ SC!In!Skip(due) /\ due' = 0
      /\ UNCHANGED SC!output /\ unwritten' = unwritten
  BY Zenon DEF SC!SkipLooked, SC!Working
<1>2. due \in Nat /\ due <= to - from
  BY <1>1 DEF CopyInv
<1>3. InputInv' /\ OperationEnds /\ ~last'.threw /\ Len(last'.bytes) = due
  BY <1>1, <1>2, InputSkips DEF CopyInv
<1>4. consumed' = consumed + due
  BY <1>3, Zenon DEF OperationEnds
<1>5. OutputInv' /\ written' = written /\ status' = status
  BY <1>1, OutputStays DEF CopyInv, SC!output
<1>6. 0 \in Nat /\ ~(0 > 0) /\ (consumed + due) + 0 = consumed + due
  BY <1>2, CopyFacts
<1>7. RunTo(written' \o unwritten', consumed' + due')
  BY <1>1, <1>4, <1>5, <1>6, Zenon DEF CopyInv
<1>8. status' # "failed" /\ status' # "destroyed"
  BY <1>1, <1>5
<1>9. unwritten' \in Seq(Byte)
  BY <1>1 DEF CopyInv
<1> QED  BY <1>1, <1>3, <1>5, <1>6, <1>7, <1>8, <1>9, Zenon DEF CopyInv

LEMMA FlushStep ==
  ASSUME CopyInv, SC!Flush
  PROVE  CopyInv'
<1>1. /\ status = "open" /\ SC!Out!Flush /\ UNCHANGED SC!input /\ unwritten' = unwritten
      /\ due' = due
  BY Zenon DEF SC!Flush, SC!Working
<1>2. OutputInv' /\ WriteEnds(<< >>)
  BY <1>1, OutputFlushes DEF CopyInv
<1>3. InputInv' /\ consumed' = consumed /\ last' = last /\ to' = to /\ from' = from
  BY <1>1, InputKept, Zenon DEF CopyInv, SC!input
<1>4. written \in Seq(Byte) /\ unwritten \in Seq(Byte) /\ << >> \in Seq(Byte)
      /\ written \o << >> = written
  BY CopyFacts, ConcatEmptySeq, EmptySeq
<1>5. /\ unwritten' \in Seq(Byte) /\ due' \in Nat
      /\ due' > 0 => last'.op = "look" /\ due' <= to' - from'
  BY <1>1, <1>3, <1>4, Zenon DEF CopyInv
<1>6. CASE status' = "open" /\ written' = written \o << >>
  <2>1. RunTo(written' \o unwritten', consumed' + due')
    BY <1>1, <1>3, <1>4, <1>6, Zenon DEF CopyInv
  <2>2. status' # "failed" /\ status' # "destroyed"
    BY <1>6
  <2> QED  BY <2>1, <2>2, <1>2, <1>3, <1>5, Zenon DEF CopyInv
<1>7. CASE /\ status' = "failed" /\ written' = written
           /\ \E rest \in Seq(Byte) : written \o << >> = file' \o rest
  <2>1. PICK rest \in Seq(Byte) : written \o << >> = file' \o rest
    BY <1>7
  <2>2. "failed" # "open" /\ "failed" # "destroyed"
    OBVIOUS
  <2>3. file' \in Seq(Byte)
    BY <1>2, Zenon DEF OutputInv, SC!Out!TypeOK, Byte
  <2> DEFINE x == IF last.op = "look" THEN last.bytes ELSE << >>
  <2>4. x \in Seq(Nat)
    BY CopyFacts, EmptySeq DEF IsRun
  <2> HIDE DEF x
  <2>5. unwritten \o x \in Seq(Nat) /\ (written \o unwritten) \o x = written \o (unwritten \o x)
    <3>1. written \in Seq(Nat) /\ unwritten \in Seq(Nat)
      BY <1>4, BytesAreNumbers
    <3> QED  BY <3>1, <2>4, NumbersJoined, Zenon
  <2>6. SC!IsPrefix(file', (written \o << >>) \o (unwritten \o x))
    BY <2>1, <2>3, <2>5, <1>4, TriedBegins, Zenon
  <2>7. Tried' = (written \o unwritten) \o x
    BY <1>1, <1>3, <1>7, Zenon DEF Tried, x
  <2>8. SC!IsPrefix(file', Tried')
    BY <2>5, <2>6, <2>7, <1>4, Zenon
  <2> QED  BY <2>2, <2>8, <1>2, <1>3, <1>5, <1>7, Zenon DEF CopyInv
<1> QED  BY <1>2, <1>6, <1>7, Zenon DEF WriteEnds

LEMMA DestroyStep ==
  ASSUME CopyInv, SC!Destroy
  PROVE  CopyInv'
<1>1. SC!Out!Destroy /\ UNCHANGED SC!input /\ unwritten' = unwritten /\ due' = due
  BY Zenon DEF SC!Destroy
<1>2. /\ OutputInv' /\ status' \in {"destroyed", "destroyed after failure"}
      /\ status' = "destroyed" => file' = written'
  BY <1>1, OutputDestroyed DEF CopyInv
<1>3. InputInv' /\ last' = last /\ to' = to /\ from' = from
  BY <1>1, InputKept, Zenon DEF CopyInv, SC!input
<1>4. status' # "open" /\ status' # "failed"
  BY <1>2
<1>5. /\ unwritten' \in Seq(Byte) /\ due' \in Nat
      /\ due' > 0 => last'.op = "look" /\ due' <= to' - from'
  BY <1>1, <1>3, Zenon DEF CopyInv
<1> QED  BY <1>2, <1>3, <1>4, <1>5, Zenon DEF CopyInv

LEMMA CopyNextInv == CopyInv /\ [SC!Next]_SC!vars => CopyInv'
<1> SUFFICES ASSUME CopyInv, [SC!Next]_SC!vars PROVE CopyInv'
  OBVIOUS
<1>1. CASE SC!Next
  BY <1>1, LookStep, SkipStep, ReadStep, WritePendingStep, WriteLookedStep, SkipLookedStep,
     FlushStep, DestroyStep DEF SC!Next
<1>2. CASE UNCHANGED SC!vars
  <2>1. UNCHANGED SC!input /\ UNCHANGED SC!output /\ unwritten' = unwritten /\ due' = due
    BY <1>2 DEF SC!vars
  <2>2. InputInv' /\ OutputInv'
    BY <2>1, InputKept, OutputStays DEF CopyInv
  <2>3. /\ consumed' = consumed /\ last' = last /\ to' = to /\ from' = from
        /\ file' = file /\ written' = written /\ status' = status
    BY <2>1, Zenon DEF SC!input, SC!output
  <2> QED  BY <2>1, <2>2, <2>3, Zenon DEF CopyInv, Tried
<1> QED  BY <1>1, <1>2

LEMMA CopyInvEnough == CopyInv => SC!TypeOK /\ SC!CopiedInOrder /\ SC!Complete /\ SC!ShortAtEnd
<1> SUFFICES ASSUME CopyInv
             PROVE  SC!TypeOK /\ SC!CopiedInOrder /\ SC!Complete /\ SC!ShortAtEnd
  OBVIOUS
<1>1. InputInv /\ OutputInv /\ InputTypes
  BY DEF CopyInv, InputInv
<1>2. SC!ShortAtEnd
  BY <1>1 DEF InputInv, SC!ShortAtEnd
<1>3. SC!Complete
  BY DEF CopyInv, SC!Complete, Tried
<1>4. SC!CopiedInOrder
  <2> SUFFICES ASSUME status = "open"
               PROVE  LET bytes == file \o SC!Out!Filled \o unwritten
                          end == consumed + due
                      IN  bytes = SubSeq(SC!In!File, end + 1 - Len(bytes), end)
    BY DEF SC!CopiedInOrder
  <2> DEFINE s == file \o SC!Out!Filled \o unwritten
             e == consumed + due
  <2>1. s = written \o unwritten
    BY <1>1 DEF OutputInv
  <2>2. RunTo(s, e)
    BY <2>1 DEF CopyInv
  <2>3. e \in Nat /\ e <= FileSize /\ FileSize \in Nat
    BY CopyFacts DEF CopyInv
  <2> HIDE DEF s, e
  <2>4. PICK a \in Nat : IsRun(s, a) /\ a + Len(s) = e
    BY <2>2 DEF RunTo
  <2>5. s = SubSeq([i \in 1 .. FileSize |-> i], e + 1 - Len(s), e)
    BY <2>3, <2>4, RunOfFile
  <2> QED  BY <2>5 DEF s, e, SC!In!File
<1>5. SC!In!TypeOK
  BY <1>1 DEF InputInv, InputTypes, BufferIsNext, SC!In!TypeOK
<1>6. due \in 0 .. InputSize
  <2>1. CASE due > 0
    <3>1. due <= to - from /\ due \in Nat /\ to \in 0 .. InputSize /\ from \in 0 .. to
          /\ InputSize \in Nat
      BY <2>1, <1>1, StreamsAssumption DEF CopyInv, InputTypes
    <3> QED  BY <3>1
  <2>2. CASE ~(due > 0)
    BY <2>2, StreamsAssumption DEF CopyInv
  <2> QED  BY <2>1, <2>2
<1>7. SC!TypeOK
  BY <1>1, <1>5, <1>6 DEF SC!TypeOK, OutputInv, CopyInv, Byte
<1> QED  BY <1>2, <1>3, <1>4, <1>7

-----------------------------------------------------------------------------
(* The streams without a buffer of their own.                              *)

Ascending(s) == s \in Seq(Nat) /\ \A i, j \in DOMAIN s : i < j => s[i] < s[j]

PlainInv ==
    /\ pos \in 0 .. SourceSize /\ skipped \in 0 .. pos
    /\ array \in [1 .. TargetSize -> Nat] /\ fillPos \in 0 .. TargetSize
    /\ pending \in Seq(Nat)
    /\ IsRun(PS!GetArray \o pending, skipped)
    /\ Len(PS!GetArray \o pending) = pos - skipped
    /\ Ascending(sent)

LEMMA PlainFacts ==
  ASSUME PlainInv
  PROVE  /\ pos \in Nat /\ pos <= SourceSize /\ SourceSize \in Nat /\ skipped \in Nat
         /\ skipped <= pos /\ fillPos \in Nat /\ fillPos <= TargetSize /\ TargetSize \in Nat
         /\ PS!GetArray \in Seq(Nat) /\ Len(PS!GetArray) = fillPos
         /\ pending \in Seq(Nat) /\ Len(pending) \in Nat
         /\ fillPos + Len(pending) = pos - skipped
<1>1. /\ pos \in Nat /\ pos <= SourceSize /\ SourceSize \in Nat /\ skipped \in Nat
      /\ skipped <= pos /\ fillPos \in Nat /\ fillPos <= TargetSize /\ TargetSize \in Nat
      /\ pending \in Seq(Nat) /\ Len(pending) \in Nat
  BY StreamsAssumption, LenProperties DEF PlainInv
<1>2. SubSeq(array, 0 + 1, fillPos) \in Seq(Nat) /\ Len(SubSeq(array, 0 + 1, fillPos)) = fillPos - 0
  <2>1. \A i \in 0 + 1 .. fillPos : array[i] \in Nat
    BY <1>1 DEF PlainInv
  <2> QED  BY <2>1, <1>1, PieceFacts
<1>3. PS!GetArray \in Seq(Nat) /\ Len(PS!GetArray) = fillPos
  BY <1>1, <1>2 DEF PS!GetArray
<1>4. Len(PS!GetArray \o pending) = Len(PS!GetArray) + Len(pending)
  BY <1>1, <1>3, ConcatProperties
<1>5. fillPos + Len(pending) = pos - skipped
  BY <1>3, <1>4 DEF PlainInv
<1> QED  BY <1>1, <1>3, <1>5

LEMMA InputBytes ==
  ASSUME PlainInv, NEW n \in Nat, pos + n <= SourceSize
  PROVE  IsRun(PS!Bytes(n), pos) /\ Len(PS!Bytes(n)) = n /\ PS!Bytes(n) \in Seq(Nat)
<1>1. pos \in Nat /\ SourceSize \in Nat
  BY PlainFacts
<1>2. IsRun(PS!Input, 0) /\ Len(PS!Input) = SourceSize
  BY <1>1, FileRun DEF PS!Input
<1>3. /\ IsRun(SubSeq(PS!Input, pos + 1, pos + n), 0 + ((pos + 1) - 1))
      /\ Len(SubSeq(PS!Input, pos + 1, pos + n)) = (pos + n) + 1 - (pos + 1)
  <2>1. pos + 1 \in Nat \ {0} /\ pos + n \in Nat /\ pos + 1 <= (pos + n) + 1
    BY <1>1
  <2> QED  BY <2>1, <1>1, <1>2, RunCut
<1>4. IsRun(PS!Bytes(n), pos) /\ Len(PS!Bytes(n)) = n
  BY <1>1, <1>3 DEF PS!Bytes
<1> QED  BY <1>4 DEF IsRun

LEMMA PlainFilled ==
  ASSUME PlainInv, NEW b \in Seq(Nat), Len(b) <= TargetSize - fillPos, PS!Filled(b)
  PROVE  /\ array' \in [1 .. TargetSize -> Nat] /\ fillPos' \in 0 .. TargetSize
         /\ PS!GetArray' = PS!GetArray \o b
<1> DEFINE u == PS!GetArray \o b
           v == SubSeq(array, fillPos + Len(b) + 1, TargetSize)
<1>1. /\ fillPos \in Nat /\ TargetSize \in Nat /\ PS!GetArray \in Seq(Nat)
      /\ Len(PS!GetArray) = fillPos /\ Len(b) \in Nat
  BY PlainFacts, LenProperties
<1>2. array' = u \o v /\ fillPos' = fillPos + Len(b)
  BY DEF PS!Filled, PS!GetArray
<1>3. u \in Seq(Nat) /\ Len(u) = fillPos + Len(b)
  BY <1>1, ConcatProperties
<1>4. v \in Seq(Nat) /\ Len(v) = TargetSize - (fillPos + Len(b))
  <2>1. \A i \in (fillPos + Len(b)) + 1 .. TargetSize : array[i] \in Nat
    BY <1>1 DEF PlainInv
  <2>2. fillPos + Len(b) \in Nat /\ fillPos + Len(b) <= TargetSize /\ TargetSize \in Nat
    BY <1>1
  <2> QED  BY <2>1, <2>2, PieceFacts
<1> HIDE DEF u, v
<1>5. Len(u) + Len(v) = TargetSize /\ Len(u) \in 0 .. TargetSize
  BY <1>1, <1>3, <1>4
<1>6. u \o v \in [1 .. TargetSize -> Nat] /\ SubSeq(u \o v, 1, Len(u)) = u
  BY <1>1, <1>3, <1>4, <1>5, BeginsWith
<1>7. fillPos' = Len(u)
  BY <1>2, <1>3, Zenon
<1> QED  BY <1>2, <1>5, <1>6, <1>7, Zenon DEF PS!GetArray, u

\* What a step of the copy must do.
LEMMA PlainStep ==
  ASSUME PlainInv, NEW p \in Nat, p <= SourceSize, pos' = p, skipped' = skipped,
         NEW w \in Seq(Nat), pending' = w,
         NEW g \in Seq(Nat), PS!GetArray' = g,
         array' \in [1 .. TargetSize -> Nat], fillPos' \in 0 .. TargetSize, sent' = sent,
         IsRun(g \o w, skipped), Len(g \o w) = p - skipped, skipped <= p
  PROVE  PlainInv'
<1>1. pos' \in 0 .. SourceSize /\ skipped' \in 0 .. pos' /\ Ascending(sent)
  <2>1. p \in 0 .. SourceSize /\ skipped \in 0 .. p
    BY PlainFacts
  <2> QED  BY <2>1, Zenon DEF PlainInv
<1>2. Len(PS!GetArray' \o pending') = pos' - skipped'
  BY Zenon
<1>3. IsRun(PS!GetArray' \o pending', skipped') /\ pending' \in Seq(Nat) /\ Ascending(sent')
  BY <1>1, Zenon
<1> QED  BY <1>1, <1>2, <1>3, Zenon DEF PlainInv

\* Bytes that follow are put behind what there is.
LEMMA PlainGets ==
  ASSUME PlainInv, pending = << >>, NEW n \in Nat, pos + n <= SourceSize
  PROVE  /\ IsRun(PS!GetArray \o PS!Bytes(n), skipped)
         /\ Len(PS!GetArray \o PS!Bytes(n)) = (pos + n) - skipped
         /\ PS!GetArray \o PS!Bytes(n) \in Seq(Nat)
         /\ (PS!GetArray \o PS!Bytes(n)) \o << >> = PS!GetArray \o PS!Bytes(n)
<1>1. /\ PS!GetArray \in Seq(Nat) /\ Len(PS!GetArray) = pos - skipped /\ pos \in Nat
      /\ skipped \in Nat
  <2>1. fillPos + 0 = fillPos /\ Len(pending) = 0
    BY PlainFacts
  <2> QED  BY <2>1, PlainFacts
<1>2. IsRun(PS!GetArray, skipped)
  <2>1. PS!GetArray \o << >> = PS!GetArray
    BY <1>1, ConcatEmptySeq
  <2> QED  BY <2>1, Zenon DEF PlainInv
<1>3. IsRun(PS!Bytes(n), pos) /\ Len(PS!Bytes(n)) = n
  BY InputBytes
<1>4. skipped + Len(PS!GetArray) = pos
  BY <1>1
<1>5. IsRun(PS!GetArray \o PS!Bytes(n), skipped)
      /\ Len(PS!GetArray \o PS!Bytes(n)) = Len(PS!GetArray) + Len(PS!Bytes(n))
  BY <1>2, <1>3, <1>4, RunJoined
<1>6. PS!GetArray \o PS!Bytes(n) \in Seq(Nat)
  BY <1>5 DEF IsRun
<1> QED  BY <1>1, <1>3, <1>5, <1>6, ConcatEmptySeq

LEMMA PlainRead ==
  ASSUME PlainInv, NEW min \in Nat, NEW max \in Nat, PS!Read(min, max)
  PROVE  PlainInv'
<1> DEFINE n == PS!Lesser(max, SourceSize - pos)
<1>1. /\ pending = << >> /\ pending' = PS!Bytes(n) /\ pos' = pos + n
      /\ UNCHANGED << array, fillPos, skipped, sent >>
  BY DEF PS!Read, PS!Ready
<1>2. n \in Nat /\ pos + n <= SourceSize /\ pos + n \in Nat /\ skipped <= pos + n
  BY PlainFacts DEF PS!Lesser
<1> HIDE DEF n
<1>3. PS!Bytes(n) \in Seq(Nat) /\ PS!GetArray \in Seq(Nat)
  BY <1>2, InputBytes, PlainFacts
<1>4. PS!GetArray' = PS!GetArray
  BY <1>1, Zenon DEF PS!GetArray
<1>5. /\ IsRun(PS!GetArray \o PS!Bytes(n), skipped)
      /\ Len(PS!GetArray \o PS!Bytes(n)) = (pos + n) - skipped
  BY <1>1, <1>2, PlainGets
<1>6. array' \in [1 .. TargetSize -> Nat] /\ fillPos' \in 0 .. TargetSize
  BY <1>1, Zenon DEF PlainInv
<1> QED  BY <1>1, <1>2, <1>3, <1>4, <1>5, <1>6, PlainStep, Zenon

LEMMA PlainTakes ==
  ASSUME PlainInv, pending = << >>, NEW n \in Nat, pos + n <= SourceSize,
         n <= TargetSize - fillPos, PS!Filled(PS!Bytes(n)), pos' = pos + n,
         UNCHANGED << pending, skipped, sent >>
  PROVE  PlainInv'
<1>1. PS!Bytes(n) \in Seq(Nat) /\ Len(PS!Bytes(n)) = n /\ << >> \in Seq(Nat)
  BY InputBytes, EmptySeq
<1>2. pos + n \in Nat /\ skipped <= pos + n
  BY PlainFacts
<1>3. /\ array' \in [1 .. TargetSize -> Nat] /\ fillPos' \in 0 .. TargetSize
      /\ PS!GetArray' = PS!GetArray \o PS!Bytes(n)
  BY <1>1, PlainFilled, Zenon
<1>4. /\ IsRun((PS!GetArray \o PS!Bytes(n)) \o << >>, skipped)
      /\ Len((PS!GetArray \o PS!Bytes(n)) \o << >>) = (pos + n) - skipped
      /\ PS!GetArray \o PS!Bytes(n) \in Seq(Nat)
  BY PlainGets, Zenon
<1> QED  BY <1>1, <1>2, <1>3, <1>4, PlainStep, Zenon

\* Of what is pending, the first n bytes are put into the array.
LEMMA PlainPuts ==
  ASSUME PlainInv, NEW n \in 0 .. Len(pending), n <= TargetSize - fillPos,
         PS!Filled(SubSeq(pending, 1, n)), pending' = SubSeq(pending, n + 1, Len(pending)),
         UNCHANGED << pos, skipped, sent >>
  PROVE  PlainInv'
<1> DEFINE b == SubSeq(pending, 1, n)
           r == SubSeq(pending, n + 1, Len(pending))
<1>1. b \in Seq(Nat) /\ Len(b) = n /\ r \in Seq(Nat) /\ pending = b \o r
  BY Split DEF PlainInv
<1>2. PS!Filled(b) /\ pending' = r
  OBVIOUS
<1> HIDE DEF b, r
<1>3. /\ PS!GetArray \in Seq(Nat) /\ pos \in Nat /\ pos <= SourceSize /\ skipped <= pos
      /\ Len(PS!GetArray \o pending) = pos - skipped /\ IsRun(PS!GetArray \o pending, skipped)
  BY PlainFacts DEF PlainInv
<1>4. /\ array' \in [1 .. TargetSize -> Nat] /\ fillPos' \in 0 .. TargetSize
      /\ PS!GetArray' = PS!GetArray \o b
  BY <1>1, <1>2, PlainFilled, Zenon
<1>5. (PS!GetArray \o b) \o r = PS!GetArray \o pending /\ PS!GetArray \o b \in Seq(Nat)
  BY <1>1, <1>3, NumbersJoined, Zenon
<1>6. Len((PS!GetArray \o b) \o r) = pos - skipped /\ IsRun((PS!GetArray \o b) \o r, skipped)
  BY <1>3, <1>5, Zenon
<1>7. pos' = pos /\ skipped' = skipped /\ sent' = sent
  OBVIOUS
<1> QED  BY <1>1, <1>2, <1>3, <1>4, <1>5, <1>6, <1>7, PlainStep, Zenon

LEMMA PlainSkip ==
  ASSUME PlainInv, NEW n \in Nat, PS!Skip(n)
  PROVE  PlainInv'
<1> DEFINE p == IF n <= SourceSize - pos THEN pos + n ELSE pos
<1>1. /\ pending = << >> /\ fillPos = 0 /\ pos' = p /\ skipped' = p
      /\ UNCHANGED << array, fillPos, pending, sent >>
  BY DEF PS!Skip, PS!Ready
<1>2. p \in 0 .. SourceSize /\ p \in 0 .. p /\ p - p = 0 /\ p \in Nat
  BY PlainFacts
<1> HIDE DEF p
<1>3. PS!GetArray' = << >> /\ pending' = << >> /\ << >> \o << >> = << >>
  <2>1. SubSeq(array, 1, 0) = << >> /\ << >> \o << >> = << >>
    BY SubSeqEmpty, ConcatEmptySeq, EmptySeq
  <2>2. array' = array /\ fillPos' = 0 /\ pending' = << >>
    BY <1>1
  <2> QED  BY <2>1, <2>2, Zenon DEF PS!GetArray
<1>4. IsRun(<< >>, p) /\ Len(<< >>) = 0 /\ << >> \in Seq(Nat)
  BY <1>2, EmptyRun, EmptySeq
<1>5. pos' \in 0 .. SourceSize /\ skipped' \in 0 .. pos'
  BY <1>1, <1>2, Zenon
<1>6. array' \in [1 .. TargetSize -> Nat] /\ fillPos' \in 0 .. TargetSize /\ Ascending(sent')
  BY <1>1, Zenon DEF PlainInv
<1>7. IsRun(PS!GetArray' \o pending', skipped') /\ pending' \in Seq(Nat)
  BY <1>1, <1>3, <1>4, Zenon
<1>8. Len(PS!GetArray' \o pending') = pos' - skipped'
  BY <1>1, <1>2, <1>3, <1>4, Zenon
<1> QED  BY <1>5, <1>6, <1>7, <1>8, Zenon DEF PlainInv

\* Nothing is read or written.
LEMMA PlainStays ==
  ASSUME PlainInv, UNCHANGED << pos, array, fillPos, pending, skipped >>, Ascending(sent')
  PROVE  PlainInv'
  BY Zenon DEF PlainInv, PS!GetArray

LEMMA PlainReadInPlace ==
  ASSUME PlainInv, NEW n \in Nat, PS!ReadInPlace(n)
  PROVE  PlainInv'
<1> DEFINE k == PS!Lesser(n, SourceSize - pos)
<1>1. /\ pending = << >> /\ n <= TargetSize - fillPos /\ PS!Filled(PS!Bytes(k))
      /\ pos' = pos + k /\ UNCHANGED << pending, skipped, sent >>
  BY DEF PS!ReadInPlace, PS!Ready, PS!Room
<1>2. k \in Nat /\ pos + k <= SourceSize /\ k <= TargetSize - fillPos
  BY <1>1, PlainFacts DEF PS!Lesser
<1> HIDE DEF k
<1> QED  BY <1>1, <1>2, PlainTakes

LEMMA PlainWriteLooked ==
  ASSUME PlainInv, NEW n \in Nat, PS!WriteLooked(n)
  PROVE  PlainInv'
<1>1. /\ pending = << >> /\ n \in 0 .. SourceSize - pos
      /\ UNCHANGED << pending, skipped, sent >>
      /\ \/ n <= TargetSize - fillPos /\ PS!Filled(PS!Bytes(n)) /\ pos' = pos + n
         \/ UNCHANGED << array, fillPos, pos >>
  BY DEF PS!WriteLooked, PS!Ready, PS!Room
<1>2. pos + n <= SourceSize
  BY <1>1, PlainFacts
<1>3. CASE n <= TargetSize - fillPos /\ PS!Filled(PS!Bytes(n)) /\ pos' = pos + n
  BY <1>1, <1>2, <1>3, PlainTakes
<1>4. CASE UNCHANGED << array, fillPos, pos >>
  <2>1. Ascending(sent')
    BY <1>1, Zenon DEF PlainInv
  <2>2. UNCHANGED << pos, array, fillPos, pending, skipped >>
    BY <1>1, <1>4
  <2> QED  BY <2>1, <2>2, PlainStays
<1> QED  BY <1>1, <1>3, <1>4

LEMMA PlainWrite ==
  ASSUME PlainInv, NEW n \in Nat, PS!Write(n)
  PROVE  PlainInv'
<1>1. /\ n \in 1 .. Len(pending) /\ UNCHANGED << pos, skipped, sent >>
      /\ \/ /\ n <= TargetSize - fillPos /\ PS!Filled(SubSeq(pending, 1, n))
            /\ pending' = SubSeq(pending, n + 1, Len(pending))
         \/ UNCHANGED << array, fillPos, pending >>
  BY DEF PS!Write, PS!Room
<1>2. n \in 0 .. Len(pending)
  BY <1>1
<1>3. CASE /\ n <= TargetSize - fillPos /\ PS!Filled(SubSeq(pending, 1, n))
           /\ pending' = SubSeq(pending, n + 1, Len(pending))
  BY <1>1, <1>2, <1>3, PlainPuts
<1>4. CASE UNCHANGED << array, fillPos, pending >>
  <2>1. Ascending(sent')
    BY <1>1, Zenon DEF PlainInv
  <2>2. UNCHANGED << pos, array, fillPos, pending, skipped >>
    BY <1>1, <1>4
  <2> QED  BY <2>1, <2>2, PlainStays
<1> QED  BY <1>1, <1>3, <1>4

LEMMA PlainWritePieces ==
  ASSUME PlainInv, NEW n \in Nat, PS!WritePieces(n)
  PROVE  PlainInv'
<1> DEFINE fit == IF Len(pending) <= PS!Room THEN Len(pending) ELSE IF n <= PS!Room THEN n ELSE 0
<1>1. /\ n \in 0 .. Len(pending) /\ UNCHANGED << pos, skipped, sent >>
      /\ PS!Filled(SubSeq(pending, 1, fit)) /\ pending' = SubSeq(pending, fit + 1, Len(pending))
  BY DEF PS!WritePieces
<1>2. fit \in 0 .. Len(pending) /\ fit <= TargetSize - fillPos
  BY <1>1, PlainFacts DEF PS!Room
<1> HIDE DEF fit
<1> QED  BY <1>1, <1>2, PlainPuts

\* What WriteFile gets of the pieces.
LEMMA NoPieces == ASSUME NEW x \in PS!Written(<< >>) PROVE x = << >>
<1>1. \A k : [i \in DOMAIN << >> |-> SubSeq(<< >>[i], 1, k[i])] = << >>
  OBVIOUS
<1> QED  BY <1>1 DEF PS!Written, PS!FlattenSeq

LEMMA FlattenTwo ==
  ASSUME NEW a, NEW b
  PROVE  PS!FlattenSeq(<< a, b >>) = a \o b /\ PS!FlattenSeq(<< a >>) = a
<1>1. PS!FlattenSeq(<< a, b >>) = a \o b
  <2> DEFINE D == 1 .. Len(<< a, b >>)
             T(f) == [i \in D |-> IF i = 1 THEN << a, b >>[i] ELSE f[i - 1] \o << a, b >>[i]]
             F == CHOOSE f : f = T(f)
             g == [i \in D |-> IF i = 1 THEN a ELSE a \o b]
  <2>1. D = 1 .. 2 /\ 1 \in D /\ 2 \in D /\ 2 - 1 = 1 /\ 2 # 1
        /\ << a, b >>[1] = a /\ << a, b >>[2] = b /\ Len(<< a, b >>) = 2
    OBVIOUS
  <2>2. g = T(g)
    <3>1. \A i \in D : g[i] = IF i = 1 THEN << a, b >>[i] ELSE g[i - 1] \o << a, b >>[i]
      <4> TAKE i \in D
      <4>1. CASE i = 1
        BY <4>1, <2>1
      <4>2. CASE i = 2
        BY <4>2, <2>1
      <4> QED  BY <4>1, <4>2, <2>1
    <3> QED  BY <3>1
  <2>3. F = T(F)
    <3> HIDE DEF T, g
    <3> QED  BY <2>2, Zenon DEF F
  <2>4. F[1] = a
    <3> HIDE DEF F
    <3> QED  BY <2>1, <2>3
  <2>5. F[2] = F[1] \o b
    <3> HIDE DEF F
    <3> QED  BY <2>1, <2>3
  <2>6. PS!FlattenSeq(<< a, b >>) = F[2]
    BY <2>1 DEF PS!FlattenSeq
  <2> QED  BY <2>4, <2>5, <2>6, Zenon
<1>2. PS!FlattenSeq(<< a >>) = a
  <2> DEFINE D == 1 .. Len(<< a >>)
             T(f) == [i \in D |-> IF i = 1 THEN << a >>[i] ELSE f[i - 1] \o << a >>[i]]
             F == CHOOSE f : f = T(f)
             g == [i \in D |-> a]
  <2>1. D = 1 .. 1 /\ 1 \in D /\ << a >>[1] = a /\ Len(<< a >>) = 1
    OBVIOUS
  <2>2. g = T(g)
    <3>1. \A i \in D : g[i] = IF i = 1 THEN << a >>[i] ELSE g[i - 1] \o << a >>[i]
      BY <2>1
    <3> QED  BY <3>1
  <2>3. F = T(F)
    <3> HIDE DEF T, g
    <3> QED  BY <2>2, Zenon DEF F
  <2>4. F[1] = a
    <3> HIDE DEF F
    <3> QED  BY <2>1, <2>3
  <2>5. PS!FlattenSeq(<< a >>) = F[1]
    BY <2>1 DEF PS!FlattenSeq
  <2> QED  BY <2>4, <2>5, Zenon
<1> QED  BY <1>1, <1>2

LEMMA RunAscends == ASSUME NEW s, NEW a, IsRun(s, a) PROVE Ascending(s)
<1>1. s \in Seq(Nat) /\ DOMAIN s = 1 .. Len(s) /\ Len(s) \in Nat /\ a \in Nat
  BY LenProperties DEF IsRun
<1>2. \A i, j \in 1 .. Len(s) : i < j => s[i] < s[j]
  BY <1>1 DEF IsRun
<1> QED  BY <1>1, <1>2 DEF Ascending

\* The beginnings of two pieces that follow each other.
LEMMA PiecesAscend ==
  ASSUME NEW p, NEW q, NEW a, NEW b \in Nat, IsRun(p, a), IsRun(q, b), a + Len(p) <= b
  PROVE  Ascending(p \o q)
<1>1. /\ p \in Seq(Nat) /\ q \in Seq(Nat) /\ Len(p) \in Nat /\ Len(q) \in Nat /\ a \in Nat
      /\ \A i \in 1 .. Len(p) : p[i] = a + i
      /\ \A i \in 1 .. Len(q) : q[i] = b + i
  BY LenProperties DEF IsRun
<1>2. /\ p \o q \in Seq(Nat) /\ Len(p \o q) = Len(p) + Len(q)
      /\ \A i \in 1 .. Len(p) + Len(q) : (p \o q)[i] =
                     IF i <= Len(p) THEN p[i] ELSE q[i - Len(p)]
  BY <1>1, ConcatProperties
<1>3. DOMAIN (p \o q) = 1 .. Len(p) + Len(q)
  BY <1>2, LenProperties
<1>4. ASSUME NEW i \in 1 .. Len(p) + Len(q), NEW j \in 1 .. Len(p) + Len(q), i < j
      PROVE  (p \o q)[i] < (p \o q)[j]
  <2>1. CASE j <= Len(p)
    <3>1. (p \o q)[i] = a + i /\ (p \o q)[j] = a + j
      BY <1>1, <1>2, <1>4, <2>1
    <3> QED  BY <3>1, <1>1, <1>4
  <2>2. CASE i <= Len(p) /\ ~(j <= Len(p))
    <3>1. j - Len(p) \in 1 .. Len(q) /\ i \in 1 .. Len(p)
      BY <1>1, <2>2
    <3>2. (p \o q)[i] = a + i /\ (p \o q)[j] = b + (j - Len(p))
      BY <3>1, <1>1, <1>2, <2>2
    <3> QED  BY <3>1, <3>2, <1>1
  <2>3. CASE ~(i <= Len(p))
    <3>1. j - Len(p) \in 1 .. Len(q) /\ i - Len(p) \in 1 .. Len(q) /\ ~(j <= Len(p))
      BY <1>1, <1>4, <2>3
    <3>2. (p \o q)[i] = b + (i - Len(p)) /\ (p \o q)[j] = b + (j - Len(p))
      BY <3>1, <1>1, <1>2, <2>3
    <3> QED  BY <3>2, <1>1, <1>4
  <2> QED  BY <2>1, <2>2, <2>3
<1> QED  BY <1>2, <1>3, <1>4 DEF Ascending

LEMMA BeginningRun ==
  ASSUME NEW p, NEW a, IsRun(p, a), NEW k \in Nat, k <= Len(p)
  PROVE  IsRun(SubSeq(p, 1, k), a) /\ Len(SubSeq(p, 1, k)) = k
<1>1. a \in Nat /\ 1 \in Nat \ {0} /\ 1 <= k + 1
  BY DEF IsRun
<1>2. IsRun(SubSeq(p, 1, k), a + (1 - 1)) /\ Len(SubSeq(p, 1, k)) = k + 1 - 1
  BY <1>1, RunCut
<1>3. a + (1 - 1) = a /\ k + 1 - 1 = k
  BY <1>1
<1> QED  BY <1>2, <1>3, Zenon

LEMMA SentTwo ==
  ASSUME NEW p, NEW q, NEW a, NEW b \in Nat, IsRun(p, a), IsRun(q, b), a + Len(p) <= b,
         NEW x \in PS!Written(<< p, q >>)
  PROVE  Ascending(x)
<1> DEFINE pieces == << p, q >>
<1>1. DOMAIN pieces = 1 .. 2 /\ 1 \in 1 .. 2 /\ 2 \in 1 .. 2 /\ pieces[1] = p /\ pieces[2] = q
  OBVIOUS
<1>2. PICK k \in [1 .. 2 -> 1 .. TargetSize] :
         /\ \A i \in 1 .. 2 : k[i] <= Len(pieces[i])
         /\ x = PS!FlattenSeq([i \in 1 .. 2 |-> SubSeq(pieces[i], 1, k[i])])
  <2> HIDE DEF pieces
  <2>1. x \in PS!Written(pieces)
    BY DEF pieces
  <2>2. PICK k \in {k \in [DOMAIN pieces -> 1 .. TargetSize] :
                       \A i \in DOMAIN pieces : k[i] <= Len(pieces[i])} :
           x = PS!FlattenSeq([i \in DOMAIN pieces |-> SubSeq(pieces[i], 1, k[i])])
    BY <2>1 DEF PS!Written
  <2> QED  BY <2>2, <1>1
<1> DEFINE u == SubSeq(p, 1, k[1])
           v == SubSeq(q, 1, k[2])
<1>3. k[1] \in Nat /\ k[2] \in Nat /\ k[1] <= Len(p) /\ k[2] <= Len(q)
  BY <1>1, <1>2, StreamsAssumption
<1>4. [i \in 1 .. 2 |-> SubSeq(pieces[i], 1, k[i])] = << u, v >>
  BY <1>1
<1>5. x = u \o v
  BY <1>2, <1>4, FlattenTwo
<1>6. IsRun(u, a) /\ IsRun(v, b) /\ Len(u) = k[1]
  BY <1>3, BeginningRun
<1> HIDE DEF u, v, pieces
<1>7. a + Len(u) <= b
  BY <1>3, <1>6, LenProperties DEF IsRun
<1> QED  BY <1>5, <1>6, <1>7, PiecesAscend

LEMMA SentOne ==
  ASSUME NEW p, NEW a, IsRun(p, a), NEW x \in PS!Written(<< p >>)
  PROVE  Ascending(x)
<1> DEFINE pieces == << p >>
<1>1. DOMAIN pieces = 1 .. 1 /\ 1 \in 1 .. 1 /\ pieces[1] = p
  OBVIOUS
<1>2. PICK k \in [1 .. 1 -> 1 .. TargetSize] :
         /\ \A i \in 1 .. 1 : k[i] <= Len(pieces[i])
         /\ x = PS!FlattenSeq([i \in 1 .. 1 |-> SubSeq(pieces[i], 1, k[i])])
  <2> HIDE DEF pieces
  <2>1. x \in PS!Written(pieces)
    BY DEF pieces
  <2>2. PICK k \in {k \in [DOMAIN pieces -> 1 .. TargetSize] :
                       \A i \in DOMAIN pieces : k[i] <= Len(pieces[i])} :
           x = PS!FlattenSeq([i \in DOMAIN pieces |-> SubSeq(pieces[i], 1, k[i])])
    BY <2>1 DEF PS!Written
  <2> QED  BY <2>2, <1>1
<1> DEFINE u == SubSeq(p, 1, k[1])
<1>3. k[1] \in Nat /\ k[1] <= Len(p)
  BY <1>1, <1>2, StreamsAssumption
<1>4. [i \in 1 .. 1 |-> SubSeq(pieces[i], 1, k[i])] = << u >>
  BY <1>1
<1>5. x = u
  BY <1>2, <1>4, FlattenTwo
<1>6. IsRun(u, a)
  BY <1>3, BeginningRun
<1> HIDE DEF u, pieces
<1> QED  BY <1>5, <1>6, RunAscends

LEMMA PlainSend ==
  ASSUME PlainInv, NEW n \in 0 .. TargetSize, PS!Send(n)
  PROVE  PlainInv'
<1> DEFINE p == SubSeq(PS!GetArray, 1, n)
           q == SubSeq(PS!GetArray, n + 1, fillPos)
           pieces == << p, q >>
<1>1. /\ pending = << >> /\ n \in 0 .. fillPos
      /\ UNCHANGED << pos, array, fillPos, pending, skipped >>
      /\ \/ sent' \in PS!Written(pieces)
         \/ \E i \in DOMAIN pieces : sent' \in PS!Written(SubSeq(pieces, 1, i - 1))
  BY DEF PS!Send, PS!Ready
<1>2. /\ PS!GetArray \in Seq(Nat) /\ Len(PS!GetArray) = fillPos /\ fillPos \in Nat
      /\ skipped \in Nat /\ n \in Nat /\ n <= fillPos
  BY <1>1, PlainFacts
<1>3. IsRun(PS!GetArray, skipped)
  <2>1. PS!GetArray \o << >> = PS!GetArray
    BY <1>2, ConcatEmptySeq
  <2> QED  BY <2>1, <1>1, Zenon DEF PlainInv
<1>4. IsRun(p, skipped) /\ Len(p) = n
  BY <1>2, <1>3, BeginningRun
<1>5. IsRun(q, skipped + n)
  <2>1. IsRun(SubSeq(PS!GetArray, n + 1, fillPos), skipped + ((n + 1) - 1))
    <3>1. n + 1 \in Nat \ {0} /\ n + 1 <= fillPos + 1 /\ fillPos <= Len(PS!GetArray)
      BY <1>2
    <3> QED  BY <3>1, <1>2, <1>3, RunCut
  <2> QED  BY <2>1, <1>2
<1> HIDE DEF p, q
<1>6. skipped + n \in Nat /\ skipped + Len(p) <= skipped + n
  BY <1>2, <1>4
<1>7. DOMAIN pieces = {1, 2} /\ SubSeq(pieces, 1, 1 - 1) = << >> /\ SubSeq(pieces, 1, 2 - 1) = << p >>
  <2>1. DOMAIN pieces = {1, 2} /\ 1 - 1 = 0 /\ 2 - 1 = 1 /\ SubSeq(pieces, 1, 0) = << >>
    BY SubSeqEmpty
  <2>2. << p >> \in Seq({p}) /\ Len(<< p >>) = 1 /\ << p >>[1] = p /\ pieces[1] = p
    OBVIOUS
  <2> HIDE DEF pieces
  <2>3. \A i \in 1 .. 1 : pieces[i] \in {p}
    BY <2>2
  <2>4. /\ SubSeq(pieces, 1, 1) \in Seq({p})
        /\ Len(SubSeq(pieces, 1, 1)) = IF 1 <= 1 THEN 1 - 1 + 1 ELSE 0
        /\ \A i \in 1 .. 1 - 1 + 1 : SubSeq(pieces, 1, 1)[i] = pieces[1 + i - 1]
    BY <2>3, SubSeqProperties
  <2>5. Len(SubSeq(pieces, 1, 1)) = 1 /\ SubSeq(pieces, 1, 1)[1] = p
    <3>1. 1 \in 1 .. 1 - 1 + 1 /\ 1 + 1 - 1 = 1 /\ 1 - 1 + 1 = 1
      OBVIOUS
    <3> QED  BY <3>1, <2>2, <2>4
  <2>6. SubSeq(pieces, 1, 1) = << p >>
    <3> DEFINE u == SubSeq(pieces, 1, 1)
               t == << p >>
    <3>1. /\ u \in Seq({p}) /\ t \in Seq({p}) /\ Len(u) = 1 /\ Len(t) = 1
          /\ u[1] = p /\ t[1] = p
      BY <2>2, <2>4, <2>5
    <3> HIDE DEF u, t
    <3>2. \A i \in 1 .. 1 : u[i] = t[i]
      BY <3>1
    <3> QED  BY <3>1, <3>2, SeqEqual DEF u, t
  <2> QED  BY <2>1, <2>6, Zenon
<1>8. \A x \in PS!Written(pieces) : Ascending(x)
  BY <1>4, <1>5, <1>6, SentTwo
<1>9. \A x \in PS!Written(<< p >>) : Ascending(x)
  BY <1>4, SentOne
<1>10. \A x \in PS!Written(<< >>) : Ascending(x)
  <2>1. Ascending(<< >>)
    BY <1>2, EmptyRun, RunAscends
  <2> QED  BY <2>1, NoPieces
<1> HIDE DEF pieces
<1>11. Ascending(sent')
  <2>1. CASE sent' \in PS!Written(pieces)
    BY <2>1, <1>8, Zenon
  <2>2. CASE \E i \in DOMAIN pieces : sent' \in PS!Written(SubSeq(pieces, 1, i - 1))
    <3>1. PICK i \in {1, 2} : sent' \in PS!Written(SubSeq(pieces, 1, i - 1))
      BY <2>2, <1>7, Zenon
    <3>2. sent' \in PS!Written(<< p >>) \/ sent' \in PS!Written(<< >>)
      BY <3>1, <1>7, Zenon
    <3> QED  BY <3>2, <1>9, <1>10, Zenon
  <2> QED  BY <2>1, <2>2, <1>1
<1> QED  BY <1>1, <1>11, PlainStays

LEMMA PlainInitInv == PS!Init => PlainInv
<1> SUFFICES ASSUME PS!Init PROVE PlainInv
  OBVIOUS
<1>1. /\ pos = 0 /\ fillPos = 0 /\ skipped = 0 /\ array = [i \in 1 .. TargetSize |-> 0]
      /\ pending = << >> /\ sent = << >>
  BY DEF PS!Init
<1>2. PS!GetArray = << >> /\ << >> \o << >> = << >> /\ << >> \in Seq(Nat) /\ Len(<< >>) = 0
  BY <1>1, SubSeqEmpty, ConcatEmptySeq, EmptySeq DEF PS!GetArray
<1>3. IsRun(<< >>, 0) /\ Ascending(<< >>)
  BY EmptyRun, RunAscends
<1> QED  BY <1>1, <1>2, <1>3, StreamsAssumption DEF PlainInv

LEMMA PlainNextInv == PlainInv /\ [PS!Next]_PS!plain => PlainInv'
<1> SUFFICES ASSUME PlainInv, [PS!Next]_PS!plain PROVE PlainInv'
  OBVIOUS
<1>1. CASE \E min, max \in 0 .. MaxRequest : min <= max /\ PS!Read(min, max)
  BY <1>1, PlainRead
<1>2. CASE \E n \in 0 .. MaxRequest :
             \/ PS!Skip(n) \/ PS!ReadInPlace(n) \/ PS!Write(n) \/ PS!WriteLooked(n)
             \/ PS!WritePieces(n)
  <2>1. PICK n \in 0 .. MaxRequest :
           \/ PS!Skip(n) \/ PS!ReadInPlace(n) \/ PS!Write(n) \/ PS!WriteLooked(n)
           \/ PS!WritePieces(n)
    BY <1>2
  <2>2. n \in Nat
    OBVIOUS
  <2> QED  BY <2>1, <2>2, PlainSkip, PlainReadInPlace, PlainWrite, PlainWriteLooked,
              PlainWritePieces
<1>3. CASE \E n \in 0 .. TargetSize : PS!Send(n)
  BY <1>3, PlainSend
<1>4. CASE UNCHANGED PS!plain
  <2>1. UNCHANGED << pos, array, fillPos, pending, skipped >> /\ sent' = sent
    BY <1>4 DEF PS!plain
  <2>2. Ascending(sent')
    BY <2>1, Zenon DEF PlainInv
  <2> QED  BY <2>1, <2>2, PlainStays
<1> QED  BY <1>1, <1>2, <1>3, <1>4 DEF PS!Next

LEMMA PlainInvEnough == PlainInv => PS!Contiguous
<1> SUFFICES ASSUME PlainInv PROVE PS!Contiguous
  OBVIOUS
<1> DEFINE s == PS!GetArray \o pending
<1>1. IsRun(s, skipped) /\ Len(s) = pos - skipped
  BY DEF PlainInv
<1>2. pos \in Nat /\ pos <= SourceSize /\ SourceSize \in Nat /\ skipped \in Nat /\ skipped <= pos
  BY PlainFacts
<1> HIDE DEF s
<1>3. pos = skipped + Len(s) /\ pos + 1 - Len(s) = skipped + 1
  BY <1>1, <1>2
<1>4. s = SubSeq([i \in 1 .. SourceSize |-> i], pos + 1 - Len(s), pos)
  BY <1>1, <1>2, <1>3, RunOfFile
<1>5. s = SubSeq(PS!Input, skipped + 1, pos)
  BY <1>3, <1>4, Zenon DEF PS!Input
<1>6. \A i, j \in DOMAIN sent : i < j => sent[i] < sent[j]
  BY DEF PlainInv, Ascending
<1> QED  BY <1>5, <1>6 DEF PS!Contiguous, s

-----------------------------------------------------------------------------
(* Exceptions.                                                             *)

AnyKind == EX!Kinds \cup {"destructor"}
FrameType ==
    [kind : AnyKind, next : Nat, count : Nat, unwound : BOOLEAN, secondary : BOOLEAN]

Extra(b) == IF b THEN 1 ELSE 0

\* Of the first n frames of s, c is the newest callback.
Newest(s, c, n) ==
    /\ c \in 0 .. n
    /\ c # 0 => EX!IsCallback(s[c])
    /\ \A i \in 1 .. n : EX!IsCallback(s[i]) => i <= c

\* The frames s, of which c is the newest callback, and how many exceptions were in
\* flight when each was entered.
StackOK(s, c) ==
    /\ s \in Seq(FrameType) /\ s # << >>
    /\ s[1].kind = "catch" /\ s[1].count = 0 /\ ~s[1].unwound
    /\ \A i \in 1 .. Len(s) : s[i].unwound => s[i].kind = "destructor"
    /\ \A i \in 1 .. Len(s) : Newest(s, s[i].next, i - 1)
    /\ \A i \in 1 .. Len(s) - 1 : s[i + 1].count = s[i].count + Extra(s[i + 1].unwound)
    /\ Newest(s, c, Len(s))

LEMMA StackFacts ==
  ASSUME NEW s, NEW c, StackOK(s, c)
  PROVE  /\ Len(s) \in Nat \ {0}
         /\ \A i \in 1 .. Len(s) :
              /\ s[i] \in FrameType /\ s[i].kind \in AnyKind /\ s[i].next \in Nat
              /\ s[i].count \in Nat /\ s[i].unwound \in BOOLEAN
<1>1. Len(s) \in Nat /\ Len(s) # 0
  BY EmptySeq, LenProperties DEF StackOK
<1>2. \A i \in 1 .. Len(s) : s[i] \in FrameType
  BY <1>1, ElementOfSeq DEF StackOK
<1> QED  BY <1>1, <1>2 DEF FrameType

LEMMA NewestKept ==
  ASSUME NEW s, NEW t, NEW n \in Nat, NEW c, Newest(s, c, n),
         \A i \in 1 .. n : t[i] = s[i]
  PROVE  Newest(t, c, n)
<1>1. c \in 0 .. n /\ (c # 0 => c \in 1 .. n)
  BY DEF Newest
<1> QED  BY <1>1 DEF Newest

LEMMA FramePushed ==
  ASSUME NEW s, NEW c, StackOK(s, c), NEW f \in FrameType, f.next = c,
         f.count = s[Len(s)].count + Extra(f.unwound), f.unwound => f.kind = "destructor"
  PROVE  /\ StackOK(Append(s, f), IF EX!IsCallback(f) THEN Len(s) + 1 ELSE c)
         /\ Len(Append(s, f)) = Len(s) + 1 /\ Append(s, f)[Len(s) + 1] = f
<1> DEFINE n == Len(s)
           t == Append(s, f)
           d == IF EX!IsCallback(f) THEN n + 1 ELSE c
<1>1. n \in Nat \ {0} /\ s \in Seq(FrameType)
  BY StackFacts DEF StackOK
<1>2. /\ t \in Seq(FrameType) /\ Len(t) = n + 1 /\ t[n + 1] = f
      /\ \A i \in 1 .. n : t[i] = s[i]
  BY <1>1, AppendProperties
<1> HIDE DEF t, n
<1>3. t # << >>
  BY <1>1, <1>2, EmptySeq
<1>4. 1 \in 1 .. n /\ n \in 1 .. n
  BY <1>1
<1>5. t[1].kind = "catch" /\ t[1].count = 0 /\ ~t[1].unwound
  BY <1>2, <1>4 DEF StackOK
<1>6. \A i \in 1 .. n + 1 : t[i].unwound => t[i].kind = "destructor"
  <2> TAKE i \in 1 .. n + 1
  <2>1. CASE i = n + 1
    BY <2>1, <1>2
  <2>2. CASE i \in 1 .. n
    BY <2>2, <1>2 DEF StackOK, n
  <2> QED  BY <2>1, <2>2, <1>1
<1>7. \A i \in 1 .. n + 1 : Newest(t, t[i].next, i - 1)
  <2> TAKE i \in 1 .. n + 1
  <2>1. CASE i = n + 1
    <3>1. Newest(s, c, n)
      BY DEF StackOK, n
    <3>2. Newest(t, c, n)
      BY <3>1, <1>1, <1>2, NewestKept
    <3>3. t[i].next = c /\ i - 1 = n
      BY <2>1, <1>1, <1>2
    <3> QED  BY <3>2, <3>3
  <2>2. CASE i \in 1 .. n
    <3>1. Newest(s, s[i].next, i - 1) /\ t[i] = s[i]
      BY <2>2, <1>2 DEF StackOK, n
    <3>2. i - 1 \in Nat /\ \A j \in 1 .. i - 1 : t[j] = s[j]
      BY <2>2, <1>1, <1>2
    <3> QED  BY <3>1, <3>2, NewestKept
  <2> QED  BY <2>1, <2>2, <1>1
<1>8. \A i \in 1 .. (n + 1) - 1 : t[i + 1].count = t[i].count + Extra(t[i + 1].unwound)
  <2> TAKE i \in 1 .. (n + 1) - 1
  <2>1. CASE i = n
    <3>1. t[i + 1] = f /\ t[i] = s[n]
      BY <2>1, <1>2, <1>4
    <3>2. f.count = s[n].count + Extra(f.unwound)
      BY DEF n
    <3> QED  BY <3>1, <3>2
  <2>2. CASE i \in 1 .. n - 1
    <3>1. t[i + 1] = s[i + 1] /\ t[i] = s[i]
      BY <2>2, <1>1, <1>2
    <3>2. s[i + 1].count = s[i].count + Extra(s[i + 1].unwound)
      BY <2>2 DEF StackOK, n
    <3> QED  BY <3>1, <3>2
  <2> QED  BY <2>1, <2>2, <1>1
<1>9. Newest(t, d, n + 1)
  <2>1. Newest(s, c, n)
    BY DEF StackOK, n
  <2>2. Newest(t, c, n)
    BY <2>1, <1>1, <1>2, NewestKept
  <2>3. CASE EX!IsCallback(f)
    <3>1. d = n + 1
      BY <2>3
    <3>2. d \in 0 .. n + 1 /\ EX!IsCallback(t[d]) /\ \A i \in 1 .. n + 1 : i <= d
      BY <3>1, <2>3, <1>1, <1>2
    <3> QED  BY <3>2 DEF Newest
  <2>4. CASE ~EX!IsCallback(f)
    <3>1. d = c /\ c \in 0 .. n
      BY <2>4, <2>2 DEF Newest
    <3>2. ~EX!IsCallback(t[n + 1])
      BY <2>4, <1>2
    <3>3. c \in 0 .. n + 1
      BY <3>1, <1>1
    <3>4. \A i \in 1 .. n + 1 : EX!IsCallback(t[i]) => i <= c
      <4> TAKE i \in 1 .. n + 1
      <4>1. i = n + 1 \/ i \in 1 .. n
        BY <1>1
      <4> QED  BY <4>1, <3>2, <2>2 DEF Newest
    <3>5. c # 0 => EX!IsCallback(t[c])
      BY <2>2 DEF Newest
    <3> HIDE DEF d
    <3> QED  BY <3>1, <3>3, <3>4, <3>5 DEF Newest
  <2> QED  BY <2>3, <2>4
<1> HIDE DEF d
<1>10. StackOK(t, d)
  BY <1>2, <1>3, <1>5, <1>6, <1>7, <1>8, <1>9, Zenon DEF StackOK
<1> QED  BY <1>10, <1>2, Zenon DEF t, d, n

LEMMA FramePopped ==
  ASSUME NEW s, NEW c, StackOK(s, c), Len(s) # 1
  PROVE  /\ StackOK(EX!Front(s), IF EX!IsCallback(s[Len(s)]) THEN s[Len(s)].next ELSE c)
         /\ Len(EX!Front(s)) = Len(s) - 1 /\ Len(s) - 1 \in 1 .. Len(s)
         /\ EX!Front(s)[Len(s) - 1] = s[Len(s) - 1]
         /\ s[Len(s)].count = s[Len(s) - 1].count + Extra(s[Len(s)].unwound)
<1> DEFINE n == Len(s)
           m == n - 1
           t == EX!Front(s)
           d == IF EX!IsCallback(s[n]) THEN s[n].next ELSE c
<1>1. n \in Nat /\ n > 1 /\ s \in Seq(FrameType) /\ \A i \in 1 .. n : s[i] \in FrameType
  <2>1. Len(s) \in Nat \ {0} /\ \A i \in 1 .. Len(s) : s[i] \in FrameType
    BY StackFacts, Zenon
  <2>2. s \in Seq(FrameType)
    BY DEF StackOK
  <2>3. n > 1
    BY <2>1
  <2> QED  BY <2>1, <2>2, <2>3
<1>2. /\ t \in Seq(FrameType) /\ Len(t) = n - 1 /\ \A i \in 1 .. n - 1 : t[i] = s[i]
  <2>1. \A i \in 1 .. m : s[i] \in FrameType
    BY <1>1
  <2>2. /\ SubSeq(s, 1, m) \in Seq(FrameType)
        /\ Len(SubSeq(s, 1, m)) = IF 1 <= m THEN m - 1 + 1 ELSE 0
        /\ \A i \in 1 .. m - 1 + 1 : SubSeq(s, 1, m)[i] = s[1 + i - 1]
    BY <2>1, <1>1, SubSeqProperties
  <2>3. t = SubSeq(s, 1, m)
    BY DEF EX!Front
  <2> HIDE DEF t
  <2> QED  BY <2>2, <2>3, <1>1
<1>3. t[m] = s[m]
  BY <1>1, <1>2
<1> HIDE DEF t, n
<1>4. t # << >>
  BY <1>1, <1>2, EmptySeq
<1>5. t[1].kind = "catch" /\ t[1].count = 0 /\ ~t[1].unwound
  <2>1. t[1] = s[1]
    BY <1>1, <1>2
  <2> QED  BY <2>1 DEF StackOK
<1>6. \A i \in 1 .. n - 1 : t[i].unwound => t[i].kind = "destructor"
  <2> TAKE i \in 1 .. n - 1
  <2>1. t[i] = s[i] /\ i \in 1 .. n
    BY <1>1, <1>2
  <2> QED  BY <2>1 DEF StackOK, n
<1>7. \A i \in 1 .. n - 1 : Newest(t, t[i].next, i - 1)
  <2> TAKE i \in 1 .. n - 1
  <2>1. t[i] = s[i] /\ i \in 1 .. n /\ i - 1 \in Nat
    BY <1>1, <1>2
  <2>2. \A j \in 1 .. i - 1 : t[j] = s[j]
    BY <1>1, <1>2
  <2>3. Newest(s, s[i].next, i - 1)
    BY <2>1 DEF StackOK, n
  <2> QED  BY <2>1, <2>2, <2>3, NewestKept
<1>8. \A i \in 1 .. (n - 1) - 1 : t[i + 1].count = t[i].count + Extra(t[i + 1].unwound)
  <2> TAKE i \in 1 .. (n - 1) - 1
  <2>1. t[i + 1] = s[i + 1] /\ t[i] = s[i] /\ i \in 1 .. n - 1
    BY <1>1, <1>2
  <2>2. s[i + 1].count = s[i].count + Extra(s[i + 1].unwound)
    BY <2>1 DEF StackOK, n
  <2> QED  BY <2>1, <2>2
<1>9. Newest(t, d, m)
  <2>1. m \in Nat /\ n \in 1 .. n
    BY <1>1
  <2>2. Newest(s, d, m)
    <3>1. CASE EX!IsCallback(s[n])
      <4>1. Newest(s, s[n].next, n - 1)
        BY <2>1 DEF StackOK, n
      <4> QED  BY <4>1, <3>1
    <3>2. CASE ~EX!IsCallback(s[n])
      <4>1. Newest(s, c, n)
        BY DEF StackOK, n
      <4>2. c \in 0 .. n /\ (c # 0 => EX!IsCallback(s[c]))
            /\ \A i \in 1 .. n : EX!IsCallback(s[i]) => i <= c
        BY <4>1 DEF Newest
      <4>3. c # n
        BY <4>2, <3>2, <1>1
      <4>4. c \in 0 .. m /\ \A i \in 1 .. m : i \in 1 .. n
        BY <4>2, <4>3, <1>1
      <4>5. d = c
        BY <3>2
      <4> HIDE DEF d, m
      <4> QED  BY <4>2, <4>4, <4>5, Zenon DEF Newest
    <3> QED  BY <3>1, <3>2
  <2>3. \A i \in 1 .. m : t[i] = s[i]
    BY <1>2
  <2> HIDE DEF d, m
  <2> QED  BY <2>1, <2>2, <2>3, NewestKept
<1>10. StackOK(t, d)
  <2> HIDE DEF d
  <2> QED  BY <1>2, <1>4, <1>5, <1>6, <1>7, <1>8, <1>9, Zenon DEF StackOK
<1>11. s[n].count = s[n - 1].count + Extra(s[n].unwound)
  <2>1. n - 1 \in 1 .. n - 1 /\ (n - 1) + 1 = n
    BY <1>1
  <2> QED  BY <2>1 DEF StackOK, n
<1>12. n - 1 \in 1 .. n
  BY <1>1
<1> QED  BY <1>2, <1>3, <1>10, <1>11, <1>12, Zenon DEF n, t, d

-----------------------------------------------------------------------------
(* What an exception is told.                                              *)

\* Induction over the natural numbers, stated with a set: what is left out of T would
\* have a least element.
LEMMA Counting ==
  ASSUME NEW T, 0 \in T, \A n \in Nat : n \in T => n + 1 \in T
  PROVE  \A n \in Nat : n \in T
<1> DEFINE R == {p \in Nat \X Nat : p[1] < p[2]}
           Out == Nat \ T
<1> SUFFICES ASSUME Out # {}  PROVE FALSE
  OBVIOUS
<1>1. IsWellFoundedOn(R, Nat)
  BY NatLessThanWellFounded DEF OpToRel
<1>2. \A n \in Nat : n # 0 => << n - 1, n >> \in R
  OBVIOUS
<1> HIDE DEF R
<1>3. PICK x \in Out : \A y \in Out : << y, x >> \notin R
  <2>1. Out \subseteq Nat
    OBVIOUS
  <2> HIDE DEF Out
  <2> QED  BY <1>1, <2>1, WFMin
<1>4. x - 1 \in Out /\ x # 0
  <2>1. x \in Nat \ {0}
    OBVIOUS
  <2>2. (x - 1) + 1 = x /\ x - 1 \in Nat
    BY <2>1
  <2> QED  BY <2>1, <2>2
<1> QED  BY <1>2, <1>3, <1>4

\* What frame i makes of what the next callback of each frame, f, says.
Hear(kind, f, i) ==
    IF i = 0
    THEN [wrapped |-> << >>, tolerated |-> FALSE]
    ELSE IF stack[i].kind = "tolerant" /\ kind = "recoverable"
    THEN [wrapped |-> << >>, tolerated |-> TRUE]
    ELSE IF stack[i].kind = "context"
    THEN [f[stack[i].next] EXCEPT !.wrapped = Append(@, i)]
    ELSE f[stack[i].next]

\* The next callback of a frame is outside it.
Outwards == Len(stack) \in Nat /\ \A i \in 1 .. Len(stack) : stack[i].next \in 0 .. i - 1

LEMMA HearSame ==
  ASSUME NEW kind, NEW f, NEW g, NEW i, i = 0 \/ f[stack[i].next] = g[stack[i].next]
  PROVE  Hear(kind, f, i) = Hear(kind, g, i)
  BY Zenon DEF Hear

LEMMA SomeoneHears ==
  ASSUME Outwards, NEW kind
  PROVE  \E f : f = [i \in 0 .. Len(stack) |-> Hear(kind, f, i)]
<1> DEFINE Done(n) == \E f : f = [i \in 0 .. n |-> Hear(kind, f, i)]
           T == {n \in Nat : n <= Len(stack) => Done(n)}
<1>1. 0 \in T
  <2> DEFINE z == [wrapped |-> << >>, tolerated |-> FALSE]
             f == [i \in 0 .. 0 |-> z]
  <2>1. \A i \in 0 .. 0 : Hear(kind, f, i) = z
    BY DEF Hear
  <2>2. f = [i \in 0 .. 0 |-> Hear(kind, f, i)]
    <3> HIDE DEF z
    <3> QED  BY <2>1
  <2>3. Done(0)
    <3> HIDE DEF f
    <3> QED  BY <2>2
  <2> QED  BY <2>3
<1>2. \A n \in Nat : n \in T => n + 1 \in T
  <2> SUFFICES ASSUME NEW n \in Nat, n \in T, n + 1 <= Len(stack)
               PROVE  Done(n + 1)
    OBVIOUS
  <2>1. n <= Len(stack)
    BY DEF Outwards
  <2>2. PICK f : f = [i \in 0 .. n |-> Hear(kind, f, i)]
    BY <2>1
  <2> DEFINE g == [i \in 0 .. n + 1 |-> IF i = n + 1 THEN Hear(kind, f, i) ELSE f[i]]
  <2>3. \A i \in 0 .. n : g[i] = f[i] /\ f[i] = Hear(kind, f, i)
    <3>1. \A i \in 0 .. n : i \in 0 .. n + 1 /\ i # n + 1
      OBVIOUS
    <3>2. \A i \in 0 .. n : f[i] = Hear(kind, f, i)
      BY <2>2, Zenon
    <3> QED  BY <3>1, <3>2
  <2>4. \A i \in 0 .. n + 1 : i = 0 \/ stack[i].next \in 0 .. n
    BY DEF Outwards
  <2>5. \A i \in 0 .. n + 1 : g[i] = Hear(kind, f, i)
    <3> TAKE i \in 0 .. n + 1
    <3>1. i = n + 1 \/ i \in 0 .. n
      OBVIOUS
    <3> QED  BY <3>1, <2>3
  <2> HIDE DEF g
  <2>6. \A i \in 0 .. n + 1 : Hear(kind, f, i) = Hear(kind, g, i)
    <3> TAKE i \in 0 .. n + 1
    <3>1. i = 0 \/ f[stack[i].next] = g[stack[i].next]
      BY <2>3, <2>4
    <3> QED  BY <3>1, HearSame
  <2>7. g = [i \in 0 .. n + 1 |-> Hear(kind, f, i)]
    BY <2>5 DEF g
  <2>8. g = [i \in 0 .. n + 1 |-> Hear(kind, g, i)]
    BY <2>6, <2>7
  <2> QED  BY <2>8
<1> HIDE DEF T
<1>3. \A n \in Nat : n \in T
  BY <1>1, <1>2, Counting
<1> QED  BY <1>3 DEF T, Outwards

\* Contexts up to frame n and inside the last callback that lets the exception go by.
Around(kind, n) ==
    {c \in 1 .. n :
        /\ stack[c].kind = "context"
        /\ \A j \in 1 .. n : stack[j].kind = "tolerant" /\ kind = "recoverable" => j < c}

\* w names the contexts around frame n, outermost first.
Names(w, kind, n) ==
    /\ w \in Seq(Nat)
    /\ \A k, l \in DOMAIN w : k < l => w[k] < w[l]
    /\ {w[k] : k \in DOMAIN w} = Around(kind, n)

LEMMA AroundNext ==
  ASSUME NEW n \in Nat \ {0}, Newest(stack, stack[n].next, n - 1), NEW kind,
         ~(stack[n].kind = "tolerant" /\ kind = "recoverable")
  PROVE  Around(kind, n) = Around(kind, stack[n].next) \cup
                              (IF stack[n].kind = "context" THEN {n} ELSE {})
<1> DEFINE m == stack[n].next
           Stops(j) == stack[j].kind = "tolerant" /\ kind = "recoverable"
           Context(j) == stack[j].kind = "context"
<1>1. m \in 0 .. n - 1 /\ \A i \in 1 .. n - 1 : EX!IsCallback(stack[i]) => i <= m
  BY DEF Newest
<1>2. \A i \in 1 .. n - 1 : Context(i) \/ Stops(i) => i <= m
  BY <1>1 DEF EX!IsCallback
<1>3. ~Stops(n)
  OBVIOUS
<1> HIDE DEF m, Stops, Context
<1>4. Around(kind, n) = {c \in 1 .. n : Context(c) /\ \A j \in 1 .. n : Stops(j) => j < c}
  BY Zenon DEF Around, Stops, Context
<1>5. Around(kind, m) = {c \in 1 .. m : Context(c) /\ \A j \in 1 .. m : Stops(j) => j < c}
  BY Zenon DEF Around, Stops, Context
<1>6. \A c \in 1 .. m : c \in 1 .. n /\ c # n
  BY <1>1
<1>7. \A c \in 1 .. n : c = n \/ c \in 1 .. n - 1
  OBVIOUS
<1>8. \A c \in 1 .. n : Stops(c) => c \in 1 .. m /\ c < n
  BY <1>1, <1>2, <1>3, <1>7
<1>9. \A c \in 1 .. n : Context(c) => c = n \/ c \in 1 .. m
  BY <1>1, <1>2, <1>7
<1>10. n \in 1 .. n
  OBVIOUS
<1>11. {c \in 1 .. n : Context(c) /\ \A j \in 1 .. n : Stops(j) => j < c}
          = {c \in 1 .. m : Context(c) /\ \A j \in 1 .. m : Stops(j) => j < c}
            \cup (IF Context(n) THEN {n} ELSE {})
  BY <1>6, <1>8, <1>9, <1>10, Zenon
<1> QED  BY <1>4, <1>5, <1>11, Zenon DEF m, Context

LEMMA NamesMore ==
  ASSUME NEW n \in Nat \ {0}, NEW m \in 0 .. n - 1, NEW kind, NEW w, Names(w, kind, m),
         Around(kind, n) = Around(kind, m) \cup {n}
  PROVE  Names(Append(w, n), kind, n)
<1> DEFINE v == Append(w, n)
           k == Len(w)
<1>1. w \in Seq(Nat) /\ k \in Nat /\ n \in Nat /\ DOMAIN w = 1 .. k
  BY LenProperties DEF Names
<1>2. v \in Seq(Nat) /\ Len(v) = k + 1 /\ v[k + 1] = n /\ \A i \in 1 .. k : v[i] = w[i]
  BY <1>1, AppendProperties
<1> HIDE DEF v, k
<1>3. DOMAIN v = 1 .. k + 1
  BY <1>1, <1>2, LenProperties
<1>4. \A i \in 1 .. k : w[i] \in Around(kind, m)
  BY <1>1 DEF Names
<1>5. \A i \in 1 .. k : w[i] < n /\ w[i] \in Nat
  BY <1>4 DEF Around
<1>6. \A i \in 1 .. k + 1 : i = k + 1 \/ i \in 1 .. k
  BY <1>1
<1>7. \A i, j \in 1 .. k + 1 : i < j => v[i] < v[j]
  <2> SUFFICES ASSUME NEW i \in 1 .. k + 1, NEW j \in 1 .. k + 1, i < j
               PROVE  v[i] < v[j]
    OBVIOUS
  <2>1. i \in 1 .. k
    BY <1>1
  <2>2. CASE j = k + 1
    <3>1. v[i] = w[i] /\ v[j] = n
      BY <2>1, <2>2, <1>2
    <3> QED  BY <3>1, <2>1, <1>5
  <2>3. CASE j \in 1 .. k
    <3>1. v[i] = w[i] /\ v[j] = w[j]
      BY <2>1, <2>3, <1>2
    <3>2. w[i] < w[j]
      BY <2>1, <2>3, <1>1 DEF Names
    <3> QED  BY <3>1, <3>2
  <2> QED  BY <2>2, <2>3, <1>6
<1>8. {v[i] : i \in 1 .. k + 1} = {w[i] : i \in 1 .. k} \cup {n}
  <2>1. k + 1 \in 1 .. k + 1 /\ \A i \in 1 .. k : i \in 1 .. k + 1
    BY <1>1
  <2> QED  BY <2>1, <1>2, <1>6, Zenon
<1>9. {w[i] : i \in 1 .. k} = Around(kind, m)
  BY <1>1 DEF Names
<1>10. {v[i] : i \in DOMAIN v} = Around(kind, n)
  BY <1>3, <1>8, <1>9
<1>11. \A i, j \in DOMAIN v : i < j => v[i] < v[j]
  BY <1>3, <1>7, Zenon
<1> QED  BY <1>2, <1>10, <1>11, Zenon DEF Names, v

HeardType == [wrapped : Seq(Nat), tolerated : BOOLEAN]

LEMMA HearsOfAll ==
  ASSUME StackOK(stack, callback), NEW kind,
         NEW f, f = [i \in 0 .. Len(stack) |-> Hear(kind, f, i)]
  PROVE  Names(f[callback].wrapped, kind, callback)
<1> DEFINE Fine(i) == f[i] \in HeardType /\ Names(f[i].wrapped, kind, i)
           Done(n) == \A i \in 0 .. n : Fine(i)
           T == {n \in Nat : n <= Len(stack) => Done(n)}
<1>1. Len(stack) \in Nat /\ \A i \in 1 .. Len(stack) : Newest(stack, stack[i].next, i - 1)
  BY StackFacts DEF StackOK
<1>2. \A i \in 0 .. Len(stack) : f[i] = Hear(kind, f, i)
  BY Zenon
<1>3. 0 \in T
  <2>1. 0 \in 0 .. Len(stack)
    BY <1>1
  <2>2. f[0] = [wrapped |-> << >>, tolerated |-> FALSE]
    BY <2>1, <1>2 DEF Hear
  <2>3. Around(kind, 0) = {}
    BY DEF Around
  <2>4. Names(<< >>, kind, 0)
    BY <2>3 DEF Names
  <2>5. Fine(0)
    BY <2>2, <2>4 DEF HeardType
  <2> HIDE DEF Fine
  <2>6. \A i \in 0 .. 0 : i = 0
    OBVIOUS
  <2> QED  BY <2>5, <2>6
<1>4. \A n \in Nat : n \in T => n + 1 \in T
  <2> SUFFICES ASSUME NEW m \in Nat, m \in T, m + 1 <= Len(stack)
               PROVE  Done(m + 1)
    <3> HIDE DEF Done
    <3> QED  OBVIOUS
  <2> DEFINE n == m + 1
             p == stack[n].next
  <2>1. \A i \in 0 .. m : Fine(i)
    <3>1. m <= Len(stack)
      BY <1>1
    <3> HIDE DEF Fine
    <3> QED  BY <3>1
  <2>2. n \in 1 .. Len(stack) /\ n \in Nat \ {0} /\ n - 1 = m /\ n \in 0 .. Len(stack) /\ n # 0
    BY <1>1
  <2>3. Newest(stack, p, n - 1)
    BY <1>1, <2>2
  <2>4. p \in 0 .. m /\ p \in 0 .. n - 1
    BY <2>3, <2>2 DEF Newest
  <2>5. f[p] \in HeardType /\ Names(f[p].wrapped, kind, p)
    BY <2>1, <2>4
  <2>6. f[n] = Hear(kind, f, n)
    BY <1>2, <2>2
  <2> HIDE DEF n
  <2>7. ASSUME stack[n].kind = "tolerant" /\ kind = "recoverable"  PROVE Fine(n)
    <3>1. f[n].wrapped = << >>
      BY <2>6, <2>7, <2>2 DEF Hear
    <3>2. Around(kind, n) = {}
      BY <2>7, <2>2 DEF Around
    <3>3. Names(<< >>, kind, n)
      BY <3>2 DEF Names
    <3>4. f[n] \in HeardType
      BY <2>6, <2>7, <2>2 DEF Hear, HeardType
    <3> QED  BY <3>1, <3>3, <3>4
  <2>8. ASSUME ~(stack[n].kind = "tolerant" /\ kind = "recoverable")  PROVE Fine(n)
    <3>1. Around(kind, n) = Around(kind, p) \cup (IF stack[n].kind = "context" THEN {n} ELSE {})
      BY <2>2, <2>3, <2>8, AroundNext
    <3>2. CASE stack[n].kind = "context"
      <4>1. f[n] = [f[p] EXCEPT !.wrapped = Append(@, n)]
        BY <2>6, <2>8, <2>2, <3>2, Zenon DEF Hear
      <4>2. f[p].wrapped \in Seq(Nat) /\ n \in Nat
        BY <2>2, <2>5 DEF HeardType
      <4>3. f[n] \in HeardType /\ f[n].wrapped = Append(f[p].wrapped, n)
        <5> DEFINE w == Append(f[p].wrapped, n)
        <5>1. w \in Seq(Nat)
          BY <4>2, AppendProperties
        <5>2. f[n] = [f[p] EXCEPT !.wrapped = w]
          BY <4>1
        <5> HIDE DEF w
        <5>3. f[n] \in HeardType /\ f[n].wrapped = w
          BY <5>1, <5>2, <2>5 DEF HeardType
        <5> QED  BY <5>3 DEF w
      <4>4. Around(kind, n) = Around(kind, p) \cup {n}
        BY <3>1, <3>2
      <4>5. Names(Append(f[p].wrapped, n), kind, n)
        <5> HIDE DEF p
        <5> QED  BY <2>2, <2>4, <2>5, <4>4, NamesMore
      <4> QED  BY <4>3, <4>5
    <3>3. CASE stack[n].kind # "context"
      <4>1. f[n] = f[p]
        BY <2>6, <2>8, <2>2, <3>3, Zenon DEF Hear
      <4>2. Around(kind, n) = Around(kind, p)
        BY <3>1, <3>3
      <4>3. Names(f[p].wrapped, kind, n)
        <5> HIDE DEF p
        <5> QED  BY <4>2, <2>5 DEF Names
      <4> QED  BY <4>1, <4>3, <2>5
    <3> QED  BY <3>2, <3>3
  <2>9. Fine(n)
    BY <2>7, <2>8
  <2> HIDE DEF Fine
  <2>10. \A i \in 0 .. m + 1 : i = n \/ i \in 0 .. m
    BY DEF n
  <2> QED  BY <2>1, <2>9, <2>10
<1> HIDE DEF T
<1>5. \A n \in Nat : n \in T
  BY <1>3, <1>4, Counting
<1>6. callback \in 0 .. Len(stack)
  BY DEF StackOK, Newest
<1>7. callback \in Nat /\ callback <= Len(stack) /\ callback \in 0 .. callback
  BY <1>1, <1>6
<1> HIDE DEF Fine
<1>8. Fine(callback)
  BY <1>5, <1>7 DEF T
<1> QED  BY <1>8 DEF Fine

\* The contexts that have wrapped an exception are those that should.
LEMMA ToldRight ==
  ASSUME StackOK(stack, callback), NEW kind
  PROVE  LET w == EX!Told(kind).wrapped
         IN  /\ \A k, l \in DOMAIN w : k < l => w[k] < w[l]
             /\ EX!ToSet(w) = EX!ShouldWrap(kind)
<1> DEFINE T(f) == [i \in 0 .. Len(stack) |->
                      IF i = 0
                      THEN [wrapped |-> << >>, tolerated |-> FALSE]
                      ELSE IF stack[i].kind = "tolerant" /\ kind = "recoverable"
                      THEN [wrapped |-> << >>, tolerated |-> TRUE]
                      ELSE IF stack[i].kind = "context"
                      THEN [f[stack[i].next] EXCEPT !.wrapped = Append(@, i)]
                      ELSE f[stack[i].next]]
           F == CHOOSE f : f = T(f)
           w == EX!Told(kind).wrapped
<1>1. EX!Told(kind) = F[callback]
  BY Zenon DEF EX!Told
<1>2. Outwards
  <2>1. \A i \in 1 .. Len(stack) : Newest(stack, stack[i].next, i - 1)
    BY DEF StackOK
  <2>2. \A i \in 1 .. Len(stack) : stack[i].next \in 0 .. i - 1
    BY <2>1 DEF Newest
  <2> QED  BY <2>2, StackFacts DEF Outwards
<1>3. \A f : T(f) = [i \in 0 .. Len(stack) |-> Hear(kind, f, i)]
  BY Zenon DEF Hear
<1>4. F = [i \in 0 .. Len(stack) |-> Hear(kind, F, i)]
  <2> HIDE DEF T
  <2>1. \E f : f = T(f)
    BY <1>2, <1>3, SomeoneHears
  <2>2. F = T(F)
    BY <2>1, Zenon
  <2> HIDE DEF F
  <2> QED  BY <2>2, <1>3, Zenon
<1> HIDE DEF F
<1>5. Names(F[callback].wrapped, kind, callback)
  BY <1>4, HearsOfAll
<1>6. Names(w, kind, callback)
  BY <1>1, <1>5, Zenon
<1>7. EX!ToSet(w) = Around(kind, callback)
  BY <1>6 DEF Names, EX!ToSet
<1>8. Around(kind, callback) = EX!ShouldWrap(kind)
  <2>1. Len(stack) \in Nat /\ DOMAIN stack = 1 .. Len(stack)
    BY StackFacts, LenProperties DEF StackOK
  <2>2. callback \in 0 .. Len(stack)
        /\ \A i \in 1 .. Len(stack) : EX!IsCallback(stack[i]) => i <= callback
    BY DEF StackOK, Newest
  <2>3. \A i \in 1 .. callback : i \in DOMAIN stack
    BY <2>1, <2>2
  <2>4. \A i \in DOMAIN stack : stack[i].kind \in {"context", "tolerant"} => i \in 1 .. callback
    BY <2>1, <2>2 DEF EX!IsCallback
  <2> QED  BY <2>3, <2>4, Zenon DEF Around, EX!ShouldWrap
<1> QED  BY <1>6, <1>7, <1>8, Zenon DEF Names

-----------------------------------------------------------------------------
LEMMA FrontFacts ==
  ASSUME NEW S, NEW s \in Seq(S), Len(s) # 0
  PROVE  /\ EX!Front(s) \in Seq(S) /\ Len(EX!Front(s)) = Len(s) - 1
         /\ \A i \in 1 .. Len(s) - 1 : EX!Front(s)[i] = s[i]
<1> DEFINE m == Len(s) - 1
<1>1. Len(s) \in Nat \ {0}
  BY LenProperties
<1>2. \A i \in 1 .. m : s[i] \in S
  BY <1>1, ElementOfSeq
<1>3. /\ SubSeq(s, 1, m) \in Seq(S)
      /\ Len(SubSeq(s, 1, m)) = IF 1 <= m THEN m - 1 + 1 ELSE 0
      /\ \A i \in 1 .. m - 1 + 1 : SubSeq(s, 1, m)[i] = s[1 + i - 1]
  BY <1>1, <1>2, SubSeqProperties
<1>4. EX!Front(s) = SubSeq(s, 1, m)
  BY DEF EX!Front
<1>5. m \in Nat /\ m = Len(s) - 1
  BY <1>1
<1> HIDE DEF m
<1> QED  BY <1>3, <1>4, <1>5

Faults == {"fatal", "recoverable"}

\* The frames s with their newest callback c, the exceptions u, of which the newest is
\* unwinding if w, and d if the program has ended.
FlightOK(s, c, u, w, d) ==
    /\ StackOK(s, c)
    /\ w \in BOOLEAN
    /\ u \in Seq(Faults)
    /\ \A k \in 2 .. Len(u) : u[k] = "fatal"
    /\ d = "no" => Len(u) = s[Len(s)].count + Extra(w)
    /\ d # "recoverable"

LEMMA FlightFacts ==
  ASSUME NEW s, NEW c, NEW u, NEW w, FlightOK(s, c, u, w, "no")
  PROVE  /\ StackOK(s, c) /\ w \in BOOLEAN /\ u \in Seq(Faults) /\ Len(u) \in Nat
         /\ \A k \in 2 .. Len(u) : u[k] = "fatal"
         /\ Len(s) \in Nat \ {0} /\ s[Len(s)] \in FrameType
         /\ s[Len(s)].count \in Nat /\ s[Len(s)].unwound \in BOOLEAN
         /\ Len(u) = s[Len(s)].count + Extra(w)
         /\ s[Len(s)].kind # "catch" => Len(s) # 1
         /\ s[Len(s)].unwound => s[Len(s)].kind = "destructor"
         /\ s[Len(s)].next \in Nat /\ c \in Nat
<1>1. StackOK(s, c) /\ w \in BOOLEAN /\ u \in Seq(Faults) /\ Len(u) = s[Len(s)].count + Extra(w)
      /\ \A k \in 2 .. Len(u) : u[k] = "fatal"
  BY DEF FlightOK
<1>2. Len(u) \in Nat
  BY <1>1, LenProperties
<1>3. Len(s) \in Nat \ {0} /\ Len(s) \in 1 .. Len(s)
  BY <1>1, StackFacts
<1>4. /\ s[Len(s)] \in FrameType /\ s[Len(s)].count \in Nat /\ s[Len(s)].unwound \in BOOLEAN
      /\ s[Len(s)].next \in Nat
  BY <1>1, <1>3, StackFacts
<1>5. (s[Len(s)].unwound => s[Len(s)].kind = "destructor") /\ s[1].kind = "catch"
  BY <1>1, <1>3 DEF StackOK
<1>6. c \in 0 .. Len(s)
  BY <1>1 DEF StackOK, Newest
<1>7. c \in Nat
  BY <1>3, <1>6
<1> QED  BY <1>1, <1>2, <1>3, <1>4, <1>5, <1>7, Zenon

\* The top frame is gone, and w' exceptions of its count are in flight.
LEMMA FlightPopped ==
  ASSUME NEW s, NEW c, NEW u, NEW w, FlightOK(s, c, u, w, "no"), Len(s) # 1,
         NEW v \in Seq(Faults), NEW x \in BOOLEAN, \A k \in 2 .. Len(v) : v[k] = "fatal",
         Len(v) = s[Len(s)].count - Extra(s[Len(s)].unwound) + Extra(x)
  PROVE  FlightOK(EX!Front(s), IF EX!IsCallback(s[Len(s)]) THEN s[Len(s)].next ELSE c, v, x, "no")
<1> DEFINE n == Len(s)
           t == EX!Front(s)
           d == IF EX!IsCallback(s[n]) THEN s[n].next ELSE c
<1>1. StackOK(s, c) /\ n \in Nat \ {0} /\ s[n].unwound \in BOOLEAN
  BY FlightFacts
<1>2. /\ StackOK(t, d) /\ Len(t) = n - 1 /\ n - 1 \in 1 .. n /\ t[n - 1] = s[n - 1]
      /\ s[n].count = s[n - 1].count + Extra(s[n].unwound)
  BY <1>1, FramePopped, Zenon
<1>3. s[n - 1].count \in Nat
  BY <1>1, <1>2, StackFacts
<1>4. Len(v) = s[n].count - Extra(s[n].unwound) + Extra(x)
  OBVIOUS
<1> HIDE DEF t, d, n
<1>5. Len(v) = t[Len(t)].count + Extra(x)
  <2>1. Extra(s[n].unwound) \in Int /\ Extra(x) \in Int
    BY <1>1 DEF Extra
  <2> QED  BY <2>1, <1>2, <1>3, <1>4
<1>6. FlightOK(t, d, v, x, "no")
  BY <1>2, <1>5, Zenon DEF FlightOK
<1> QED  BY <1>6, Zenon DEF t, d, n

\* The code of a destructor takes the place of the top frame.
LEMMA FlightDestructs ==
  ASSUME NEW s, NEW c, NEW u, NEW w, FlightOK(s, c, u, w, "no"), NEW b \in BOOLEAN,
         s[Len(s)].kind \in {"scope", "guarded"}
  PROVE  FlightOK(Append(EX!Front(s), [kind |-> "destructor", next |-> c, count |-> Len(u),
                                       unwound |-> w, secondary |-> b]), c, u, FALSE, "no")
<1> DEFINE n == Len(s)
           t == EX!Front(s)
           f == [kind |-> "destructor", next |-> c, count |-> Len(u), unwound |-> w,
                 secondary |-> b]
<1>1. /\ StackOK(s, c) /\ w \in BOOLEAN /\ u \in Seq(Faults) /\ Len(u) \in Nat /\ c \in Nat
      /\ \A k \in 2 .. Len(u) : u[k] = "fatal"
      /\ Len(u) = s[n].count + Extra(w) /\ ~s[n].unwound /\ n # 1 /\ ~EX!IsCallback(s[n])
      /\ n \in Nat \ {0} /\ s[n].count \in Nat
  BY FlightFacts DEF EX!IsCallback
<1>2. /\ StackOK(t, c) /\ Len(t) = n - 1 /\ n - 1 \in 1 .. n /\ t[n - 1] = s[n - 1]
      /\ s[n].count = s[n - 1].count + Extra(s[n].unwound)
  BY <1>1, FramePopped, Zenon
<1>3. s[n - 1].count \in Nat
  BY <1>1, <1>2, StackFacts
<1> HIDE DEF n, t
<1>4. Len(u) = t[Len(t)].count + Extra(w)
  BY <1>1, <1>2, <1>3 DEF Extra
<1>5. /\ f \in FrameType /\ f.next = c /\ f.count = t[Len(t)].count + Extra(f.unwound)
      /\ (f.unwound => f.kind = "destructor") /\ ~EX!IsCallback(f) /\ f.count = Len(u)
  BY <1>1, <1>4 DEF FrameType, AnyKind, EX!IsCallback
<1> HIDE DEF f
<1>6. /\ StackOK(Append(t, f), IF EX!IsCallback(f) THEN Len(t) + 1 ELSE c)
      /\ Len(Append(t, f)) = Len(t) + 1 /\ Append(t, f)[Len(t) + 1] = f
  BY <1>2, <1>5, FramePushed
<1>7. StackOK(Append(t, f), c)
  BY <1>5, <1>6, Zenon
<1>8. Len(u) = Append(t, f)[Len(Append(t, f))].count + Extra(FALSE)
  BY <1>5, <1>6, <1>1 DEF Extra
<1>9. FlightOK(Append(t, f), c, u, FALSE, "no")
  BY <1>1, <1>7, <1>8, Zenon DEF FlightOK
<1> QED  BY <1>9, Zenon DEF f, t

Heard ==
    /\ EX!ToSet(told.wrapped) = told.should
    /\ \A k, l \in DOMAIN told.wrapped : k < l => told.wrapped[k] < told.wrapped[l]

ExceptionsInv ==
    /\ FlightOK(stack, callback, uncaught, unwinding, dead)
    /\ ~misjudged
    /\ Heard

LEMMA HeardKept == ASSUME Heard, told' = told  PROVE Heard'
  BY DEF Heard

LEMMA FlightNow ==
  ASSUME ExceptionsInv, dead = "no"
  PROVE  FlightOK(stack, callback, uncaught, unwinding, "no")
  BY DEF ExceptionsInv

\* What a step has to show.
LEMMA FlightThen ==
  ASSUME NEW s, NEW c, NEW u, NEW w, FlightOK(s, c, u, w, dead'),
         stack' = s, callback' = c, uncaught' = u, unwinding' = w, ~misjudged', Heard'
  PROVE  ExceptionsInv'
<1>1. FlightOK(stack', callback', uncaught', unwinding', dead')
  BY Zenon
<1> QED  BY <1>1, Zenon DEF ExceptionsInv, FlightOK, StackOK, Newest, EX!IsCallback

LEMMA FrameEntered ==
  ASSUME ExceptionsInv, NEW kind \in EX!Kinds, EX!Enter(kind)
  PROVE  ExceptionsInv'
<1> DEFINE f == EX!Frame(kind)
           c == IF EX!IsCallback(f) THEN Len(stack) + 1 ELSE callback
<1>1. /\ dead = "no" /\ ~unwinding /\ stack' = Append(stack, f) /\ callback' = c
      /\ uncaught' = uncaught /\ unwinding' = unwinding /\ dead' = dead /\ told' = told
      /\ misjudged' = misjudged
  BY DEF EX!Enter, EX!Running
<1>2. FlightOK(stack, callback, uncaught, unwinding, "no")
  BY <1>1, FlightNow
<1>3. /\ StackOK(stack, callback) /\ uncaught \in Seq(Faults) /\ callback \in Nat
      /\ Len(uncaught) \in Nat /\ unwinding = FALSE /\ Len(stack) \in Nat
      /\ \A k \in 2 .. Len(uncaught) : uncaught[k] = "fatal"
      /\ Len(uncaught) = stack[Len(stack)].count + Extra(unwinding)
      /\ stack[Len(stack)].count \in Nat
  BY <1>1, <1>2, FlightFacts
<1>4. /\ f \in FrameType /\ f.next = callback /\ f.unwound = FALSE
      /\ f.count = stack[Len(stack)].count + Extra(f.unwound) /\ f.count = Len(uncaught)
  BY <1>3 DEF FrameType, AnyKind, EX!Frame, Extra
<1> HIDE DEF f
<1>5. /\ StackOK(Append(stack, f), c)
      /\ Len(Append(stack, f)) = Len(stack) + 1 /\ Append(stack, f)[Len(stack) + 1] = f
  BY <1>3, <1>4, FramePushed
<1>6. Len(uncaught) = Append(stack, f)[Len(Append(stack, f))].count + Extra(unwinding)
  BY <1>3, <1>4, <1>5 DEF Extra
<1> HIDE DEF c
<1>7. FlightOK(Append(stack, f), c, uncaught, unwinding, dead')
  BY <1>1, <1>3, <1>5, <1>6, Zenon DEF FlightOK
<1>8. Heard' /\ ~misjudged'
  BY <1>1, HeardKept DEF ExceptionsInv
<1> QED  BY <1>1, <1>7, <1>8, FlightThen

\* While code runs, every exception in flight was there when its scope was entered.
LEMMA NotUnwinding ==
  ASSUME FlightOK(stack, callback, uncaught, unwinding, "no")
  PROVE  EX!IsUnwinding(EX!Top) <=> unwinding
  BY FlightFacts DEF EX!IsUnwinding, EX!Top, Extra

LEMMA Destructor ==
  ASSUME NEW c, NEW n, NEW w, NEW b
  PROVE  [[kind |-> "destructor", next |-> c, count |-> n, unwound |-> w,
           secondary |-> FALSE] EXCEPT !.secondary = b]
         = [kind |-> "destructor", next |-> c, count |-> n, unwound |-> w, secondary |-> b]
  OBVIOUS

LEMMA DestructorRun ==
  ASSUME FlightOK(stack, callback, uncaught, unwinding, "no"), NEW b \in BOOLEAN,
         EX!Top.kind \in {"scope", "guarded"}, EX!RunDestructor(b),
         uncaught' = uncaught, dead' = "no", ~misjudged', Heard'
  PROVE  ExceptionsInv'
<1> DEFINE f == [kind |-> "destructor", next |-> callback, count |-> Len(uncaught),
                 unwound |-> unwinding, secondary |-> b]
<1>1. f = [EX!Frame("destructor") EXCEPT !.secondary = b]
  BY Destructor DEF EX!Frame
<1>2. stack' = Append(EX!Front(stack), f) /\ unwinding' = FALSE /\ callback' = callback
  BY <1>1 DEF EX!RunDestructor
<1>3. FlightOK(Append(EX!Front(stack), f), callback, uncaught, FALSE, "no")
  BY FlightDestructs DEF EX!Top
<1> HIDE DEF f
<1> QED  BY <1>2, <1>3, FlightThen

LEMMA TopPopped ==
  ASSUME FlightOK(stack, callback, uncaught, unwinding, "no"), Len(stack) # 1, EX!Popped,
         NEW v \in Seq(Faults), NEW x \in BOOLEAN, \A k \in 2 .. Len(v) : v[k] = "fatal",
         Len(v) = EX!Top.count - Extra(EX!Top.unwound) + Extra(x),
         uncaught' = v, unwinding' = x, dead' = "no", ~misjudged', Heard'
  PROVE  ExceptionsInv'
<1> DEFINE d == IF EX!IsCallback(stack[Len(stack)]) THEN stack[Len(stack)].next ELSE callback
<1>1. stack' = EX!Front(stack) /\ callback' = d
  BY DEF EX!Popped, EX!Top
<1>2. Len(v) = stack[Len(stack)].count - Extra(stack[Len(stack)].unwound) + Extra(x)
  BY DEF EX!Top
<1>3. FlightOK(EX!Front(stack), d, v, x, "no")
  BY <1>2, FlightPopped
<1> HIDE DEF d
<1> QED  BY <1>1, <1>3, FlightThen

LEMMA ScopeLeft ==
  ASSUME ExceptionsInv, EX!Leave
  PROVE  ExceptionsInv'
<1>1. /\ dead = "no" /\ ~unwinding /\ Len(stack) > 1
      /\ IF EX!Top.kind = "guarded" \/ (EX!Top.kind = "scope" /\ EX!IsUnwinding(EX!Top))
         THEN EX!RunDestructor(FALSE)
         ELSE EX!Popped /\ unwinding' = EX!Top.unwound
      /\ misjudged' = (misjudged \/ (EX!Top.kind \in {"scope", "guarded"} /\ EX!IsUnwinding(EX!Top)))
      /\ uncaught' = uncaught /\ dead' = dead /\ told' = told
  BY DEF EX!Leave, EX!Running
<1>2. FlightOK(stack, callback, uncaught, unwinding, "no")
  BY <1>1, FlightNow
<1>3. ~EX!IsUnwinding(EX!Top)
  BY <1>1, <1>2, NotUnwinding
<1>4. Heard' /\ ~misjudged' /\ dead' = "no"
  BY <1>1, <1>3, HeardKept DEF ExceptionsInv
<1>5. CASE EX!Top.kind = "guarded"
  BY <1>1, <1>2, <1>4, <1>5, DestructorRun
<1>6. CASE EX!Top.kind # "guarded"
  <2>1. EX!Popped /\ unwinding' = EX!Top.unwound
    BY <1>1, <1>3, <1>6, Zenon
  <2>2. /\ uncaught \in Seq(Faults) /\ \A k \in 2 .. Len(uncaught) : uncaught[k] = "fatal"
        /\ EX!Top.unwound \in BOOLEAN /\ EX!Top.count \in Nat
        /\ Len(uncaught) = EX!Top.count + Extra(unwinding) /\ Len(stack) \in Nat
    BY <1>2, FlightFacts DEF EX!Top
  <2>3. Len(uncaught) = EX!Top.count - Extra(EX!Top.unwound) + Extra(EX!Top.unwound)
    BY <2>2, <1>1 DEF Extra
  <2>4. Len(stack) # 1
    <3>1. Len(stack) > 1
      BY DEF EX!Leave
    <3>2. \A n \in Nat : n > 1 => n # 1
      OBVIOUS
    <3> QED  BY <3>1, <3>2, <2>2, Zenon
  <2> QED  BY <2>1, <2>2, <2>3, <2>4, <1>1, <1>2, <1>4, TopPopped
<1> QED  BY <1>5, <1>6

LEMMA FaultRaised ==
  ASSUME ExceptionsInv, NEW kind \in Faults, EX!Raise(kind)
  PROVE  ExceptionsInv'
<1> DEFINE w == EX!Told(kind).wrapped
<1>1. /\ dead = "no" /\ ~unwinding
      /\ told' = [wrapped |-> w, should |-> EX!ShouldWrap(kind)]
      /\ IF ~EX!Told(kind).tolerated /\ EX!RootThrows(kind)
         THEN uncaught' = Append(uncaught, kind) /\ unwinding' = TRUE
         ELSE uncaught' = uncaught /\ unwinding' = unwinding
      /\ stack' = stack /\ callback' = callback /\ dead' = dead /\ misjudged' = misjudged
  BY DEF EX!Raise, EX!Running
<1>2. FlightOK(stack, callback, uncaught, unwinding, "no")
  BY <1>1, FlightNow
<1>3. /\ StackOK(stack, callback) /\ uncaught \in Seq(Faults)
      /\ Len(uncaught) \in Nat /\ unwinding = FALSE
      /\ \A k \in 2 .. Len(uncaught) : uncaught[k] = "fatal"
      /\ Len(uncaught) = stack[Len(stack)].count + Extra(unwinding)
      /\ stack[Len(stack)].count \in Nat
  BY <1>1, <1>2, FlightFacts
<1>4. /\ \A k, l \in DOMAIN w : k < l => w[k] < w[l]
      /\ EX!ToSet(w) = EX!ShouldWrap(kind)
  BY <1>3, ToldRight
<1> HIDE DEF w
<1>5. told'.wrapped = w /\ told'.should = EX!ShouldWrap(kind)
  BY <1>1
<1>6. Heard'
  <2>1. EX!ToSet(told'.wrapped) = told'.should
    BY <1>4, <1>5, Zenon
  <2>2. \A k, l \in DOMAIN told'.wrapped : k < l => told'.wrapped[k] < told'.wrapped[l]
    BY <1>4, <1>5, Zenon
  <2> QED  BY <2>1, <2>2, Zenon DEF Heard, EX!ToSet
<1>7. ~misjudged' /\ dead' = "no"
  BY <1>1 DEF ExceptionsInv
<1>8. CASE uncaught' = uncaught /\ unwinding' = unwinding
  BY <1>1, <1>2, <1>6, <1>7, <1>8, FlightThen
<1>9. CASE uncaught' = Append(uncaught, kind) /\ unwinding' = TRUE /\ EX!RootThrows(kind)
  <2> DEFINE u == Append(uncaught, kind)
             n == Len(uncaught)
  <2>1. u \in Seq(Faults) /\ Len(u) = n + 1 /\ u[n + 1] = kind /\ \A i \in 1 .. n : u[i] = uncaught[i]
    BY <1>3, AppendProperties
  <2>2. kind = "fatal" \/ n = 0
    BY <1>9 DEF EX!RootThrows
  <2> HIDE DEF u, n
  <2>3. \A k \in 2 .. n + 1 : u[k] = "fatal"
    <3> TAKE k \in 2 .. n + 1
    <3>1. n \in Nat
      BY <1>3 DEF n
    <3>2. k = n + 1 \/ k \in 2 .. n
      BY <3>1
    <3>3. CASE k = n + 1
      BY <3>3, <3>1, <2>1, <2>2
    <3>4. CASE k \in 2 .. n
      <4>1. u[k] = uncaught[k]
        BY <3>4, <2>1
      <4> QED  BY <4>1, <3>4, <1>3 DEF n
    <3> QED  BY <3>2, <3>3, <3>4
  <2>4. Len(u) = stack[Len(stack)].count + Extra(TRUE)
    BY <2>1, <1>3 DEF Extra, n
  <2>5. FlightOK(stack, callback, u, TRUE, "no")
    BY <1>3, <2>1, <2>3, <2>4, Zenon DEF FlightOK
  <2>6. uncaught' = u /\ unwinding' = TRUE
    BY <1>9 DEF u
  <2> QED  BY <1>1, <1>6, <1>7, <2>5, <2>6, FlightThen
<1> QED  BY <1>1, <1>8, <1>9, Zenon

LEMMA CallbackUnwound ==
  ASSUME ExceptionsInv, EX!UnwindCallback
  PROVE  ExceptionsInv'
<1>1. /\ dead = "no" /\ unwinding /\ EX!IsCallback(EX!Top) /\ EX!Popped
      /\ uncaught' = uncaught /\ unwinding' = unwinding /\ dead' = dead /\ told' = told
      /\ misjudged' = misjudged
  BY DEF EX!UnwindCallback
<1>2. FlightOK(stack, callback, uncaught, unwinding, "no")
  BY <1>1, FlightNow
<1>3. Heard' /\ ~misjudged' /\ dead' = "no"
  BY <1>1, HeardKept DEF ExceptionsInv
<1>4. /\ uncaught \in Seq(Faults) /\ \A k \in 2 .. Len(uncaught) : uncaught[k] = "fatal"
      /\ unwinding \in BOOLEAN /\ EX!Top.count \in Nat /\ Len(stack) # 1
      /\ Len(uncaught) = EX!Top.count + Extra(unwinding) /\ ~EX!Top.unwound
  <2>1. EX!Top.kind # "catch" /\ EX!Top.kind # "destructor"
    BY <1>1 DEF EX!IsCallback
  <2>2. /\ uncaught \in Seq(Faults) /\ \A k \in 2 .. Len(uncaught) : uncaught[k] = "fatal"
        /\ unwinding \in BOOLEAN /\ EX!Top.count \in Nat
        /\ Len(uncaught) = EX!Top.count + Extra(unwinding)
    BY <1>2, FlightFacts, Zenon DEF EX!Top
  <2>3. Len(stack) # 1
    BY <2>1, <1>2, FlightFacts, Zenon DEF EX!Top
  <2>4. ~EX!Top.unwound
    BY <2>1, <1>2, FlightFacts, Zenon DEF EX!Top
  <2> QED  BY <2>2, <2>3, <2>4, Zenon
<1>5. Len(uncaught) = EX!Top.count - Extra(EX!Top.unwound) + Extra(unwinding)
  BY <1>4 DEF Extra
<1> QED  BY <1>1, <1>2, <1>3, <1>4, <1>5, TopPopped

\* The newest exception is gone.
LEMMA OneLess ==
  ASSUME FlightOK(stack, callback, uncaught, unwinding, "no"), unwinding
  PROVE  /\ EX!Front(uncaught) \in Seq(Faults)
         /\ Len(EX!Front(uncaught)) = EX!Top.count
         /\ \A k \in 2 .. Len(EX!Front(uncaught)) : EX!Front(uncaught)[k] = "fatal"
<1>1. /\ uncaught \in Seq(Faults) /\ \A k \in 2 .. Len(uncaught) : uncaught[k] = "fatal"
      /\ EX!Top.count \in Nat /\ Len(uncaught) = EX!Top.count + 1
  BY FlightFacts DEF EX!Top, Extra
<1>2. /\ EX!Front(uncaught) \in Seq(Faults) /\ Len(EX!Front(uncaught)) = Len(uncaught) - 1
      /\ \A i \in 1 .. Len(uncaught) - 1 : EX!Front(uncaught)[i] = uncaught[i]
  BY <1>1, FrontFacts
<1> QED  BY <1>1, <1>2

LEMMA FaultCaught ==
  ASSUME ExceptionsInv, EX!Catch
  PROVE  ExceptionsInv'
<1> DEFINE v == EX!Front(uncaught)
<1>1. /\ dead = "no" /\ unwinding /\ EX!Top.kind = "catch" /\ uncaught' = v
      /\ unwinding' = FALSE
      /\ stack' = (IF Len(stack) = 1 THEN stack ELSE EX!Front(stack))
      /\ callback' = callback /\ dead' = dead /\ told' = told /\ misjudged' = misjudged
  BY DEF EX!Catch
<1>2. FlightOK(stack, callback, uncaught, unwinding, "no")
  BY <1>1, FlightNow
<1>3. Heard' /\ ~misjudged' /\ dead' = "no"
  BY <1>1, HeardKept DEF ExceptionsInv
<1>4. v \in Seq(Faults) /\ Len(v) = EX!Top.count /\ \A k \in 2 .. Len(v) : v[k] = "fatal"
  BY <1>1, <1>2, OneLess
<1>5. /\ StackOK(stack, callback) /\ EX!Top.count \in Nat /\ ~EX!Top.unwound
      /\ ~EX!IsCallback(EX!Top)
  BY <1>1, <1>2, FlightFacts DEF EX!Top, EX!IsCallback
<1> HIDE DEF v
<1>6. CASE Len(stack) = 1
  <2>1. Len(v) = stack[Len(stack)].count + Extra(FALSE)
    BY <1>4, <1>5 DEF EX!Top, Extra
  <2>2. FlightOK(stack, callback, v, FALSE, "no")
    BY <2>1, <1>4, <1>5, Zenon DEF FlightOK
  <2>3. stack' = stack
    BY <1>1, <1>6
  <2> QED  BY <2>2, <2>3, <1>1, <1>3, FlightThen
<1>7. CASE Len(stack) # 1
  <2>1. Len(v) = EX!Top.count - Extra(EX!Top.unwound) + Extra(FALSE)
    BY <1>4, <1>5 DEF Extra
  <2>2. EX!Popped
    BY <1>1, <1>5, <1>7, Zenon DEF EX!Popped
  <2> QED  BY <2>1, <2>2, <1>1, <1>2, <1>3, <1>4, <1>7, TopPopped
<1> QED  BY <1>6, <1>7

LEMMA ScopeUnwound ==
  ASSUME ExceptionsInv, EX!UnwindScope
  PROVE  ExceptionsInv'
<1>1. /\ dead = "no" /\ unwinding /\ EX!Top.kind \in {"scope", "guarded"}
      /\ misjudged' = (misjudged \/ ~EX!IsUnwinding(EX!Top))
      /\ IF EX!Top.kind = "guarded" \/ EX!IsUnwinding(EX!Top)
         THEN EX!RunDestructor(EX!Top.kind = "guarded" /\ EX!IsUnwinding(EX!Top))
         ELSE EX!Popped /\ unwinding' = unwinding
      /\ uncaught' = uncaught /\ dead' = dead /\ told' = told
  BY DEF EX!UnwindScope
<1>2. FlightOK(stack, callback, uncaught, unwinding, "no")
  BY <1>1, FlightNow
<1>3. EX!IsUnwinding(EX!Top)
  BY <1>1, <1>2, NotUnwinding
<1>4. Heard' /\ ~misjudged' /\ dead' = "no"
  BY <1>1, <1>3, HeardKept DEF ExceptionsInv
<1> DEFINE b == (EX!Top.kind = "guarded" /\ EX!IsUnwinding(EX!Top))
<1>5. EX!RunDestructor(b)
  BY <1>1, <1>3, Zenon
<1>6. b \in BOOLEAN
  OBVIOUS
<1> HIDE DEF b
<1> QED  BY <1>1, <1>2, <1>4, <1>5, <1>6, DestructorRun

LEMMA DestructorLeft ==
  ASSUME ExceptionsInv, EX!LeaveDestructor
  PROVE  ExceptionsInv'
<1>1. /\ dead = "no" /\ unwinding /\ EX!Top.kind = "destructor"
      /\ unwinding' = unwinding /\ told' = told /\ misjudged' = misjudged
  BY DEF EX!LeaveDestructor
<1>2. FlightOK(stack, callback, uncaught, unwinding, "no")
  BY <1>1, FlightNow
<1>3. Heard' /\ ~misjudged'
  BY <1>1, HeardKept DEF ExceptionsInv
<1>4. /\ StackOK(stack, callback) /\ uncaught \in Seq(Faults) /\ unwinding = TRUE
      /\ \A k \in 2 .. Len(uncaught) : uncaught[k] = "fatal"
      /\ EX!Top.count \in Nat /\ EX!Top.unwound \in BOOLEAN
      /\ Len(uncaught) = EX!Top.count + 1 /\ Len(stack) # 1
  <2>1. unwinding = TRUE
    <3>1. unwinding \in BOOLEAN /\ unwinding
      BY <1>1, <1>2, FlightFacts, Zenon
    <3> QED  BY <3>1
  <2>2. /\ StackOK(stack, callback) /\ uncaught \in Seq(Faults)
        /\ \A k \in 2 .. Len(uncaught) : uncaught[k] = "fatal"
        /\ EX!Top.count \in Nat /\ EX!Top.unwound \in BOOLEAN
        /\ Len(uncaught) = EX!Top.count + Extra(unwinding)
    BY <1>2, FlightFacts, Zenon DEF EX!Top
  <2>3. Len(stack) # 1
    <3>1. EX!Top.kind # "catch"
      BY <1>1
    <3> QED  BY <3>1, <1>2, FlightFacts, Zenon DEF EX!Top
  <2>4. Len(uncaught) = EX!Top.count + 1
    BY <2>1, <2>2 DEF Extra
  <2> QED  BY <2>1, <2>2, <2>3, <2>4, Zenon
<1>5. CASE EX!Top.unwound /\ ~EX!Top.secondary
  <2>1. /\ dead' = uncaught[Len(uncaught)] /\ stack' = stack /\ callback' = callback
        /\ uncaught' = uncaught
    BY <1>5 DEF EX!LeaveDestructor
  <2>2. EX!Top.count >= 1
    <3> DEFINE n == Len(stack)
               s == EX!Front(stack)
    <3>1. /\ n - 1 \in 1 .. n
          /\ stack[n].count = stack[n - 1].count + Extra(stack[n].unwound)
      BY <1>4, FramePopped
    <3>2. stack[n - 1].count \in Nat
      BY <1>4, <3>1, StackFacts
    <3>3. stack[n].unwound
      BY <1>5 DEF EX!Top
    <3> QED  BY <3>1, <3>2, <3>3 DEF EX!Top, Extra
  <2>3. Len(uncaught) \in 2 .. Len(uncaught)
    BY <2>2, <1>4
  <2>4. uncaught[Len(uncaught)] = "fatal"
    BY <2>3, <1>4
  <2>5. FlightOK(stack, callback, uncaught, TRUE, "fatal")
    BY <1>4, Zenon DEF FlightOK
  <2>6. dead' = "fatal" /\ unwinding' = TRUE
    BY <2>1, <2>4, <1>1, <1>4
  <2> QED  BY <2>1, <2>5, <2>6, <1>3, FlightThen
<1>6. CASE ~EX!Top.unwound
  <2>1. EX!Popped /\ dead' = "no" /\ uncaught' = uncaught /\ unwinding' = TRUE
    BY <1>1, <1>4, <1>6 DEF EX!LeaveDestructor
  <2>2. Len(uncaught) = EX!Top.count - Extra(EX!Top.unwound) + Extra(TRUE)
    BY <1>4, <1>6 DEF Extra
  <2> QED  BY <2>1, <2>2, <1>2, <1>3, <1>4, TopPopped
<1>7. CASE EX!Top.unwound /\ EX!Top.secondary
  <2> DEFINE v == EX!Front(uncaught)
  <2>1. EX!Popped /\ dead' = "no" /\ uncaught' = v /\ unwinding' = TRUE
    BY <1>1, <1>4, <1>7 DEF EX!LeaveDestructor
  <2>2. v \in Seq(Faults) /\ Len(v) = EX!Top.count /\ \A k \in 2 .. Len(v) : v[k] = "fatal"
    BY <1>2, <1>4, OneLess
  <2> HIDE DEF v
  <2>3. Len(v) = EX!Top.count - Extra(EX!Top.unwound) + Extra(TRUE)
    BY <2>2, <1>4, <1>7 DEF Extra
  <2> QED  BY <2>1, <2>2, <2>3, <1>2, <1>3, <1>4, TopPopped
<1> QED  BY <1>4, <1>5, <1>6, <1>7, Zenon

LEMMA ExceptionsInitInv == EX!Init => ExceptionsInv
<1> SUFFICES ASSUME EX!Init  PROVE ExceptionsInv
  OBVIOUS
<1> DEFINE f == [kind |-> "catch", next |-> 0, count |-> 0, unwound |-> FALSE,
                 secondary |-> FALSE]
<1>1. /\ stack = << f >> /\ callback = 0 /\ uncaught = << >> /\ unwinding = FALSE /\ dead = "no"
      /\ told = [wrapped |-> << >>, should |-> {}] /\ misjudged = FALSE
  BY DEF EX!Init
<1>2. /\ f \in FrameType /\ f.kind = "catch" /\ f.count = 0 /\ f.unwound = FALSE /\ f.next = 0
      /\ ~EX!IsCallback(f)
  BY DEF FrameType, AnyKind, EX!Kinds, EX!IsCallback
<1> HIDE DEF f
<1>3. /\ stack \in Seq(FrameType) /\ Len(stack) = 1 /\ stack[1] = f /\ stack # << >>
      /\ 1 .. Len(stack) - 1 = {} /\ \A i \in 1 .. Len(stack) : i = 1
  BY <1>1, <1>2
<1>4. Newest(stack, 0, 0) /\ Newest(stack, 0, 1)
  BY <1>2, <1>3 DEF Newest
<1>5. StackOK(stack, callback)
  BY <1>1, <1>2, <1>3, <1>4 DEF StackOK
<1>6. FlightOK(stack, callback, uncaught, unwinding, dead)
  <2>1. uncaught \in Seq(Faults) /\ Len(uncaught) = 0 /\ 2 .. Len(uncaught) = {}
    BY <1>1
  <2>2. Len(uncaught) = stack[Len(stack)].count + Extra(unwinding)
    BY <2>1, <1>1, <1>2, <1>3 DEF Extra
  <2> QED  BY <2>1, <2>2, <1>1, <1>5 DEF FlightOK
<1>7. Heard
  BY <1>1 DEF Heard, EX!ToSet
<1> QED  BY <1>1, <1>6, <1>7 DEF ExceptionsInv

LEMMA ExceptionsNextInv == ExceptionsInv /\ [EX!Next]_exceptions => ExceptionsInv'
<1> SUFFICES ASSUME ExceptionsInv, [EX!Next]_exceptions  PROVE ExceptionsInv'
  OBVIOUS
<1>1. CASE UNCHANGED exceptions
  BY <1>1, Zenon DEF exceptions, ExceptionsInv, FlightOK, StackOK, Newest, EX!IsCallback, Heard,
                     EX!ToSet
<1>2. ASSUME NEW kind \in EX!Kinds, EX!Enter(kind)  PROVE ExceptionsInv'
  BY <1>2, FrameEntered
<1>3. ASSUME NEW kind \in {"fatal", "recoverable"}, EX!Raise(kind)  PROVE ExceptionsInv'
  BY <1>3, FaultRaised DEF Faults
<1> QED
  BY <1>1, <1>2, <1>3, ScopeLeft, CallbackUnwound, FaultCaught, ScopeUnwound, DestructorLeft
     DEF EX!Next

LEMMA ExceptionsInvEnough ==
  ExceptionsInv => EX!CallbacksFollowTheStack /\ EX!DestructorsSurvive
<1> SUFFICES ASSUME ExceptionsInv
             PROVE  EX!CallbacksFollowTheStack /\ EX!DestructorsSurvive
  OBVIOUS
<1>1. FlightOK(stack, callback, uncaught, unwinding, dead) /\ ~misjudged /\ Heard
  BY DEF ExceptionsInv
<1>2. StackOK(stack, callback) /\ dead # "recoverable"
  BY <1>1 DEF FlightOK
<1>3. EX!DestructorsSurvive
  BY <1>1, <1>2 DEF EX!DestructorsSurvive
<1>4. Len(stack) \in Nat /\ DOMAIN stack = 1 .. Len(stack)
  BY <1>2, StackFacts, LenProperties DEF StackOK
<1>5. /\ callback # 0 => callback \in 1 .. Len(stack) /\ EX!IsCallback(stack[callback])
      /\ \A i \in 1 .. Len(stack) : EX!IsCallback(stack[i]) => i <= callback
  BY <1>2, <1>4 DEF StackOK, Newest
<1>6. \A i \in 1 .. Len(stack) :
        stack[i].next < i /\ \A j \in 1 .. Len(stack) :
                                EX!IsCallback(stack[j]) /\ j < i => j <= stack[i].next
  <2> TAKE i \in 1 .. Len(stack)
  <2>1. Newest(stack, stack[i].next, i - 1)
    BY <1>2 DEF StackOK
  <2>2. /\ stack[i].next \in 0 .. i - 1
        /\ \A j \in 1 .. i - 1 : EX!IsCallback(stack[j]) => j <= stack[i].next
    BY <2>1 DEF Newest
  <2>3. \A j \in 1 .. Len(stack) : j < i => j \in 1 .. i - 1
    BY <1>4
  <2>4. stack[i].next < i
    BY <2>2
  <2> QED  BY <2>2, <2>3, <2>4
<1>7. EX!CallbacksFollowTheStack
  BY <1>1, <1>4, <1>5, <1>6 DEF EX!CallbacksFollowTheStack, Heard
<1> QED  BY <1>3, <1>7

-----------------------------------------------------------------------------
(* Whatever the file, the buffers, the requests, the arrays and the depth  *)
(* of the stack.                                                           *)

BesideInv ==
    /\ part = "exceptions" => ExceptionsInv
    /\ part = "buffers" => CopyInv
    /\ part = "plain streams" => PlainInv

LEMMA BesideInvariant == EffectsSpec => []BesideInv
<1> USE DEF BesideInv
<1>1. EffectsInit => BesideInv
  BY ExceptionsInitInv, CopyInitInv, PlainInitInv DEF EffectsInit
<1>2. BesideInv /\ [EffectsNext]_<< memory, exceptions, buffered, plain >> => BesideInv'
  <2> SUFFICES ASSUME BesideInv, [EffectsNext]_<< memory, exceptions, buffered, plain >>
               PROVE  BesideInv'
    OBVIOUS
  <2>1. part' = part
    BY DEF EffectsNext, MemoryNext, memory
  <2>2. part = "buffers" => [SC!Next]_SC!vars
    BY DEF EffectsNext, buffered, SC!vars, SC!input, SC!output
  <2>3. part = "plain streams" => [PS!Next]_PS!plain
    BY DEF EffectsNext, plain, PS!plain
  <2>4. part = "exceptions" => [EX!Next]_exceptions
    BY DEF EffectsNext, exceptions
  <2> QED  BY <2>1, <2>2, <2>3, <2>4, ExceptionsNextInv, CopyNextInv, PlainNextInv
<1> QED  BY <1>1, <1>2, PTL DEF EffectsSpec

\* io.cpp:77-184: what a copy writes is the file, each byte once and in order, up to where
\* it ends or fails, whatever the buffers are and however the requests are cut; and
\* the streams over arrays and vectors pass on a piece of their source.
THEOREM AlwaysCopiedInOrder == EffectsSpec => []CopiedInOrder
<1>1. BesideInv => CopiedInOrder
  BY CopyInvEnough, PlainInvEnough DEF BesideInv, CopiedInOrder
<1> QED  BY <1>1, BesideInvariant, PTL

\* exception.h:109-112, 209-217: the current callback is the newest on the stack however
\* scopes end, an exception gets the context of each frame it should, outermost first,
\* and neither does a destructor misjudge why it is called nor a recoverable exception
\* end the program, however deep destructors, exceptions and callbacks are nested.
THEOREM AlwaysTold == EffectsSpec => []ExceptionsAreTold
<1>1. BesideInv => ExceptionsAreTold
  BY ExceptionsInvEnough DEF BesideInv, ExceptionsAreTold
<1> QED  BY <1>1, BesideInvariant, PTL
=============================================================================
