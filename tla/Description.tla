---------------------------- MODULE Description ----------------------------
(***************************************************************************)
(* makeDescription() (debug.cpp): the text of a log message, a failed      *)
(* assertion or a failed system call.  The macros of debug.h give it the   *)
(* source text of their arguments as one string, which it takes apart to   *)
(* name each value.                                                        *)
(*                                                                         *)
(* A character is a string of length one; a text is a sequence of them.    *)
(***************************************************************************)
EXTENDS Integers, SequencesExt

CONSTANTS
    Plain,           \* arguments, as source text, in which commas, parentheses and
                     \* quotes are only in string literals, commas also in parentheses
    Odd,             \* arguments with them elsewhere: character literals, template
                     \* arguments, braces
    MaxArgs          \* bound: arguments of a macro

VARIABLES
    exprs,           \* the arguments
    gap,             \* the white space before each of them
    style            \* LOG, ASSERTION, SYSCALL

describing == << exprs, gap, style >>

Quote == "\""
Escape == "\\"

\* #__VA_ARGS__
MacroArgs ==
    FoldLeft(LAMBDA text, i : text \o (IF i > 1 THEN << "," >> ELSE << >>) \o gap \o exprs[i],
             << >>, [i \in 1 .. Len(exprs) |-> i])

\* Where a scan over white space ends.
AfterSpace(text, i) ==
    LET stops == {j \in i .. Len(text) : text[j] # " "}
    IN  IF stops = {} THEN Len(text) + 1 ELSE CHOOSE j \in stops : \A k \in stops : j <= k

Start(text) == [pos |-> AfterSpace(text, 1), start |-> AfterSpace(text, 1), depth |-> 0,
                quoted |-> FALSE, names |-> << >>]

\* Mutant of Scanned: a quote that is escaped ends the string.
ScannedNoEscape(text, s, c) ==
    LET next == [s EXCEPT !.pos = @ + 1] IN
    CASE s.quoted /\ c = Quote -> [next EXCEPT !.quoted = FALSE]
      [] ~s.quoted /\ c = "(" -> [next EXCEPT !.depth = @ + 1]
      [] ~s.quoted /\ c = ")" -> [next EXCEPT !.depth = @ - 1]
      [] ~s.quoted /\ c = Quote -> [next EXCEPT !.quoted = TRUE]
      [] ~s.quoted /\ c = "," /\ s.depth = 0 ->
            LET after == AfterSpace(text, s.pos + 1)
            IN  [next EXCEPT !.pos = after, !.start = after,
                             !.names = Append(@, SubSeq(text, s.start, s.pos - 1))]
      [] OTHER -> next

\* One turn of the loop over the text, at character c: a string literal is skipped,
\* parentheses are counted, and a comma outside of both ends a name.
Scanned(text, s, c) ==
    LET next == [s EXCEPT !.pos = @ + 1] IN
    CASE s.quoted /\ c = Escape /\ s.pos < Len(text) -> [s EXCEPT !.pos = @ + 2]
      [] s.quoted /\ c = Quote -> [next EXCEPT !.quoted = FALSE]
      [] ~s.quoted /\ c = "(" -> [next EXCEPT !.depth = @ + 1]
      [] ~s.quoted /\ c = ")" -> [next EXCEPT !.depth = @ - 1]
      [] ~s.quoted /\ c = Quote -> [next EXCEPT !.quoted = TRUE]
      [] ~s.quoted /\ c = "," /\ s.depth = 0 ->
            LET after == AfterSpace(text, s.pos + 1)
            IN  [next EXCEPT !.pos = after, !.start = after,
                             !.names = Append(@, SubSeq(text, s.start, s.pos - 1))]
      [] OTHER -> next

RECURSIVE Scan(_, _)
Scan(text, s) ==
    IF s.pos > Len(text) THEN Append(s.names, SubSeq(text, s.start, Len(text)))
    ELSE Scan(text, Scanned(text, s, text[s.pos]))

Found == IF exprs = << >> THEN << >> ELSE Scan(MacroArgs, Start(MacroArgs))

\* Names past the last value are dropped, and missing ones are empty.
ArgNames == [i \in DOMAIN exprs |-> IF i <= Len(Found) THEN Found[i] ELSE << >>]

\* "Failed to parse logging macro args", which is logged.
Complains == Len(Found) # Len(exprs)

\* A name is given unless it is a string literal.
IsNamed(name) == name # << >> /\ name[1] # Quote

\* What the text starts with; code and error text are one character each.
Prefix ==
    CASE style = "LOG" -> << >>
      [] style = "ASSERTION" -> << "expected ", "C" >>
      [] style = "SYSCALL" -> << "C", ": ", "E" >>

Delimiter(i) == IF i > 1 \/ style # "LOG" THEN << "; " >> ELSE << >>

\* The first pass over the arguments, for the space that is allocated.  A constant
\* text counts as one character here, a value as the character "V".
TotalSize(names) ==
    FoldLeft(LAMBDA size, i : size + Len(Delimiter(i)) + 1
                              + IF IsNamed(names[i]) THEN Len(names[i]) + 1 ELSE 0,
             Len(Prefix), [i \in 1 .. Len(exprs) |-> i])

\* The second pass, which fills the space.
Filled(names) ==
    Prefix \o FlattenSeq([i \in 1 .. Len(exprs) |->
                  Delimiter(i) \o (IF IsNamed(names[i]) THEN names[i] \o << " = " >> ELSE << >>)
                               \o << "V" >>])

-----------------------------------------------------------------------------
Init == exprs = << >> /\ gap \in {<< >>, << " " >>} /\ style \in {"LOG", "ASSERTION", "SYSCALL"}

Next ==
    /\ Len(exprs) < MaxArgs
    /\ \E e \in Plain \cup Odd : exprs' = Append(exprs, e)
    /\ UNCHANGED << gap, style >>

Spec == Init /\ [][Next]_describing

\* debug.cpp:61-102, 141-184: a value is described by the source text of its own argument
\* as long as no argument up to it has a comma, a parenthesis or a quote where the scan does
\* not expect it (of those it may take the wrong text), and if there is none the scan does
\* not complain; and what is written has in any case the size that was allocated for it.
NamesTheArguments ==
    /\ \A i \in DOMAIN exprs :
           (\A j \in 1 .. i : exprs[j] \in Plain) => ArgNames[i] = exprs[i]
    /\ (\A i \in DOMAIN exprs : exprs[i] \in Plain) => ~Complains
    /\ Len(Filled(ArgNames)) = TotalSize(ArgNames)
=============================================================================
