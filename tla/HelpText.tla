------------------------------ MODULE HelpText ------------------------------
(***************************************************************************)
(* The text behind --help (main.cpp: printHelp, OptionDisplayOrder,        *)
(* wrapText), as functions of what was registered with the builder.        *)
(*                                                                         *)
(* A name or a word is a sequence of numbers that compare as its           *)
(* characters do.  A paragraph is a sequence of "x" (any character that is *)
(* shown), blank and line end.  An option is a record of its names, in the *)
(* order in which they were given, and of whether it takes an argument.    *)
(***************************************************************************)
EXTENDS Naturals, SequencesExt

CONSTANT
    Width            \* 80 less the indentation

\* StringPtr::operator< and CharArrayCompare: memcmp, the shorter first.
TextLess(a, b) ==
    \/ IsStrictPrefix(a, b)
    \/ \E k \in DOMAIN a \cap DOMAIN b :
          a[k] < b[k] /\ \A j \in 1 .. k - 1 : a[j] = b[j]

OfKind(option, long) == SelectSeq(option.names, LAMBDA n : n.long = long)

\* The first letters that OptionDisplayOrder compares: of the first short name
\* or, without one, of the first long name.
FirstLetter(option) ==
    IF OfKind(option, FALSE) # << >>
    THEN OfKind(option, FALSE)[1].text[1]
    ELSE OfKind(option, TRUE)[1].text[1]

FirstLong(option) ==
    IF OfKind(option, TRUE) = << >> THEN << >> ELSE OfKind(option, TRUE)[1].text

\* Mutant of DisplaysBefore: the long names are not compared.
DisplaysByLetter(a, b) == FirstLetter(a) < FirstLetter(b)

\* OptionDisplayOrder::operator()
DisplaysBefore(a, b) ==
    \/ FirstLetter(a) < FirstLetter(b)
    \/ FirstLetter(a) = FirstLetter(b) /\ TextLess(FirstLong(a), FirstLong(b))

\* std::set::insert: an option that is equivalent to a listed one is left out.
Insert(list, option) ==
    IF \E i \in DOMAIN list : ~ DisplaysBefore(list[i], option)
                              /\ ~ DisplaysBefore(option, list[i])
    THEN list
    ELSE SelectSeq(list, LAMBDA o : DisplaysBefore(o, option))
         \o << option >>
         \o SelectSeq(list, LAMBDA o : DisplaysBefore(option, o))

\* The order in which printHelp lists the options.
SortedOptions(options) == FoldLeft(Insert, << >>, options)

\* How printHelp shows one kind of argument in the usage line.
UsageOf(spec) == [bracketed |-> spec.min = 0, dots |-> spec.max > 1]

-----------------------------------------------------------------------------
(* wrapText: positions are those of the code, which counts from 0.         *)

At(text, pos) == IF pos < Len(text) THEN text[pos + 1] ELSE "end"

\* The last blank that follows a character, and else the middle of the word.
WrapPos(text) ==
    LET breaks == {p \in 1 .. Width : At(text, p) = "blank" /\ At(text, p - 1) # "blank"}
    IN  IF breaks = {} THEN Width ELSE Max(breaks)

\* Blanks after the text that was printed, and one line end behind them.
SkipTo(text, pos) ==
    LET behind == Min({q \in pos .. Len(text) : At(text, q) # "blank"})
    IN  IF At(text, behind) = "end of line" THEN behind + 1 ELSE behind

\* The lines of a text: the function is defined for what is left of it.
WrapText(text) ==
    LET lines[rest \in Seq(ToSet(text))] ==
            LET ends == {p \in 0 .. Width : At(rest, p) = "end of line"}
                From(pos) == lines[SubSeq(rest, pos + 1, Len(rest))]
            IN  CASE rest = << >> -> << >>
                  [] rest # << >> /\ ends # {} ->
                        << SubSeq(rest, 1, Min(ends)) >> \o From(Min(ends) + 1)
                  [] ends = {} /\ Len(rest) \in 1 .. Width -> << rest >>
                  [] ends = {} /\ Len(rest) > Width ->
                        << SubSeq(rest, 1, WrapPos(rest)) >>
                        \o From(SkipTo(rest, WrapPos(rest)))
    IN  lines[text]

-----------------------------------------------------------------------------
(* What a reader of the help text expects.                                 *)

\* The lengths of the words of a text, in order.
Words(text) ==
    LET starts == {i \in DOMAIN text : text[i] = "x" /\ (i = 1 \/ text[i - 1] # "x")}
        End(i) == Min({j \in i .. Len(text) + 1 : j > Len(text) \/ text[j] # "x"})
    IN  [k \in 1 .. Cardinality(starts) |->
            LET i == CHOOSE i \in starts : Cardinality({j \in starts : j < i}) = k - 1
            IN  End(i) - i]

LineWords(lines) == FlattenSeq([i \in DOMAIN lines |-> Words(lines[i])])

\* The words that fit into a line and are not behind blanks at the start of
\* one are what wrapText keeps whole.
Wrappable(text) ==
    /\ \A k \in DOMAIN Words(text) : Words(text)[k] <= Width
    /\ \A i \in DOMAIN text :
          text[i] = "blank" => i > 1 /\ text[i - 1] # "end of line"

\* Every line fits; no character is lost or added; and words are kept whole.
WrapsWell(text, lines) ==
    /\ \A i \in DOMAIN lines : Len(lines[i]) <= Width
    /\ FoldLeft(+, 0, LineWords(lines)) = FoldLeft(+, 0, Words(text))
    /\ Wrappable(text) => LineWords(lines) = Words(text)
=============================================================================
