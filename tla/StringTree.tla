----------------------------- MODULE StringTree -----------------------------
(***************************************************************************)
(* Text that is put together from pieces: the StringTree of strTree() and  *)
(* of StringTree(pieces, delim), which inserts whole trees at positions of *)
(* its own text instead of copying them (string-tree.h, string-tree.cpp),  *)
(* strArray() and str() (string.h), and the text of a floating point       *)
(* number after the C library has printed it in some locale (string.cpp).  *)
(*                                                                         *)
(* A character is a string of length one; a text is a sequence of them.    *)
(***************************************************************************)
EXTENDS Integers, SequencesExt

CONSTANTS
    Texts,          \* texts of the program
    Delims,         \* delimiters
    Radixes,        \* the decimal separators of the locales, one or more bytes
    MaxTrees,       \* bound: trees at a time
    MaxSteps        \* bound: trees made

VARIABLES
    forest,         \* the trees of the program, as [tree, says]; "says" is the
                    \* history of what was put together
    steps           \* trees made

texts == << forest, steps >>

-----------------------------------------------------------------------------
(* Flat text.                                                              *)

\* strArray(): what kj::str() makes of an array.
StrArray(pieces, delim) ==
    FoldLeft(LAMBDA text, i : text \o (IF i > 1 THEN delim ELSE << >>) \o pieces[i],
             << >>, [i \in 1 .. Len(pieces) |-> i])

IsValidFloatChar(c) == c \in {"1", "2", "e", "E", "+", "-"}

\* The number of float characters from position i, or of others: where a scan stops.
Run(text, i, valid) ==
    LET stops == {j \in i .. Len(text) : IsValidFloatChar(text[j]) # valid}
    IN  IF stops = {} THEN Len(text) + 1
        ELSE CHOOSE j \in stops : \A k \in stops : j <= k

DelocalizeRadix(text) ==
    LET at == Run(text, 1, TRUE)
        after == Run(text, at + 1, FALSE)
    IN  IF Contains(text, ".") \/ at > Len(text) THEN text
        ELSE SubSeq(text, 1, at - 1) \o << "." >> \o SubSeq(text, after, Len(text))

RemovePlus(text) == SelectSeq(text, LAMBDA c : c # "+")

\* "%.*g" of a number like 1.2e+21.
Printed(radix, sign) == << "1" >> \o radix \o << "2", "e", sign, "2", "1" >>

\* DoubleToBuffer(), FloatToBuffer()
FloatText(radix, sign) == RemovePlus(DelocalizeRadix(Printed(radix, sign)))

-----------------------------------------------------------------------------
(* Trees.                                                                  *)

Leaf(text) == [size |-> Len(text), text |-> text, branches |-> << >>]

\* visit() with the function of flattenTo(): the own text up to a branch, the branch,
\* and in the end the rest.
RECURSIVE Flatten(_)
Flatten(tree) ==
    LET visited == FoldLeft(
            LAMBDA v, b : [out |-> v.out \o SubSeq(tree.text, v.pos + 1, b.index)
                                         \o Flatten(b.content),
                           pos |-> IF b.index > v.pos THEN b.index ELSE v.pos],
            [out |-> << >>, pos |-> 0], tree.branches)
    IN  visited.out \o SubSeq(tree.text, visited.pos + 1, Len(tree.text))

\* concat(): parameters that are trees to move become branches, all others are
\* copied into the text.
Concat(params) ==
    FoldLeft(LAMBDA t, p :
                 IF p.moved
                 THEN [size |-> t.size + p.tree.size, text |-> t.text,
                       branches |-> Append(t.branches, [index |-> Len(t.text),
                                                        content |-> p.tree])]
                 ELSE [t EXCEPT !.size = @ + p.tree.size,
                                !.text = @ \o Flatten(p.tree)],
             Leaf(<< >>), params)

SumOfSizes(trees) == FoldLeft(LAMBDA n, t : n + t.size, 0, trees)

\* Mutant of Delimited: branch i is inserted before its delimiter.
DelimitedEarly(trees, delim) ==
    LET text == IF trees = << >> THEN << >> ELSE StrArray([i \in 1 .. Len(trees) |-> << >>], delim)
    IN  [size |-> Len(text) + SumOfSizes(trees), text |-> text,
         branches |-> [i \in 1 .. Len(trees) |->
                          [index |-> IF i = 1 THEN 0 ELSE (i - 2) * Len(delim),
                           content |-> trees[i]]]]

\* StringTree(Array<StringTree>&& pieces, StringPtr delim): the text is the delimiters
\* one after another, and branch i comes after i of them.
Delimited(trees, delim) ==
    LET text == FlattenSeq([i \in 1 .. Len(trees) - 1 |-> delim])
    IN  [size |-> Len(text) + SumOfSizes(trees), text |-> text,
         branches |-> [i \in 1 .. Len(trees) |-> [index |-> (i - 1) * Len(delim),
                                                  content |-> trees[i]]]]

-----------------------------------------------------------------------------
Made(rest, tree, says) ==
    /\ steps < MaxSteps
    /\ forest' = Append(rest, [tree |-> tree, says |-> says])
    /\ steps' = steps + 1

New ==
    /\ Len(forest) < MaxTrees
    /\ \/ \E text \in Texts : Made(forest, Leaf(text), text)
       \/ \E radix \in Radixes, sign \in {"+", "-"} :
             Made(forest, Leaf(FloatText(radix, sign)),
                  << "1", ".", "2", "e" >> \o (IF sign = "-" THEN << "-" >> ELSE << >>)
                     \o << "2", "1" >>)

\* strTree(text, tree, text, tree), each of the trees moved or not; one that was
\* moved is not used again.
Cat(i, j, movedI, movedJ) ==
    LET param(t, m) == [tree |-> t, moved |-> m]
        rest == SelectSeq([k \in DOMAIN forest |->
                              IF (k = i /\ movedI) \/ (k = j /\ movedJ) THEN << >>
                              ELSE << forest[k] >>], LAMBDA s : s # << >>)
    IN  /\ i # j
        /\ \E s, t \in Texts :
              Made(FlattenSeq(rest),
                   Concat(<< param(Leaf(s), FALSE), param(forest[i].tree, movedI),
                             param(Leaf(t), FALSE), param(forest[j].tree, movedJ) >>),
                   s \o forest[i].says \o t \o forest[j].says)

Join ==
    \E n \in 0 .. Len(forest), delim \in Delims :
       LET pieces == SubSeq(forest, 1, n)
       IN  Made(SubSeq(forest, n + 1, Len(forest)),
                Delimited([i \in 1 .. n |-> pieces[i].tree], delim),
                StrArray([i \in 1 .. n |-> pieces[i].says], delim))

Init == forest = << >> /\ steps = 0

Next ==
    \/ New \/ Join
    \/ \E i, j \in DOMAIN forest, movedI, movedJ \in BOOLEAN : Cat(i, j, movedI, movedJ)

Spec == Init /\ [][Next]_texts

-----------------------------------------------------------------------------
\* string-tree.h:32-35, 118-122: a tree, however it was put together from texts, other
\* trees and delimiters, says what str() and strArray() would have made of the same
\* pieces; flatten() writes exactly the size() characters it has allocated; and
\* string.cpp:177-214, a number is written with a point and no plus in every locale.
SaysThePieces ==
    \A i \in DOMAIN forest :
       LET text == Flatten(forest[i].tree)
       IN  text = forest[i].says /\ forest[i].tree.size = Len(text)
=============================================================================
