---------------------------- MODULE MCSequential ----------------------------
(***************************************************************************)
(* Model checking of what is used within one thread: beside what owns      *)
(* memory, exceptions and streams (the module extended here), a program    *)
(* with string trees, one that describes what it throws, and one that      *)
(* reads its command line and exits.                                       *)
(***************************************************************************)
EXTENDS MCEffects, MCCommandLine

\* copyString of one and three characters, allocateOwn, allocate and allocateArray.
MCAllocations ==
    {[size |-> 1, align |-> 1, managed |-> FALSE, elements |-> 0],
     [size |-> 3, align |-> 1, managed |-> FALSE, elements |-> 0],
     [size |-> 4, align |-> 4, managed |-> FALSE, elements |-> 0],
     [size |-> 4, align |-> 4, managed |-> TRUE, elements |-> 0],
     [size |-> 1, align |-> 1, managed |-> TRUE, elements |-> 2]}

\* One that is too small for the header of a chunk, and one that begins beside an
\* alignment.
MCScratches == {[size |-> 5, residue |-> 0], [size |-> 18, residue |-> 2]}

VARIABLES
    forest, steps,
    exprs, gap, style

ST == INSTANCE StringTree WITH
    Texts <- {<< >>, << "a" >>, << "b", "c" >>},
    Delims <- {<< >>, << "," >>, << ",", "_" >>},
    Radixes <- {<< "." >>, << "," >>, << "x", "y" >>},
    MaxTrees <- 3, MaxSteps <- 4

\* An identifier, a call with two arguments, a string literal with a comma, one with an
\* escaped quote and a parenthesis, and a call with a parenthesis in a string; and '(', ')',
\* ',', '"', m<i, i>(a) and F{1,2}.
DE == INSTANCE Description WITH
    Plain <- {<< "a" >>,
              << "f", "(", "a", ",", " ", "b", ")" >>,
              << "\"", ",", "\"" >>,
              << "\"", "\\", "\"", ",", "(", "\"" >>,
              << "f", "(", "\"", ")", "\"", ")" >>},
    Odd <- {<< "'", "(", "'" >>, << "'", ")", "'" >>, << "'", ",", "'" >>, << "'", "\"", "'" >>,
            << "m", "<", "i", ",", " ", "i", ">", "(", "a", ")" >>,
            << "F", "{", "1", ",", "2", "}" >>},
    MaxArgs <- 3

texts == << forest, steps >>
describing == << exprs, gap, style >>

SequentialInit ==
    /\ part \in {"own", "arena", "arrays", "holders", "exceptions", "buffers", "plain streams",
                "text", "description", "command line"}
    /\ EffectsInit /\ ST!Init /\ DE!Init /\ CommandInit
    /\ (part # "command line" => ~clean)
    /\ (part # "description" => gap = << >> /\ style = "LOG")

SequentialNext ==
    /\ EffectsNext
    /\ IF part = "text" THEN ST!Next ELSE UNCHANGED texts
    /\ IF part = "description" THEN DE!Next ELSE UNCHANGED describing
    /\ IF part = "command line" THEN CommandNext ELSE UNCHANGED commandVars

SequentialSpec ==
    /\ SequentialInit
    /\ [][SequentialNext]_<< memory, exceptions, buffered, plain, texts, describing, commandVars >>

-----------------------------------------------------------------------------
\* string-tree.h:32-35: see SaysThePieces in StringTree.
TreeSaysThePieces == part = "text" => ST!SaysThePieces

\* debug.cpp:61-102: see NamesTheArguments in Description.
NamesTheArguments == part = "description" => DE!NamesTheArguments
=============================================================================
