--------------------------- MODULE MCCommandLine ---------------------------
(***************************************************************************)
(* A small program for CommandLine: options whose names clash with each    *)
(* other, with --verbose and with --help, or share a first letter with     *)
(* them; every kind of argument; and all short descriptions.               *)
(***************************************************************************)
EXTENDS CommandLine

CONSTANTS MaxText, Many

Short(c) == [long |-> FALSE, text |-> << c >>]
Long(c, d) == [long |-> TRUE, text |-> << c, d >>]

MCVerbose == Long(22, 5)
MCVersion == Long(22, 6)
MCHelpName == Long(8, 5)

Option(names, arg) == [names |-> names, arg |-> arg]

MCCandidates ==
    {Option(<< Short(22) >>, FALSE),
     Option(<< Long(1, 12), Short(1) >>, FALSE),
     Option(<< Short(15), Long(1, 12) >>, TRUE),
     Option(<< Long(22, 1) >>, TRUE),
     Option(<< Short(1), Short(1) >>, FALSE),
     Option(<< MCVerbose >>, FALSE),
     Option(<< MCHelpName >>, FALSE)}

MCSpecs == {[min |-> n, max |-> m] : n \in {0, 1}, m \in {1, Many}}

MCTexts == UNION {[1 .. n -> {"x", "blank", "end of line"}] : n \in 0 .. MaxText}
=============================================================================
