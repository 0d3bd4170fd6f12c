SPECIFICATION CommandSpec
CONSTANTS
    Width = 3
    Verbose <- MCVerbose
    Version <- MCVersion
    HelpName <- MCHelpName
    Candidates <- MCCandidates
    Specs <- MCSpecs
    Texts <- MCTexts
    ArgKeepsCallback = TRUE
    Many = 100
    MaxText = 1
    MaxCalls = 2
    MaxArguments = 4
INVARIANTS
    HelpSucceeds
CHECK_DEADLOCK FALSE
