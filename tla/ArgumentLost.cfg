SPECIFICATION CommandSpec
CONSTANTS
    Width = 3
    Verbose <- MCVerbose
    Version <- MCVersion
    HelpName <- MCHelpName
    Candidates <- MCCandidates
    Specs <- MCSpecs
    Texts <- MCTexts
    ArgKeepsCallback = FALSE
    Many = 100
    MaxText = 1
    MaxCalls = 2
    MaxArguments = 4
INVARIANTS
    ArgumentsHandled
CHECK_DEADLOCK FALSE
