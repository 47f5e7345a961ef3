SPECIFICATION FairSpec
CHECK_DEADLOCK FALSE
CONSTANTS
    UserTexts <- MCTexts
    Numbers <- MCNumbers
    MacroTokens <- MCMacroTokens
    UserEvents <- MCQuitEvents
    MaxCalls = 2
    MaxEvents = 2
INVARIANTS NoLostWakeup
PROPERTIES QuitReleases TimedCallReturns CommandAnswers
