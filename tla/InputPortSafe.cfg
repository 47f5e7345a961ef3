SPECIFICATION PortSpec
CHECK_DEADLOCK FALSE
CONSTANTS
    UserTexts <- MCTexts
    Numbers <- MCNumbers
    MacroTokens <- MCMacroTokens
    UserEvents <- MCSafeEvents
    MaxCalls = 2
    MaxEvents = 2
INVARIANTS NoOrphanMacro
PROPERTIES RequestService MacroRunsToItsEnd
