SPECIFICATION DesktopSpec
CONSTANTS
    Names <- MCNames
    Layouts <- MCLayouts
    MaxLines = 1
    MaxGames = 2
    MaxEvents = 4
    MaxCalls = 3
CHECK_DEADLOCK FALSE
INVARIANTS ScreenHolds OneGame
PROPERTIES TextKept CurrentIsRestored EndsAreAnswered
