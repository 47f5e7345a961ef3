CONSTANTS
    Files = {f1, f2}
    System = {f1}
    MaxTasks = 1
    MaxChanges = 3
    MaxCalls = 1
SPECIFICATION ReloadSpec
CHECK_DEADLOCK FALSE
INVARIANTS ChangeUnderway
PROPERTIES ChangeIsQueued WatcherEnds
