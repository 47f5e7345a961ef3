CONSTANTS
    Files = {f1}
    System = {f1}
    MaxTasks = 1
    MaxChanges = 1
    MaxCalls = 1
INIT ReloadInit
NEXT ReloadNext
INVARIANTS ValueIsRan
CHECK_DEADLOCK FALSE
