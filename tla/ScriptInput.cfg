SPECIFICATION InputSpec
CHECK_DEADLOCK FALSE
CONSTANTS
    MaxDepth = 2
    MaxListeners = 2
    FlowCalls = TRUE
    MayCancel = TRUE
    Empty = empty
    Commands = {empty, n1, n2}
    Numbers = {n1, n2}
INVARIANTS DogSafe CauseIsOwn InputAsAsked
PROPERTIES  ScriptsEnd
