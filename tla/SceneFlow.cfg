\* One turn after another; scripts save and load in every scene of a game and
\* do the commands of the train scene, also under pcall.
SPECIFICATION Spec
CONSTANTS
  NoScene = NoScene
  Jumps <- GameJumps
  Commands = {0, 1}
  Unnamed = {1}
  Slots = {0}
  CanAutoSave = TRUE
  FlowCalls <- GameFlows
  Pcall = TRUE
  MaxScripts <- GameDepths
\* the game may quit or fail
CHECK_DEADLOCK FALSE
INVARIANTS NewGameIsClear FlowGoesOn TrainsInCycleOnly
PROPERTIES FollowsTheGraph SavesAreWhole LoadIsNotAutosaved
