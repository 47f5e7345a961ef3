SPECIFICATION Spec
CONSTANTS
  Files = {f1, f2}
  Pictures <- MCPictures
  Units <- MCUnits
  Asks <- MCAsks
  FetchTypes = {"rgba", "png"}
  CacheSize = 2
  MaxBoxes = 2
  MaxChanges = 1
  MaxSets = 1
SYMMETRY FilesAlike
CHECK_DEADLOCK FALSE
INVARIANTS CachesHold ShownAsMeasured ImageIsWhole
