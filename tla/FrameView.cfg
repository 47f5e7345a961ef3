CONSTANTS
    Characters = {"a", "w", "s", "n"}
    Texts <- MCTexts
    Labels <- MCLabels
    Sizes <- MCSizes
    Scrolls <- MCScrolls
    Colors = {"red", "blue"}
    Alignments = {"left", "right"}
    MaxParagraphs = 2
    Newline = "n"
    Wide = {"w"}
    DefaultWidth = 8
    CompactLen = 4
    MaxWrites = 3
    MaxUses = 3
    MaxCalls = 6
SPECIFICATION ViewSpec
CHECK_DEADLOCK FALSE
INVARIANTS WellFormed
PROPERTIES IsDocument DrawShowsTail
