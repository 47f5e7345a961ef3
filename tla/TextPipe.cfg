\* Lines printed, cleared, synchronised and asked over, with ticks anywhere.
SPECIFICATION Spec
CONSTANTS
  Blank = Blank
  Texts = {a, b}
  Clears = {1, 2, 3}
  MaxLines = 4
  MaxPending = 4
INVARIANTS ListingIsWhole AskingReaches
