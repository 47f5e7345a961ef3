SPECIFICATION Spec
CONSTANTS
  Dbs <- MCDbs
  Rows <- MCRows
  Slots = {1}
  Cuts <- MCCuts
  Values = {1}
  MaxUid = 3
  MaxOps = 4
INVARIANTS DataAgree
PROPERTIES LoadForgets HandlesFollow
