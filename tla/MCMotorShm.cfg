SPECIFICATION FairSpec
CONSTANTS
  Depth = 2
  head = head
  rows = rows
  Fields = {head, rows}
  Tries = 2
  PosMod = 6
  MaxBlocks = 3
  MaxRestarts = 1
INVARIANTS
  ShmTypeOK
  NeverTorn
  NeverOlder
PROPERTIES
  DropsAreLost
  NeverHangs
  CatchesUp
