SPECIFICATION Spec
CONSTANTS
  Depth = 2
  head = head
  rows = rows
  Fields = {head, rows}
  Tries = 2
  PosMod = 6
  MaxBlocks = 3
  MaxRestarts = 0
INVARIANTS
  ReturnsBlockAsked
