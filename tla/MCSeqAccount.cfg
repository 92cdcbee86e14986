SPECIFICATION AccountSpec
CONSTANTS
  MaxRows = 1
  CmdMod = 1
  SeqMod = 6
  NoCmd = NoCmd
  NoFrame = NoFrame
  DefaultConfig <- MCDefault
  Inputs = {}
  MaxSpiErr = 1
  MaxBlocks = 10
  MaxBehind = 2
  MaxFaults = 2
INVARIANTS
  AccountTypeOK
  DropsExact
  NoFalseReset
PROPERTIES
  PublishedInOrder
CHECK_DEADLOCK FALSE
