SPECIFICATION Spec
CONSTANTS
  MaxRows = 2
  CmdMod = 3
  SeqMod = 2
  NoCmd = NoCmd
  NoFrame = NoFrame
  DefaultConfig <- MCDefault
  Inputs <- MCBoth
  MaxSpiErr = 0
INVARIANTS
  ProgrammedIsActive
