SPECIFICATION LinkSpec
CONSTANTS
  MaxRows = 2
  CmdMod = 6
  SeqMod = 1
  NoCmd = NoCmd
  NoFrame = NoFrame
  DefaultConfig <- MCDefault
  Inputs = {}
  MaxSpiErr = 0
  Configs <- Resizing
  MaxRetries = 5
  MaxCmds = 2
  MaxFaults = 0
  MaxRestarts = 1
PROPERTIES
  AckMeansApplied
