SPECIFICATION FairLinkSpec
CONSTANTS
  MaxRows = 2
  CmdMod = 4
  SeqMod = 1
  NoCmd = NoCmd
  NoFrame = NoFrame
  DefaultConfig <- MCDefault
  Inputs = {}
  MaxSpiErr = 1
  Configs <- SameSize
  MaxRetries = 2
  MaxCmds = 1
  MaxFaults = 1
  MaxRestarts = 1
PROPERTIES
  CommandSettles
  FramesKeepFlowing
