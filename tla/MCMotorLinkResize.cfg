SPECIFICATION FairLinkSpec
CONSTANTS
  MaxRows = 2
  CmdMod = 6
  SeqMod = 1
  NoCmd = NoCmd
  NoFrame = NoFrame
  DefaultConfig <- MCDefault
  Inputs = {}
  MaxSpiErr = 0
  Configs <- Resizing
  MaxRetries = 4
  MaxCmds = 2
  MaxFaults = 0
  MaxRestarts = 0
PROPERTIES
  CommandSettles
