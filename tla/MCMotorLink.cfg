SPECIFICATION LinkSpec
CONSTANTS
  MaxRows = 2
  CmdMod = 6
  SeqMod = 1
  NoCmd = NoCmd
  NoFrame = NoFrame
  DefaultConfig <- MCDefault
  Inputs = {}
  MaxSpiErr = 1
  Configs <- Stopping
  MaxRetries = 5
  MaxCmds = 2
  MaxFaults = 1
  MaxRestarts = 0
INVARIANTS
  LinkTypeOK
  AgreedWhenIdle
  AnnouncedOnce
PROPERTIES
  AckMeansApplied
