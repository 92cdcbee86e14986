SPECIFICATION FairReloadSpec
CONSTANTS
  MaxRows = 300
  CmdMod = 4
  SeqMod = 1
  NoCmd = NoCmd
  NoFrame = NoFrame
  NoFile = NoFile
  Configs = {}
  MaxRetries = 1
  Docs <- MCDocs
  MAX_SPI_BUSES = 1
  MAX_SPI_BUS_DEVICES = 2
  ConfFiles <- MCConfFiles
  FrameRows <- MCFrameRows
  OpenTries = 2
  MaxEdits = 1
  MaxFaults = 1
  MaxRestarts = 1
INVARIANTS
  ReloadTypeOK
  HardwareFollowsConfig
PROPERTIES
  EditPickedUp
  LastFileCommanded
CHECK_DEADLOCK FALSE
