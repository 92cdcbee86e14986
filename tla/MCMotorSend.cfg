SPECIFICATION Spec
CONSTANTS
  MaxRows = 2
  CmdMod = 3
  SeqMod = 3
  NoCmd = NoCmd
  NoFrame = NoFrame
  DefaultConfig <- MCDefault
  Inputs <- MCInputs
  MaxSpiErr = 2
INVARIANTS
  TypeOK
  Handshake
  RowsMatchDma
  StoppedMeansSilent
  FramesAccounted
PROPERTIES
  InFlightFrameStable
  ArmsNewestFrame
  ChannelSpec
