SPECIFICATION FairSpec
CONSTANTS
  BlockSize = 4
  Keys <- MCKeys
  Senders <- MCSenders
  Starts <- MCStarts
INVARIANTS
  TypeOK
  SafeToSend
  ViewReleased
  NoneDiscarded
  OneOutputEach
  OutputsReplayState
PROPERTIES
  ImplementsSerialBlock
  Termination
