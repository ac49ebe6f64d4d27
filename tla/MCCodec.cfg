SPECIFICATION CodecSpec
CONSTANTS
  Message <- ClientMessages
  MaxPacked = 2
  MaxFrames = 2
  ReadLimit = 10240
  Client = TRUE
  PeerText <- Bob
INVARIANTS FramesStandAlone NothingMadeUp RowsNamePeers
CHECK_DEADLOCK FALSE
