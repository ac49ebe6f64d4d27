SPECIFICATION CodecSpec
CONSTANTS
  Message <- BroadcastSource
  MaxPacked = 1
  MaxFrames = 3
  ReadLimit = 10240
  Client = FALSE
  PeerText <- Host
INVARIANT RowsNamePeers
CHECK_DEADLOCK FALSE
