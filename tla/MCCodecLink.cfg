SPECIFICATION CodecSpec
CONSTANTS
  Message <- ServerMessages
  MaxPacked = 1
  MaxFrames = 3
  ReadLimit = 10240
  Client = FALSE
  PeerText <- Host
INVARIANT ReadsUpTo1M
CHECK_DEADLOCK FALSE
