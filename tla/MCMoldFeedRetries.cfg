SPECIFICATION MCSpec
CONSTANTS
  Sessions = {home, other}
  NoSession = NoSession
  Home = home
  NoDatagram = NoDatagram
  END_OF_SESSION = 65535
  MaxSeq = 3
  MaxBatch = 2
  MaxTruncated = 1
  MaxForeign = 1
  MaxAttempts = 2
  MaxPerRequest = 2
  MaxRecoveries = 3
  MsgSizes = {3, 9}
  MaxMessages = 4
  HeaderSize = 2
  MaxDatagram = 14
  EndCount = 4
  DropEvery = 3
  DropBurst = 1
  MaxRequests = 1
INVARIANT RetriesInARow
CHECK_DEADLOCK FALSE
