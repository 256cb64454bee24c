SPECIFICATION FairSpec
CONSTANTS
  HeadLen = 2
  MaxData = 2
  BufLen = 5
  Flag = 9
  Data <- MCData
  MaxSend = 3
  MaxConn = 2
INVARIANT NothingLost
PROPERTY SentIsDelivered
CHECK_DEADLOCK FALSE
