SPECIFICATION FairSpec
CONSTANTS
  HeartMax = 2
  RecvMax = 9
  ReportLen = 5
  Report <- MCReport
  MaxConn = 1
  MaxSend = 2
PROPERTY FinishedStays
CHECK_DEADLOCK FALSE
