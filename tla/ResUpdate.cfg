SPECIFICATION FairSpec
CONSTANTS
  HeartMax = 1
  RecvMax = 9
  ReportLen = 5
  Report <- MCReport
  MaxConn = 2
  MaxSend = 2
INVARIANT LastReportCounts
PROPERTY UpdateEnds
CHECK_DEADLOCK FALSE
