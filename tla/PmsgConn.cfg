SPECIFICATION FairConnSpec
CONSTANTS
  Nvr = {n1, n2}
  MaxFd = 2
  HearMax = 2
  MaxCmd = 2
  MaxFail = 2
INVARIANT NoFdLeak
PROPERTIES AstrayOnlyIfOvertaken StatusFollows
