SPECIFICATION FairRecSpec
CONSTANTS
  MaxPoll = 2
  MaxAnswer = 2
  MaxFile = 2
  MaxSize = 2
INVARIANTS ListIsOfThisSearch SuccessIsWhole
PROPERTIES EndedByReport DownloadEnds
