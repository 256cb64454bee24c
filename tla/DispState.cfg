SPECIFICATION Spec
CONSTANTS
  MaxNet = 2
  MaxSend = 4
INVARIANTS WindowFollowsUnlessOdd TimersFollowWindow
