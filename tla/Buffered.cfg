CONSTANTS
  Operation = {"A", "B", "x"}
  N = 4
  K = 2
  L = 1
  Word = 1000
  Clients = {}
  Faulty = {0}
  FaultyMessages <- TwoProposals
  Submissions <- Nothing
  Blocking = {}
  CanCrash = {}
  TimerInit = {FALSE}
  MaxRetries = 0
  MaxTimeouts = 0
  MaxFaulty = 4
SPECIFICATION Spec
INVARIANT PreparesMatch
CHECK_DEADLOCK FALSE
