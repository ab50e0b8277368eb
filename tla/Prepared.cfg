CONSTANTS
  Operation = {"A", "B", "x"}
  N = 4
  K = 2
  L = 4
  Word = 1000
  Clients = {}
  Faulty = {0}
  FaultyMessages <- OneProposal
  Submissions <- ATo1
  Blocking = {}
  CanCrash = {}
  TimerInit = {FALSE}
  MaxRetries = 0
  MaxTimeouts = 3
  MaxFaulty = 3
SPECIFICATION Spec
INVARIANT NewViewKeepsPrepared
CHECK_DEADLOCK FALSE
