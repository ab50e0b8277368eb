CONSTANTS
  Operation = {"A", "B", "x"}
  N = 4
  K = 2
  L = 4
  Word = 1000
  Clients = {}
  Faulty = {0}
  FaultyMessages = {}
  Submissions <- ATo1
  Blocking <- JustA
  CanCrash = {}
  TimerInit = {FALSE}
  MaxRetries = 2
  MaxTimeouts = 8
  MaxFaulty = 0
SPECIFICATION Spec
INVARIANT NeverStuck
CHECK_DEADLOCK FALSE
