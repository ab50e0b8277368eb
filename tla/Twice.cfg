CONSTANTS
  Operation = {"A", "B", "x"}
  N = 4
  K = 1
  L = 1
  Word = 1000
  Clients = {}
  Faulty = {3}
  FaultyMessages = {}
  Submissions <- ATwice
  Blocking = {}
  CanCrash = {}
  TimerInit = {FALSE}
  MaxRetries = 0
  MaxTimeouts = 0
  MaxFaulty = 0
SPECIFICATION Spec
INVARIANT ExactlyOnce
CHECK_DEADLOCK FALSE
