CONSTANTS
  Operation = {"A", "B", "x"}
  N = 7
  K = 2
  L = 4
  Word = 1000
  Clients = {}
  Faulty = {0}
  FaultyMessages = {}
  Submissions <- Of7To1
  Blocking <- JustOf7
  CanCrash = {1}
  TimerInit = {FALSE}
  MaxRetries = 2
  MaxTimeouts = 11
  MaxFaulty = 0
SPECIFICATION PromptSpec
INVARIANT OneRequestPerDigest
CHECK_DEADLOCK FALSE
