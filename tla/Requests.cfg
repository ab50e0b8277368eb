CONSTANTS
  Operation = {"A", "B", "x"}
  N = 4
  K = 1
  L = 1
  Word = 1000
  Clients = {4}
  Faulty = {3}
  FaultyMessages = {}
  Submissions <- ABTo1
  Blocking <- JustA
  CanCrash = {0}
  TimerInit = {FALSE}
  MaxRetries = 1
  MaxTimeouts = 0
  MaxFaulty = 0
SPECIFICATION Spec
INVARIANTS TypeOK LogInWindow ReplyIsExecution PendingHasTimer AllAnswered
CHECK_DEADLOCK FALSE
