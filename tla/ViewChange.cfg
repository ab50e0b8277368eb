CONSTANTS
  Operation = {"A", "B", "x"}
  N = 4
  K = 1
  L = 2
  Word = 1000
  Clients = {}
  Faulty = {0}
  FaultyMessages <- OneProposal
  Submissions <- ABTo1
  Blocking = {}
  CanCrash = {}
  TimerInit = {FALSE}
  MaxRetries = 0
  MaxTimeouts = 8
  MaxFaulty = 2
SPECIFICATION Spec
INVARIANTS IndInv OneViewChange PendingHasTimer AllArmed AllEarly AllMatched
CHECK_DEADLOCK FALSE
