CONSTANTS
  Operation = {"A", "B", "x"}
  N = 4
  K = 1
  L = 1
  Word = 1000
  Clients = {}
  Faulty = {0}
  FaultyMessages <- FaultyPrimary
  Submissions <- Nothing
  Blocking = {}
  CanCrash = {}
  TimerInit = {FALSE}
  MaxRetries = 0
  MaxTimeouts = 0
  MaxFaulty = 4
SPECIFICATION Spec
INVARIANTS VotesUnique ExecutedIsCertified Agreement  StableIsExecuted QuorumOverlooked AllCounted
PROPERTIES DigestSticky KeepsOneLog
CHECK_DEADLOCK FALSE
