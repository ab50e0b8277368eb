CONSTANTS
  Operation = {"A"}
  N = 4
  K = 2
  L = 4
  Word = 1000
  Clients = {4}
  Faulty = {1}
  FaultyMessages = {}
  Submissions <- NoSubmissions
  Blocking = {}
  CanCrash = {}
  TimerInit = {FALSE}
  MaxRetries = 0
  MaxTimeouts = 0
  MaxFaulty = 1
  Id = 4
  Threads = {"t1"}
  Calls <- OneInvoke
  FaultyReplies <- Invented
  FirstTimestamps = {0, 999}
  Word64 = 1000
  MaxResends = 1
SPECIFICATION SystemSpec
INVARIANTS SystemOK VotesAreExecutions
PROPERTIES InvokeReturns AnswerIsExecuted
CHECK_DEADLOCK FALSE
