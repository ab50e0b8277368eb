CONSTANTS
  Operation <- Operations
  N = 4
  Id = 4
  Threads = {"t1", "t2"}
  Calls <- AsyncCalls
  Word64 = 4
  MaxRetries = 0
  Numeral <- ReadsOne
  Word32 = 10
  Faulty = {3}
  FaultyReplies <- WrongReplies
  FirstTimestamps = {0, 3}
  Views = {0}
  MaxAnswers = 2
  MaxFaulty = 2
SPECIFICATION Spec
INVARIANTS ClientInv NoRace InflightIsPending PromisesKept OwnAnswer
CHECK_DEADLOCK FALSE
