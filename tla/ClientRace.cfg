CONSTANTS
  Operation <- Operations
  N = 4
  Id = 4
  Threads = {"t1"}
  Calls <- BlockingCalls
  Word64 = 4
  MaxRetries = 1
  Numeral <- ReadsOne
  Word32 = 10
  Faulty = {3}
  FaultyReplies <- WrongReplies
  FirstTimestamps = {0, 3}
  Views = {0}
  MaxAnswers = 1
  MaxFaulty = 0
SPECIFICATION Spec
INVARIANT NoRace
CHECK_DEADLOCK FALSE
