SPECIFICATION FairSpec
CONSTANTS
  Tick = 2
  Timeout = 3
  Hards = {NoHard, 6}
  NoHard = NoHard
  Sends = {s1, s2}
  NotSent = NotSent
  MaxTime = 14
  MaxWaited = 3
CHECK_DEADLOCK FALSE
INVARIANTS ComputeIsBudgeted AboutTwiceInTurn
PROPERTIES ComputeStopsAtHard 
