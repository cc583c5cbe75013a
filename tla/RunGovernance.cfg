SPECIFICATION GovFairSpec
CONSTANTS
  r1 = r1
  r2 = r2
  r3 = r3
  Runs <- MCRuns
  PoolTotal = 1
  Limit = 1
  Deltas = {0, 1}
  MaxRuns = 2
  Concurrency = 1
  Threads = 3
  Sends = {s1}
  Mixes <- MCMixes
INVARIANTS StepShare NothingKept
PROPERTIES EveryoneAnswered
