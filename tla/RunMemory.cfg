SPECIFICATION ClockSpec
CONSTANTS
  Runs = {r1, r2, r3}
  PoolTotal = 4
  Limit = 3
  Deltas = {0, 1, 2}
INVARIANTS PoolAccounted HoldIsCharge NoLostWakeup SleepsOnOthers
PROPERTIES  GrowthAnswered
