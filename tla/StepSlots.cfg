SPECIFICATION FairSpec
CONSTANTS
  Runs = {r1, r2, r3, r4}
  Keys = {k1}
  Entries = {e1, e2, e3, e4, e5}
  NoEntry = NoEntry
  Capacities = {1, 2}
  MaxWait = 2
  IdleAfter = 2
INVARIANTS OneBound NoLostWakeup
PROPERTY AcquireReturns
