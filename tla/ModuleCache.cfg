SPECIFICATION FairSpec
CONSTANTS
  d1 = d1
  d2 = d2
  Calls = {c1, c2, c3}
  Digests = {d1, d2}
  Cells = {x1, x2, x3, x4}
  None = None
  MaxEntries = 1
  Settings <- MCSettings
INVARIANTS PermitsAccounted FlightShared
PROPERTIES FetchOnlyOnMiss Answered
