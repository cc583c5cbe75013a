SPECIFICATION Spec
CONSTANTS
  k1 = k1
  k2 = k2
  r1 = r1
  api = api
  sub = sub
  other = other
  lit = lit
  meta = meta
  v1 = v1
  corp = corp
  pub = pub
  priv = priv
  excepted = excepted
  forbidden = forbidden
  mapped = mapped
  zero = zero
  None = None
  Calls <- MCCalls
  RunOf <- MCRunOf
  Urls <- MCUrls
  Rules <- MCRules
  Under <- MCUnder
  Within <- MCWithin
  Normalized <- MCNormalized
  Addrs <- MCAddrs
  Literal <- MCLiteral
  Zone <- MCZone
  Unmap <- MCUnmap
  Unspecified <- MCUnspecified
  Explicit <- MCExplicit
  Allowed <- MCAllowed
  DefaultBlocked <- MCDefaultBlocked
  Timeout = 2
  MaxRequests = 2
  MaxRedirects = 2
  Burst = 1
  Refill = 2
  SweepAge = 2
SYMMETRY Symmetry
INVARIANTS SentWithinGrant HopsShareBudget RateHonoured
