SPECIFICATION Spec
CONSTANTS
  q1 = q1
  q2 = q2
  c1 = c1
  c2 = c2
  a1 = a1
  a2 = a2
  h1 = h1
  m1 = m1
  m2 = m2
  d1 = d1
  d2 = d2
  ca = ca
  cb = cb
  kA = kA
  kB = kB
  kX = kX
  n1 = n1
  None = None
  NoName = NoName
  Torn = Torn
  Empty = Empty
  Requests = {q1, q2}
  Contents = {c1, c2}
  CompositeKind = kX
  CompositionSpend = {ca, cb}
  OperatorSpend = {ca, cb}
  Verifier = TRUE
  MaxCached = 2
  MaxStamp = 2
  Sources <- MCSources
  Manifests <- MCManifests
  Own <- MCOwn
  LayerOf <- MCLayerOf
  Needs <- MCNeeds
  PullPermitted <- MCPullPermitted
  SignedOnly <- MCSignedOnly
  Scenarios <- MCScenarios
  RequestsOf <- MCRequestsOf
  SourcesOf <- MCSourcesOf
  ResponsesOf <- MCResponsesOf
  Changing <- MCChanging
  Rules <- MCRules
INVARIANTS FreshModule ManifestPinned GuestReadsGranted AppliedIsFenced
