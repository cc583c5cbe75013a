SPECIFICATION FairSpec
CONSTANTS
  Requests = {r1, r2}
  key = key
  lapsed = lapsed
  kept = kept
  d1 = d1
  d2 = d2
  d3 = d3
  Bundles <- MCBundles
  Digests <- MCDigests
  BundlesOf <- MCBundlesOf
  Accepts <- MCAccepts
  MaxRoot = 3
  Usable <- MCUsable
  NoDigest = NoDigest
INVARIANTS AdmittedWasVouched MemoForgotten
PROPERTIES RootForward RootCatchesUp
