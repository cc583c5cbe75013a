SPECIFICATION FairSpec
CONSTANTS
  Runs = {r1, r2, r3, r4}
  Keys = {k1, k2, k3}
  NoKey = NoKey
  Total = 1
INVARIANTS SlotsAccounted WorkConserving
PROPERTIES ServedInTurn ImplementsRunSlots NoStarvation
