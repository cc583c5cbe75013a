SPECIFICATION StoreSpec
CONSTANTS
  Threads = {t1, t2}
  Versions = {v1, v2}
  MaxProcess = 2
  Absent = Absent
SYMMETRY Symmetry
INVARIANT OnlyOwnMapped
