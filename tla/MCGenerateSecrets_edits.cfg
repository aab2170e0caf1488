SPECIFICATION Spec
CONSTANTS
  p1 = p1  p2 = p2  s1 = s1  s2 = s2  k1 = k1  k2 = k2  v1 = v1  v2 = v2
  Pods = {p1, p2}
  Names = {s1}
  Keys = {k1, k2}
  RandomValues = {v1, v2}
  SeededKey = SeededKey
  Unset = Unset
  Requests <- SharedRequests
  BackoffLimit = 1
  MaxFaults = 1
  MaxEdits = 2
SYMMETRY ValueSymmetry
INVARIANTS TypeOK SafeCopies DoneMeansPresent
PROPERTIES ForeignUntouched NoLostUpdate ImplementsWriteOnce
