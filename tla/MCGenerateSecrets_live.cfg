SPECIFICATION FairSpec
CONSTANTS
  p1 = p1  p2 = p2  s1 = s1  s2 = s2  k1 = k1  k2 = k2  v1 = v1  v2 = v2
  Pods = {p1, p2}
  Names = {s1, s2}
  Keys = {k1}
  RandomValues = {v1}
  SeededKey = SeededKey
  Unset = Unset
  Requests <- CrossedRequests
  BackoffLimit = 6
  MaxFaults = 2
  MaxEdits = 0
PROPERTY AllSucceed
