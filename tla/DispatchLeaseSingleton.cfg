SPECIFICATION Spec
CONSTANTS
  c1 = c1
  c2 = c2
  Caller <- TwoCallers
  TTLs = {1}
  Forces = {FALSE}
  Releases = FALSE
  MaxFaults = 0
  NoLease = NoLease
  Malformed = Malformed
INVARIANTS
  SingletonPerLane
