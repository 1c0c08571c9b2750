SPECIFICATION DispatchSpec
CONSTANTS
  c1 = c1
  c2 = c2
  Caller <- TwoCallers
  TTLs = {1, 2}
  Forces = {TRUE, FALSE}
  Releases = TRUE
  MaxFaults = 2
  NoLease = NoLease
  Malformed = Malformed
  i1 = i1
  i2 = i2
  Dispatcher = {c1, c2}
  Box = {i1, i2}
  NoBox = NoBox
  MaxSpotFaults = 1
INVARIANTS
  LaneIsOwned
  NoUnexplainedOrphan
PROPERTIES
  DisplacementNeedsRaceOrForce
  StaleLeaseIsRetaken
  NoDuplicateOfFound
  LaneIsWorked
