SPECIFICATION Spec
CONSTANTS
  r1 = r1
  r2 = r2
  D19 = D19
  day = day
  latest = latest
  universe = universe
  e1 = e1
  e2 = e2
  Run = {r1, r2}
  Unit <- OneUnit
  Sinks <- AnySecond
  Key = {day, latest, universe}
  Reference = {universe}
  Versioned = {day}
  Etag = {e1, e2}
  NoValue = NoValue
  NoManifest = NoManifest
  MaxVersions <- FewVersions
  MaxOutputs = 1
  MaxFaults = 1
CHECK_DEADLOCK FALSE
INVARIANTS
  ManifestIsTrue
PROPERTIES
  ImplementsRunLog
