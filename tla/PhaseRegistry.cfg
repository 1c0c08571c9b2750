SPECIFICATION Spec
CONSTANTS
  r1 = r1
  r2 = r2
  p1 = p1
  p2 = p2
  a1 = a1
  weekly = weekly
  rehearsal = rehearsal
  Artifact = {a1}
  Execution = {weekly, rehearsal}
  Rehearsal = {rehearsal}
  NoToken = NoToken
  Shared = Shared
  Absent = Absent
  Corrupt = Corrupt
  Unread = Unread
  Run = {r1, r2}
  Phase = {p1, p2}
  Configs <- TwoRuns
  AutoSkip = {p1}
  Capped = {p1}
  Leftovers <- SomeLeftovers
  MaxEntries = 2
  MaxFaults = 1
CHECK_DEADLOCK FALSE
INVARIANTS
  SkipIsEarned
PROPERTIES
  SkipIsStable
