SPECIFICATION Spec
CONSTANTS
  x1 = x1
  x2 = x2
  w1 = w1
  due = due
  parity = parity
  mark = mark
  own = own
  Exec = {x1, x2}
  NoExec = NoExec
  Sweep = {w1}
  Launches <- MCLaunches
  Spine = {due, parity}
  Declared = {due}
  OwnStage = own
  Retiring = {}
  Mark = {mark}
  SkipsOf <- MCSkipsOf
  ServedBy <- MCServedBy
  Graph <- MCGraph
  SkipInputs <- MCSkipInputs
  Recordings = {"COVERED"}
SYMMETRY Symmetric
INVARIANTS
  VerdictsStand
  QuietIsEarned
CHECK_DEADLOCK FALSE
