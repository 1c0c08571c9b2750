SPECIFICATION Spec
CONSTANTS
  Arm = {1, 2, 3, 4, 5}
  Control = {5}
  Founders = {1, 2, 3, 5}
  Unfits <- SomeUnfit
  Evidences <- FourArms
  Configs <- BothModes
  Created <- Dates
  NoArm = NoArm
  NoValue = NoValue
  Never = Never
  MaxWeek = 1
INVARIANTS
  RetirementsAreDue
  OrderedPoolKeepsCap
  EveryArmSettles
PROPERTIES
  PoolStaysAboveFloor
