SPECIFICATION ProgressSpec
CONSTANTS
  RunIds = {r1}
  a = a
  b = b
  SignalNames = {a, b}
  StepNames = {a, b}
  Definitions <- OneActivity
  MaxPendingSignals = 0
  Authority = "node"
  MaxInflight = 2
  ClaimBatch = 2
  MaxSignals = 0
  MaxFaults = 0
  MaxDetours = 4
  MaxDetached = 1
PROPERTY LongStepsSettle
CHECK_DEADLOCK FALSE
