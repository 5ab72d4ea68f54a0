SPECIFICATION Spec
CONSTANTS
  RunIds = {r1}
  a = a
  b = b
  SignalNames = {a, b}
  StepNames = {a, b}
  Definitions <- Activities
  MaxPendingSignals = 0
  Authority = "node"
  MaxInflight = 2
  ClaimBatch = 2
  MaxSignals = 0
  MaxFaults = 1
  MaxDetours = 4
INVARIANT NoDoubleDrive
CHECK_DEADLOCK FALSE
