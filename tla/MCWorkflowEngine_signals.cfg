SPECIFICATION Spec
CONSTANTS
  RunIds = {r1}
  a = a
  b = b
  SignalNames = {a, b}
  StepNames = {a, b}
  Definitions <- Waits
  MaxPendingSignals = 2
  Authority = "node"
  MaxInflight = 2
  ClaimBatch = 2
  MaxSignals = 3
  MaxFaults = 1
  MaxDetours = 6
INVARIANTS
  TypeOK
  ContextMatchesSteps
  SignalsAccounted
  NoLostWakeup
  TimeoutNeverLosesSignal
  IInv
  HistoryInv
CHECK_DEADLOCK FALSE
