SPECIFICATION ProgressSpec
CONSTANTS
  RunIds = {r1}
  a = a
  b = b
  SignalNames = {a, b}
  StepNames = {a, b}
  Definitions <- Mixed
  MaxPendingSignals = 1
  Authority = "node"
  MaxInflight = 2
  ClaimBatch = 2
  MaxSignals = 1
  MaxFaults = 2
  MaxDetours = 4
  MaxDetached = 1
INVARIANTS
  VersionsAreExclusive
  SnapshotsAreExact
  StepsCommittedOnceInOrder
  RetriesAreHonoured
PROPERTIES
  LifecycleImplemented
  RunsSettle
CHECK_DEADLOCK FALSE
