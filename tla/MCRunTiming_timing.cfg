SPECIFICATION TimingSpec
CONSTANTS
  IntMax = 12
  LeaseMs = 2
  Durations <- SmallDurations
  DefaultRetries <- DefaultObjects
  StepRetries <- StepObjects
  NotANumber = NotANumber
  Default <- Defaults
  AttemptsCap = 4
  MaxExponent = 2
  DelayCap = 6
  Power <- Powers
  Infinite = Infinite
  NoDeadline = NoDeadline
  Horizon = 5
  MaxVersion = 5
  MaxSignals = 1
INVARIANTS TimingIInv OnTime NoEarlyTimeout LeaseIsExclusive BackoffGrows
PROPERTY TimeIsAbstracted
CHECK_DEADLOCK FALSE
