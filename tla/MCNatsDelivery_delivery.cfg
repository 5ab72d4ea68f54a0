SPECIFICATION FairNatsSpec
CONSTANTS
  Publishers = {p1, p2}
  Dispatchers = {d1}
  Nobody = Nobody
  MaxFaults = 2
INVARIANTS
  AttemptsAreSpaced
  StrictSendsOnce
  DispatchedOnce
  OutcomesAreTruthful
PROPERTY ClientComesBack
CHECK_DEADLOCK FALSE
