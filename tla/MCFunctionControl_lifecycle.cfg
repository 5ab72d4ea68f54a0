SPECIFICATION ControlSpec
CONSTANTS
  FunctionIds = {f1}
  Orgs = {o1, o2}
  NoOrg = NoOrg
  Callers = {c1, c2, c3}
  Sources = {s1, s2}
  Metas = {m1}
  Rests = {x1}
  MaxLate = 1
SYMMETRY ValueSymmetry
INVARIANTS
  ActiveSourcesWereChecked
  InvocationsAreEntitled
PROPERTIES
  OwnerNeverChanges
  DeletedIsFinal
  PauseHolds
CHECK_DEADLOCK FALSE
