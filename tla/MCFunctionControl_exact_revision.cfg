SPECIFICATION ControlSpec
CONSTANTS
  FunctionIds = {f1}
  Orgs = {o1}
  NoOrg = NoOrg
  Callers = {c1, c2}
  Sources = {s1}
  Metas = {m1}
  Rests = {x1, x2}
  MaxLate = 0
INVARIANT ActiveRevisionsWereChecked
CHECK_DEADLOCK FALSE
