SPECIFICATION PatientSpec
CONSTANTS
  q1 = q1
  q2 = q2
  q3 = q3
  q4 = q4
  q5 = q5
  n1 = n1
  n2 = n2
  k1 = k1
  Requests = {q1, q2, q3, q4, q5}
  Replicas = {n1, n2}
  Keys = {k1}
  ReplicaOf <- TwoReplicas
  KeyOf <- OneKey
  Repeaters = {q1, q2, q3}
  NoKey = NoKey
  Nobody = Nobody
  Authority = "node"
  Prompt = TRUE
INVARIANT OneRunPerKey
PROPERTIES
  StartIsAtomic
  RepeatedStartsAreAccepted
CHECK_DEADLOCK FALSE
