-------------------------- MODULE MCWorkflowStart --------------------------
(* Small instances of WorkflowStart. *)
EXTENDS WorkflowStart

CONSTANTS q1, q2, q3, q4, q5, n1, n2, k1

\* Four requests for one key, two at each replica, and one without a key.
TwoReplicas == [q \in Requests |-> IF q \in {q1, q2, q5} THEN n1 ELSE n2]
OneKey == [q \in Requests |-> IF q = q5 THEN NoKey ELSE k1]
===========================================================================
