-------------------------- MODULE MCNatsDelivery --------------------------
(* Delivery over NATS, for TLC.  The callers of one kind are alike. *)
EXTENDS NatsDelivery, TLC

CallerSymmetry == Permutations(Publishers) \cup Permutations(Dispatchers)
=============================================================================
