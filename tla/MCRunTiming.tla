---------------------------- MODULE MCRunTiming ----------------------------
(* A small instance of RunTiming: a clock of a few instants beside a range *)
(* of integers that a long sleep leaves.                                   *)
EXTENDS RunTiming, TLC

PowerOf(f) == [e \in 0..2 |-> IF f > 2 /\ e = 2 THEN Infinite ELSE f ^ e]
Powers == [f \in 1..3 |-> PowerOf(f)]

Defaults == [maxAttempts |-> 3, backoffMs |-> 1, backoffFactor |-> 2, maxBackoffMs |-> 5]

\* Past, none, soon, and past the range.
SmallDurations == {-2, 0, 2, 12}

NoObject == <<>>
DefaultObjects == {"maxAttempts" :> 9 @@ "backoffFactor" :> 3}
\* A growing delay, none at first, a negative cap, a factor below one.
StepObjects ==
  {NoObject,
   "maxAttempts" :> NotANumber @@ "backoffMs" :> 0 @@ "maxBackoffMs" :> -1,
   "backoffFactor" :> -1 @@ "backoffMs" :> 2}
===========================================================================
