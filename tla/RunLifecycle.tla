--------------------------- MODULE RunLifecycle ---------------------------
(***************************************************************************)
(* What the workflow engine promises of its runs, without scheduler,       *)
(* leases, snapshots or versions: a run advances through its steps one at  *)
(* a time, an advance takes at most one signal out of its inbox, and a run *)
(* that has ended stays as it ended until it is removed.                   *)
(***************************************************************************)
EXTENDS Naturals

CONSTANT RunIds

VARIABLES
  phase,   \* of each run: "unborn", "active", an ending, or "gone"
  length,  \* the number of its steps
  done,    \* how many of them have been committed
  inbox    \* the signals accepted and not consumed

Endings == {"completed", "failed", "canceled"}

lifecycleVars == <<phase, length, done, inbox>>

LInit ==
  /\ phase = [r \in RunIds |-> "unborn"]
  /\ length = [r \in RunIds |-> 0]
  /\ done = [r \in RunIds |-> 0]
  /\ inbox = [r \in RunIds |-> {}]

Start(r) ==
  /\ phase[r] = "unborn"
  /\ phase' = [phase EXCEPT ![r] = "active"]
  /\ length'[r] \in Nat \ {0}
  /\ length' = [length EXCEPT ![r] = length'[r]]
  /\ UNCHANGED <<done, inbox>>

Accept(r) ==
  /\ phase[r] = "active"
  /\ \E id \in inbox'[r] \ inbox[r] : inbox' = [inbox EXCEPT ![r] = @ \cup {id}]
  /\ UNCHANGED <<phase, length, done>>

(* A wait takes the signal it waited for, other steps take none.  The run *)
(* ends with its last step, or is left to Finish.                         *)
Advance(r) ==
  /\ phase[r] = "active"
  /\ done[r] < length[r]
  /\ done' = [done EXCEPT ![r] = @ + 1]
  /\ \/ UNCHANGED inbox
     \/ \E id \in inbox[r] : inbox' = [inbox EXCEPT ![r] = @ \ {id}]
  /\ \/ UNCHANGED phase
     \/ /\ done[r] + 1 = length[r]
        /\ phase' = [phase EXCEPT ![r] = "completed"]
  /\ UNCHANGED length

Finish(r) ==
  /\ phase[r] = "active"
  /\ done[r] = length[r]
  /\ phase' = [phase EXCEPT ![r] = "completed"]
  /\ UNCHANGED <<length, done, inbox>>

(* No step of a run that has gone through all of them can fail. *)
Fail(r) ==
  /\ phase[r] = "active"
  /\ done[r] < length[r]
  /\ phase' = [phase EXCEPT ![r] = "failed"]
  /\ UNCHANGED <<length, done, inbox>>

Stop(r) ==
  /\ phase[r] = "active"
  /\ phase' = [phase EXCEPT ![r] = "canceled"]
  /\ UNCHANGED <<length, done, inbox>>

(* Ended runs are collected; a crash takes every run there is. *)
Vanish(S) ==
  /\ \A r \in S : phase[r] \notin {"unborn", "gone"}
  /\ \/ \A r \in S : phase[r] \in Endings
     \/ \A r \in RunIds \ S : phase[r] \in {"unborn", "gone"}
  /\ phase' = [r \in RunIds |-> IF r \in S THEN "gone" ELSE phase[r]]
  /\ length' = [r \in RunIds |-> IF r \in S THEN 0 ELSE length[r]]
  /\ done' = [r \in RunIds |-> IF r \in S THEN 0 ELSE done[r]]
  /\ inbox' = [r \in RunIds |-> IF r \in S THEN {} ELSE inbox[r]]

LNext ==
  \/ \E r \in RunIds : \/ Start(r) \/ Accept(r) \/ Advance(r)
                       \/ Finish(r) \/ Fail(r) \/ Stop(r)
  \/ \E S \in SUBSET RunIds : Vanish(S)

LSpec == LInit /\ [][LNext]_lifecycleVars
===========================================================================
