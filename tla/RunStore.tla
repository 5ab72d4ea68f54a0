----------------------------- MODULE RunStore -----------------------------
(***************************************************************************)
(* The in-memory run store of src/workflow/store.rs: a map from run id to  *)
(* run, every operation of which is one critical section of a mutex and    *)
(* hence one step.  RunRecord has the run each operation leaves in the map; *)
(* here are the map, the operations whose caller is not a worker, and the  *)
(* guard of a worker's commit.                                             *)
(***************************************************************************)
EXTENDS SequencesExt, RunRecord

CONSTANTS
  RunIds,             \* the uuids runs are given; none is given twice
  Definitions,        \* the step lists a start request can resolve to
  SignalNames,        \* the names signals carry and waitSignal steps ask for
  StepNames,          \* the names steps go by: their own, or step-<index>
  MaxPendingSignals   \* MAX_PENDING_SIGNALS

StepTypes == {"activity", "sleep", "waitSignal", "unknown"}

(* A step: the fields of its JSON object that the engine branches on.     *)
(* maxAttempts is the merged and clamped retry bound of the step.         *)
Step == [type : StepTypes, name : StepNames, functionRef : BOOLEAN, maxAttempts : Nat \ {0},
         signal : SignalNames, timed : BOOLEAN]

ASSUME DefinitionsAssumption == Definitions \subseteq Seq(Step)
ASSUME PendingAssumption == MaxPendingSignals \in Nat

VARIABLES
  runs,       \* the map; an id that has no entry is "unborn" or "gone"
  accepted    \* history: how many signals each run has accepted

Terminal == {"completed", "failed", "canceled"}
Active == {"pending", "running", "waiting"}
NoEntry == {"unborn", "gone"}

Errors == {"none", "activity failed", "wait timeout", "unknown step",
           "no function", "context too large"}

(* id tells the signals of a run apart: it is the signal's payload. *)
Signal == [name : SignalNames, id : Nat]

(* A row of step_runs: its output is the payload a wait consumed, or 0.    *)
(* An entry of the context, which is keyed by the name of a step: the      *)
(* output that step index index left there, again a payload or 0.          *)
Row == [index : Nat, attempt : Nat, status : {"succeeded", "failed"}, output : Nat]
Output == [name : StepNames, index : Nat, payload : Nat]

Run == [status : Terminal \cup Active \cup NoEntry,
        steps : Definitions \cup {<<>>},
        index : Nat,
        attempt : Nat,
        signals : Seq(Signal),
        deadline : {"none", "ahead", "passed"},
        due : {"ready", "timer", "never"},
        lease : {"free", "held"},
        context : SUBSET Output,
        rows : Seq(Row),
        error : Errors,
        version : Nat]

TypeOKStore ==
  /\ runs \in [RunIds -> Run]
  /\ accepted \in [RunIds -> Nat]

---------------------------------------------------------------------------
(* Creation and the calls of the HTTP API *)

InitStore ==
  /\ runs = [r \in RunIds |-> NoRun("unborn")]
  /\ accepted = [r \in RunIds |-> 0]

Present(r) == runs[r].status \notin NoEntry

(* The definition is resolved before the insert; an empty one is refused. *)
CreateRun(r, steps) ==
  /\ runs[r].status = "unborn"
  /\ steps # <<>>
  /\ runs' = [runs EXCEPT ![r] = NewRun(steps)]
  /\ UNCHANGED accepted

DeliverSignal(r, name) ==
  /\ runs[r].status \in Active
  /\ Len(runs[r].signals) < MaxPendingSignals
  /\ accepted' = [accepted EXCEPT ![r] = @ + 1]
  /\ runs' = [runs EXCEPT ![r] =
       Signalled(@, [name |-> name, id |-> accepted[r] + 1])]

CancelRun(r) ==
  /\ runs[r].status \in Active
  /\ runs' = [runs EXCEPT ![r] = Canceled(@)]
  /\ UNCHANGED accepted

(* The sweep removes every terminal run whose last update is old enough;  *)
(* which ones are depends on the clock only.                              *)
GcTerminal(S) ==
  /\ S # {}
  /\ \A r \in S : runs[r].status \in Terminal
  /\ runs' = [r \in RunIds |->
       IF r \in S THEN NoRun("gone") ELSE runs[r]]
  /\ UNCHANGED accepted

---------------------------------------------------------------------------
(* The scheduler's claim *)

DueRuns == {r \in RunIds : /\ runs[r].status \in Active
                           /\ runs[r].due = "ready"
                           /\ runs[r].lease = "free"}

(* The due runs are sorted by uuid and cut to the limit, so the batch is an *)
(* arbitrary set of that size.                                              *)
ClaimDue(S, limit) ==
  /\ S # {}
  /\ S \subseteq DueRuns
  /\ Cardinality(S) <= limit
  /\ S = DueRuns \/ Cardinality(S) = limit
  /\ runs' = [r \in RunIds |-> IF r \in S THEN Claimed(runs[r]) ELSE runs[r]]
  /\ UNCHANGED accepted

---------------------------------------------------------------------------
(* Commits *)

(* Mutant: only a cancellation is a conflict. *)
GuardIgnoresVersion(r, version) == Present(r) /\ runs[r].status # "canceled"

Guard(r, version) ==
  /\ Present(r)
  /\ runs[r].status # "canceled"
  /\ runs[r].version = version

(* A conflict, or a run that is no longer in the map, changes nothing. *)
Commit(r, version, committed) ==
  /\ runs' = [runs EXCEPT ![r] = IF Guard(r, version) THEN committed ELSE @]
  /\ UNCHANGED accepted

---------------------------------------------------------------------------
(* The clock *)

TimerFires(r) ==
  /\ runs[r].status \in Active
  /\ runs[r].due = "timer"
  /\ runs' = [runs EXCEPT ![r] = Awoken(@)]
  /\ UNCHANGED accepted

DeadlinePasses(r) ==
  /\ runs[r].status \in Active
  /\ runs[r].due = "ready"
  /\ runs[r].deadline = "ahead"
  /\ runs' = [runs EXCEPT ![r] = Overdue(@)]
  /\ UNCHANGED accepted

LeaseLapses(r) ==
  /\ runs[r].status \in Active
  /\ runs[r].lease = "held"
  /\ runs' = [runs EXCEPT ![r] = Lapsed(@)]
  /\ UNCHANGED accepted

(* A crash loses the process's memory, and the map is nothing else. *)
LoseMemory ==
  /\ runs' = [r \in RunIds |->
       IF Present(r) THEN NoRun("gone") ELSE runs[r]]
  /\ UNCHANGED accepted
===========================================================================
