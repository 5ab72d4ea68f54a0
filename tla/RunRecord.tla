----------------------------- MODULE RunRecord -----------------------------
(***************************************************************************)
(* The run an operation of src/workflow/store.rs leaves in the map, as a   *)
(* function of the run it finds there.                                     *)
(*                                                                         *)
(* Time is not a number here.  next_run_at_ms is abstracted to how it      *)
(* compares with the clock, lease_until_ms to whether it lies ahead, and   *)
(* wait_deadline_ms to whether there is one and whether it has passed; the *)
(* clock's progress is Awoken, Overdue and Lapsed.  A positive delay may   *)
(* elapse at once, so a delay of zero needs no case of its own.  RunTiming *)
(* has the numbers.                                                        *)
(***************************************************************************)
EXTENDS SequencesExt

NewRun(steps) ==
  [status |-> "pending", steps |-> steps, index |-> 0, attempt |-> 0,
   signals |-> <<>>, deadline |-> "none", due |-> "ready", lease |-> "free",
   context |-> {}, rows |-> <<>>, error |-> "none", version |-> 0]

(* What stands for an id without an entry. *)
NoRun(status) == [NewRun(<<>>) EXCEPT !.status = status]

(* Mutant: a signal leaves the version alone. *)
SignalledKeepsVersion(run, signal) ==
  [run EXCEPT !.signals = Append(@, signal), !.due = "ready", !.lease = "free"]

(* A signal wakes the run at once: it is made due and its lease is dropped, *)
(* whoever holds it.                                                        *)
Signalled(run, signal) ==
  [run EXCEPT !.signals = Append(@, signal), !.due = "ready", !.lease = "free",
              !.version = @ + 1]

Canceled(run) == [run EXCEPT !.status = "canceled", !.version = @ + 1]

(* Mutant: a claim leaves the version alone. *)
ClaimedKeepsVersion(run) == [run EXCEPT !.lease = "held",
                            !.status = IF @ = "pending" THEN "running" ELSE @]

Claimed(run) == [run EXCEPT !.lease = "held",
                            !.status = IF @ = "pending" THEN "running" ELSE @,
                            !.version = @ + 1]

(* Every commit releases the lease and bumps the version. *)
Settled(run) == [run EXCEPT !.lease = "free", !.version = @ + 1]

SucceedComplete(run, rows, context) ==
  [Settled(run) EXCEPT !.rows = @ \o rows, !.context = context,
                       !.status = "completed", !.error = "none"]

SucceedAdvance(run, row, next, context) ==
  [Settled(run) EXCEPT !.rows = Append(@, row), !.context = context,
                       !.index = next, !.attempt = 0, !.status = "running",
                       !.due = "ready"]

FailRetry(run, row, attempt, error) ==
  [Settled(run) EXCEPT !.rows = Append(@, row), !.attempt = attempt,
                       !.error = error, !.status = "running", !.due = "timer"]

FailTerminal(run, row, error) ==
  [Settled(run) EXCEPT !.rows = Append(@, row), !.status = "failed",
                       !.error = error]

EnterSleep(run, row, next) ==
  [Settled(run) EXCEPT !.rows = Append(@, row), !.index = next,
                       !.attempt = 0, !.status = "running", !.due = "timer"]

ConsumeSignal(run, row, next, context, position) ==
  [Settled(run) EXCEPT !.rows = Append(@, row),
                       !.signals = IF position \in 1..Len(@)
                                   THEN RemoveAt(@, position) ELSE @,
                       !.context = context,
                       !.index = next, !.attempt = 0, !.status = "running",
                       !.deadline = "none", !.due = "ready"]

ParkWait(run, timed) ==
  [Settled(run) EXCEPT !.status = "waiting",
                       !.deadline = IF timed THEN "ahead" ELSE "none",
                       !.due = IF timed THEN "timer" ELSE "never"]

(* Mutants: an absent deadline is copied instead of replaced by the far   *)
(* future; the deadline is dropped from the schedule.                     *)
ReparkWaitCopiesDeadline(run) ==
  [Settled(run) EXCEPT !.status = "waiting",
                       !.due = IF run.deadline = "ahead" THEN "timer"
                               ELSE run.deadline]
ReparkWaitForgetsDeadline(run) ==
  [Settled(run) EXCEPT !.status = "waiting", !.due = "never"]

ReparkWait(run) ==
  [Settled(run) EXCEPT !.status = "waiting",
                       !.due = CASE run.deadline = "none"   -> "never"
                                 [] run.deadline = "ahead"  -> "timer"
                                 [] run.deadline = "passed" -> "ready"]

---------------------------------------------------------------------------
(* The clock *)

(* A parked wait is due exactly at its deadline; a sleep or a backoff has *)
(* no deadline.                                                           *)
Awoken(run) ==
  [run EXCEPT !.due = "ready", !.deadline = IF @ = "ahead" THEN "passed" ELSE @]

(* The deadline of a wait that a signal has already made due. *)
Overdue(run) == [run EXCEPT !.deadline = "passed"]

Lapsed(run) == [run EXCEPT !.lease = "free"]
===========================================================================
