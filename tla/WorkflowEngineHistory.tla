------------------------ MODULE WorkflowEngineHistory ------------------------
(***************************************************************************)
(* HistoryInv of WorkflowEngine is inductive on top of IInv, so what the   *)
(* rows, the context and the signals of a run add up to holds in every     *)
(* reachable state, and the engine implements RunLifecycle.                *)
(*                                                                         *)
(* The argument goes by what a step makes of a run, whatever action it is  *)
(* of: it leaves it as it was (Quiet), cancels it (Stopped), hands it a    *)
(* signal (Received), completes it (Finished), commits its current step    *)
(* (Stepped) or records a failed attempt of it (Fallen).  That every       *)
(* commit of the engine is one of these (StoreSteps) is where IInv is      *)
(* used: the row, the output and the position of the signal it takes from  *)
(* the view are those of the run itself.  Each of them then leaves rows,   *)
(* context and signals that add up (WorkedAddsUp, ReceivedAddsUp), and     *)
(* each is an action of RunLifecycle, or none.                             *)
(***************************************************************************)
EXTENDS WorkflowEngineProofs, FiniteSetTheorems

---------------------------------------------------------------------------
(* What a step can make of a run. *)

Same(old, new) ==
  /\ new.steps = old.steps /\ new.index = old.index /\ new.attempt = old.attempt
  /\ new.rows = old.rows /\ new.context = old.context
  /\ new.signals = old.signals /\ new.error = old.error

(* Claims, parking and the clock: no row, no output, no signal. *)
Quiet(old, new) ==
  /\ Same(old, new)
  /\ new.status = old.status \/ (old.status \in Active /\ new.status \in Active)

Stopped(old, new) ==
  Same(old, new) /\ old.status \in Active /\ new.status = "canceled"

Received(old, new, id) ==
  /\ old.status \in Active /\ new.status = old.status
  /\ new.steps = old.steps /\ new.index = old.index /\ new.attempt = old.attempt
  /\ new.rows = old.rows /\ new.context = old.context /\ new.error = old.error
  /\ \E signal \in Signal :
       signal.id = id /\ new.signals = Append(old.signals, signal)

(* A tick of a run that has gone through its steps. *)
Finished(old, new) ==
  /\ old.status \in Active /\ new.status = "completed"
  /\ old.index = Len(old.steps)
  /\ new.steps = old.steps /\ new.index = old.index /\ new.rows = old.rows
  /\ new.context = old.context /\ new.signals = old.signals

(* What the step leaves besides its row: only a wait takes a signal. *)
Effect(old, new, row) ==
  \/ /\ CurrentStep(old).type = "activity"
     /\ row.output = 0
     /\ new.context = With(old, 0)
     /\ new.signals = old.signals
  \/ /\ CurrentStep(old).type = "sleep"
     /\ row.output = 0
     /\ new.context = old.context
     /\ new.signals = old.signals
  \/ /\ CurrentStep(old).type = "waitSignal"
     /\ \E k \in Matching(old) :
          /\ \A j \in Matching(old) : k <= j
          /\ row.output = old.signals[k].id
          /\ new.context = With(old, old.signals[k].id)
          /\ new.signals = RemoveAt(old.signals, k)

AtSomeStep(old, new) ==
  /\ old.status \in Active
  /\ old.index < Len(old.steps)
  /\ new.steps = old.steps

(* The current step is done, and with the last one the run may be. *)
Stepped(old, new) ==
  /\ AtSomeStep(old, new)
  /\ \E row \in Row :
       /\ row.status = "succeeded" /\ row.index = old.index
       /\ new.rows = Append(old.rows, row)
       /\ Effect(old, new, row)
  /\ \/ /\ new.status = "running"
        /\ new.index = old.index + 1 /\ new.attempt = 0
     \/ /\ new.status = "completed"
        /\ new.index = old.index /\ old.index + 1 = Len(old.steps)

Fallen(old, new) ==
  /\ AtSomeStep(old, new)
  /\ new.index = old.index
  /\ new.context = old.context /\ new.signals = old.signals
  /\ \E row \in Row :
       /\ row.status = "failed" /\ row.output = 0
       /\ new.rows = Append(old.rows, row)
       /\ \/ /\ new.status = "failed"
             /\ new.error # "activity failed"
          \/ /\ row.index = old.index /\ row.attempt = old.attempt
             /\ new.status = "failed"
             /\ new.error = "activity failed"
             /\ old.attempt + 1 >= CurrentStep(old).maxAttempts
          \/ /\ row.index = old.index /\ row.attempt = old.attempt
             /\ new.status = "running"
             /\ new.attempt = old.attempt + 1
             /\ old.attempt + 1 < CurrentStep(old).maxAttempts

Worked(old, new) ==
  Quiet(old, new) \/ Finished(old, new) \/ Stepped(old, new) \/ Fallen(old, new)

---------------------------------------------------------------------------
(* What each commit of a current view makes of its run. *)

(* A current view and its run compute the same rows and outputs. *)
LEMMA SameOutcome ==
  ASSUME NEW view, NEW run, SameData(view, run)
  PROVE  /\ CurrentStep(view) = CurrentStep(run)
         /\ Matching(view) = Matching(run)
         /\ \A payload : /\ Succeeded(view, payload) = Succeeded(run, payload)
                         /\ With(view, payload) = With(run, payload)
         /\ Failed(view) = Failed(run)
         /\ view.index = run.index /\ view.attempt = run.attempt
         /\ view.steps = run.steps /\ view.signals = run.signals
         /\ view.context = run.context
BY DEF SameData, CurrentStep, Matching, Succeeded, With, Failed

LEMMA CompletedTick ==
  ASSUME NEW run \in Run, Sound(run), run.status \in Active,
         run.index >= Len(run.steps)
  PROVE  Finished(run, SucceedComplete(run, <<>>, run.context))
<1> DEFINE new == SucceedComplete(run, <<>>, run.context)
<1>1. run.rows \o <<>> = run.rows
  BY ConcatEmptySeq DEF Run
<1>2. /\ new.status = "completed" /\ new.steps = run.steps /\ new.index = run.index
      /\ new.rows = run.rows \o <<>> /\ new.context = run.context
      /\ new.signals = run.signals
  BY DEF SucceedComplete, Settled, Run
<1>3. run.index = Len(run.steps)
  BY DefinitionsAssumption DEF Run, Sound, WellFormed
<1> HIDE DEF new
<1>4. Finished(run, new)
  BY <1>1, <1>2, <1>3 DEF Finished
<1> QED BY <1>4 DEF new

LEMMA ActivityStep ==
  ASSUME NEW run \in Run, run.status \in Active, run.index < Len(run.steps),
         CurrentStep(run).type = "activity"
  PROVE  Stepped(run, IF run.index + 1 >= Len(run.steps)
                      THEN SucceedComplete(run, <<Succeeded(run, 0)>>, With(run, 0))
                      ELSE SucceedAdvance(run, Succeeded(run, 0), run.index + 1,
                                          With(run, 0)))
<1> DEFINE row == Succeeded(run, 0)
           context == With(run, 0)
           last == SucceedComplete(run, <<row>>, context)
           next == SucceedAdvance(run, row, run.index + 1, context)
<1>1. /\ row \in Row /\ row.status = "succeeded" /\ row.index = run.index
      /\ row.output = 0
  BY RowsAndOutputs DEF Succeeded
<1>2. /\ run.rows \in Seq(Row) /\ run.index \in Nat /\ Len(run.steps) \in Nat
  BY DefinitionsAssumption DEF Run
<1>3. run.rows \o <<row>> = Append(run.rows, row)
  BY <1>1, <1>2, AppendIsConcat
<1> HIDE DEF row, context
<1>4. /\ last.status = "completed" /\ last.steps = run.steps
      /\ last.index = run.index /\ last.signals = run.signals
      /\ last.rows = run.rows \o <<row>> /\ last.context = context
  BY DEF SucceedComplete, Settled, Run
<1>5. /\ next.status = "running" /\ next.steps = run.steps
      /\ next.index = run.index + 1 /\ next.attempt = 0
      /\ next.signals = run.signals
      /\ next.rows = Append(run.rows, row) /\ next.context = context
  BY DEF SucceedAdvance, Settled, Run
<1> HIDE DEF last, next
<1>6. Effect(run, last, row) /\ Effect(run, next, row)
  BY <1>1, <1>4, <1>5 DEF Effect, context
<1>7. run.index + 1 >= Len(run.steps) => Stepped(run, last)
  BY <1>1, <1>2, <1>3, <1>4, <1>6 DEF Stepped, AtSomeStep
<1>8. Stepped(run, next)
  BY <1>1, <1>5, <1>6 DEF Stepped, AtSomeStep
<1> QED BY <1>7, <1>8 DEF last, next, row, context

LEMMA SleepStep ==
  ASSUME NEW run \in Run, run.status \in Active, run.index < Len(run.steps),
         CurrentStep(run).type = "sleep"
  PROVE  Stepped(run, EnterSleep(run, Once(Succeeded(run, 0)), run.index + 1))
<1> DEFINE row == Once(Succeeded(run, 0))
           new == EnterSleep(run, row, run.index + 1)
<1>1. /\ row \in Row /\ row.status = "succeeded" /\ row.index = run.index
      /\ row.output = 0
  BY RowsAndOutputs DEF Succeeded, Once
<1> HIDE DEF row
<1>2. /\ new.status = "running" /\ new.steps = run.steps
      /\ new.index = run.index + 1 /\ new.attempt = 0
      /\ new.signals = run.signals /\ new.context = run.context
      /\ new.rows = Append(run.rows, row)
  BY DEF EnterSleep, Settled, Run
<1> HIDE DEF new
<1>3. Stepped(run, new)
  BY <1>1, <1>2 DEF Stepped, AtSomeStep, Effect
<1> QED BY <1>3 DEF new, row

LEMMA WaitStep ==
  ASSUME NEW run \in Run, run.status \in Active, run.index < Len(run.steps),
         CurrentStep(run).type = "waitSignal",
         NEW k \in Matching(run), \A j \in Matching(run) : k <= j
  PROVE  Stepped(run, ConsumeSignal(run, Once(Succeeded(run, run.signals[k].id)),
                                    run.index + 1, With(run, run.signals[k].id), k))
<1> DEFINE id == run.signals[k].id
           row == Once(Succeeded(run, id))
           context == With(run, id)
           new == ConsumeSignal(run, row, run.index + 1, context, k)
<1>1. k \in 1..Len(run.signals) /\ run.signals \in Seq(Signal)
  BY DEF Matching, Run
<1>2. id \in Nat
  <2>1. run.signals[k] \in Signal
    BY <1>1, ElementOfSeq
  <2> QED BY <2>1 DEF Signal
<1> HIDE DEF id
<1>3. /\ row \in Row /\ row.status = "succeeded" /\ row.index = run.index
      /\ row.output = id
  BY <1>2, RowsAndOutputs DEF Succeeded, Once
<1> HIDE DEF row, context
<1>4. Settled(run).signals = run.signals
  BY DEF Settled, Run
<1>5. /\ new.status = "running" /\ new.steps = run.steps
      /\ new.index = run.index + 1 /\ new.attempt = 0
      /\ new.context = context
      /\ new.rows = Append(run.rows, row)
      /\ new.signals = IF k \in 1..Len(run.signals)
                       THEN RemoveAt(run.signals, k) ELSE run.signals
  BY <1>4 DEF ConsumeSignal, Settled, Run
<1> HIDE DEF new
<1>6. Effect(run, new, row)
  BY <1>1, <1>3, <1>5 DEF Effect, context, id
<1>7. Stepped(run, new)
  BY <1>3, <1>5, <1>6 DEF Stepped, AtSomeStep
<1> QED BY <1>7 DEF new, row, context, id

LEMMA StepOfRun ==
  ASSUME NEW run \in Run, NEW i \in Nat, i < Len(run.steps)
  PROVE  run.steps[i + 1] \in Step
<1>1. run.steps \in Seq(Step) /\ Len(run.steps) \in Nat
  BY DefinitionsAssumption, EmptySeq DEF Run
<1>2. i + 1 \in 1..Len(run.steps)
  BY <1>1
<1> QED BY <1>1, <1>2, ElementOfSeq

LEMMA FailedStep ==
  ASSUME NEW run \in Run, run.status \in Active, run.index < Len(run.steps)
  PROVE  Fallen(run, IF run.attempt + 1 < CurrentStep(run).maxAttempts
                     THEN FailRetry(run, Failed(run), run.attempt + 1,
                                    "activity failed")
                     ELSE FailTerminal(run, Failed(run), "activity failed"))
<1> DEFINE row == Failed(run)
           retry == FailRetry(run, row, run.attempt + 1, "activity failed")
           final == FailTerminal(run, row, "activity failed")
<1>1. /\ row \in Row /\ row.status = "failed" /\ row.index = run.index
      /\ row.attempt = run.attempt /\ row.output = 0
  BY RowsAndOutputs DEF Failed
<1> HIDE DEF row
<1>2. /\ retry.status = "running" /\ retry.attempt = run.attempt + 1
      /\ retry.steps = run.steps /\ retry.index = run.index
      /\ retry.context = run.context /\ retry.signals = run.signals
      /\ retry.rows = Append(run.rows, row)
  BY DEF FailRetry, Settled, Run
<1>3. /\ final.status = "failed" /\ final.error = "activity failed"
      /\ final.steps = run.steps /\ final.index = run.index
      /\ final.context = run.context /\ final.signals = run.signals
      /\ final.rows = Append(run.rows, row)
  BY DEF FailTerminal, Settled, Run
<1>4. run.attempt \in Nat /\ CurrentStep(run).maxAttempts \in Nat
  <2>1. run.attempt \in Nat /\ run.index \in Nat
    BY DEF Run
  <2>2. CurrentStep(run) \in Step
    BY <2>1, StepOfRun DEF CurrentStep
  <2> QED BY <2>1, <2>2 DEF Step
<1> HIDE DEF retry, final
<1>5. run.attempt + 1 < CurrentStep(run).maxAttempts => Fallen(run, retry)
  BY <1>1, <1>2 DEF Fallen, AtSomeStep
<1>6. run.attempt + 1 >= CurrentStep(run).maxAttempts => Fallen(run, final)
  BY <1>1, <1>3 DEF Fallen, AtSomeStep
<1>7. CASE run.attempt + 1 < CurrentStep(run).maxAttempts
  BY <1>5, <1>7 DEF retry, row
<1>8. CASE ~(run.attempt + 1 < CurrentStep(run).maxAttempts)
  <2>1. run.attempt + 1 >= CurrentStep(run).maxAttempts
    BY <1>4, <1>8
  <2> QED BY <1>6, <1>8, <2>1 DEF final, row
<1> QED BY <1>7, <1>8

LEMMA DoomedStep ==
  ASSUME NEW run \in Run, run.status \in Active, run.index < Len(run.steps),
         NEW row \in Row, row.status = "failed", row.output = 0,
         NEW error \in Errors, error # "activity failed"
  PROVE  Fallen(run, FailTerminal(run, row, error))
<1> DEFINE new == FailTerminal(run, row, error)
<1>1. /\ new.status = "failed" /\ new.error = error
      /\ new.steps = run.steps /\ new.index = run.index
      /\ new.context = run.context /\ new.signals = run.signals
      /\ new.rows = Append(run.rows, row)
  BY DEF FailTerminal, Settled, Run
<1> HIDE DEF new
<1>2. Fallen(run, new)
  BY <1>1 DEF Fallen, AtSomeStep
<1> QED BY <1>2 DEF new

LEMMA ParkedStep ==
  ASSUME NEW run \in Run, run.status \in Active, NEW timed
  PROVE  Quiet(run, ParkWait(run, timed)) /\ Quiet(run, ReparkWait(run))
<1> DEFINE Waits(new) ==
             /\ new.status = "waiting" /\ new.steps = run.steps
             /\ new.index = run.index /\ new.attempt = run.attempt
             /\ new.rows = run.rows /\ new.context = run.context
             /\ new.signals = run.signals /\ new.error = run.error
<1>1. \A new : Waits(new) => Quiet(run, new)
  BY DEF Quiet, Same, Active
<1>2. Waits(ParkWait(run, timed))
  BY DEF ParkWait, Settled, Run
<1>3. Waits(ReparkWait(run))
  BY DEF ReparkWait, Settled, Run
<1> HIDE DEF Waits
<1> QED BY <1>1, <1>2, <1>3

---------------------------------------------------------------------------
(* What a step can make of the store. *)

QuietStep ==
  /\ accepted' = accepted
  /\ \A r \in RunIds : Quiet(runs[r], runs'[r])

OnlyRun(r) == \A q \in RunIds \ {r} : runs'[q] = runs[q] /\ accepted'[q] = accepted[q]

Created(r) ==
  /\ OnlyRun(r)
  /\ runs[r].status = "unborn"
  /\ \E steps \in Definitions : steps # <<>> /\ runs'[r] = NewRun(steps)
  /\ accepted'[r] = accepted[r]

Changed(r) ==
  /\ OnlyRun(r)
  /\ \/ /\ accepted'[r] = accepted[r]
        /\ Worked(runs[r], runs'[r]) \/ Stopped(runs[r], runs'[r])
     \/ /\ accepted'[r] = accepted[r] + 1
        /\ Received(runs[r], runs'[r], accepted[r] + 1)

Removed(S) ==
  /\ accepted' = accepted
  /\ runs' = [r \in RunIds |-> IF r \in S THEN NoRun("gone") ELSE runs[r]]
  /\ \A r \in S : Present(r)
  /\ (\A r \in S : runs[r].status \in Terminal) \/ (\A r \in RunIds \ S : ~Present(r))

StoreStep ==
  \/ QuietStep
  \/ \E r \in RunIds : Created(r) \/ Changed(r)
  \/ \E S \in SUBSET RunIds : Removed(S)

(* A conflict changes nothing; otherwise the commit is what it makes of    *)
(* the run.                                                                *)
LEMMA CommitIsWork ==
  ASSUME IInv, NEW r \in RunIds, NEW version, NEW committed,
         Commit(r, version, committed),
         Guard(r, version) => Worked(runs[r], committed)
  PROVE  Changed(r)
<1>1. /\ runs'[r] = IF Guard(r, version) THEN committed ELSE runs[r]
      /\ \A q \in RunIds \ {r} : runs'[q] = runs[q]
      /\ accepted' = accepted
  BY DEF Commit, IInv, TypeOK, TypeOKStore
<1>2. Quiet(runs[r], runs[r])
  BY DEF Quiet, Same
<1> QED BY <1>1, <1>2 DEF Changed, OnlyRun, Worked

LEMMA SameStore ==
  ASSUME UNCHANGED <<runs, accepted>>
  PROVE  QuietStep
BY DEF QuietStep, Quiet, Same

LEMMA RunStepIsWork ==
  ASSUME IInv, NEW t \in tasks, RunStep(t)
  PROVE  StoreStep
<1> DEFINE run == runs[t.run]
           view == t.view
           Current == /\ run \in Run /\ Sound(run) /\ run.status \in Active
                      /\ SameData(view, run)
<1>1. t.run \in RunIds
  BY DEF IInv, TypeOK, Task
<1>2. ASSUME Guard(t.run, view.version) PROVE Current
  <2>1. SameData(view, run) /\ view.status \in {"running", "waiting"}
    BY <1>2 DEF IInv, SnapshotsAreExact, TasksSound
  <2>2. run.status \in Active
    BY <2>1 DEF SameData, Active
  <2> QED BY <1>1, <2>1, <2>2, SoundRuns
<1>3. Current =>
        /\ CurrentStep(view) = CurrentStep(run)
        /\ Matching(view) = Matching(run)
        /\ \A payload : /\ Succeeded(view, payload) = Succeeded(run, payload)
                        /\ With(view, payload) = With(run, payload)
        /\ Failed(view) = Failed(run)
        /\ view.index = run.index /\ view.attempt = run.attempt
        /\ view.steps = run.steps /\ view.signals = run.signals
        /\ view.context = run.context
  BY SameOutcome
<1>4. t.phase = "invoking" =>
        view.index < Len(view.steps) /\ CurrentStep(view).type = "activity"
  BY DEF IInv, TasksSound, Total
<1>5. \A type : AtStep(t, type) =>
        view.index < Len(view.steps) /\ CurrentStep(view).type = type
  BY DEF AtStep, Total
<1> HIDE DEF run, view, Current
<1>6. ASSUME NEW committed, CommitView(t, committed), Current => Worked(run, committed)
      PROVE  StoreStep
  BY <1>1, <1>2, <1>6, CommitIsWork DEF CommitView, StoreStep, run, view
<1>7. ASSUME UNCHANGED storeVars PROVE StoreStep
  BY <1>7, SameStore DEF StoreStep, storeVars
<1>8. CASE CompleteRun(t)
  <2>1. CommitView(t, SucceedComplete(run, <<>>, view.context))
        /\ view.index >= Len(view.steps)
    BY <1>8 DEF CompleteRun, Total, run, view
  <2>2. Current => Worked(run, SucceedComplete(run, <<>>, view.context))
    BY <1>3, <2>1, CompletedTick DEF Current, Worked
  <2> QED BY <1>6, <2>1, <2>2
<1>9. CASE UnknownStep(t) \/ MissingFunction(t) \/ ContextOverflow(t) \/ WaitTimeout(t)
  BY <1>7, <1>9 DEF UnknownStep, MissingFunction, ContextOverflow, WaitTimeout,
                    TerminalFailure
<1>10. CASE InvokeActivity(t)
  BY <1>7, <1>10 DEF InvokeActivity
<1>11. CASE ActivitySuccess(t)
  <2> DEFINE new == IF view.index + 1 >= Len(view.steps)
                    THEN SucceedComplete(run, <<Succeeded(view, 0)>>, With(view, 0))
                    ELSE SucceedAdvance(run, Succeeded(view, 0), view.index + 1,
                                        With(view, 0))
  <2>1. t.phase = "invoking" /\ CommitView(t, new)
    BY <1>11 DEF ActivitySuccess, Total, run, view
  <2>2. Current => Stepped(run, new)
    BY <1>3, <1>4, <2>1, ActivityStep DEF Current
  <2> HIDE DEF new
  <2> QED BY <1>6, <2>1, <2>2 DEF Worked
<1>12. CASE ActivityFailure(t)
  <2> DEFINE new == IF view.attempt + 1 < CurrentStep(view).maxAttempts
                    THEN FailRetry(run, Failed(view), view.attempt + 1,
                                   "activity failed")
                    ELSE FailTerminal(run, Failed(view), "activity failed")
  <2>1. t.phase = "invoking" /\ CommitView(t, new)
    BY <1>12 DEF ActivityFailure, run, view
  <2>2. Current => Fallen(run, new)
    BY <1>3, <1>4, <2>1, FailedStep DEF Current
  <2> HIDE DEF new
  <2> QED BY <1>6, <2>1, <2>2 DEF Worked
<1>13. CASE RunSleep(t)
  <2> DEFINE new == EnterSleep(run, Once(Succeeded(view, 0)), view.index + 1)
  <2>1. AtStep(t, "sleep") /\ CommitView(t, new)
    BY <1>13 DEF RunSleep, run, view
  <2>2. Current => Stepped(run, new)
    BY <1>3, <1>5, <2>1, SleepStep DEF Current
  <2> HIDE DEF new
  <2> QED BY <1>6, <2>1, <2>2 DEF Worked
<1>14. CASE ConsumeFirstSignal(t)
  <2> DEFINE id(k) == view.signals[k].id
             new(k) == ConsumeSignal(run, Once(Succeeded(view, id(k))),
                                     view.index + 1, With(view, id(k)), k)
  <2>1. PICK k \in Matching(view) :
          (\A j \in Matching(view) : k <= j) /\ CommitView(t, new(k))
    BY <1>14 DEF ConsumeFirstSignal, run, view
  <2>2. AtStep(t, "waitSignal")
    BY <1>14 DEF ConsumeFirstSignal
  <2>3. Current => Stepped(run, new(k))
    BY <1>3, <1>5, <2>1, <2>2, WaitStep DEF Current
  <2> HIDE DEF new
  <2> QED BY <1>6, <2>1, <2>3 DEF Worked
<1>15. CASE Park(t)
  <2>1. CommitView(t, ParkWait(run, CurrentStep(view).timed))
    BY <1>15 DEF Park, run, view
  <2>2. Current => Quiet(run, ParkWait(run, CurrentStep(view).timed))
    BY ParkedStep DEF Current
  <2> QED BY <1>6, <2>1, <2>2 DEF Worked
<1>16. CASE Repark(t)
  <2>1. CommitView(t, ReparkWait(run))
    BY <1>16 DEF Repark, run, view
  <2>2. Current => Quiet(run, ReparkWait(run))
    BY ParkedStep DEF Current
  <2> QED BY <1>6, <2>1, <2>2 DEF Worked
<1> QED BY <1>8, <1>9, <1>10, <1>11, <1>12, <1>13, <1>14, <1>15, <1>16 DEF RunStep

LEMMA DetachedFailureIsWork ==
  ASSUME IInv, NEW d \in doomed, DetachedFailure(d)
  PROVE  StoreStep
<1> DEFINE run == runs[d.run]
           new == FailTerminal(run, d.row, d.error)
<1>1. /\ d.run \in RunIds /\ d.row \in Row /\ d.error \in Errors
      /\ d.row.status = "failed" /\ d.row.output = 0 /\ d.error # "activity failed"
  BY DEF IInv, TypeOK, Doom, DoomsSound
<1>2. ASSUME Guard(d.run, d.version) PROVE Worked(run, new)
  <2>1. run.status \in Active /\ run.index < Len(run.steps)
    BY <1>2 DEF IInv, DoomsSound
  <2>2. run \in Run
    BY <1>1, SoundRuns
  <2>3. Fallen(run, new)
    BY <1>1, <2>1, <2>2, DoomedStep
  <2> QED BY <2>3 DEF Worked
<1>3. Changed(d.run)
  BY <1>1, <1>2, CommitIsWork DEF DetachedFailure
<1> QED BY <1>1, <1>3 DEF StoreStep

LEMMA ClaimIsQuiet ==
  ASSUME IInv, ClaimAndDispatch
  PROVE  QuietStep
<1>1. PICK S \in SUBSET RunIds :
        ClaimDue(S, IF Free < ClaimBatch THEN Free ELSE ClaimBatch)
  BY DEF ClaimAndDispatch
<1>2. ASSUME NEW r \in RunIds PROVE Quiet(runs[r], runs'[r])
  <2>1. runs'[r] = IF r \in S THEN Claimed(runs[r]) ELSE runs[r]
    BY <1>1 DEF ClaimDue
  <2>2. Quiet(runs[r], runs[r])
    BY DEF Quiet, Same
  <2>3. ASSUME r \in S PROVE Quiet(runs[r], Claimed(runs[r]))
    <3> DEFINE old == runs[r]
               new == Claimed(old)
    <3>1. old \in Run
      BY SoundRuns
    <3>2. old.status \in Active
      BY <1>1, <2>3 DEF ClaimDue, DueRuns
    <3> HIDE DEF old
    <3>3. /\ new.status = IF old.status = "pending" THEN "running" ELSE old.status
          /\ new.steps = old.steps /\ new.index = old.index
          /\ new.attempt = old.attempt /\ new.rows = old.rows
          /\ new.context = old.context /\ new.signals = old.signals
          /\ new.error = old.error
      BY <3>1 DEF Claimed, Run
    <3> HIDE DEF new
    <3>4. Quiet(old, new)
      BY <3>2, <3>3 DEF Quiet, Same, Active
    <3> QED BY <3>4 DEF new, old
  <2> QED BY <2>1, <2>2, <2>3
<1> QED BY <1>1, <1>2 DEF QuietStep, ClaimDue

LEMMA RemovalOfRuns ==
  ASSUME IInv, CollectGarbage \/ CrashAndRestart
  PROVE  \E S \in SUBSET RunIds : Removed(S)
<1>1. CASE CollectGarbage
  <2>1. PICK S \in SUBSET RunIds : GcTerminal(S)
    BY <1>1 DEF CollectGarbage
  <2>2. Removed(S)
    BY <2>1 DEF GcTerminal, Removed, Present, Terminal, NoEntry
  <2> QED BY <2>2
<1>2. CASE CrashAndRestart
  <2> DEFINE S == {r \in RunIds : Present(r)}
  <2>1. /\ runs' = [r \in RunIds |-> IF r \in S THEN NoRun("gone") ELSE runs[r]]
        /\ accepted' = accepted
    BY <1>2 DEF CrashAndRestart, LoseMemory
  <2>2. Removed(S)
    BY <2>1 DEF Removed
  <2> QED BY <2>2
<1> QED BY <1>1, <1>2

LEMMA CallsAndTimeInStore ==
  ASSUME IInv, NEW r \in RunIds, ApiCall(r) \/ TimePasses(r)
  PROVE  StoreStep
<1> DEFINE run == runs[r]
<1>1. run \in Run /\ runs \in [RunIds -> Run] /\ accepted \in [RunIds -> Nat]
  BY SoundRuns DEF IInv, TypeOK, TypeOKStore
<1>2. \A new : runs' = [runs EXCEPT ![r] = new] =>
        runs'[r] = new /\ \A q \in RunIds \ {r} : runs'[q] = runs[q]
  BY <1>1
<1> HIDE DEF run
<1>3. ASSUME NEW new, runs' = [runs EXCEPT ![r] = new], accepted' = accepted,
             Quiet(run, new) \/ Stopped(run, new)
      PROVE  StoreStep
  BY <1>2, <1>3 DEF StoreStep, Changed, OnlyRun, Worked, run
<1>4. CASE StartRun(r)
  <2>1. PICK steps \in Definitions : CreateRun(r, steps)
    BY <1>4 DEF StartRun
  <2>2. Created(r)
    BY <1>2, <2>1 DEF CreateRun, Created, OnlyRun
  <2> QED BY <2>2 DEF StoreStep
<1>5. CASE SignalRun(r)
  <2>1. PICK name \in SignalNames : DeliverSignal(r, name)
    BY <1>5 DEF SignalRun
  <2> DEFINE signal == [name |-> name, id |-> accepted[r] + 1]
             new == Signalled(run, signal)
  <2>2. /\ runs' = [runs EXCEPT ![r] = new] /\ run.status \in Active
        /\ accepted' = [accepted EXCEPT ![r] = @ + 1]
    BY <2>1 DEF DeliverSignal, run
  <2>3. signal \in Signal /\ signal.id = accepted[r] + 1
    <3>1. accepted[r] + 1 \in Nat
      BY <1>1
    <3> QED BY <3>1 DEF Signal
  <2> HIDE DEF signal
  <2>4. /\ new.status = run.status /\ new.steps = run.steps
        /\ new.index = run.index /\ new.attempt = run.attempt
        /\ new.rows = run.rows /\ new.context = run.context
        /\ new.error = run.error /\ new.signals = Append(run.signals, signal)
    BY <1>1 DEF Signalled, Run
  <2> HIDE DEF new
  <2>5. Received(run, new, accepted[r] + 1)
    BY <2>2, <2>3, <2>4 DEF Received
  <2>6. Changed(r)
    BY <1>1, <1>2, <2>2, <2>5 DEF Changed, OnlyRun, run
  <2> QED BY <2>6 DEF StoreStep
<1>6. CASE Cancel(r)
  <2>1. /\ runs' = [runs EXCEPT ![r] = Canceled(run)] /\ accepted' = accepted
        /\ run.status \in Active
    BY <1>6 DEF Cancel, CancelRun, run
  <2>2. Stopped(run, Canceled(run))
    BY <1>1, <2>1 DEF Stopped, Same, Canceled, Run
  <2> QED BY <1>3, <2>1, <2>2
<1>7. CASE ClockTicks(r) \/ StoreLeaseLapses(r)
  <2>1. ASSUME TimerFires(r) PROVE StoreStep
    <3>1. Quiet(run, Awoken(run))
      BY <1>1 DEF Awoken, Quiet, Same, Run
    <3> QED BY <1>3, <2>1, <3>1 DEF TimerFires, run
  <2>2. ASSUME DeadlinePasses(r) PROVE StoreStep
    <3>1. Quiet(run, [run EXCEPT !.deadline = "passed"])
      BY <1>1 DEF Quiet, Same, Run
    <3> QED BY <1>3, <2>2, <3>1 DEF DeadlinePasses, Overdue, run
  <2>3. ASSUME LeaseLapses(r) PROVE StoreStep
    <3>1. Quiet(run, [run EXCEPT !.lease = "free"])
      BY <1>1 DEF Quiet, Same, Run
    <3> QED BY <1>3, <2>3, <3>1 DEF LeaseLapses, Lapsed, run
  <2> QED BY <1>7, <2>1, <2>2, <2>3 DEF ClockTicks, StoreLeaseLapses
<1>8. CASE LockExpires(r)
  BY <1>8, SameStore DEF LockExpires, StoreStep, storeVars
<1> QED BY <1>4, <1>5, <1>6, <1>7, <1>8 DEF ApiCall, TimePasses

(* Whatever step is taken, the store has made one of five kinds of move.   *)
LEMMA StoreSteps ==
  ASSUME IInv, [Next]_vars
  PROVE  StoreStep
<1>1. ASSUME NEW r \in RunIds, ApiCall(r) \/ TimePasses(r) PROVE StoreStep
  BY <1>1, CallsAndTimeInStore
<1>2. ASSUME NEW t \in tasks, LeaseStep(t) PROVE StoreStep
  <2>1. UNCHANGED <<runs, accepted>>
    BY <1>2 DEF LeaseStep, AcquireLease, LeaseRefused, LeaseUnavailable,
                RenewalLost, ReleaseLease, storeVars
  <2> QED BY <2>1, SameStore DEF StoreStep
<1>3. ASSUME NEW t \in tasks, RunStep(t) PROVE StoreStep
  BY <1>3, RunStepIsWork
<1>4. ASSUME NEW d \in doomed, DetachedFailure(d) PROVE StoreStep
  BY <1>4, DetachedFailureIsWork
<1>5. CASE ClaimAndDispatch
  BY <1>5, ClaimIsQuiet DEF StoreStep
<1>6. CASE CollectGarbage \/ CrashAndRestart
  BY <1>6, RemovalOfRuns DEF StoreStep
<1>7. CASE UNCHANGED vars
  BY <1>7, SameStore DEF StoreStep, vars
<1> QED BY <1>1, <1>2, <1>3, <1>4, <1>5, <1>6, <1>7 DEF Next
---------------------------------------------------------------------------
(* The steps done and the output they left. *)

LEMMA StepsDone ==
  ASSUME NEW run \in Run, Sound(run)
  PROVE  /\ CommittedSteps(run) \in Nat
         /\ run.index \in Nat /\ run.attempt \in Nat /\ Len(run.steps) \in Nat
         /\ run.index <= Len(run.steps)
         /\ run.rows \in Seq(Row) /\ run.signals \in Seq(Signal)
         /\ run.status \in Active => CommittedSteps(run) = run.index
BY DefinitionsAssumption, EmptySeq DEF Run, Sound, WellFormed, CommittedSteps, Active

(* Only steps, the number of those done and the context matter to it.      *)
LEMMA SameContextFits ==
  ASSUME NEW old, NEW new, ContextFits(old),
         new.steps = old.steps, new.context = old.context,
         Writers(new) = Writers(old)
  PROVE  ContextFits(new)
<1>1. \A i : NameOf(new, i) = NameOf(old, i)
  BY DEF NameOf
<1>2. LastWriters(new) = LastWriters(old)
  BY <1>1 DEF LastWriters
<1> QED BY <1>1, <1>2 DEF ContextFits

LEMMA SleepWritesNothing ==
  ASSUME NEW old, NEW new, NEW i \in Nat,
         CommittedSteps(old) = i, CommittedSteps(new) = i + 1,
         new.steps = old.steps, old.steps[i + 1].type = "sleep"
  PROVE  Writers(new) = Writers(old)
BY DEF Writers

(* An activity or a wait takes the place of the last writer of its name.   *)
LEMMA WriterReplaces ==
  ASSUME NEW old, NEW new, NEW i \in Nat, NEW payload,
         CommittedSteps(old) = i, CommittedSteps(new) = i + 1, old.index = i,
         new.steps = old.steps, new.context = With(old, payload),
         CurrentStep(old).type \in {"activity", "waitSignal"},
         ContextFits(old)
  PROVE  ContextFits(new)
<1> DEFINE name == NameOf(old, i)
           rest == {o \in old.context : o.name # name}
           entry == [name |-> name, index |-> i, payload |-> payload]
<1>1. new.context = rest \cup {entry} /\ old.steps[i + 1].type \in {"activity", "waitSignal"}
  BY DEF With, CurrentStep, NameOf
<1>2. \A j : NameOf(new, j) = NameOf(old, j)
  BY DEF NameOf
<1>3. Writers(new) = Writers(old) \cup {i} /\ i \notin Writers(old)
      /\ \A j \in Writers(old) : j \in Nat /\ j < i
  BY <1>1 DEF Writers
<1>4. LastWriters(new) = {j \in LastWriters(old) : NameOf(old, j) # name} \cup {i}
  BY <1>2, <1>3 DEF LastWriters
<1>5. /\ {o.index : o \in old.context} = LastWriters(old)
      /\ \A o \in old.context : o.name = NameOf(old, o.index)
      /\ \A o, p \in old.context : o.name = p.name => o = p
  BY DEF ContextFits
<1>6. entry.name = name /\ entry.index = i
  OBVIOUS
<1> HIDE DEF name, entry
<1>7. {o.index : o \in rest} = {j \in LastWriters(old) : NameOf(old, j) # name}
  BY <1>5
<1>8. {o.index : o \in new.context} = LastWriters(new)
  BY <1>1, <1>4, <1>6, <1>7
<1>9. \A o \in new.context : o.name = NameOf(new, o.index)
  BY <1>1, <1>2, <1>5, <1>6 DEF name
<1>10. \A o, p \in new.context : o.name = p.name => o = p
  BY <1>1, <1>5, <1>6
<1> QED BY <1>8, <1>9, <1>10 DEF ContextFits

---------------------------------------------------------------------------
(* The signals consumed, and those pending. *)

Consumption(row) == [index |-> row.index, payload |-> row.output]

LEMMA ConsumedAppended ==
  ASSUME NEW old, NEW new, old.rows \in Seq(Row), NEW row \in Row,
         new.rows = Append(old.rows, row)
  PROVE  Consumed(new) = Consumed(old) \cup
           (IF row.output # 0 THEN {Consumption(row)} ELSE {})
<1> DEFINE last == Len(old.rows) + 1
           all == new.rows
<1>1. /\ Len(all) = last /\ all[last] = row
      /\ \A k \in 1..Len(old.rows) : all[k] = old.rows[k]
  BY AppendProperties
<1>2. \A k \in 1..last : k \in 1..Len(old.rows) \/ k = last
  OBVIOUS
<1>3. \A k \in 1..Len(old.rows) : k \in 1..last
  OBVIOUS
<1>4. last \in 1..last
  OBVIOUS
<1> HIDE DEF last
<1>5. Consumed(new) \subseteq Consumed(old) \cup
        (IF row.output # 0 THEN {Consumption(row)} ELSE {})
  BY <1>1, <1>2 DEF Consumed, Consumption
<1>6. Consumed(old) \subseteq Consumed(new)
  BY <1>1, <1>3 DEF Consumed
<1>7. row.output # 0 => Consumption(row) \in Consumed(new)
  BY <1>1, <1>4 DEF Consumed, Consumption
<1> QED BY <1>5, <1>6, <1>7

(* What has been consumed was consumed by a step that is done. *)
LEMMA ConsumedBefore ==
  ASSUME NEW run \in Run, Sound(run), InArrivalOrder(run), NEW o \in Consumed(run)
  PROVE  /\ o.index \in Nat /\ o.payload \in Nat /\ o.payload # 0
         /\ o.index < CommittedSteps(run)
<1>1. PICK k \in 1..Len(run.rows) :
        /\ run.rows[k].output # 0
        /\ o = [index |-> run.rows[k].index, payload |-> run.rows[k].output]
  BY DEF Consumed
<1>2. run.rows[k] \in Row
  BY StepsDone, ElementOfSeq
<1>3. run.rows[k].status = "succeeded"
  BY <1>1 DEF InArrivalOrder
<1>4. run.rows[k].index < CommittedSteps(run)
  BY <1>3 DEF Sound, InOrder
<1> QED BY <1>1, <1>2, <1>4 DEF Row

LEMMA PendingAppended ==
  ASSUME NEW old, NEW new, old.signals \in Seq(Signal), NEW signal \in Signal,
         new.signals = Append(old.signals, signal)
  PROVE  PendingIds(new) = PendingIds(old) \cup {signal.id}
<1> DEFINE last == Len(old.signals) + 1
           all == new.signals
<1>1. /\ Len(all) = last /\ all[last] = signal
      /\ \A k \in 1..Len(old.signals) : all[k] = old.signals[k]
  BY AppendProperties
<1>2. \A k : k \in 1..last <=> k \in 1..Len(old.signals) \/ k = last
  OBVIOUS
<1> HIDE DEF last
<1> QED BY <1>1, <1>2 DEF PendingIds

(* Where the signal at i was before the one at k was taken. *)
Before(i, k) == IF i < k THEN i ELSE i + 1

Taken(old, new, k) ==
  /\ old.signals \in Seq(Signal) /\ InArrivalOrder(old)
  /\ k \in 1..Len(old.signals) /\ new.signals = RemoveAt(old.signals, k)

LEMMA PendingTaken ==
  ASSUME NEW old, NEW new, NEW k, Taken(old, new, k)
  PROVE  /\ PendingIds(new) = PendingIds(old) \ {old.signals[k].id}
         /\ new.signals \in Seq(Signal)
         /\ \A i \in 1..Len(new.signals) :
              /\ Before(i, k) \in 1..Len(old.signals) \ {k}
              /\ new.signals[i] = old.signals[Before(i, k)]
<1> DEFINE s == old.signals
           rest == new.signals
<1> USE DEF Taken
<1>1. /\ rest \in Seq(Signal)
      /\ Len(rest) = Len(s) - 1
      /\ \A i \in 1..Len(s) - 1 : rest[i] = IF i < k THEN s[i] ELSE s[i + 1]
  BY RemoveAtProperties
<1>2. \A i \in 1..Len(rest) : /\ Before(i, k) \in 1..Len(s) \ {k}
                              /\ rest[i] = s[Before(i, k)]
  BY <1>1 DEF Before
<1>3. \A j \in 1..Len(s) \ {k} : \E i \in 1..Len(rest) : rest[i] = s[j]
  <2> SUFFICES ASSUME NEW j \in 1..Len(s) \ {k}
               PROVE  \E i \in 1..Len(rest) : rest[i] = s[j]
    OBVIOUS
  <2>1. CASE j < k
    BY <1>1, <2>1
  <2>2. CASE j > k
    <3>1. j - 1 \in 1..Len(rest) /\ rest[j - 1] = s[j]
      BY <1>1, <2>2
    <3> QED BY <3>1
  <2> QED BY <2>1, <2>2
<1>4. \A j \in 1..Len(s) \ {k} : s[j].id # s[k].id
  <2>1. \A j \in 1..Len(s) : s[j].id \in Nat
    <3>1. \A j \in 1..Len(s) : s[j] \in Signal
      BY ElementOfSeq
    <3> QED BY <3>1 DEF Signal
  <2> QED BY <2>1 DEF InArrivalOrder
<1>5. PendingIds(new) \subseteq PendingIds(old) \ {s[k].id}
  BY <1>2, <1>4 DEF PendingIds
<1>6. PendingIds(old) \ {s[k].id} \subseteq PendingIds(new)
  BY <1>3 DEF PendingIds
<1> QED BY <1>1, <1>2, <1>5, <1>6

---------------------------------------------------------------------------
(* Every change of a run leaves its rows, its context and its signals      *)
(* adding up.                                                              *)

LEMMA KeptAddsUp ==
  ASSUME NEW old, NEW new, NEW number, AddsUp(old, number),
         new.steps = old.steps, new.index = old.index, new.rows = old.rows,
         new.context = old.context, new.signals = old.signals,
         CommittedSteps(new) = CommittedSteps(old),
         new.status \in Active => old.status \in Active /\ new.attempt = old.attempt,
         new.status = "failed" => old.status = "failed" /\ new.error = old.error
  PROVE  AddsUp(new, number)
<1>1. /\ CurrentStep(new) = CurrentStep(old) /\ Failures(new) = Failures(old)
      /\ PendingIds(new) = PendingIds(old) /\ Consumed(new) = Consumed(old)
      /\ Writers(new) = Writers(old)
      /\ \A i : WaitedFor(new, i) = WaitedFor(old, i)
  BY DEF CurrentStep, Failures, PendingIds, Consumed, Writers, WaitedFor
<1>2. AttemptLeft(new)
  BY <1>1 DEF AddsUp, AttemptLeft
<1>3. Retried(new)
  BY <1>1 DEF AddsUp, Retried
<1>4. ContextFits(new)
  BY <1>1, SameContextFits DEF AddsUp
<1>5. InArrivalOrder(new)
  BY DEF AddsUp, InArrivalOrder
<1>6. Accounted(new, number)
  BY <1>1 DEF AddsUp, Accounted, ConsumedIds
<1> QED BY <1>2, <1>3, <1>4, <1>5, <1>6 DEF AddsUp

(* A signal accepted is the latest to arrive. *)
LEMMA ReceivedAddsUp ==
  ASSUME NEW old \in Run, Sound(old), NEW new, NEW number \in Nat, AddsUp(old, number),
         Received(old, new, number + 1)
  PROVE  AddsUp(new, number + 1)
<1>1. PICK signal \in Signal :
        signal.id = number + 1 /\ new.signals = Append(old.signals, signal)
  BY DEF Received
<1>2. old.signals \in Seq(Signal)
  BY StepsDone
<1> DEFINE last == Len(old.signals) + 1
<1>3. /\ Len(new.signals) = last /\ new.signals[last] = signal
      /\ \A k \in 1..Len(old.signals) : new.signals[k] = old.signals[k]
      /\ \A k \in 1..last : k \in 1..Len(old.signals) \/ k = last
      /\ Len(old.signals) \in Nat
  BY <1>1, <1>2, AppendProperties, LenProperties
<1>4. /\ new.steps = old.steps /\ new.index = old.index /\ new.attempt = old.attempt
      /\ new.rows = old.rows /\ new.context = old.context /\ new.error = old.error
      /\ new.status = old.status /\ new.status \in Active
  BY DEF Received
<1>5. /\ CurrentStep(new) = CurrentStep(old) /\ Failures(new) = Failures(old)
      /\ Consumed(new) = Consumed(old)
      /\ CommittedSteps(new) = CommittedSteps(old)
      /\ \A i : WaitedFor(new, i) = WaitedFor(old, i)
  BY <1>4 DEF CurrentStep, Failures, Consumed, CommittedSteps, WaitedFor
<1>6. PendingIds(new) = PendingIds(old) \cup {number + 1}
  BY <1>1, <1>2, PendingAppended
<1>7. AttemptLeft(new) /\ Retried(new)
  BY <1>4, <1>5 DEF AddsUp, AttemptLeft, Retried
<1>8. ContextFits(new)
  BY <1>4, <1>5, SameContextFits DEF AddsUp, Writers
<1>9. /\ \A k \in 1..Len(old.signals) : old.signals[k].id \in 1..number
      /\ \A o \in Consumed(old) : o.payload \in 1..number
  BY DEF AddsUp, Accounted, PendingIds, ConsumedIds
<1> HIDE DEF last
<1>10. InArrivalOrder(new)
  <2>1. ASSUME NEW j \in 1..last, NEW k \in 1..last, j < k
        PROVE  new.signals[j].id < new.signals[k].id
    <3>1. j \in 1..Len(old.signals)
      BY <1>3, <2>1 DEF last
    <3>2. CASE k \in 1..Len(old.signals)
      BY <1>3, <2>1, <3>1, <3>2 DEF AddsUp, InArrivalOrder
    <3>3. CASE k = last
      <4>1. new.signals[j].id \in 1..number
        BY <1>3, <1>9, <3>1
      <4> QED BY <1>1, <1>3, <3>3, <4>1
    <3> QED BY <1>3, <3>2, <3>3
  <2> QED BY <1>3, <1>4, <2>1 DEF AddsUp, InArrivalOrder
<1>11. Accounted(new, number + 1)
  <2>1. PendingIds(new) \cup ConsumedIds(new) = 1..number + 1
    <3>1. PendingIds(old) \cup ConsumedIds(old) = 1..number
      BY DEF AddsUp, Accounted
    <3>2. (1..number) \cup {number + 1} = 1..number + 1
      OBVIOUS
    <3> QED BY <1>5, <1>6, <3>1, <3>2 DEF ConsumedIds
  <2>2. PendingIds(new) \cap ConsumedIds(new) = {}
    <3>1. number + 1 \notin ConsumedIds(new)
      BY <1>5, <1>9 DEF ConsumedIds
    <3> QED BY <1>5, <1>6, <3>1 DEF AddsUp, Accounted, ConsumedIds
  <2>3. ASSUME NEW o \in Consumed(new), NEW k \in 1..Len(new.signals),
               new.signals[k].name = WaitedFor(new, o.index)
        PROVE  o.payload < new.signals[k].id
    <3>1. CASE k \in 1..Len(old.signals)
      BY <1>3, <1>5, <2>3, <3>1 DEF AddsUp, Accounted
    <3>2. CASE k = last
      <4>1. o.payload \in 1..number
        BY <1>5, <1>9
      <4> QED BY <1>1, <1>3, <3>2, <4>1
    <3> QED BY <1>3, <3>1, <3>2
  <2> QED BY <1>4, <1>5, <2>1, <2>2, <2>3 DEF AddsUp, Accounted
<1> QED BY <1>7, <1>8, <1>10, <1>11 DEF AddsUp

(* A step that takes no signal leaves the account of signals as it was.    *)
LEMMA NoSignalTaken ==
  ASSUME NEW old, NEW new, NEW number, Accounted(old, number),
         new.steps = old.steps, new.signals = old.signals,
         Consumed(new) = Consumed(old),
         \A o \in new.context : o \in old.context \/ o.payload = 0
  PROVE  Accounted(new, number)
<1>1. /\ PendingIds(new) = PendingIds(old) /\ ConsumedIds(new) = ConsumedIds(old)
      /\ \A i : WaitedFor(new, i) = WaitedFor(old, i)
  BY DEF PendingIds, ConsumedIds, WaitedFor
<1> QED BY <1>1 DEF Accounted

(* A wait takes the first signal it waits for, which arrived after all     *)
(* that earlier waits for that name have taken and before all that are     *)
(* left to later ones.                                                     *)
LEMMA FirstSignalTaken ==
  ASSUME NEW old \in Run, Sound(old), NEW new, NEW number \in Nat,
         Accounted(old, number), InArrivalOrder(old),
         new.steps = old.steps, NEW k \in Matching(old),
         \A j \in Matching(old) : k <= j,
         CommittedSteps(old) = old.index,
         new.signals = RemoveAt(old.signals, k),
         new.context = With(old, old.signals[k].id),
         NEW row \in Row, row.index = old.index, row.output = old.signals[k].id,
         new.rows = Append(old.rows, row)
  PROVE  Accounted(new, number)
<1> DEFINE id == old.signals[k].id
           taken == [index |-> old.index, payload |-> id]
<1>1. /\ k \in 1..Len(old.signals) /\ old.signals[k].name = WaitedFor(old, old.index)
      /\ old.signals \in Seq(Signal) /\ old.rows \in Seq(Row)
  BY StepsDone DEF Matching, CurrentStep, WaitedFor
<1>2. id \in PendingIds(old) /\ id \in 1..number
  BY <1>1 DEF PendingIds, Accounted
<1>3. Consumed(new) = Consumed(old) \cup {taken}
  <2>1. row.output # 0 /\ Consumption(row) = taken
    BY <1>2 DEF Consumption
  <2> QED BY <1>1, <2>1, ConsumedAppended
<1>4. taken.index = old.index /\ taken.payload = id
  OBVIOUS
<1>5. \A i : WaitedFor(new, i) = WaitedFor(old, i)
  BY DEF WaitedFor
<1>6. \A o \in Consumed(old) : o.index < old.index
  BY ConsumedBefore
<1>7. /\ PendingIds(new) = PendingIds(old) \ {id}
      /\ \A i \in 1..Len(new.signals) :
           \E j \in 1..Len(old.signals) \ {k} : new.signals[i] = old.signals[j]
  <2>1. /\ PendingIds(new) = PendingIds(old) \ {old.signals[k].id}
        /\ \A i \in 1..Len(new.signals) :
             /\ Before(i, k) \in 1..Len(old.signals) \ {k}
             /\ new.signals[i] = old.signals[Before(i, k)]
    <3>1. Taken(old, new, k)
      BY <1>1 DEF Taken
    <3> QED BY <3>1, PendingTaken
  <2> QED BY <2>1
<1>8. old.index \in Nat /\ old.signals[k].name = WaitedFor(old, taken.index)
  BY <1>1, <1>4, StepsDone
<1> HIDE DEF taken
<1>9. ConsumedIds(new) = ConsumedIds(old) \cup {id}
  BY <1>3, <1>4 DEF ConsumedIds
<1>10. /\ PendingIds(new) \cup ConsumedIds(new) = 1..number
       /\ PendingIds(new) \cap ConsumedIds(new) = {}
  BY <1>2, <1>7, <1>9 DEF Accounted
<1>11. \A o \in new.context : o.payload # 0 =>
         [index |-> o.index, payload |-> o.payload] \in Consumed(new)
  BY <1>3 DEF With, Accounted, taken
<1>12. ASSUME NEW o \in Consumed(new), NEW p \in Consumed(new),
              o.index < p.index, WaitedFor(new, o.index) = WaitedFor(new, p.index)
       PROVE  o.payload < p.payload
  <2>1. CASE o \in Consumed(old) /\ p \in Consumed(old)
    BY <1>5, <1>12, <2>1 DEF Accounted
  <2>2. CASE o \in Consumed(old) /\ p = taken
    <3>1. old.signals[k].name = WaitedFor(old, o.index)
      BY <1>5, <1>8, <1>12, <2>2
    <3> QED BY <1>1, <1>4, <2>2, <3>1 DEF Accounted
  <2>3. CASE o = taken
    <3>1. ~(taken.index < p.index)
      <4>1. p = taken \/ (p \in Consumed(old) /\ p.index \in Nat /\ p.index < old.index)
        BY <1>3, ConsumedBefore
      <4> QED BY <1>4, <1>8, <4>1
    <3> QED BY <1>12, <2>3, <3>1
  <2> QED BY <1>3, <2>1, <2>2, <2>3
<1>13. ASSUME NEW o \in Consumed(new), NEW i \in 1..Len(new.signals),
              new.signals[i].name = WaitedFor(new, o.index)
       PROVE  o.payload < new.signals[i].id
  <2>1. PICK j \in 1..Len(old.signals) \ {k} : new.signals[i] = old.signals[j]
    BY <1>7
  <2>2. old.signals[j].name = WaitedFor(old, o.index)
    BY <1>5, <1>13, <2>1
  <2>3. CASE o \in Consumed(old)
    BY <2>1, <2>2, <2>3 DEF Accounted
  <2>4. CASE o = taken
    <3>1. j \in Matching(old)
      BY <1>4, <2>1, <2>2, <2>4 DEF Matching, CurrentStep, WaitedFor
    <3>2. k < j
      BY <1>1, <2>1, <3>1
    <3> QED BY <1>1, <1>4, <2>1, <2>4, <3>2 DEF InArrivalOrder
  <2> QED BY <1>3, <2>3, <2>4
<1> QED BY <1>10, <1>11, <1>12, <1>13 DEF Accounted

LEMMA SteppedAddsUp ==
  ASSUME NEW old \in Run, Sound(old), NEW new \in Run, NEW number \in Nat,
         AddsUp(old, number), Stepped(old, new)
  PROVE  AddsUp(new, number)
<1>1. PICK row \in Row : /\ row.status = "succeeded" /\ row.index = old.index
                         /\ new.rows = Append(old.rows, row)
                         /\ Effect(old, new, row)
  BY DEF Stepped
<1>2. /\ old.status \in Active /\ old.index < Len(old.steps)
      /\ new.steps = old.steps
      /\ \/ new.status = "running" /\ new.index = old.index + 1 /\ new.attempt = 0
         \/ /\ new.status = "completed"
            /\ new.index = old.index /\ old.index + 1 = Len(old.steps)
  BY DEF Stepped, AtSomeStep
<1>3. /\ old.index \in Nat /\ Len(old.steps) \in Nat
      /\ old.rows \in Seq(Row) /\ old.signals \in Seq(Signal)
      /\ CommittedSteps(old) = old.index
  BY <1>2, StepsDone
<1>4. CommittedSteps(new) = old.index + 1
  BY <1>2 DEF CommittedSteps
<1> DEFINE last == Len(old.rows) + 1
<1>5. /\ Len(new.rows) = last /\ new.rows[last] = row
      /\ \A k \in 1..Len(old.rows) : new.rows[k] = old.rows[k]
      /\ \A k \in 1..last : k \in 1..Len(old.rows) \/ k = last
  BY <1>1, <1>3, AppendProperties, LenProperties
<1>6. \A k \in 1..Len(old.rows) : old.rows[k] \in Row
  BY <1>3, ElementOfSeq
<1> HIDE DEF last
<1>7. ASSUME new.status \in Active
      PROVE  /\ \A k \in 1..Len(new.rows) : new.rows[k].index <= old.index
             /\ Failures(new) = {}
             /\ new.index = old.index + 1 /\ new.attempt = 0
  <2>1. new.index = old.index + 1 /\ new.attempt = 0
    BY <1>2, <1>7 DEF Active
  <2>2. \A k \in 1..Len(old.rows) : old.rows[k].index \in Nat /\ old.rows[k].index <= old.index
    BY <1>2, <1>6 DEF AddsUp, AttemptLeft, Row
  <2>3. \A k \in 1..Len(new.rows) :
          new.rows[k].index \in Nat /\ new.rows[k].index <= old.index
    BY <1>1, <1>3, <1>5, <2>2
  <2>4. Failures(new) = {}
    BY <1>3, <2>1, <2>3 DEF Failures
  <2> QED BY <2>1, <2>3, <2>4
<1>8. AttemptLeft(new)
  <2> SUFFICES ASSUME new.status \in Active PROVE AttemptLeft(new)
    BY DEF AttemptLeft
  <2>1. \A k \in 1..Len(new.rows) : new.rows[k].index <= new.index
    <3>1. \A k \in 1..Len(new.rows) : new.rows[k].index \in Nat
      BY <1>1, <1>5, <1>6 DEF Row
    <3> QED BY <1>3, <1>7, <3>1
  <2>2. ASSUME new.index < Len(new.steps)
        PROVE  new.attempt < CurrentStep(new).maxAttempts
    <3>1. new.index \in Nat
      BY DEF Run
    <3>2. CurrentStep(new) \in Step
      BY <2>2, <3>1, StepOfRun DEF CurrentStep
    <3>3. CurrentStep(new).maxAttempts \in Nat \ {0}
      BY <3>2 DEF Step
    <3> QED BY <1>7, <3>3
  <2> QED BY <1>7, <2>1, <2>2 DEF AttemptLeft
<1>9. Retried(new)
  BY <1>2, <1>7, FS_EmptySet DEF Retried, Active
<1>10. \A k \in 1..Len(new.rows) : new.rows[k].output # 0 => new.rows[k].status = "succeeded"
  BY <1>1, <1>5 DEF AddsUp, InArrivalOrder
<1>11. CASE CurrentStep(old).type # "waitSignal"
  <2>1. /\ row.output = 0 /\ new.signals = old.signals
        /\ \/ new.context = old.context /\ CurrentStep(old).type = "sleep"
           \/ new.context = With(old, 0) /\ CurrentStep(old).type = "activity"
    BY <1>1, <1>11 DEF Effect
  <2>2. InArrivalOrder(new)
    BY <1>10, <2>1 DEF AddsUp, InArrivalOrder
  <2>3. Consumed(new) = Consumed(old)
    <3>1. Consumed(new) = Consumed(old) \cup
            (IF row.output # 0 THEN {Consumption(row)} ELSE {})
      BY <1>1, <1>3, ConsumedAppended
    <3> QED BY <2>1, <3>1
  <2>4. \A o \in new.context : o \in old.context \/ o.payload = 0
    BY <2>1 DEF With
  <2>5. Accounted(new, number)
    BY <1>2, <2>1, <2>3, <2>4, NoSignalTaken DEF AddsUp
  <2>6. ContextFits(new)
    <3>1. CASE CurrentStep(old).type = "sleep"
      <4>1. Writers(new) = Writers(old)
        BY <1>2, <1>3, <1>4, <3>1, SleepWritesNothing DEF CurrentStep
      <4> QED BY <1>2, <2>1, <3>1, <4>1, SameContextFits DEF AddsUp
    <3>2. CASE CurrentStep(old).type = "activity"
      BY <1>2, <1>3, <1>4, <2>1, <3>2, WriterReplaces DEF AddsUp
    <3> QED BY <2>1, <3>1, <3>2
  <2> QED BY <1>8, <1>9, <2>2, <2>5, <2>6 DEF AddsUp
<1>12. CASE CurrentStep(old).type = "waitSignal"
  <2>1. PICK k \in Matching(old) :
          /\ \A j \in Matching(old) : k <= j
          /\ row.output = old.signals[k].id
          /\ new.context = With(old, old.signals[k].id)
          /\ new.signals = RemoveAt(old.signals, k)
    BY <1>1, <1>12 DEF Effect
  <2>2. k \in 1..Len(old.signals)
    BY DEF Matching
  <2>3. Accounted(new, number)
    BY <1>1, <1>2, <1>3, <2>1, FirstSignalTaken DEF AddsUp
  <2>4. ContextFits(new)
    BY <1>2, <1>3, <1>4, <1>12, <2>1, WriterReplaces DEF AddsUp
  <2>5. ASSUME NEW i \in 1..Len(new.signals), NEW j \in 1..Len(new.signals), i < j
        PROVE  new.signals[i].id < new.signals[j].id
    <3>1. \A m \in 1..Len(new.signals) :
            /\ Before(m, k) \in 1..Len(old.signals) \ {k}
            /\ new.signals[m] = old.signals[Before(m, k)]
      <4>1. Taken(old, new, k)
        BY <1>3, <2>1, <2>2 DEF AddsUp, Taken
      <4> QED BY <4>1, PendingTaken
    <3>2. Before(i, k) < Before(j, k)
      BY <2>2, <2>5 DEF Before
    <3> QED BY <3>1, <3>2 DEF AddsUp, InArrivalOrder
  <2>6. InArrivalOrder(new)
    BY <1>10, <2>5 DEF InArrivalOrder
  <2> QED BY <1>8, <1>9, <2>3, <2>4, <2>6 DEF AddsUp
<1> QED BY <1>11, <1>12

(* A failed attempt adds itself to the failures of the step. *)
LEMMA FallenAddsUp ==
  ASSUME NEW old \in Run, Sound(old), NEW new \in Run, NEW number \in Nat,
         AddsUp(old, number), Fallen(old, new)
  PROVE  AddsUp(new, number)
<1> DEFINE Final(row) == /\ row.index = old.index /\ row.attempt = old.attempt
                         /\ new.status = "failed" /\ new.error = "activity failed"
                         /\ old.attempt + 1 >= CurrentStep(old).maxAttempts
           Retry(row) == /\ row.index = old.index /\ row.attempt = old.attempt
                         /\ new.status = "running" /\ new.attempt = old.attempt + 1
                         /\ old.attempt + 1 < CurrentStep(old).maxAttempts
<1>1. PICK row \in Row :
        /\ row.status = "failed" /\ row.output = 0
        /\ new.rows = Append(old.rows, row)
        /\ \/ new.status = "failed" /\ new.error # "activity failed"
           \/ Final(row)
           \/ Retry(row)
  BY DEF Fallen
<1> HIDE DEF Final, Retry
<1>2. /\ old.status \in Active /\ old.index < Len(old.steps)
      /\ new.steps = old.steps /\ new.index = old.index
      /\ new.context = old.context /\ new.signals = old.signals
  BY DEF Fallen, AtSomeStep
<1>3. /\ old.index \in Nat /\ old.attempt \in Nat /\ Len(old.steps) \in Nat
      /\ old.rows \in Seq(Row) /\ Len(old.rows) \in Nat
      /\ CommittedSteps(old) = old.index
  BY <1>2, StepsDone, LenProperties
<1>4. CommittedSteps(new) = old.index /\ CurrentStep(new) = CurrentStep(old)
  BY <1>1, <1>2 DEF CommittedSteps, CurrentStep, Final, Retry
<1> DEFINE last == Len(old.rows) + 1
<1>5. /\ Len(new.rows) = last /\ new.rows[last] = row
      /\ \A k \in 1..Len(old.rows) : new.rows[k] = old.rows[k]
      /\ \A k : k \in 1..last <=> k \in 1..Len(old.rows) \/ k = last
      /\ last \notin 1..Len(old.rows)
      /\ \A k \in 1..last : k \in 1..Len(old.rows) \/ k = last
  <2>1. /\ Len(new.rows) = last /\ new.rows[last] = row
        /\ \A k \in 1..Len(old.rows) : new.rows[k] = old.rows[k]
    <3>1. new.rows = Append(old.rows, row) /\ old.rows \in Seq(Row)
      BY <1>1, <1>3
    <3> QED BY <3>1, AppendProperties
  <2>2. /\ \A k : k \in 1..last <=> k \in 1..Len(old.rows) \/ k = last
        /\ last \notin 1..Len(old.rows)
        /\ \A k \in 1..last : k \in 1..Len(old.rows) \/ k = last
    BY <1>3
  <2> QED BY <2>1, <2>2
<1>6. CurrentStep(old).maxAttempts \in Nat
  <2>1. CurrentStep(old) \in Step
    BY <1>2, <1>3, StepOfRun DEF CurrentStep
  <2> QED BY <2>1 DEF Step
<1> HIDE DEF last
<1>7. \A k \in 1..Len(old.rows) : old.rows[k].attempt \in Nat
  <2>1. \A k \in 1..Len(old.rows) : old.rows[k] \in Row
    BY <1>3, ElementOfSeq
  <2> QED BY <2>1 DEF Row
<1>8. /\ Cardinality(Failures(old)) = old.attempt
      /\ \A k \in Failures(old) :
           k \in 1..Len(old.rows) /\ old.rows[k].attempt < old.attempt
      /\ \A j, k \in Failures(old) : j # k => old.rows[j].attempt # old.rows[k].attempt
      /\ old.attempt < CurrentStep(old).maxAttempts
      /\ \A k \in 1..Len(old.rows) : old.rows[k].index <= old.index
  BY <1>2 DEF AddsUp, AttemptLeft, Retried, Failures
<1>9. ASSUME Final(row) \/ Retry(row)
      PROVE  /\ Failures(new) = Failures(old) \cup {last}
             /\ Cardinality(Failures(new)) = old.attempt + 1
             /\ \A k \in Failures(new) : new.rows[k].attempt < old.attempt + 1
             /\ \A j, k \in Failures(new) :
                  j # k => new.rows[j].attempt # new.rows[k].attempt
  <2>1. row.index = old.index /\ row.attempt = old.attempt
    BY <1>9 DEF Final, Retry
  <2>2. Failures(new) = Failures(old) \cup {last}
    BY <1>1, <1>2, <1>5, <2>1 DEF Failures
  <2>3. IsFiniteSet(Failures(old)) /\ last \notin Failures(old)
    <3>1. IsFiniteSet(1..Len(old.rows))
      <4>1. \A n \in Nat : IsFiniteSet(1..n)
        BY FS_Interval
      <4> QED BY <1>3, <4>1
    <3>2. Failures(old) \subseteq 1..Len(old.rows)
      BY DEF Failures
    <3> QED BY <1>5, <3>1, <3>2, FS_Subset
  <2>4. Cardinality(Failures(new)) = old.attempt + 1
    BY <1>8, <2>2, <2>3, FS_AddElement
  <2>5. /\ \A k \in Failures(old) : /\ new.rows[k].attempt = old.rows[k].attempt
                                    /\ old.rows[k].attempt \in Nat
                                    /\ old.rows[k].attempt < old.attempt
        /\ new.rows[last].attempt = old.attempt
    BY <1>5, <1>7, <1>8, <2>1
  <2>6. \A k \in Failures(new) : new.rows[k].attempt < old.attempt + 1
    BY <1>3, <2>2, <2>5
  <2>7. \A j, k \in Failures(new) : j # k => new.rows[j].attempt # new.rows[k].attempt
    BY <1>3, <1>8, <2>2, <2>5
  <2> QED BY <2>2, <2>4, <2>6, <2>7
<1>10. AttemptLeft(new)
  <2> SUFFICES ASSUME new.status \in Active PROVE AttemptLeft(new)
    BY DEF AttemptLeft
  <2>1. Retry(row)
    BY <1>1 DEF Active, Final
  <2>2. \A k \in 1..Len(new.rows) : new.rows[k].index <= new.index
    BY <1>2, <1>3, <1>5, <1>8, <2>1 DEF Retry
  <2> QED BY <1>4, <1>9, <2>1, <2>2 DEF AttemptLeft, Retry
<1>11. Retried(new)
  <2>1. CASE new.status = "failed" /\ new.error # "activity failed"
    BY <2>1 DEF Retried, Active
  <2>2. CASE Final(row)
    <3>1. CurrentStep(old).maxAttempts = old.attempt + 1
      <4>1. /\ old.attempt < CurrentStep(old).maxAttempts
            /\ old.attempt + 1 >= CurrentStep(old).maxAttempts
        BY <1>8, <2>2 DEF Final
      <4> HIDE DEF CurrentStep
      <4> QED BY <1>3, <1>6, <4>1
    <3> QED BY <1>4, <1>9, <2>2, <3>1 DEF Retried, Active, Final
  <2>3. CASE Retry(row)
    BY <1>4, <1>9, <2>3 DEF Retried, Active, Retry
  <2> QED BY <1>1, <2>1, <2>2, <2>3
<1>12. ContextFits(new)
  BY <1>2, <1>3, <1>4, SameContextFits DEF AddsUp, Writers
<1>13. InArrivalOrder(new)
  <2>1. \A k \in 1..Len(new.rows) : new.rows[k].output # 0 => new.rows[k].status = "succeeded"
    <3>1. \A k \in 1..Len(old.rows) : old.rows[k].output # 0 => old.rows[k].status = "succeeded"
      BY DEF AddsUp, InArrivalOrder
    <3> QED BY <1>1, <1>5, <3>1
  <2> QED BY <1>2, <2>1 DEF AddsUp, InArrivalOrder
<1>14. Accounted(new, number)
  <2>1. Consumed(new) = Consumed(old) \cup
          (IF row.output # 0 THEN {Consumption(row)} ELSE {})
    BY <1>1, <1>3, ConsumedAppended
  <2>2. Consumed(new) = Consumed(old)
    BY <1>1, <2>1
  <2> QED BY <1>2, <2>2, NoSignalTaken DEF AddsUp
<1> QED BY <1>10, <1>11, <1>12, <1>13, <1>14 DEF AddsUp

LEMMA NewRunAddsUp ==
  ASSUME NEW steps \in Definitions, steps # <<>>
  PROVE  AddsUp(NewRun(steps), 0)
<1> DEFINE run == NewRun(steps)
<1>1. /\ run.status = "pending" /\ run.steps = steps /\ run.index = 0
      /\ run.attempt = 0 /\ run.signals = <<>> /\ run.rows = <<>>
      /\ run.context = {} /\ run.error = "none"
  BY DEF NewRun
<1>2. steps \in Seq(Step) /\ Len(steps) \in Nat
  BY DefinitionsAssumption, LenProperties
<1> HIDE DEF run
<1>3. /\ Failures(run) = {} /\ PendingIds(run) = {} /\ Consumed(run) = {}
      /\ Writers(run) = {} /\ 1..Len(run.rows) = {}
  BY <1>1 DEF Failures, PendingIds, Consumed, Writers, CommittedSteps
<1>4. run.index < Len(run.steps) => CurrentStep(run).maxAttempts \in Nat \ {0}
  <2>1. ASSUME 0 < Len(steps) PROVE steps[1] \in Step
    BY <1>2, <2>1, ElementOfSeq
  <2> QED BY <1>1, <2>1 DEF CurrentStep, Step
<1>5. AttemptLeft(run)
  BY <1>1, <1>3, <1>4 DEF AttemptLeft
<1>6. Retried(run)
  BY <1>1, <1>3, FS_EmptySet DEF Retried, Active
<1>7. ContextFits(run)
  BY <1>1, <1>3 DEF ContextFits, LastWriters
<1>8. InArrivalOrder(run)
  BY <1>1 DEF InArrivalOrder
<1>9. Accounted(run, 0)
  BY <1>1, <1>3 DEF Accounted, ConsumedIds
<1> QED BY <1>5, <1>6, <1>7, <1>8, <1>9 DEF AddsUp, run

LEMMA WorkedAddsUp ==
  ASSUME NEW old \in Run, Sound(old), NEW new \in Run, NEW number \in Nat,
         AddsUp(old, number), Worked(old, new) \/ Stopped(old, new)
  PROVE  AddsUp(new, number)
<1>1. /\ CommittedSteps(old) = IF old.status = "completed" THEN Len(old.steps) ELSE old.index
      /\ CommittedSteps(new) = IF new.status = "completed" THEN Len(new.steps) ELSE new.index
  BY DEF CommittedSteps
<1>2. CASE Quiet(old, new) \/ Stopped(old, new)
  BY <1>1, <1>2, KeptAddsUp DEF Quiet, Stopped, Same, Active
<1>3. CASE Finished(old, new)
  BY <1>1, <1>3, KeptAddsUp DEF Finished, Active
<1>4. CASE Stepped(old, new)
  BY <1>4, SteppedAddsUp
<1>5. CASE Fallen(old, new)
  BY <1>5, FallenAddsUp
<1> QED BY <1>2, <1>3, <1>4, <1>5 DEF Worked

---------------------------------------------------------------------------
(* The second layer of the invariant. *)

LEMMA HistoryInit == Init => HistoryInv
<1> SUFFICES ASSUME Init PROVE HistoryInv
  OBVIOUS
<1>1. \A r \in RunIds : /\ runs[r].status = "unborn" /\ accepted[r] = 0
                        /\ runs[r].index = 0 /\ runs[r].signals = <<>>
  BY DEF Init, InitStore, NoRun, NewRun
<1> QED BY <1>1 DEF HistoryInv, Present, NoEntry

LEMMA HistoryStep == IInv /\ HistoryInv /\ [Next]_vars => HistoryInv'
<1> SUFFICES ASSUME IInv, HistoryInv, [Next]_vars PROVE HistoryInv'
  OBVIOUS
<1> DEFINE Kept(r) ==
      /\ runs'[r].status = "unborn" =>
           runs'[r].index = 0 /\ runs'[r].signals = <<>> /\ accepted'[r] = 0
      /\ runs'[r].status \notin NoEntry => AddsUp(runs'[r], accepted'[r])
<1>1. StoreStep
  BY StoreSteps
<1>2. \A r \in RunIds : /\ runs[r] \in Run /\ Sound(runs[r]) /\ accepted[r] \in Nat
                        /\ runs'[r] \in Run
  <2>1. IInv'
    BY StaysSound
  <2>2. runs' \in [RunIds -> Run]
    BY <2>1 DEF IInv, TypeOK, TypeOKStore
  <2> QED BY <2>2, SoundRuns DEF IInv, TypeOK, TypeOKStore
<1>3. \A r \in RunIds :
        /\ runs[r].status = "unborn" =>
             runs[r].index = 0 /\ runs[r].signals = <<>> /\ accepted[r] = 0
        /\ runs[r].status \notin NoEntry => AddsUp(runs[r], accepted[r])
  BY DEF HistoryInv, Present
<1>4. \A r \in RunIds : runs'[r] = runs[r] /\ accepted'[r] = accepted[r] => Kept(r)
  BY <1>3
<1>5. ASSUME QuietStep, NEW r \in RunIds PROVE Kept(r)
  <2>1. Quiet(runs[r], runs'[r]) /\ accepted'[r] = accepted[r]
    BY <1>5 DEF QuietStep
  <2>2. runs'[r].status = "unborn" =>
          /\ runs[r].status = "unborn"
          /\ runs'[r].index = runs[r].index /\ runs'[r].signals = runs[r].signals
    BY <2>1 DEF Quiet, Same, Active
  <2>3. runs'[r].status \notin NoEntry => runs[r].status \notin NoEntry
    BY <2>1 DEF Quiet, Active, NoEntry
  <2> QED BY <1>2, <1>3, <2>1, <2>2, <2>3, WorkedAddsUp DEF Worked
<1>6. ASSUME NEW q \in RunIds, Created(q), NEW r \in RunIds PROVE Kept(r)
  <2>1. CASE r = q
    <3>1. PICK steps \in Definitions : steps # <<>> /\ runs'[q] = NewRun(steps)
      BY <1>6 DEF Created
    <3>2. accepted'[q] = 0 /\ runs'[q].status = "pending"
      BY <1>3, <1>6, <3>1 DEF Created, NewRun
    <3> QED BY <2>1, <3>1, <3>2, NewRunAddsUp
  <2>2. CASE r # q
    BY <1>4, <1>6, <2>2 DEF Created, OnlyRun
  <2> QED BY <2>1, <2>2
<1>7. ASSUME NEW q \in RunIds, Changed(q), NEW r \in RunIds PROVE Kept(r)
  <2>1. CASE r # q
    BY <1>4, <1>7, <2>1 DEF Changed, OnlyRun
  <2>2. ASSUME accepted'[q] = accepted[q],
               Worked(runs[q], runs'[q]) \/ Stopped(runs[q], runs'[q])
        PROVE  Kept(q)
    <3>1. runs'[q].status = "unborn" =>
            /\ runs[q].status = "unborn"
            /\ runs'[q].index = runs[q].index /\ runs'[q].signals = runs[q].signals
      BY <2>2 DEF Worked, Stopped, Quiet, Same, Finished, Stepped, Fallen, Active
    <3>2. runs'[q].status \notin NoEntry => runs[q].status \notin NoEntry
      BY <2>2 DEF Worked, Stopped, Quiet, Finished, Stepped, Fallen, AtSomeStep,
                  Active, NoEntry
    <3> QED BY <1>2, <1>3, <2>2, <3>1, <3>2, WorkedAddsUp
  <2>3. ASSUME accepted'[q] = accepted[q] + 1,
               Received(runs[q], runs'[q], accepted[q] + 1)
        PROVE  Kept(q)
    <3>1. runs[q].status \in Active /\ runs'[q].status = runs[q].status
      BY <2>3 DEF Received
    <3>2. runs[q].status \notin NoEntry /\ runs'[q].status # "unborn"
      BY <3>1 DEF Active, NoEntry
    <3> QED BY <1>2, <1>3, <2>3, <3>2, ReceivedAddsUp
  <2> QED BY <1>7, <2>1, <2>2, <2>3 DEF Changed
<1>8. ASSUME NEW S \in SUBSET RunIds, Removed(S), NEW r \in RunIds PROVE Kept(r)
  <2>1. CASE r \in S
    <3>1. runs'[r] = NoRun("gone")
      BY <1>8, <2>1 DEF Removed
    <3>2. runs'[r].status = "gone"
      BY <3>1 DEF NoRun, NewRun
    <3> QED BY <3>2 DEF NoEntry
  <2>2. CASE r \notin S
    BY <1>4, <1>8, <2>2 DEF Removed
  <2> QED BY <2>1, <2>2
<1>9. \A r \in RunIds : Kept(r)
  BY <1>1, <1>5, <1>6, <1>7, <1>8 DEF StoreStep
<1>10. HistoryInv' <=> \A r \in RunIds : Kept(r)
  BY DEF HistoryInv, Present, AddsUp, AttemptLeft, Retried, ContextFits,
         InArrivalOrder, Accounted
<1> QED BY <1>9, <1>10

LEMMA HistoryInvariant == Spec => [](IInv /\ HistoryInv)
<1>1. Init => IInv /\ HistoryInv
  BY InitiallySound, HistoryInit
<1>2. (IInv /\ HistoryInv) /\ [Next]_vars => (IInv /\ HistoryInv)'
  BY StaysSound, HistoryStep
<1> QED BY <1>1, <1>2, PTL DEF Spec

---------------------------------------------------------------------------

(* What a run's rows, context and signals add up to in every reachable      *)
(* state: the part of the invariant that a stale write, a retry counted     *)
(* twice or a signal removed at the wrong position would break.             *)
THEOREM HistoryStaysSound == Spec => []HistoryInv
BY HistoryInvariant, PTL

(* Retries are counted once: no lapsed lease, conflict or crash of a task   *)
(* makes an activity fail its run before, or run after, its last attempt.   *)
THEOREM RetriesStayHonoured == Spec => []RetriesAreHonoured
<1>1. HistoryInv => RetriesAreHonoured
  BY DEF HistoryInv, RetriesAreHonoured, AddsUp
<1> QED BY <1>1, HistoryInvariant, PTL

(* The context written back whole from a view never loses an output: it     *)
(* holds, under every name, what the last step of that name left there.     *)
THEOREM ContextStaysTrue == Spec => []ContextMatchesSteps
<1>1. HistoryInv => ContextMatchesSteps
  BY DEF HistoryInv, ContextMatchesSteps, AddsUp
<1> QED BY <1>1, HistoryInvariant, PTL

(* A signal the API accepted is pending or consumed by exactly one step,    *)
(* and waits for a name take its signals in the order of their arrival.     *)
THEOREM SignalsStayAccounted == Spec => []SignalsAccounted
<1>1. HistoryInv => SignalsAccounted
  BY DEF HistoryInv, SignalsAccounted, AddsUp
<1> QED BY <1>1, HistoryInvariant, PTL

---------------------------------------------------------------------------
(* The engine implements RunLifecycle. *)

(* A step of the store that touches one run changes the abstract state at  *)
(* that run only.                                                          *)
LEMMA OneRunSeen ==
  ASSUME NEW r \in RunIds, OnlyRun(r)
  PROVE  /\ phaseSeen' = [phaseSeen EXCEPT ![r] = PhaseOf(runs'[r])]
         /\ lengthSeen' = [lengthSeen EXCEPT ![r] = Len(runs'[r].steps)]
         /\ doneSeen' = [doneSeen EXCEPT ![r] = CommittedSteps(runs'[r])]
         /\ inboxSeen' = [inboxSeen EXCEPT ![r] = PendingIds(runs'[r])]
<1>1. \A q \in RunIds \ {r} : runs'[q] = runs[q]
  BY DEF OnlyRun
<1>2. /\ phaseSeen' = [q \in RunIds |-> PhaseOf(runs'[q])]
      /\ lengthSeen' = [q \in RunIds |-> Len(runs'[q].steps)]
      /\ doneSeen' = [q \in RunIds |-> CommittedSteps(runs'[q])]
      /\ inboxSeen' = [q \in RunIds |-> PendingIds(runs'[q])]
  BY DEF phaseSeen, lengthSeen, doneSeen, inboxSeen, PhaseOf, CommittedSteps, PendingIds
<1> QED BY <1>1, <1>2 DEF phaseSeen, lengthSeen, doneSeen, inboxSeen

Unseen == UNCHANGED <<phaseSeen, lengthSeen, doneSeen, inboxSeen>>

LEMMA RunsAsSeen ==
  ASSUME NEW r \in RunIds
  PROVE  /\ phaseSeen[r] = PhaseOf(runs[r]) /\ lengthSeen[r] = Len(runs[r].steps)
         /\ doneSeen[r] = CommittedSteps(runs[r]) /\ inboxSeen[r] = PendingIds(runs[r])
         /\ phaseSeen = [phaseSeen EXCEPT ![r] = PhaseOf(runs[r])]
         /\ lengthSeen = [lengthSeen EXCEPT ![r] = Len(runs[r].steps)]
         /\ doneSeen = [doneSeen EXCEPT ![r] = CommittedSteps(runs[r])]
         /\ inboxSeen = [inboxSeen EXCEPT ![r] = PendingIds(runs[r])]
BY DEF phaseSeen, lengthSeen, doneSeen, inboxSeen

(* The actions of RunLifecycle, of the abstract state. *)
Lifecycles ==
  \/ \E r \in RunIds :
       \/ Lifecycle!Start(r) \/ Lifecycle!Accept(r) \/ Lifecycle!Advance(r)
       \/ Lifecycle!Finish(r) \/ Lifecycle!Fail(r) \/ Lifecycle!Stop(r)
  \/ \E S \in SUBSET RunIds : Lifecycle!Vanish(S)

LEMMA CreatedStarts ==
  ASSUME HistoryInv, NEW r \in RunIds, Created(r)
  PROVE  Lifecycle!Start(r)
<1>1. PICK steps \in Definitions : steps # <<>> /\ runs'[r] = NewRun(steps)
  BY DEF Created
<1>2. /\ runs[r].status = "unborn" /\ runs[r].index = 0 /\ runs[r].signals = <<>>
  BY DEF Created, HistoryInv
<1>3. Len(steps) \in Nat \ {0}
  <2>1. steps \in Seq(Step)
    BY DefinitionsAssumption
  <2> QED BY <1>1, <2>1, EmptySeq, LenProperties
<1>4. /\ PhaseOf(runs[r]) = "unborn" /\ PhaseOf(runs'[r]) = "active"
      /\ Len(runs'[r].steps) = Len(steps)
      /\ CommittedSteps(runs'[r]) = CommittedSteps(runs[r])
      /\ PendingIds(runs'[r]) = PendingIds(runs[r])
  BY <1>1, <1>2 DEF PhaseOf, Active, NewRun, CommittedSteps, PendingIds
<1>5. OnlyRun(r)
  BY DEF Created
<1>6. /\ phaseSeen[r] = "unborn" /\ phaseSeen' = [phaseSeen EXCEPT ![r] = "active"]
      /\ lengthSeen' = [lengthSeen EXCEPT ![r] = Len(steps)]
      /\ doneSeen' = doneSeen /\ inboxSeen' = inboxSeen
  BY <1>4, <1>5, OneRunSeen, RunsAsSeen
<1>7. lengthSeen'[r] = Len(steps)
  BY <1>6 DEF lengthSeen
<1> QED BY <1>3, <1>6, <1>7 DEF Lifecycle!Start

LEMMA ReceivedAccepts ==
  ASSUME NEW r \in RunIds, OnlyRun(r), runs[r] \in Run, Sound(runs[r]),
         NEW number \in Nat, AddsUp(runs[r], number),
         Received(runs[r], runs'[r], number + 1)
  PROVE  Lifecycle!Accept(r)
<1> DEFINE old == runs[r]
           new == runs'[r]
<1>1. PICK signal \in Signal :
        signal.id = number + 1 /\ new.signals = Append(old.signals, signal)
  BY DEF Received
<1>2. old.status \in Active /\ new.status = old.status
      /\ new.steps = old.steps /\ new.index = old.index
  BY DEF Received
<1>3. PendingIds(new) = PendingIds(old) \cup {number + 1}
  <2>1. old.signals \in Seq(Signal)
    BY StepsDone
  <2> HIDE DEF old, new
  <2>2. PendingIds(new) = PendingIds(old) \cup {signal.id}
    BY <1>1, <2>1, PendingAppended
  <2> QED BY <1>1, <2>2
<1>4. number + 1 \notin PendingIds(old)
  <2>1. PendingIds(old) \subseteq 1..number
    BY DEF AddsUp, Accounted
  <2> QED BY <2>1
<1>5. /\ PhaseOf(old) = "active" /\ PhaseOf(new) = "active"
      /\ CommittedSteps(new) = CommittedSteps(old)
  BY <1>2 DEF PhaseOf, CommittedSteps
<1>6. /\ phaseSeen[r] = "active" /\ phaseSeen' = phaseSeen
      /\ lengthSeen' = lengthSeen /\ doneSeen' = doneSeen
      /\ inboxSeen' = [inboxSeen EXCEPT ![r] = PendingIds(new)]
      /\ inboxSeen[r] = PendingIds(old)
  BY <1>2, <1>5, OneRunSeen, RunsAsSeen
<1>7. inboxSeen'[r] = PendingIds(new)
  BY DEF inboxSeen, PendingIds
<1> HIDE DEF old, new
<1>8. /\ number + 1 \in inboxSeen'[r] \ inboxSeen[r]
      /\ inboxSeen' = [inboxSeen EXCEPT ![r] = @ \cup {number + 1}]
  BY <1>3, <1>4, <1>6, <1>7
<1> QED BY <1>6, <1>8 DEF Lifecycle!Accept

LEMMA SteppedAdvances ==
  ASSUME NEW r \in RunIds, OnlyRun(r), runs[r] \in Run, Sound(runs[r]),
         NEW number, AddsUp(runs[r], number), Stepped(runs[r], runs'[r])
  PROVE  Lifecycle!Advance(r)
<1> DEFINE old == runs[r]
           new == runs'[r]
<1>1. /\ old.status \in Active /\ old.index < Len(old.steps)
      /\ new.steps = old.steps
      /\ \/ new.status = "running" /\ new.index = old.index + 1
         \/ /\ new.status = "completed"
            /\ old.index + 1 = Len(old.steps)
  BY DEF Stepped, AtSomeStep
<1>2. CommittedSteps(old) = old.index
  BY <1>1, StepsDone
<1>3. CommittedSteps(new) = old.index + 1
  BY <1>1 DEF CommittedSteps
<1>4. PendingIds(new) = PendingIds(old)
      \/ \E id \in PendingIds(old) : PendingIds(new) = PendingIds(old) \ {id}
  <2>1. PICK row \in Row : Effect(old, new, row)
    BY DEF Stepped
  <2>2. CASE new.signals = old.signals
    BY <2>2 DEF PendingIds
  <2>3. CASE \E k \in Matching(old) : new.signals = RemoveAt(old.signals, k)
    <3>1. PICK k \in Matching(old) : new.signals = RemoveAt(old.signals, k)
      BY <2>3
    <3>2. Taken(old, new, k)
      BY <3>1, StepsDone DEF Taken, Matching, AddsUp
    <3>3. old.signals[k].id \in PendingIds(old)
      BY DEF Matching, PendingIds
    <3> QED BY <3>2, <3>3, PendingTaken
  <2> QED BY <2>1, <2>2, <2>3 DEF Effect
<1>5. /\ PhaseOf(old) = "active"
      /\ PhaseOf(new) \in {"active", "completed"}
      /\ PhaseOf(new) = "completed" => old.index + 1 = Len(old.steps)
  BY <1>1 DEF PhaseOf, Active
<1>6. /\ phaseSeen[r] = "active" /\ phaseSeen' = [phaseSeen EXCEPT ![r] = PhaseOf(new)]
      /\ phaseSeen = [phaseSeen EXCEPT ![r] = "active"]
      /\ lengthSeen[r] = Len(old.steps) /\ lengthSeen' = lengthSeen
      /\ doneSeen[r] = old.index
      /\ doneSeen' = [doneSeen EXCEPT ![r] = old.index + 1]
      /\ inboxSeen[r] = PendingIds(old)
      /\ inboxSeen' = [inboxSeen EXCEPT ![r] = PendingIds(new)]
      /\ inboxSeen = [inboxSeen EXCEPT ![r] = PendingIds(old)]
  <2>1. /\ phaseSeen' = [phaseSeen EXCEPT ![r] = PhaseOf(new)]
        /\ lengthSeen' = [lengthSeen EXCEPT ![r] = Len(new.steps)]
        /\ doneSeen' = [doneSeen EXCEPT ![r] = CommittedSteps(new)]
        /\ inboxSeen' = [inboxSeen EXCEPT ![r] = PendingIds(new)]
    BY OneRunSeen
  <2>2. /\ phaseSeen[r] = PhaseOf(old) /\ lengthSeen[r] = Len(old.steps)
        /\ doneSeen[r] = CommittedSteps(old) /\ inboxSeen[r] = PendingIds(old)
        /\ phaseSeen = [phaseSeen EXCEPT ![r] = PhaseOf(old)]
        /\ lengthSeen = [lengthSeen EXCEPT ![r] = Len(old.steps)]
        /\ inboxSeen = [inboxSeen EXCEPT ![r] = PendingIds(old)]
    BY RunsAsSeen
  <2> HIDE DEF old, new
  <2> QED BY <1>1, <1>2, <1>3, <1>5, <2>1, <2>2
<1> HIDE DEF old, new
<1>7. /\ doneSeen[r] < lengthSeen[r]
      /\ doneSeen' = [doneSeen EXCEPT ![r] = @ + 1]
  BY <1>1, <1>6
<1>8. \/ UNCHANGED inboxSeen
      \/ \E id \in inboxSeen[r] : inboxSeen' = [inboxSeen EXCEPT ![r] = @ \ {id}]
  BY <1>4, <1>6
<1>9. \/ UNCHANGED phaseSeen
      \/ /\ doneSeen[r] + 1 = lengthSeen[r]
         /\ phaseSeen' = [phaseSeen EXCEPT ![r] = "completed"]
  BY <1>5, <1>6
<1> QED BY <1>6, <1>7, <1>8, <1>9 DEF Lifecycle!Advance

LEMMA EndsAsSeen ==
  ASSUME NEW r \in RunIds, OnlyRun(r), runs[r] \in Run, Sound(runs[r])
  PROVE  /\ Finished(runs[r], runs'[r]) => Lifecycle!Finish(r)
         /\ Stopped(runs[r], runs'[r]) => Lifecycle!Stop(r)
         /\ Fallen(runs[r], runs'[r]) => Lifecycle!Fail(r) \/ Unseen
         /\ Quiet(runs[r], runs'[r]) => Unseen
<1> DEFINE old == runs[r]
           new == runs'[r]
           Kept == /\ new.steps = old.steps /\ new.signals = old.signals
                   /\ CommittedSteps(new) = CommittedSteps(old)
<1>1. /\ CommittedSteps(old) = IF old.status = "completed" THEN Len(old.steps) ELSE old.index
      /\ CommittedSteps(new) = IF new.status = "completed" THEN Len(new.steps) ELSE new.index
      /\ PhaseOf(old) = IF old.status \in Active THEN "active" ELSE old.status
      /\ PhaseOf(new) = IF new.status \in Active THEN "active" ELSE new.status
  BY DEF CommittedSteps, PhaseOf
<1>2. ASSUME Kept
      PROVE  /\ lengthSeen' = lengthSeen /\ doneSeen' = doneSeen /\ inboxSeen' = inboxSeen
             /\ phaseSeen' = [phaseSeen EXCEPT ![r] = PhaseOf(new)]
             /\ phaseSeen[r] = PhaseOf(old) /\ lengthSeen[r] = Len(old.steps)
             /\ doneSeen[r] = CommittedSteps(old)
             /\ PhaseOf(new) = PhaseOf(old) => Unseen
  <2>1. PendingIds(new) = PendingIds(old)
    BY <1>2 DEF PendingIds
  <2> QED BY <1>2, <2>1, OneRunSeen, RunsAsSeen DEF Unseen
<1>3. ASSUME Finished(old, new) PROVE Lifecycle!Finish(r)
  <2>1. Kept /\ PhaseOf(old) = "active" /\ PhaseOf(new) = "completed"
        /\ CommittedSteps(old) = Len(old.steps)
    BY <1>1, <1>3 DEF Finished, Active
  <2> QED BY <1>2, <2>1 DEF Lifecycle!Finish
<1>4. ASSUME Stopped(old, new) PROVE Lifecycle!Stop(r)
  <2>1. Kept /\ PhaseOf(old) = "active" /\ PhaseOf(new) = "canceled"
    BY <1>1, <1>4 DEF Stopped, Same, Active
  <2> QED BY <1>2, <2>1 DEF Lifecycle!Stop
<1>5. ASSUME Fallen(old, new) PROVE Lifecycle!Fail(r) \/ Unseen
  <2>1. /\ Kept /\ PhaseOf(old) = "active" /\ PhaseOf(new) \in {"active", "failed"}
        /\ CommittedSteps(old) = old.index /\ old.index < Len(old.steps)
    BY <1>1, <1>5 DEF Fallen, AtSomeStep, Active
  <2>2. CASE PhaseOf(new) = "active"
    BY <1>2, <2>1, <2>2
  <2>3. CASE PhaseOf(new) = "failed"
    BY <1>2, <2>1, <2>3 DEF Lifecycle!Fail
  <2> QED BY <2>1, <2>2, <2>3
<1>6. ASSUME Quiet(old, new) PROVE Unseen
  <2>1. Kept /\ PhaseOf(new) = PhaseOf(old)
    BY <1>1, <1>6 DEF Quiet, Same, Active
  <2> QED BY <1>2, <2>1
<1> QED BY <1>3, <1>4, <1>5, <1>6

LEMMA RemovedVanishes ==
  ASSUME NEW S \in SUBSET RunIds, Removed(S)
  PROVE  Lifecycle!Vanish(S)
<1>1. /\ \A r \in S : runs'[r] = NoRun("gone")
      /\ \A r \in RunIds \ S : runs'[r] = runs[r]
  BY DEF Removed
<1>2. \A r \in S : /\ PhaseOf(runs'[r]) = "gone" /\ Len(runs'[r].steps) = 0
                   /\ CommittedSteps(runs'[r]) = 0 /\ PendingIds(runs'[r]) = {}
  BY <1>1 DEF NoRun, NewRun, PhaseOf, Active, CommittedSteps, PendingIds
<1>3. /\ phaseSeen' = [q \in RunIds |-> PhaseOf(runs'[q])]
      /\ lengthSeen' = [q \in RunIds |-> Len(runs'[q].steps)]
      /\ doneSeen' = [q \in RunIds |-> CommittedSteps(runs'[q])]
      /\ inboxSeen' = [q \in RunIds |-> PendingIds(runs'[q])]
  BY DEF phaseSeen, lengthSeen, doneSeen, inboxSeen, PhaseOf, CommittedSteps, PendingIds
<1>4. /\ phaseSeen' = [r \in RunIds |-> IF r \in S THEN "gone" ELSE phaseSeen[r]]
      /\ lengthSeen' = [r \in RunIds |-> IF r \in S THEN 0 ELSE lengthSeen[r]]
      /\ doneSeen' = [r \in RunIds |-> IF r \in S THEN 0 ELSE doneSeen[r]]
      /\ inboxSeen' = [r \in RunIds |-> IF r \in S THEN {} ELSE inboxSeen[r]]
  BY <1>1, <1>2, <1>3 DEF phaseSeen, lengthSeen, doneSeen, inboxSeen
<1>5. \A r \in RunIds :
        /\ phaseSeen[r] = IF runs[r].status \in Active THEN "active" ELSE runs[r].status
        /\ Present(r) <=> runs[r].status \notin {"unborn", "gone"}
  BY RunsAsSeen DEF PhaseOf, Present, NoEntry
<1>6. \A r \in RunIds :
        /\ Present(r) <=> phaseSeen[r] \notin {"unborn", "gone"}
        /\ runs[r].status \in Terminal => phaseSeen[r] \in {"completed", "failed", "canceled"}
  BY <1>5 DEF Active, Terminal
<1>7. /\ \A r \in S : phaseSeen[r] \notin {"unborn", "gone"}
      /\ \/ \A r \in S : phaseSeen[r] \in {"completed", "failed", "canceled"}
         \/ \A r \in RunIds \ S : phaseSeen[r] \in {"unborn", "gone"}
  BY <1>6 DEF Removed
<1> QED BY <1>4, <1>7 DEF Lifecycle!Vanish, Lifecycle!Endings

LEMMA StepsAsSeen == IInv /\ HistoryInv /\ [Next]_vars => [Lifecycle!LNext]_(Lifecycle!lifecycleVars)
<1> SUFFICES ASSUME IInv, HistoryInv, [Next]_vars PROVE Lifecycle!LNext \/ Unseen
  BY DEF Lifecycle!lifecycleVars, Unseen
<1>1. StoreStep
  BY StoreSteps
<1>2. CASE QuietStep
  <2>1. \A r \in RunIds : /\ PhaseOf(runs'[r]) = PhaseOf(runs[r])
                          /\ Len(runs'[r].steps) = Len(runs[r].steps)
                          /\ CommittedSteps(runs'[r]) = CommittedSteps(runs[r])
                          /\ PendingIds(runs'[r]) = PendingIds(runs[r])
    <3> SUFFICES ASSUME NEW r \in RunIds
                 PROVE  /\ PhaseOf(runs'[r]) = PhaseOf(runs[r])
                        /\ Len(runs'[r].steps) = Len(runs[r].steps)
                        /\ CommittedSteps(runs'[r]) = CommittedSteps(runs[r])
                        /\ PendingIds(runs'[r]) = PendingIds(runs[r])
      OBVIOUS
    <3>1. Quiet(runs[r], runs'[r])
      BY <1>2 DEF QuietStep
    <3> QED BY <3>1 DEF Quiet, Same, PhaseOf, CommittedSteps, PendingIds, Active
  <2> QED BY <2>1 DEF Unseen, phaseSeen, lengthSeen, doneSeen, inboxSeen
<1>3. ASSUME NEW r \in RunIds, Created(r) PROVE Lifecycle!LNext
  BY <1>3, CreatedStarts DEF Lifecycle!LNext
<1>4. ASSUME NEW r \in RunIds, Changed(r) PROVE Lifecycle!LNext \/ Unseen
  <2>1. OnlyRun(r) /\ runs[r] \in Run /\ Sound(runs[r]) /\ accepted[r] \in Nat
    BY <1>4, SoundRuns DEF Changed, IInv, TypeOK, TypeOKStore
  <2>2. CASE Received(runs[r], runs'[r], accepted[r] + 1)
    <3>1. AddsUp(runs[r], accepted[r])
      BY <2>2 DEF Received, HistoryInv, Present, Active, NoEntry
    <3> QED BY <2>1, <2>2, <3>1, ReceivedAccepts DEF Lifecycle!LNext
  <2>3. CASE Stepped(runs[r], runs'[r])
    <3>1. AddsUp(runs[r], accepted[r])
      BY <2>3 DEF Stepped, AtSomeStep, HistoryInv, Present, Active, NoEntry
    <3> QED BY <2>1, <2>3, <3>1, SteppedAdvances DEF Lifecycle!LNext
  <2>4. CASE \/ Finished(runs[r], runs'[r]) \/ Stopped(runs[r], runs'[r])
             \/ Fallen(runs[r], runs'[r]) \/ Quiet(runs[r], runs'[r])
    BY <2>1, <2>4, EndsAsSeen DEF Lifecycle!LNext
  <2> QED BY <1>4, <2>2, <2>3, <2>4 DEF Changed, Worked
<1>5. ASSUME NEW S \in SUBSET RunIds, Removed(S) PROVE Lifecycle!LNext
  BY <1>5, RemovedVanishes DEF Lifecycle!LNext
<1> QED BY <1>1, <1>2, <1>3, <1>4, <1>5 DEF StoreStep

LEMMA InitAsSeen == Init => Lifecycle!LInit
BY DEF Init, InitStore, Lifecycle!LInit, phaseSeen, lengthSeen, doneSeen, inboxSeen,
       NoRun, NewRun, PhaseOf, Active, CommittedSteps, PendingIds

(* Seen through the steps it has committed and the signals it has not yet   *)
(* consumed, the engine with its scheduler, leases, snapshots and detached  *)
(* failures is RunLifecycle: every step of it is a step of that             *)
(* specification or none.                                                   *)
THEOREM EngineImplementsLifecycle == Spec => LifecycleImplemented
<1>1. Init => Lifecycle!LInit
  BY InitAsSeen
<1>2. (IInv /\ HistoryInv) /\ [Next]_vars => [Lifecycle!LNext]_(Lifecycle!lifecycleVars)
  BY StepsAsSeen
<1> QED BY <1>1, <1>2, HistoryInvariant, PTL DEF Spec, LifecycleImplemented, Lifecycle!LSpec
===========================================================================
