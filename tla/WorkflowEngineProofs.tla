----------------------- MODULE WorkflowEngineProofs -----------------------
(***************************************************************************)
(* IInv of WorkflowEngine is inductive, so the safety properties it        *)
(* conjoins hold in every reachable state, for every set of runs,          *)
(* definitions, signals, limits and either kind of authority.              *)
(*                                                                         *)
(* The argument has two halves.  Whatever a step does to a run, it bumps   *)
(* the run's version or leaves all that a view copies alone (Evolves),     *)
(* so views and detached failures stay sound.  And every operation leaves  *)
(* a sound run (the lemmas named ...Sound), where a commit may take its    *)
(* row, its index and its signals from the view because the guard has just *)
(* established that the view is the run.                                   *)
(***************************************************************************)
EXTENDS WorkflowEngine, SequenceTheorems, TLAPS

---------------------------------------------------------------------------
(* The operations of RunStore: each leaves a well-formed run. *)

(* Removing one element of a sequence shifts those after it by one. *)
LEMMA RemoveAtProperties ==
  ASSUME NEW S, NEW s \in Seq(S), NEW i \in 1..Len(s)
  PROVE  /\ RemoveAt(s, i) \in Seq(S)
         /\ Len(RemoveAt(s, i)) = Len(s) - 1
         /\ \A k \in 1..Len(s) - 1 :
              RemoveAt(s, i)[k] = IF k < i THEN s[k] ELSE s[k + 1]
<1>1. /\ SubSeq(s, 1, i - 1) \in Seq(S)
      /\ Len(SubSeq(s, 1, i - 1)) = i - 1
      /\ \A k \in 1..i - 1 : SubSeq(s, 1, i - 1)[k] = s[k]
  OBVIOUS
<1>2. /\ SubSeq(s, i + 1, Len(s)) \in Seq(S)
      /\ Len(SubSeq(s, i + 1, Len(s))) = Len(s) - i
      /\ \A k \in 1..Len(s) - i : SubSeq(s, i + 1, Len(s))[k] = s[i + k]
  OBVIOUS
<1> DEFINE left == SubSeq(s, 1, i - 1)
           right == SubSeq(s, i + 1, Len(s))
<1>3. /\ left \o right \in Seq(S)
      /\ Len(left \o right) = Len(left) + Len(right)
      /\ \A k \in 1..Len(left) + Len(right) :
           (left \o right)[k] = IF k <= Len(left) THEN left[k]
                               ELSE right[k - Len(left)]
  BY <1>1, <1>2, ConcatProperties
<1> HIDE DEF left, right
<1>4. RemoveAt(s, i) = left \o right
  BY DEF RemoveAt, left, right
<1>5. Len(left) = i - 1 /\ Len(right) = Len(s) - i
  BY <1>1, <1>2 DEF left, right
<1>6. ASSUME NEW k \in 1..Len(s) - 1
      PROVE  RemoveAt(s, i)[k] = IF k < i THEN s[k] ELSE s[k + 1]
  <2>1. CASE k < i
    BY <2>1, <1>1, <1>3, <1>4, <1>5 DEF left
  <2>2. CASE ~(k < i)
    <3>1. RemoveAt(s, i)[k] = right[k - (i - 1)]
      BY <2>2, <1>3, <1>4, <1>5
    <3>2. k - (i - 1) \in 1..Len(s) - i /\ i + (k - (i - 1)) = k + 1
      BY <2>2
    <3> QED BY <2>2, <3>1, <3>2, <1>2 DEF right
  <2> QED BY <2>1, <2>2
<1>7. RemoveAt(s, i) \in Seq(S) /\ Len(RemoveAt(s, i)) = Len(s) - 1
  BY <1>3, <1>4, <1>5
<1> QED BY <1>6, <1>7

---------------------------------------------------------------------------

LEMMA NewRunType ==
  ASSUME NEW steps \in Definitions \cup {<<>>}
  PROVE  NewRun(steps) \in Run
BY DEF NewRun, Run, Active, Errors

LEMMA NoRunType ==
  ASSUME NEW status \in NoEntry
  PROVE  NoRun(status) \in Run
BY NewRunType DEF NewRun, NoRun, Run, Errors

LEMMA ClaimedType ==
  ASSUME NEW run \in Run
  PROVE  Claimed(run) \in Run
<1> DEFINE status == IF run.status = "pending" THEN "running" ELSE run.status
<1>1. run.version + 1 \in Nat /\ status \in Terminal \cup Active \cup NoEntry
  BY DEF Run, Active
<1>2. \A v \in Nat, st \in Terminal \cup Active \cup NoEntry :
        [run EXCEPT !.lease = "held", !.status = st, !.version = v] \in Run
  BY DEF Run
<1> HIDE DEF status
<1> QED BY <1>1, <1>2 DEF Claimed, status

LEMMA SettledType ==
  ASSUME NEW run \in Run
  PROVE  Settled(run) \in Run
<1>1. run.version + 1 \in Nat
  BY DEF Run
<1>2. \A v \in Nat : [run EXCEPT !.lease = "free", !.version = v] \in Run
  BY DEF Run
<1> QED BY <1>1, <1>2 DEF Settled

(* Whatever row, index, context and error a worker computes, its commit    *)
(* leaves a run.                                                           *)
LEMMA SucceedCompleteType ==
  ASSUME NEW run \in Run, NEW rows \in Seq(Row), NEW context \in SUBSET Output
  PROVE  SucceedComplete(run, rows, context) \in Run
<1> DEFINE s == Settled(run)
<1>1. s \in Run /\ s.rows \o rows \in Seq(Row)
  BY SettledType DEF Run
<1> HIDE DEF s
<1> QED BY <1>1 DEF SucceedComplete, Run, Terminal, Errors, s

LEMMA AppendRow ==
  ASSUME NEW run \in Run, NEW row \in Row
  PROVE  Settled(run) \in Run /\ Append(Settled(run).rows, row) \in Seq(Row)
<1>1. Settled(run).rows \in Seq(Row)
  BY SettledType DEF Run
<1> QED BY <1>1, SettledType

LEMMA SucceedAdvanceType ==
  ASSUME NEW run \in Run, NEW row \in Row, NEW next \in Nat,
         NEW context \in SUBSET Output
  PROVE  SucceedAdvance(run, row, next, context) \in Run
BY AppendRow DEF SucceedAdvance, Run, Active

LEMMA FailRetryType ==
  ASSUME NEW run \in Run, NEW row \in Row, NEW attempt \in Nat, NEW error \in Errors
  PROVE  FailRetry(run, row, attempt, error) \in Run
BY AppendRow DEF FailRetry, Run, Active

LEMMA FailTerminalType ==
  ASSUME NEW run \in Run, NEW row \in Row, NEW error \in Errors
  PROVE  FailTerminal(run, row, error) \in Run
BY AppendRow DEF FailTerminal, Run, Terminal

LEMMA EnterSleepType ==
  ASSUME NEW run \in Run, NEW row \in Row, NEW next \in Nat
  PROVE  EnterSleep(run, row, next) \in Run
BY AppendRow DEF EnterSleep, Run, Active

LEMMA ConsumeSignalType ==
  ASSUME NEW run \in Run, NEW row \in Row, NEW next \in Nat,
         NEW context \in SUBSET Output, NEW position \in Nat
  PROVE  ConsumeSignal(run, row, next, context, position) \in Run
<1> DEFINE s == Settled(run)
           rest == IF position \in 1..Len(s.signals)
                   THEN RemoveAt(s.signals, position) ELSE s.signals
<1>1. s \in Run /\ Append(s.rows, row) \in Seq(Row)
  BY AppendRow
<1>2. rest \in Seq(Signal)
  BY <1>1, RemoveAtProperties DEF Run
<1> HIDE DEF s
<1> QED BY <1>1, <1>2 DEF ConsumeSignal, Run, Active, s

LEMMA ParkWaitType ==
  ASSUME NEW run \in Run, NEW timed
  PROVE  ParkWait(run, timed) \in Run
<1>1. \A deadline \in {"none", "ahead"}, due \in {"timer", "never"} :
        [Settled(run) EXCEPT !.status = "waiting", !.deadline = deadline,
                             !.due = due] \in Run
  BY SettledType DEF Run, Active
<1> QED BY <1>1 DEF ParkWait

LEMMA ReparkWaitType ==
  ASSUME NEW run \in Run
  PROVE  ReparkWait(run) \in Run
<1>1. \A due \in {"ready", "timer", "never"} :
        [Settled(run) EXCEPT !.status = "waiting", !.due = due] \in Run
  BY SettledType DEF Run, Active
<1>2. run.deadline \in {"none", "ahead", "passed"}
  BY DEF Run
<1> QED BY <1>1, <1>2 DEF ReparkWait

---------------------------------------------------------------------------
(* The actions on the map. *)

LEMMA CreateRunType ==
  ASSUME TypeOKStore, NEW r \in RunIds, NEW steps \in Definitions, CreateRun(r, steps)
  PROVE  TypeOKStore'
BY NewRunType DEF TypeOKStore, CreateRun

LEMMA SignalledType ==
  ASSUME NEW run \in Run, NEW signal \in Signal
  PROVE  Signalled(run, signal) \in Run
<1>1. Append(run.signals, signal) \in Seq(Signal) /\ run.version + 1 \in Nat
  BY DEF Run
<1>2. \A s \in Seq(Signal), v \in Nat :
        [run EXCEPT !.signals = s, !.due = "ready", !.lease = "free",
                    !.version = v] \in Run
  BY DEF Run
<1> QED BY <1>1, <1>2 DEF Signalled

LEMMA DeliverSignalType ==
  ASSUME TypeOKStore, NEW r \in RunIds, NEW name \in SignalNames,
         DeliverSignal(r, name)
  PROVE  TypeOKStore'
<1>1. runs[r] \in Run /\ accepted[r] + 1 \in Nat
  BY DEF TypeOKStore
<1>2. [name |-> name, id |-> accepted[r] + 1] \in Signal
  BY <1>1 DEF Signal
<1> QED BY <1>1, <1>2, SignalledType DEF DeliverSignal, TypeOKStore

LEMMA CanceledType ==
  ASSUME NEW run \in Run
  PROVE  Canceled(run) \in Run
<1>1. run.version + 1 \in Nat
  BY DEF Run
<1>2. \A v \in Nat : [run EXCEPT !.status = "canceled", !.version = v] \in Run
  BY DEF Run, Terminal
<1> QED BY <1>1, <1>2 DEF Canceled

LEMMA CancelRunType ==
  ASSUME TypeOKStore, NEW r \in RunIds, CancelRun(r)
  PROVE  TypeOKStore'
BY CanceledType DEF CancelRun, TypeOKStore

LEMMA GcTerminalType ==
  ASSUME TypeOKStore, NEW S \in SUBSET RunIds, GcTerminal(S)
  PROVE  TypeOKStore'
BY NoRunType DEF GcTerminal, TypeOKStore, NoEntry

LEMMA ClaimDueType ==
  ASSUME TypeOKStore, NEW S \in SUBSET RunIds, NEW limit, ClaimDue(S, limit)
  PROVE  TypeOKStore'
BY ClaimedType DEF ClaimDue, TypeOKStore

LEMMA CommitType ==
  ASSUME TypeOKStore, NEW r \in RunIds, NEW version, NEW committed \in Run,
         Commit(r, version, committed)
  PROVE  TypeOKStore'
BY DEF Commit, TypeOKStore

LEMMA ClockType ==
  ASSUME TypeOKStore, NEW r \in RunIds,
         TimerFires(r) \/ DeadlinePasses(r) \/ LeaseLapses(r)
  PROVE  TypeOKStore'
<1>1. runs[r] \in Run
  BY DEF TypeOKStore
<1>2. CASE TimerFires(r)
  <2>1. \A d \in {"none", "ahead", "passed"} :
          [runs[r] EXCEPT !.due = "ready", !.deadline = d] \in Run
    BY <1>1 DEF Run
  <2>2. (IF runs[r].deadline = "ahead" THEN "passed" ELSE runs[r].deadline)
          \in {"none", "ahead", "passed"}
    BY <1>1 DEF Run
  <2>3. Awoken(runs[r]) \in Run
    BY <2>1, <2>2 DEF Awoken
  <2> QED BY <1>2, <2>3 DEF TimerFires, TypeOKStore
<1>3. CASE DeadlinePasses(r)
  <2>1. [runs[r] EXCEPT !.deadline = "passed"] \in Run
    BY <1>1 DEF Run
  <2> QED BY <1>3, <2>1 DEF DeadlinePasses, Overdue, TypeOKStore
<1>4. CASE LeaseLapses(r)
  <2>1. [runs[r] EXCEPT !.lease = "free"] \in Run
    BY <1>1 DEF Run
  <2> QED BY <1>4, <2>1 DEF LeaseLapses, Lapsed, TypeOKStore
<1> QED BY <1>2, <1>3, <1>4

LEMMA LoseMemoryType ==
  ASSUME TypeOKStore, LoseMemory
  PROVE  TypeOKStore'
BY NoRunType DEF LoseMemory, TypeOKStore, NoEntry

---------------------------------------------------------------------------
(* What a step computes from a view is well formed. *)

LEMMA RowsAndOutputs ==
  ASSUME NEW view \in Run, NEW payload \in Nat
  PROVE  /\ Succeeded(view, payload) \in Row
         /\ Failed(view) \in Row
         /\ Once(Succeeded(view, payload)) \in Row
         /\ Once(Failed(view)) \in Row
         /\ view.index < Len(view.steps) => With(view, payload) \in SUBSET Output
<1>1. Succeeded(view, payload) \in Row /\ Failed(view) \in Row
  BY DEF Run, Row, Succeeded, Failed
<1>2. \A row \in Row : Once(row) \in Row
  BY DEF Row, Once
<1>3. ASSUME view.index < Len(view.steps) PROVE With(view, payload) \in SUBSET Output
  <2>1. CurrentStep(view).name \in StepNames
    <3>1. view.index \in Nat /\ view.steps \in Seq(Step)
      BY DefinitionsAssumption, EmptySeq DEF Run
    <3>2. view.index + 1 \in 1..Len(view.steps)
      BY <1>3, <3>1
    <3>3. view.steps[view.index + 1] \in Step
      BY <3>1, <3>2, ElementOfSeq
    <3> QED BY <3>3 DEF CurrentStep, Step
  <2> QED BY <2>1 DEF Run, Output, With
<1> QED BY <1>1, <1>2, <1>3

LEMMA TaskChanges ==
  ASSUME TypeOK, NEW t \in tasks
  PROVE  /\ \A phase \in Phases : [t EXCEPT !.phase = phase] \in Task
         /\ \A token \in Nat :
              [t EXCEPT !.phase = "leased", !.token = token] \in Task
BY DEF TypeOK, Task, Phases

LEMMA CommitViewType ==
  ASSUME TypeOK, NEW t \in tasks, NEW committed \in Run, CommitView(t, committed)
  PROVE  TypeOK'
<1>1. t.run \in RunIds
  BY DEF TypeOK, Task
<1>2. TypeOKStore'
  BY <1>1, CommitType DEF CommitView, TypeOK
<1>3. tasks' \in SUBSET Task
  BY TaskChanges DEF CommitView, Move, Become, TypeOK, Phases
<1> QED BY <1>2, <1>3 DEF CommitView, TypeOK, lockVars

LEMMA TerminalFailureType ==
  ASSUME TypeOK, NEW t \in tasks, NEW error \in Errors, TerminalFailure(t, error)
  PROVE  TypeOK'
<1>1. t.run \in RunIds /\ t.view \in Run /\ t.view.version \in Nat
  BY DEF TypeOK, Task, Run
<1>2. Once(Failed(t.view)) \in Row
  BY <1>1, RowsAndOutputs
<1>3. [run |-> t.run, version |-> t.view.version,
       row |-> Once(Failed(t.view)), error |-> error] \in Doom
  BY <1>1, <1>2 DEF Doom
<1>4. doomed' \in SUBSET Doom
  BY <1>3 DEF TerminalFailure, TypeOK
<1>5. tasks' \in SUBSET Task
  BY TaskChanges DEF TerminalFailure, Move, Become, TypeOK, Phases
<1> QED BY <1>4, <1>5 DEF TerminalFailure, TypeOK, TypeOKStore, storeVars, lockVars

---------------------------------------------------------------------------
(* Every reachable state is well formed. *)

LEMMA TypeOKLeaseStep ==
  ASSUME TypeOK, NEW t \in tasks, LeaseStep(t)
  PROVE  TypeOK'
<1> USE DEF storeVars, lockVars
<1>1. t.run \in RunIds /\ lastToken[t.run] + 1 \in Nat
  BY DEF TypeOK, Task
<1>2. Grant(t.run) => lock' \in [RunIds -> Nat] /\ lastToken' \in [RunIds -> Nat]
  BY <1>1 DEF Grant, TypeOK
<1>3. Fault => faults' \in Nat
  BY DEF Fault, TypeOK
<1>4. tasks \ {t} \in SUBSET Task
  BY DEF TypeOK
<1>5. CASE AcquireLease(t)
  <2>1. tasks' \in SUBSET Task
    <3>1. /\ [t EXCEPT !.phase = "leased", !.token = lastToken[t.run] + 1] \in Task
          /\ [t EXCEPT !.phase = "leased", !.token = 1] \in Task
      BY <1>1, TaskChanges
    <3> QED BY <1>5, <3>1 DEF AcquireLease, Become, TypeOK
  <2> QED BY <1>2, <1>5, <2>1 DEF AcquireLease, TypeOK, TypeOKStore
<1>6. CASE LeaseRefused(t)
  BY <1>3, <1>4, <1>6 DEF LeaseRefused, End, TypeOK, TypeOKStore
<1>7. CASE LeaseUnavailable(t)
  BY <1>2, <1>3, <1>4, <1>7 DEF LeaseUnavailable, End, TypeOK, TypeOKStore
<1>8. CASE RenewalLost(t)
  BY <1>3, <1>4, <1>8 DEF RenewalLost, End, TypeOK, TypeOKStore
<1>9. CASE ReleaseLease(t)
  <2>1. lock' \in [RunIds -> Nat]
    BY <1>9 DEF ReleaseLease, TypeOK
  <2> QED BY <1>4, <1>9, <2>1 DEF ReleaseLease, End, TypeOK, TypeOKStore
<1> QED BY <1>5, <1>6, <1>7, <1>8, <1>9 DEF LeaseStep

LEMMA TypeOKRunStep ==
  ASSUME TypeOK, TasksSound, NEW t \in tasks, RunStep(t)
  PROVE  TypeOK'
<1> DEFINE run == runs[t.run]
           view == t.view
<1>1. /\ run \in Run
      /\ view \in Run
      /\ view.index + 1 \in Nat
      /\ view.attempt + 1 \in Nat
      /\ view.context \in SUBSET Output
  BY DEF TypeOK, TypeOKStore, Task, Run
<1>2. /\ Failed(view) \in Row
      /\ \A payload \in Nat :
           /\ Succeeded(view, payload) \in Row
           /\ Once(Succeeded(view, payload)) \in Row
           /\ view.index < Len(view.steps) => With(view, payload) \in SUBSET Output
  BY <1>1, RowsAndOutputs
<1> HIDE DEF run, view
<1>3. CASE CompleteRun(t)
  <2>1. SucceedComplete(run, <<>>, view.context) \in Run
    BY <1>1, SucceedCompleteType, EmptySeq
  <2> QED BY <1>3, <2>1, CommitViewType DEF CompleteRun, run, view
<1>4. CASE UnknownStep(t)
  BY <1>4, TerminalFailureType DEF UnknownStep, Errors
<1>5. CASE MissingFunction(t)
  BY <1>5, TerminalFailureType DEF MissingFunction, Errors
<1>6. CASE InvokeActivity(t)
  <2>1. tasks' \in SUBSET Task
    BY <1>6, TaskChanges DEF InvokeActivity, Move, Become, TypeOK, Phases
  <2> QED BY <1>6, <2>1
       DEF InvokeActivity, TypeOK, TypeOKStore, storeVars, lockVars
<1>7. CASE ActivitySuccess(t)
  <2>. /\ With(view, 0) \in SUBSET Output
       /\ Succeeded(view, 0) \in Row /\ <<Succeeded(view, 0)>> \in Seq(Row)
    BY <1>2, <1>7 DEF ActivitySuccess, TasksSound, Total, view
  <2>1. SucceedComplete(run, <<Succeeded(view, 0)>>, With(view, 0)) \in Run
    BY <1>1, SucceedCompleteType
  <2>2. SucceedAdvance(run, Succeeded(view, 0), view.index + 1, With(view, 0)) \in Run
    BY <1>1, SucceedAdvanceType
  <2> QED BY <1>7, <2>1, <2>2, CommitViewType DEF ActivitySuccess, run, view
<1>8. CASE ContextOverflow(t)
  BY <1>8, TerminalFailureType DEF ContextOverflow, Errors
<1>9. CASE ActivityFailure(t)
  <2>1. /\ FailRetry(run, Failed(view), view.attempt + 1, "activity failed") \in Run
        /\ FailTerminal(run, Failed(view), "activity failed") \in Run
    BY <1>1, <1>2, FailRetryType, FailTerminalType DEF Errors
  <2> QED BY <1>9, <2>1, CommitViewType DEF ActivityFailure, run, view
<1>10. CASE RunSleep(t)
  <2>1. EnterSleep(run, Once(Succeeded(view, 0)), view.index + 1) \in Run
    BY <1>1, <1>2, EnterSleepType
  <2> QED BY <1>10, <2>1, CommitViewType DEF RunSleep, run, view
<1>11. CASE ConsumeFirstSignal(t)
  <2> DEFINE payload(k) == view.signals[k].id
             new(k) == ConsumeSignal(run, Once(Succeeded(view, payload(k))),
                                     view.index + 1, With(view, payload(k)), k)
  <2>1. PICK k \in Matching(view) : CommitView(t, new(k))
    BY <1>11 DEF ConsumeFirstSignal, run, view
  <2>2. k \in 1..Len(view.signals) /\ view.signals \in Seq(Signal)
    BY <1>1 DEF Matching, Run
  <2>3. k \in Nat /\ view.signals[k] \in Signal /\ view.signals[k].id \in Nat
    <3>1. view.signals[k] \in Signal
      BY <2>2, ElementOfSeq
    <3> QED BY <2>2, <3>1 DEF Signal
  <2>4. With(view, payload(k)) \in SUBSET Output
        /\ Once(Succeeded(view, payload(k))) \in Row
    BY <1>2, <1>11, <2>3 DEF ConsumeFirstSignal, AtStep, Total, view
  <2>5. new(k) \in Run
    <3> HIDE DEF payload
    <3> QED BY <1>1, <2>3, <2>4, ConsumeSignalType
  <2> QED BY <2>1, <2>5, CommitViewType
<1>12. CASE Park(t)
  <2>1. ParkWait(run, CurrentStep(view).timed) \in Run
    BY <1>1, ParkWaitType
  <2> QED BY <1>12, <2>1, CommitViewType DEF Park, run, view
<1>13. CASE WaitTimeout(t)
  BY <1>13, TerminalFailureType DEF WaitTimeout, Errors
<1>14. CASE Repark(t)
  <2>1. ReparkWait(run) \in Run
    BY <1>1, ReparkWaitType
  <2> QED BY <1>14, <2>1, CommitViewType DEF Repark, run, view
<1> QED BY <1>3, <1>4, <1>5, <1>6, <1>7, <1>8, <1>9, <1>10, <1>11, <1>12,
           <1>13, <1>14 DEF RunStep

LEMMA TypeOKDetachedFailure ==
  ASSUME TypeOK, NEW d \in doomed, DetachedFailure(d)
  PROVE  TypeOK'
<1>1. d \in Doom /\ runs[d.run] \in Run
  BY DEF TypeOK, TypeOKStore, Doom
<1>2. FailTerminal(runs[d.run], d.row, d.error) \in Run
  BY <1>1, FailTerminalType DEF Doom
<1>3. TypeOKStore'
  BY <1>1, <1>2, CommitType DEF DetachedFailure, TypeOK, Doom
<1> QED BY <1>3 DEF DetachedFailure, TypeOK, lockVars

LEMMA TypeOKClaim ==
  ASSUME TypeOK, ClaimAndDispatch
  PROVE  TypeOK'
<1>1. PICK S \in SUBSET RunIds :
        /\ ClaimDue(S, IF Free < ClaimBatch THEN Free ELSE ClaimBatch)
        /\ tasks' = tasks \cup
             {[run |-> r, view |-> Claimed(runs[r]),
               phase |-> "claimed", token |-> 0] : r \in S}
  BY DEF ClaimAndDispatch
<1>2. TypeOKStore'
  BY <1>1, ClaimDueType DEF TypeOK
<1>3. \A r \in S : [run |-> r, view |-> Claimed(runs[r]),
                   phase |-> "claimed", token |-> 0] \in Task
  BY ClaimedType DEF TypeOK, TypeOKStore, Task, Phases
<1>4. tasks' \in SUBSET Task
  BY <1>1, <1>3 DEF TypeOK
<1> QED BY <1>2, <1>4 DEF ClaimAndDispatch, TypeOK

LEMMA TypeOKCallsAndTime ==
  ASSUME TypeOK, NEW r \in RunIds, ApiCall(r) \/ TimePasses(r)
  PROVE  TypeOK'
<1> USE DEF engineVars, storeVars, lockVars
<1>1. CASE StartRun(r)
  BY <1>1, CreateRunType DEF StartRun, TypeOK
<1>2. CASE SignalRun(r)
  BY <1>2, DeliverSignalType DEF SignalRun, TypeOK
<1>3. CASE Cancel(r)
  BY <1>3, CancelRunType DEF Cancel, TypeOK
<1>4. CASE ClockTicks(r)
  BY <1>4, ClockType DEF ClockTicks, TypeOK
<1>5. CASE StoreLeaseLapses(r)
  BY <1>5, ClockType DEF StoreLeaseLapses, TypeOK
<1>6. CASE LockExpires(r)
  <2>1. lock' \in [RunIds -> Nat] /\ faults' \in Nat
    BY <1>6 DEF LockExpires, Fault, TypeOK
  <2> QED BY <1>6, <2>1 DEF LockExpires, TypeOK, TypeOKStore
<1> QED BY <1>1, <1>2, <1>3, <1>4, <1>5, <1>6 DEF ApiCall, TimePasses

LEMMA TypeOKInit == Init => TypeOK
  BY NoRunType DEF Init, InitStore, TypeOK, TypeOKStore, NoEntry

(* What an activity leaves in the context is typed because its task is at  *)
(* a step: TypeOK alone does not say so.                                   *)
LEMMA TypeOKStep ==
  ASSUME TypeOK, TasksSound, [Next]_vars
  PROVE  TypeOK'
<1>1. ASSUME NEW r \in RunIds, ApiCall(r) \/ TimePasses(r) PROVE TypeOK'
  BY <1>1, TypeOKCallsAndTime
<1>2. ASSUME NEW t \in tasks, LeaseStep(t) \/ RunStep(t) PROVE TypeOK'
  BY <1>2, TypeOKLeaseStep, TypeOKRunStep
<1>3. ASSUME NEW d \in doomed, DetachedFailure(d) PROVE TypeOK'
  BY <1>3, TypeOKDetachedFailure
<1>4. CASE ClaimAndDispatch
  BY <1>4, TypeOKClaim
<1>5. CASE CollectGarbage
  BY <1>5, GcTerminalType DEF CollectGarbage, TypeOK, engineVars
<1>6. CASE CrashAndRestart
  BY <1>6, LoseMemoryType DEF CrashAndRestart, Fault, TypeOK, lockVars
<1>7. CASE UNCHANGED vars
  BY <1>7 DEF vars, TypeOK, TypeOKStore
<1> QED BY <1>1, <1>2, <1>3, <1>4, <1>5, <1>6, <1>7 DEF Next
---------------------------------------------------------------------------
(* What IInv says of one run. *)
Sound(run) ==
  /\ WellFormed(run)
  /\ InOrder(run.rows, CommittedSteps(run))
  /\ WakesUp(run)
  /\ TimedOutEmpty(run)

LEMMA SoundRuns ==
  ASSUME IInv, NEW r \in RunIds
  PROVE  runs[r] \in Run /\ Sound(runs[r])
BY DEF IInv, TypeOK, TypeOKStore, Sound, RunsWellFormed,
       StepsCommittedOnceInOrder, NoLostWakeup, TimeoutNeverLosesSignal

---------------------------------------------------------------------------
(* The order of the rows. *)

LEMMA SuccessAppended ==
  ASSUME NEW rows \in Seq(Row), NEW n \in Nat, NEW row \in Row,
         row.status = "succeeded", row.index = n, InOrder(rows, n)
  PROVE  InOrder(Append(rows, row), n + 1)
<1> DEFINE new == Append(rows, row)
           last == Len(rows) + 1
<1>1. /\ Len(new) = last
      /\ new[last] = row
      /\ \A k \in 1..Len(rows) : new[k] = rows[k]
  BY AppendProperties
<1>2. \A k \in 1..Len(rows) : rows[k].index \in Nat
  <2>1. \A k \in 1..Len(rows) : rows[k] \in Row
    BY ElementOfSeq
  <2> QED BY <2>1 DEF Row
<1>3. \A k \in 1..last : k \in 1..Len(rows) \/ k = last
  OBVIOUS
<1> HIDE DEF new
<1>4. ASSUME NEW k \in 1..Len(new), new[k].status = "succeeded"
      PROVE  new[k].index < n + 1
  BY <1>1, <1>2, <1>3, <1>4 DEF InOrder
<1>5. ASSUME NEW i \in 0..n
      PROVE  \E k \in 1..Len(new) : new[k].status = "succeeded" /\ new[k].index = i
  <2>1. CASE i = n
    BY <1>1, <2>1
  <2>2. CASE i # n
    <3>1. PICK k \in 1..Len(rows) : rows[k].status = "succeeded" /\ rows[k].index = i
      BY <2>2 DEF InOrder
    <3> QED BY <3>1, <1>1
  <2> QED BY <2>1, <2>2
<1>6. ASSUME NEW j \in 1..Len(new), NEW k \in 1..Len(new), j < k,
             new[j].status = "succeeded", new[k].status = "succeeded"
      PROVE  new[j].index < new[k].index
  <2>1. j \in 1..Len(rows)
    BY <1>1, <1>6
  <2>2. CASE k = last
    BY <2>1, <2>2, <1>1, <1>6 DEF InOrder
  <2>3. CASE k # last
    <3>1. k \in 1..Len(rows)
      BY <2>3, <1>1, <1>3
    <3> QED BY <2>1, <3>1, <1>1, <1>6 DEF InOrder
  <2> QED BY <2>2, <2>3
<1>7. InOrder(new, n + 1)
  BY <1>4, <1>5, <1>6 DEF InOrder
<1> QED BY <1>7 DEF new

LEMMA FailureAppended ==
  ASSUME NEW rows \in Seq(Row), NEW n \in Nat, NEW row \in Row,
         row.status = "failed", InOrder(rows, n)
  PROVE  InOrder(Append(rows, row), n)
<1> DEFINE new == Append(rows, row)
<1>1. /\ Len(new) = Len(rows) + 1
      /\ new[Len(rows) + 1] = row
      /\ \A k \in 1..Len(rows) : new[k] = rows[k]
  BY AppendProperties
<1> HIDE DEF new
<1>2. \A k \in 1..Len(new) :
        new[k].status = "succeeded" => k \in 1..Len(rows) /\ new[k] = rows[k]
  BY <1>1
<1>3. \A k \in 1..Len(rows) : k \in 1..Len(new) /\ new[k] = rows[k]
  BY <1>1
<1>4. InOrder(new, n)
  BY <1>2, <1>3 DEF InOrder
<1> QED BY <1>4 DEF new

---------------------------------------------------------------------------
(* Operations that are not commits leave a sound run. *)

LEMMA NewRunSound ==
  ASSUME NEW steps \in Definitions \cup {<<>>}
  PROVE  Sound(NewRun(steps)) /\ \A s \in NoEntry : Sound(NoRun(s))
<1>1. Len(steps) \in Nat
  BY DefinitionsAssumption
<1>2. Sound(NewRun(steps))
  BY <1>1 DEF Sound, NewRun, WellFormed, InOrder, CommittedSteps, WakesUp, TimedOutEmpty
<1>3. \A s \in NoEntry : Sound(NoRun(s))
  BY DEF Sound, NewRun, NoRun, NoEntry, WellFormed, InOrder, CommittedSteps,
         WakesUp, TimedOutEmpty
<1> QED BY <1>2, <1>3

(* Signals, claims and the clock touch neither steps nor rows. *)
LEMMA SignalledSound ==
  ASSUME NEW run \in Run, Sound(run), run.status \in Active, NEW signal \in Signal
  PROVE  Sound(Signalled(run, signal))
<1> DEFINE new == Signalled(run, signal)
<1>1. /\ new.status = run.status /\ new.steps = run.steps
      /\ new.index = run.index /\ new.rows = run.rows /\ new.due = "ready"
  BY DEF Signalled, Run
<1> HIDE DEF new
<1>2. Sound(new)
  BY <1>1 DEF Sound, WellFormed, CurrentStep, CommittedSteps, WakesUp,
              TimedOutEmpty, Active
<1> QED BY <1>2 DEF new

LEMMA CanceledSound ==
  ASSUME NEW run \in Run, Sound(run), run.status \in Active
  PROVE  Sound(Canceled(run))
<1> DEFINE new == Canceled(run)
<1>1. /\ new.status = "canceled" /\ new.steps = run.steps
      /\ new.index = run.index /\ new.rows = run.rows
  BY DEF Canceled, Run
<1> HIDE DEF new
<1>2. Sound(new)
  BY <1>1 DEF Sound, WellFormed, CommittedSteps, WakesUp, TimedOutEmpty, Active
<1> QED BY <1>2 DEF new

LEMMA ClaimedSound ==
  ASSUME NEW run \in Run, Sound(run), run.status \in Active
  PROVE  Sound(Claimed(run)) /\ Claimed(run).status \in {"running", "waiting"}
<1> DEFINE new == Claimed(run)
<1>1. /\ new.status = IF run.status = "pending" THEN "running" ELSE run.status
      /\ new.steps = run.steps /\ new.index = run.index /\ new.rows = run.rows
      /\ new.signals = run.signals /\ new.due = run.due
      /\ new.deadline = run.deadline
  BY DEF Claimed, Run
<1> HIDE DEF new
<1>2. Sound(new) /\ new.status \in {"running", "waiting"}
  BY <1>1 DEF Sound, WellFormed, CurrentStep, CommittedSteps, WakesUp,
              TimedOutEmpty, Matching, Active
<1> QED BY <1>2 DEF new

(* The clock changes due, deadline and lease only. *)
LEMMA ClockSound ==
  ASSUME NEW run \in Run, Sound(run), run.status \in Active
  PROVE  /\ Sound(Awoken(run))
         /\ run.due = "ready" => Sound([run EXCEPT !.deadline = "passed"])
         /\ Sound([run EXCEPT !.lease = "free"])
<1> DEFINE Like(new) ==
             /\ new.status = run.status /\ new.steps = run.steps
             /\ new.index = run.index /\ new.rows = run.rows
             /\ new.signals = run.signals
             /\ \/ new.due = "ready"
                \/ new.due = run.due /\ new.deadline = run.deadline
<1>1. \A new : Like(new) => Sound(new)
  BY DEF Sound, WellFormed, CurrentStep, CommittedSteps, WakesUp,
         TimedOutEmpty, Matching, Active
<1>2. Like(Awoken(run))
  BY DEF Awoken, Run
<1>3. run.due = "ready" => Like([run EXCEPT !.deadline = "passed"])
  BY DEF Run
<1>4. Like([run EXCEPT !.lease = "free"])
  BY DEF Run
<1> HIDE DEF Like
<1> QED BY <1>1, <1>2, <1>3, <1>4

---------------------------------------------------------------------------
(* Commits leave a sound run, given what the guard and the view establish. *)

LEMMA SucceedCompleteSound ==
  ASSUME NEW run \in Run, Sound(run), run.status \in Active,
         NEW row \in Row, NEW context \in SUBSET Output,
         row.status = "succeeded", row.index = run.index
  PROVE  /\ run.index >= Len(run.steps) =>
              Sound(SucceedComplete(run, <<>>, context))
         /\ run.index < Len(run.steps) /\ run.index + 1 >= Len(run.steps) =>
              Sound(SucceedComplete(run, <<row>>, context))
<1>1. /\ run.rows \in Seq(Row) /\ run.index \in Nat
      /\ run.index <= Len(run.steps) /\ Len(run.steps) \in Nat
      /\ InOrder(run.rows, run.index)
  BY DefinitionsAssumption DEF Run, Sound, WellFormed, CommittedSteps, Active
<1>2. \A rows \in Seq(Row) :
        LET new == SucceedComplete(run, rows, context) IN
          /\ new.status = "completed" /\ new.steps = run.steps
          /\ new.index = run.index /\ new.rows = run.rows \o rows
  BY DEF SucceedComplete, Settled, Run
<1>3. ASSUME run.index >= Len(run.steps)
      PROVE  Sound(SucceedComplete(run, <<>>, context))
  <2> DEFINE new == SucceedComplete(run, <<>>, context)
  <2>1. <<>> \in Seq(Row) /\ run.rows \o <<>> = run.rows
    BY <1>1, EmptySeq, ConcatEmptySeq
  <2>2. /\ new.status = "completed" /\ new.steps = run.steps
        /\ new.index = run.index /\ new.rows = run.rows
    BY <1>2, <2>1
  <2> HIDE DEF new
  <2>3. run.index = Len(run.steps)
    BY <1>1, <1>3
  <2>4. InOrder(new.rows, CommittedSteps(new))
    BY <1>1, <2>2, <2>3 DEF CommittedSteps
  <2>5. Sound(new)
    BY <2>2, <2>3, <2>4, <1>1 DEF Sound, WellFormed, WakesUp, TimedOutEmpty
  <2> QED BY <2>5 DEF new
<1>4. ASSUME run.index < Len(run.steps), run.index + 1 >= Len(run.steps)
      PROVE  Sound(SucceedComplete(run, <<row>>, context))
  <2> DEFINE new == SucceedComplete(run, <<row>>, context)
  <2>1. <<row>> \in Seq(Row) /\ run.rows \o <<row>> = Append(run.rows, row)
    BY <1>1, AppendIsConcat
  <2>2. /\ new.status = "completed" /\ new.steps = run.steps
        /\ new.index = run.index /\ new.rows = Append(run.rows, row)
    BY <1>2, <2>1
  <2>3. InOrder(Append(run.rows, row), run.index + 1)
    BY <1>1, SuccessAppended
  <2>4. run.index + 1 = Len(run.steps)
    BY <1>1, <1>4
  <2> HIDE DEF new
  <2>5. Sound(new)
    BY <1>1, <2>2, <2>3, <2>4
    DEF Sound, WellFormed, CommittedSteps, WakesUp, TimedOutEmpty
  <2> QED BY <2>5 DEF new
<1> QED BY <1>3, <1>4

(* The three commits that move to the next step. *)
LEMMA AdvanceSound ==
  ASSUME NEW run \in Run, Sound(run), run.status \in Active,
         run.index < Len(run.steps),
         NEW row \in Row, row.status = "succeeded", row.index = run.index,
         NEW context \in SUBSET Output, NEW position \in Nat
  PROVE  /\ Sound(SucceedAdvance(run, row, run.index + 1, context))
         /\ Sound(EnterSleep(run, row, run.index + 1))
         /\ Sound(ConsumeSignal(run, row, run.index + 1, context, position))
<1> DEFINE Moved(new) ==
             /\ new.status = "running" /\ new.steps = run.steps
             /\ new.index = run.index + 1 /\ new.rows = Append(run.rows, row)
<1>1. /\ run.index \in Nat /\ Len(run.steps) \in Nat
      /\ run.rows \in Seq(Row) /\ InOrder(run.rows, run.index)
  BY DefinitionsAssumption DEF Run, Sound, CommittedSteps, Active
<1>2. InOrder(Append(run.rows, row), run.index + 1)
  BY <1>1, SuccessAppended
<1>3. ASSUME NEW new, Moved(new) PROVE Sound(new)
  <2>1. InOrder(new.rows, CommittedSteps(new))
    BY <1>2, <1>3 DEF CommittedSteps
  <2>2. WellFormed(new)
    BY <1>1, <1>3 DEF WellFormed
  <2> QED BY <1>3, <2>1, <2>2 DEF Sound, WakesUp, TimedOutEmpty
<1>4. Moved(SucceedAdvance(run, row, run.index + 1, context))
  BY DEF SucceedAdvance, Settled, Run
<1>5. Moved(EnterSleep(run, row, run.index + 1))
  BY DEF EnterSleep, Settled, Run
<1>6. Moved(ConsumeSignal(run, row, run.index + 1, context, position))
  BY DEF ConsumeSignal, Settled, Run
<1> HIDE DEF Moved
<1> QED BY <1>3, <1>4, <1>5, <1>6

LEMMA FailureSound ==
  ASSUME NEW run \in Run, Sound(run), run.status \in Active,
         NEW row \in Row, row.status = "failed",
         NEW attempt \in Nat, NEW error \in Errors,
         error = "wait timeout" => Matching(run) = {}
  PROVE  /\ Sound(FailRetry(run, row, attempt, error))
         /\ Sound(FailTerminal(run, row, error))
<1>1. /\ run.index \in Nat /\ run.rows \in Seq(Row)
      /\ InOrder(run.rows, run.index) /\ run.index <= Len(run.steps)
  BY DEF Run, Sound, WellFormed, CommittedSteps, Active
<1>2. InOrder(Append(run.rows, row), run.index)
  BY <1>1, FailureAppended
<1>3. Sound(FailRetry(run, row, attempt, error))
  <2> DEFINE new == FailRetry(run, row, attempt, error)
  <2>1. /\ new.status = "running" /\ new.steps = run.steps
        /\ new.index = run.index /\ new.rows = Append(run.rows, row)
    BY DEF FailRetry, Settled, Run
  <2> HIDE DEF new
  <2>2. Sound(new)
    BY <1>1, <1>2, <2>1 DEF Sound, WellFormed, CommittedSteps, WakesUp, TimedOutEmpty
  <2> QED BY <2>2 DEF new
<1>4. Sound(FailTerminal(run, row, error))
  <2> DEFINE new == FailTerminal(run, row, error)
  <2>1. /\ new.status = "failed" /\ new.steps = run.steps
        /\ new.index = run.index /\ new.rows = Append(run.rows, row)
        /\ new.signals = run.signals /\ new.error = error
    BY DEF FailTerminal, Settled, Run
  <2> HIDE DEF new
  <2>2. Matching(new) = Matching(run)
    BY <2>1 DEF Matching, CurrentStep
  <2>3. Sound(new)
    BY <1>1, <1>2, <2>1, <2>2
    DEF Sound, WellFormed, CommittedSteps, WakesUp, TimedOutEmpty
  <2> QED BY <2>3 DEF new
<1> QED BY <1>3, <1>4

LEMMA ParkSound ==
  ASSUME NEW run \in Run, Sound(run), run.status \in Active,
         run.index < Len(run.steps), CurrentStep(run).type = "waitSignal",
         Matching(run) = {}, NEW timed
  PROVE  Sound(ParkWait(run, timed)) /\ Sound(ReparkWait(run))
<1> DEFINE Waiting(new) ==
             /\ new.status = "waiting" /\ new.steps = run.steps
             /\ new.index = run.index /\ new.rows = run.rows
             /\ new.signals = run.signals
             /\ new.due = "never" => new.deadline = "none"
<1>1. \A new : Waiting(new) => Sound(new)
  BY DEF Sound, WellFormed, CurrentStep, CommittedSteps, WakesUp,
         TimedOutEmpty, Matching, Active
<1>2. Waiting(ParkWait(run, timed))
  BY DEF ParkWait, Settled, Run
<1>3. Waiting(ReparkWait(run))
  BY DEF ReparkWait, Settled, Run
<1> HIDE DEF Waiting
<1> QED BY <1>1, <1>2, <1>3

---------------------------------------------------------------------------
(* What a step may do to runs, tasks and detached failures. *)

(* The run is removed, created, moved to a later version, or unchanged in  *)
(* everything a view copies.                                               *)
Evolves(r) ==
  \/ runs'[r].status = "gone"
  \/ runs[r].status = "unborn"
  \/ /\ Present(r)
     /\ runs'[r].status # "unborn"
     /\ runs'[r].version > runs[r].version
  \/ /\ runs'[r].version = runs[r].version
     /\ SameData(runs[r], runs'[r])

RunsFollow == \A r \in RunIds : Sound(runs'[r]) /\ Evolves(r)

(* A task keeps its view, or carries the claim just made. *)
TasksFollow ==
  \A u \in tasks' :
    \/ \E t \in tasks :
         /\ u.run = t.run
         /\ u.view = t.view
         /\ u.phase = "invoking" =>
              \/ t.phase = "invoking"
              \/ /\ t.view.index < Total(t.view)
                 /\ CurrentStep(t.view).type = "activity"
    \/ /\ u.run \in RunIds
       /\ u.phase = "claimed"
       /\ runs[u.run].status \in Active
       /\ u.view = Claimed(runs[u.run])
       /\ runs'[u.run] = u.view

(* A detached failure is spawned by a task, in a step that commits nothing. *)
DoomsFollow ==
  \A d \in doomed' :
    \/ d \in doomed
    \/ \E t \in tasks :
         /\ d.run = t.run
         /\ d.version = t.view.version
         /\ d.row.status = "failed" /\ d.row.output = 0
         /\ d.error # "activity failed"
         /\ t.view.index < Len(t.view.steps)
         /\ d.error = "wait timeout" => Matching(t.view) = {}
         /\ runs' = runs

LEMMA SameDataMatching ==
  ASSUME NEW view, NEW run, SameData(view, run)
  PROVE  Matching(run) = Matching(view)
BY DEF SameData, Matching, CurrentStep

LEMMA ViewKept ==
  ASSUME IInv, RunsFollow, TypeOK', NEW t \in tasks
  PROVE  /\ runs'[t.run].status # "unborn"
         /\ Present(t.run)' => t.view.version <= runs'[t.run].version
         /\ Guard(t.run, t.view.version)' => SameData(t.view, runs'[t.run])
<1> DEFINE old == runs[t.run]
           new == runs'[t.run]
<1>1. /\ t.run \in RunIds /\ t.view.version \in Nat
      /\ old.version \in Nat /\ new.version \in Nat
  BY DEF IInv, TypeOK, TypeOKStore, Task, Run
<1>2. /\ old.status # "unborn"
      /\ Present(t.run) => t.view.version <= old.version
      /\ Guard(t.run, t.view.version) => SameData(t.view, old)
  BY DEF IInv, TasksSound, SnapshotsAreExact
<1>3. Evolves(t.run)
  BY <1>1 DEF RunsFollow
<1>4. CASE new.status = "gone"
  BY <1>4 DEF Present, Guard, NoEntry
<1>5. CASE Present(t.run) /\ new.status # "unborn" /\ new.version > old.version
  BY <1>1, <1>2, <1>5 DEF Guard
<1>6. CASE new.version = old.version /\ SameData(old, new)
  <2>1. old.status = new.status
    BY <1>6 DEF SameData
  <2>2. Guard(t.run, t.view.version)' => Guard(t.run, t.view.version)
    BY <1>6, <2>1 DEF Guard, Present
  <2>3. SameData(t.view, old) => SameData(t.view, new)
    BY <1>6 DEF SameData
  <2> QED BY <1>2, <1>6, <2>1, <2>2, <2>3 DEF Present
<1> QED BY <1>2, <1>3, <1>4, <1>5, <1>6 DEF Evolves

LEMMA DoomKept ==
  ASSUME IInv, RunsFollow, TypeOK', NEW d \in doomed
  PROVE  /\ runs'[d.run].status # "unborn"
         /\ Present(d.run)' => d.version <= runs'[d.run].version
         /\ Guard(d.run, d.version)' =>
              /\ runs'[d.run].status \in Active
              /\ runs'[d.run].index < Len(runs'[d.run].steps)
              /\ d.error = "wait timeout" => Matching(runs'[d.run]) = {}
<1> DEFINE old == runs[d.run]
           new == runs'[d.run]
<1>1. /\ d.run \in RunIds /\ d.version \in Nat
      /\ old.version \in Nat /\ new.version \in Nat
  BY DEF IInv, TypeOK, TypeOKStore, Doom, Run
<1>2. /\ old.status # "unborn"
      /\ Present(d.run) => d.version <= old.version
      /\ Guard(d.run, d.version) =>
           /\ old.status \in Active
           /\ old.index < Len(old.steps)
           /\ d.error = "wait timeout" => Matching(old) = {}
  BY DEF IInv, DoomsSound
<1>3. Evolves(d.run)
  BY <1>1 DEF RunsFollow
<1>4. CASE new.status = "gone"
  BY <1>4 DEF Present, Guard, NoEntry
<1>5. CASE Present(d.run) /\ new.status # "unborn" /\ new.version > old.version
  <2>1. d.version <= old.version
    BY <1>2, <1>5
  <2>2. d.version # new.version /\ d.version <= new.version
    <3> HIDE DEF old, new
    <3> QED BY <1>1, <1>5, <2>1
  <2>3. ~Guard(d.run, d.version)'
    BY <2>2 DEF Guard
  <2> QED BY <1>5, <2>2, <2>3, Zenon
<1>6. CASE new.version = old.version /\ SameData(old, new)
  <2>1. /\ old.status = new.status /\ Matching(new) = Matching(old)
        /\ old.index = new.index /\ old.steps = new.steps
    BY <1>6, SameDataMatching DEF SameData
  <2>2. Guard(d.run, d.version)' => Guard(d.run, d.version)
    BY <1>6, <2>1 DEF Guard, Present
  <2> QED BY <1>2, <1>6, <2>1, <2>2 DEF Present
<1> QED BY <1>2, <1>3, <1>4, <1>5, <1>6 DEF Evolves

LEMMA Follows ==
  ASSUME IInv, TypeOK', RunsFollow, TasksFollow, DoomsFollow
  PROVE  IInv'
<1>1. ASSUME NEW u \in tasks'
      PROVE  /\ runs'[u.run].status # "unborn"
             /\ u.view.status \in {"running", "waiting"}
             /\ WellFormed(u.view)
             /\ u.phase = "invoking" =>
                  u.view.index < Total(u.view) /\ CurrentStep(u.view).type = "activity"
             /\ Present(u.run)' => u.view.version <= runs'[u.run].version
             /\ Guard(u.run, u.view.version)' => SameData(u.view, runs'[u.run])
  <2>1. ASSUME NEW t \in tasks, u.run = t.run, u.view = t.view,
               u.phase = "invoking" =>
                 \/ t.phase = "invoking"
                 \/ /\ t.view.index < Total(t.view)
                    /\ CurrentStep(t.view).type = "activity"
        PROVE  <1>1!2
    <3>1. /\ t.view.status \in {"running", "waiting"}
          /\ WellFormed(t.view)
          /\ t.phase = "invoking" =>
               t.view.index < Total(t.view) /\ CurrentStep(t.view).type = "activity"
      BY DEF IInv, TasksSound
    <3> QED BY <2>1, <3>1, ViewKept
  <2>2. ASSUME u.run \in RunIds, u.phase = "claimed", runs[u.run].status \in Active,
               u.view = Claimed(runs[u.run]), runs'[u.run] = u.view
        PROVE  <1>1!2
    <3>1. runs[u.run] \in Run /\ Sound(runs[u.run])
      BY <2>2, SoundRuns
    <3>2. Sound(u.view) /\ u.view.status \in {"running", "waiting"}
      BY <2>2, <3>1, ClaimedSound
    <3>3. u.view.version \in Nat
      BY <2>2, <3>1, ClaimedType DEF Run
    <3> QED BY <2>2, <3>2, <3>3 DEF Sound, SameData
  <2> QED BY <2>1, <2>2 DEF TasksFollow
<1>2. ASSUME NEW d \in doomed'
      PROVE  /\ runs'[d.run].status # "unborn"
             /\ d.row.status = "failed" /\ d.row.output = 0
             /\ d.error # "activity failed"
             /\ Present(d.run)' => d.version <= runs'[d.run].version
             /\ Guard(d.run, d.version)' =>
                  /\ runs'[d.run].status \in Active
                  /\ runs'[d.run].index < Len(runs'[d.run].steps)
                  /\ d.error = "wait timeout" => Matching(runs'[d.run]) = {}
  <2>1. CASE d \in doomed
    BY <2>1, DoomKept DEF IInv, DoomsSound
  <2>2. ASSUME NEW t \in tasks, d.run = t.run, d.version = t.view.version,
               d.row.status = "failed", d.row.output = 0,
               d.error # "activity failed",
               t.view.index < Len(t.view.steps),
               d.error = "wait timeout" => Matching(t.view) = {}
        PROVE  <1>2!2
    <3>1. /\ runs'[t.run].status # "unborn"
          /\ Present(t.run)' => t.view.version <= runs'[t.run].version
          /\ Guard(t.run, t.view.version)' => SameData(t.view, runs'[t.run])
      BY ViewKept
    <3>2. SameData(t.view, runs'[t.run]) =>
            /\ runs'[t.run].status \in Active
            /\ runs'[t.run].index = t.view.index
            /\ runs'[t.run].steps = t.view.steps
            /\ Matching(runs'[t.run]) = Matching(t.view)
      BY SameDataMatching DEF SameData, IInv, TasksSound, Active
    <3>3. ASSUME Guard(d.run, d.version)'
          PROVE  /\ runs'[d.run].status \in Active
                 /\ runs'[d.run].index < Len(runs'[d.run].steps)
                 /\ d.error = "wait timeout" => Matching(runs'[d.run]) = {}
      <4>1. Guard(t.run, t.view.version)'
        BY <2>2, <3>3 DEF Guard, Present
      <4> QED BY <2>2, <3>1, <3>2, <4>1
    <3>4. ASSUME Present(d.run)'
          PROVE  d.version <= runs'[d.run].version
      <4>1. Present(t.run)'
        BY <2>2, <3>4 DEF Present
      <4> QED BY <2>2, <3>1, <4>1
    <3>5. runs'[d.run].status # "unborn"
      BY <2>2, <3>1
    <3> QED BY <2>2, <3>3, <3>4, <3>5, Zenon
  <2> QED BY <2>1, <2>2 DEF DoomsFollow
<1>3. TasksSound' /\ SnapshotsAreExact'
  BY <1>1 DEF TasksSound, SnapshotsAreExact
<1>4. DoomsSound'
  BY <1>2 DEF DoomsSound
<1>5. /\ RunsWellFormed' /\ StepsCommittedOnceInOrder'
      /\ NoLostWakeup' /\ TimeoutNeverLosesSignal'
  BY DEF RunsFollow, Sound, RunsWellFormed, StepsCommittedOnceInOrder,
         NoLostWakeup, TimeoutNeverLosesSignal
<1> QED BY <1>3, <1>4, <1>5 DEF IInv

---------------------------------------------------------------------------
(* Steps that leave the map alone, and steps that change one run. *)

LEMMA SameRunsFollow ==
  ASSUME IInv, UNCHANGED runs
  PROVE  RunsFollow
<1>1. \A r \in RunIds : Sound(runs'[r])
  BY SoundRuns
<1>2. \A r \in RunIds : Evolves(r)
  BY DEF Evolves, SameData
<1> QED BY <1>1, <1>2 DEF RunsFollow

LEMMA OneRunFollows ==
  ASSUME IInv, NEW r \in RunIds, NEW new,
         runs' = [runs EXCEPT ![r] = new],
         Sound(new),
         \/ runs[r].status = "unborn"
         \/ /\ Present(r)
            /\ new.status # "unborn"
            /\ new.version > runs[r].version
         \/ new.version = runs[r].version /\ SameData(runs[r], new)
  PROVE  RunsFollow
<1>1. runs'[r] = new /\ \A q \in RunIds \ {r} : runs'[q] = runs[q]
  BY DEF IInv, TypeOK, TypeOKStore
<1>2. Evolves(r) /\ Sound(runs'[r])
  BY <1>1 DEF Evolves
<1>3. ASSUME NEW q \in RunIds, q # r PROVE Evolves(q) /\ Sound(runs'[q])
  BY <1>1, <1>3, SoundRuns DEF Evolves, SameData
<1> QED BY <1>2, <1>3 DEF RunsFollow

(* All operations but those of the clock bump the version by one. *)
LEMMA Bumps ==
  ASSUME NEW run \in Run
  PROVE  /\ run.version \in Nat /\ run.version + 1 > run.version
         /\ Claimed(run).version = run.version + 1
         /\ \A signal : Signalled(run, signal).version = run.version + 1
         /\ Canceled(run).version = run.version + 1
         /\ Settled(run).version = run.version + 1
BY DEF Run, Claimed, Signalled, Canceled, Settled

(* What a commit has to establish of the run it leaves. *)
Committable(run, committed) ==
  /\ committed \in Run
  /\ Sound(committed)
  /\ committed.status # "unborn"
  /\ committed.version = run.version + 1

LEMMA CommitFollows ==
  ASSUME IInv, NEW r \in RunIds, NEW version, NEW committed,
         Commit(r, version, committed),
         Guard(r, version) => Committable(runs[r], committed)
  PROVE  RunsFollow
<1>1. CASE ~Guard(r, version)
  <2>1. runs' = runs
    BY <1>1 DEF Commit, IInv, TypeOK, TypeOKStore
  <2> QED BY <2>1, SameRunsFollow
<1>2. CASE Guard(r, version)
  <2>1. runs' = [runs EXCEPT ![r] = committed] /\ Present(r)
    BY <1>2 DEF Commit, Guard
  <2>2. runs[r] \in Run
    BY SoundRuns
  <2>3. committed.version > runs[r].version
    BY <1>2, <2>2, Bumps DEF Committable
  <2> QED BY <1>2, <2>1, <2>3, OneRunFollows DEF Committable
<1> QED BY <1>1, <1>2

---------------------------------------------------------------------------
(* Steps of the tasks. *)

(* Tasks come and go, or change phase, token and nothing else. *)
LEMMA TasksCarryOn ==
  ASSUME IInv,
         \A u \in tasks' : \E t \in tasks :
           /\ u.run = t.run
           /\ u.view = t.view
           /\ u.phase = "invoking" =>
                \/ t.phase = "invoking"
                \/ /\ t.view.index < Total(t.view)
                   /\ CurrentStep(t.view).type = "activity"
  PROVE  TasksFollow
BY DEF TasksFollow

LEMMA MoveFollows ==
  ASSUME IInv, NEW t \in tasks, NEW phase, Move(t, phase), phase # "invoking"
  PROVE  TasksFollow
<1>1. [t EXCEPT !.phase = phase].run = t.run
      /\ [t EXCEPT !.phase = phase].view = t.view
      /\ [t EXCEPT !.phase = phase].phase = phase
  BY DEF IInv, TypeOK, Task
<1> QED BY <1>1, TasksCarryOn DEF Move, Become

LEMMA CommitViewFollows ==
  ASSUME IInv, TypeOK', NEW t \in tasks, NEW committed,
         CommitView(t, committed),
         /\ Guard(t.run, t.view.version)
         /\ SameData(t.view, runs[t.run])
         /\ runs[t.run] \in Run
         /\ Sound(runs[t.run])
         /\ runs[t.run].status \in Active
         => Committable(runs[t.run], committed)
  PROVE  IInv'
<1>1. t.run \in RunIds
  BY DEF IInv, TypeOK, Task
<1>2. ASSUME Guard(t.run, t.view.version)
      PROVE  Committable(runs[t.run], committed)
  <2>1. SameData(t.view, runs[t.run]) /\ t.view.status \in {"running", "waiting"}
    BY <1>2 DEF IInv, SnapshotsAreExact, TasksSound
  <2>2. runs[t.run].status \in Active
    BY <2>1 DEF SameData, Active
  <2> QED BY <1>1, <1>2, <2>1, <2>2, SoundRuns
<1>3. RunsFollow
  BY <1>1, <1>2, CommitFollows DEF CommitView
<1>4. TasksFollow
  BY MoveFollows DEF CommitView
<1>5. DoomsFollow
  BY DEF CommitView, DoomsFollow
<1> QED BY <1>3, <1>4, <1>5, Follows

LEMMA TerminalFailureFollows ==
  ASSUME IInv, TypeOK', NEW t \in tasks, NEW error, TerminalFailure(t, error),
         error # "activity failed", t.view.index < Len(t.view.steps),
         error = "wait timeout" => Matching(t.view) = {}
  PROVE  IInv'
<1>1. RunsFollow
  BY SameRunsFollow DEF TerminalFailure, storeVars
<1>2. TasksFollow
  BY MoveFollows DEF TerminalFailure
<1>3. Once(Failed(t.view)).status = "failed" /\ Once(Failed(t.view)).output = 0
  BY DEF Once, Failed
<1>4. DoomsFollow
  <2> DEFINE new == [run |-> t.run, version |-> t.view.version,
                     row |-> Once(Failed(t.view)), error |-> error]
  <2>1. doomed' = doomed \cup {new} /\ runs' = runs
    BY DEF TerminalFailure, storeVars
  <2>2. /\ new.run = t.run /\ new.version = t.view.version
        /\ new.row.status = "failed" /\ new.row.output = 0 /\ new.error = error
    BY <1>3
  <2> HIDE DEF new
  <2> QED BY <2>1, <2>2 DEF DoomsFollow
<1> QED BY <1>1, <1>2, <1>4, Follows

LEMMA LeaseStepFollows ==
  ASSUME IInv, TypeOK', NEW t \in tasks, LeaseStep(t)
  PROVE  IInv'
<1> USE DEF storeVars
<1>1. UNCHANGED <<runs, doomed>>
  BY DEF LeaseStep, AcquireLease, LeaseRefused, LeaseUnavailable, RenewalLost,
         ReleaseLease
<1>2. RunsFollow /\ DoomsFollow
  BY <1>1, SameRunsFollow DEF DoomsFollow
<1>3. \A token : LET u == [t EXCEPT !.phase = "leased", !.token = token] IN
        u.run = t.run /\ u.view = t.view /\ u.phase = "leased"
  BY DEF IInv, TypeOK, Task
<1>4. TasksFollow
  <2>1. CASE AcquireLease(t)
    BY <1>3, <2>1, TasksCarryOn DEF AcquireLease, Become
  <2>2. CASE ~AcquireLease(t)
    <3>1. tasks' \subseteq tasks
      BY <2>2 DEF LeaseStep, LeaseRefused, LeaseUnavailable, RenewalLost,
                  ReleaseLease, End
    <3> QED BY <3>1, TasksCarryOn
  <2> QED BY <2>1, <2>2
<1> QED BY <1>2, <1>4, Follows

LEMMA RunStepFollows ==
  ASSUME IInv, TypeOK', NEW t \in tasks, RunStep(t)
  PROVE  IInv'
<1> DEFINE run == runs[t.run]
           view == t.view
           Current == /\ Guard(t.run, view.version)
                      /\ SameData(view, run)
                      /\ run \in Run
                      /\ Sound(run)
                      /\ run.status \in Active
<1>1. /\ view \in Run
      /\ view.index \in Nat /\ view.attempt + 1 \in Nat
      /\ Len(view.steps) \in Nat
      /\ view.context \in SUBSET Output
  BY DefinitionsAssumption DEF IInv, TypeOK, Task, Run
<1>2. /\ Failed(view) \in Row /\ Once(Failed(view)) \in Row
      /\ \A payload \in Nat :
           /\ Succeeded(view, payload) \in Row
           /\ Once(Succeeded(view, payload)) \in Row
           /\ view.index < Len(view.steps) => With(view, payload) \in SUBSET Output
  BY <1>1, RowsAndOutputs
<1>3. /\ \A payload \in Nat :
           /\ Succeeded(view, payload).status = "succeeded"
           /\ Succeeded(view, payload).index = view.index
           /\ Once(Succeeded(view, payload)).status = "succeeded"
           /\ Once(Succeeded(view, payload)).index = view.index
      /\ Failed(view).status = "failed"
  BY DEF Succeeded, Failed, Once
<1>4. Current => /\ run.index = view.index /\ run.steps = view.steps
                 /\ Matching(run) = Matching(view)
                 /\ CurrentStep(run) = CurrentStep(view)
  BY SameDataMatching DEF SameData, CurrentStep
<1>5. t.phase = "invoking" =>
        view.index < Len(view.steps) /\ CurrentStep(view).type = "activity"
  BY DEF IInv, TasksSound, Total
<1>6. \A type : AtStep(t, type) =>
        view.index < Len(view.steps) /\ CurrentStep(view).type = type
  BY DEF AtStep, Total
<1> HIDE DEF run, view, Current
<1>7. \A committed : CommitView(t, committed) /\ (Current => Committable(run, committed))
        => IInv'
  BY CommitViewFollows DEF run, view, Current
<1>8. CASE CompleteRun(t)
  <2> DEFINE new == SucceedComplete(run, <<>>, view.context)
  <2>1. CommitView(t, new) /\ view.index >= Len(view.steps)
    BY <1>8 DEF CompleteRun, Total, run, view
  <2>2. ASSUME Current PROVE Committable(run, new)
    <3>1. run \in Run /\ Sound(run) /\ run.status \in Active /\ run.index >= Len(run.steps)
      BY <1>4, <2>1, <2>2 DEF Current
    <3> DEFINE row == Succeeded(view, 0)
    <3>. row \in Row /\ row.status = "succeeded" /\ row.index = run.index
      BY <1>2, <1>3, <1>4, <2>2
    <3> HIDE DEF row
    <3>2. Sound(new)
      BY <1>1, <3>1, SucceedCompleteSound
    <3>3. new \in Run
      BY <1>1, <3>1, SucceedCompleteType, EmptySeq
    <3>4. new.version = run.version + 1 /\ new.status = "completed"
      BY <3>1, Bumps, SettledType DEF SucceedComplete, Run
    <3> QED BY <3>2, <3>3, <3>4 DEF Committable
  <2> QED BY <1>7, <2>1, <2>2
<1>9. CASE UnknownStep(t)
  BY <1>9, <1>5, <1>6, TerminalFailureFollows DEF UnknownStep, view
<1>10. CASE MissingFunction(t)
  BY <1>10, <1>5, <1>6, TerminalFailureFollows DEF MissingFunction, view
<1>11. CASE InvokeActivity(t)
  <2>1. RunsFollow /\ DoomsFollow
    BY <1>11, SameRunsFollow DEF InvokeActivity, DoomsFollow, storeVars
  <2>2. [t EXCEPT !.phase = "invoking"].run = t.run
        /\ [t EXCEPT !.phase = "invoking"].view = t.view
    BY DEF IInv, TypeOK, Task
  <2>3. TasksFollow
    BY <1>6, <1>11, <2>2, TasksCarryOn DEF InvokeActivity, Move, Become, Total, view
  <2> QED BY <2>1, <2>3, Follows
<1>12. CASE ActivitySuccess(t)
  <2> DEFINE row == Succeeded(view, 0)
             context == With(view, 0)
             last == SucceedComplete(run, <<row>>, context)
             next == SucceedAdvance(run, row, view.index + 1, context)
  <2>1. /\ view.index < Len(view.steps)
        /\ CommitView(t, IF view.index + 1 >= Len(view.steps) THEN last ELSE next)
    BY <1>5, <1>12 DEF ActivitySuccess, Total, run, view
  <2>2. ASSUME Current
        PROVE  Committable(run, IF view.index + 1 >= Len(view.steps) THEN last ELSE next)
    <3>1. /\ run \in Run /\ Sound(run) /\ run.status \in Active
          /\ run.index = view.index /\ run.steps = view.steps
      BY <1>4, <2>2 DEF Current
    <3>2. row \in Row /\ row.status = "succeeded" /\ row.index = run.index
          /\ context \in SUBSET Output /\ <<row>> \in Seq(Row)
      BY <1>2, <1>3, <2>1, <3>1
    <3> HIDE DEF row, context
    <3>3. CASE view.index + 1 >= Len(view.steps)
      <4>1. Sound(last)
        BY <2>1, <3>1, <3>2, <3>3, SucceedCompleteSound
      <4>2. last \in Run
        BY <3>1, <3>2, SucceedCompleteType
      <4>3. last.version = run.version + 1 /\ last.status = "completed"
        BY <3>1, Bumps, SettledType DEF SucceedComplete, Run
      <4> QED BY <3>3, <4>1, <4>2, <4>3 DEF Committable
    <3>4. CASE ~(view.index + 1 >= Len(view.steps))
      <4>1. Sound(next)
        BY <2>1, <3>1, <3>2, AdvanceSound
      <4>2. next \in Run
        BY <1>1, <3>1, <3>2, SucceedAdvanceType
      <4>3. next.version = run.version + 1 /\ next.status = "running"
        BY <3>1, Bumps, SettledType DEF SucceedAdvance, Run
      <4> QED BY <3>4, <4>1, <4>2, <4>3 DEF Committable
    <3> QED BY <3>3, <3>4
  <2> HIDE DEF last, next
  <2> QED BY <1>7, <2>1, <2>2
<1>13. CASE ContextOverflow(t)
  BY <1>13, <1>5, <1>6, TerminalFailureFollows DEF ContextOverflow, view
<1>14. CASE ActivityFailure(t)
  <2> DEFINE retry == FailRetry(run, Failed(view), view.attempt + 1, "activity failed")
             final == FailTerminal(run, Failed(view), "activity failed")
             new == IF view.attempt + 1 < CurrentStep(view).maxAttempts
                    THEN retry ELSE final
  <2>1. CommitView(t, new)
    BY <1>14 DEF ActivityFailure, run, view
  <2>2. ASSUME Current PROVE Committable(run, retry) /\ Committable(run, final)
    <3>1. run \in Run /\ Sound(run) /\ run.status \in Active
          /\ "activity failed" \in Errors
      BY <2>2 DEF Current, Errors
    <3>2. Sound(retry) /\ Sound(final)
      BY <1>1, <1>2, <1>3, <3>1, FailureSound
    <3>3. retry \in Run /\ final \in Run
      BY <1>1, <1>2, <3>1, FailRetryType, FailTerminalType
    <3>4. /\ retry.version = run.version + 1 /\ retry.status = "running"
          /\ final.version = run.version + 1 /\ final.status = "failed"
      BY <3>1, Bumps, SettledType DEF FailRetry, FailTerminal, Run
    <3> QED BY <3>2, <3>3, <3>4 DEF Committable
  <2> HIDE DEF retry, final
  <2> QED BY <1>7, <2>1, <2>2
<1>15. CASE RunSleep(t)
  <2> DEFINE new == EnterSleep(run, Once(Succeeded(view, 0)), view.index + 1)
  <2>1. CommitView(t, new) /\ view.index < Len(view.steps)
    BY <1>6, <1>15 DEF RunSleep, run, view
  <2>2. ASSUME Current PROVE Committable(run, new)
    <3>1. run \in Run /\ Sound(run) /\ run.status \in Active
          /\ run.index = view.index /\ run.steps = view.steps
      BY <1>4, <2>2 DEF Current
    <3>2. Sound(new)
      BY <1>1, <1>2, <1>3, <2>1, <3>1, AdvanceSound
    <3>3. new \in Run
      <4>1. view.index + 1 \in Nat /\ Once(Succeeded(view, 0)) \in Row
        BY <1>1, <1>2
      <4> QED BY <3>1, <4>1, EnterSleepType
    <3>4. new.version = run.version + 1 /\ new.status = "running"
      BY <3>1, Bumps, SettledType DEF EnterSleep, Run
    <3> QED BY <3>2, <3>3, <3>4 DEF Committable
  <2> HIDE DEF new
  <2> QED BY <1>7, <2>1, <2>2
<1>16. CASE ConsumeFirstSignal(t)
  <2>1. PICK k \in Matching(view) :
          CommitView(t, ConsumeSignal(run, Once(Succeeded(view, view.signals[k].id)),
                                      view.index + 1, With(view, view.signals[k].id), k))
    BY <1>16 DEF ConsumeFirstSignal, run, view
  <2> DEFINE context == With(view, view.signals[k].id)
             row == Once(Succeeded(view, view.signals[k].id))
             new == ConsumeSignal(run, row, view.index + 1, context, k)
  <2>2. view.index < Len(view.steps)
    BY <1>6, <1>16 DEF ConsumeFirstSignal
  <2>3. k \in Nat /\ view.signals[k] \in Signal
    <3>1. k \in 1..Len(view.signals) /\ view.signals \in Seq(Signal)
      BY <1>1 DEF Matching, Run
    <3> QED BY <3>1, ElementOfSeq
  <2>4. /\ context \in SUBSET Output
        /\ row \in Row /\ row.status = "succeeded" /\ row.index = view.index
    <3>1. view.signals[k].id \in Nat
      BY <2>3 DEF Signal
    <3> QED BY <1>2, <1>3, <2>2, <3>1
  <2>5. ASSUME Current PROVE Committable(run, new)
    <3> HIDE DEF context, row
    <3>1. run \in Run /\ Sound(run) /\ run.status \in Active
          /\ run.index = view.index /\ run.steps = view.steps
      BY <1>4, <2>5 DEF Current
    <3>2. Sound(new)
      BY <1>1, <2>2, <2>3, <2>4, <3>1, AdvanceSound
    <3>3. new \in Run
      <4>1. view.index + 1 \in Nat
        BY <1>1
      <4> QED BY <2>3, <2>4, <3>1, <4>1, ConsumeSignalType
    <3>4. new.version = run.version + 1 /\ new.status = "running"
      BY <3>1, Bumps, SettledType DEF ConsumeSignal, Run
    <3> QED BY <3>2, <3>3, <3>4 DEF Committable
  <2> HIDE DEF new
  <2> QED BY <1>7, <2>1, <2>5 DEF new
<1>17. ASSUME NoSignal(t), Current
       PROVE  \A timed : /\ Committable(run, ParkWait(run, timed))
                         /\ Committable(run, ReparkWait(run))
  <2>1. /\ run \in Run /\ Sound(run) /\ run.status \in Active
        /\ run.index < Len(run.steps) /\ CurrentStep(run).type = "waitSignal"
        /\ Matching(run) = {}
    BY <1>4, <1>6, <1>17 DEF NoSignal, Current, view
  <2>2. \A timed : Sound(ParkWait(run, timed)) /\ Sound(ReparkWait(run))
    BY <2>1, ParkSound
  <2>3. \A timed : ParkWait(run, timed) \in Run /\ ReparkWait(run) \in Run
    BY <2>1, ParkWaitType, ReparkWaitType
  <2>4. \A timed : /\ ParkWait(run, timed).version = run.version + 1
                   /\ ParkWait(run, timed).status = "waiting"
                   /\ ReparkWait(run).version = run.version + 1
                   /\ ReparkWait(run).status = "waiting"
    BY <2>1, Bumps, SettledType DEF ParkWait, ReparkWait, Run
  <2> QED BY <2>2, <2>3, <2>4 DEF Committable
<1>18. CASE Park(t)
  <2>1. NoSignal(t) /\ CommitView(t, ParkWait(run, CurrentStep(view).timed))
    BY <1>18 DEF Park, run, view
  <2> QED BY <1>7, <1>17, <2>1
<1>19. CASE WaitTimeout(t)
  BY <1>19, <1>6, TerminalFailureFollows DEF WaitTimeout, NoSignal, view
<1>20. CASE Repark(t)
  <2>1. NoSignal(t) /\ CommitView(t, ReparkWait(run))
    BY <1>20 DEF Repark, run, view
  <2> QED BY <1>7, <1>17, <2>1
<1> QED BY <1>8, <1>9, <1>10, <1>11, <1>12, <1>13, <1>14, <1>15, <1>16, <1>18,
           <1>19, <1>20 DEF RunStep

---------------------------------------------------------------------------
(* Steps of the other actors leave every live task as it is. *)

LEMMA OthersFollow ==
  ASSUME IInv, TypeOK', RunsFollow, tasks' \subseteq tasks, doomed' \subseteq doomed
  PROVE  IInv'
BY Follows, TasksCarryOn DEF DoomsFollow

LEMMA DetachedFailureFollows ==
  ASSUME IInv, TypeOK', NEW d \in doomed, DetachedFailure(d)
  PROVE  IInv'
<1> DEFINE run == runs[d.run]
           new == FailTerminal(run, d.row, d.error)
<1>1. d.run \in RunIds /\ d.row \in Row /\ d.error \in Errors
  BY DEF IInv, TypeOK, Doom
<1>2. run \in Run /\ Sound(run)
  BY <1>1, SoundRuns
<1>3. ASSUME Guard(d.run, d.version) PROVE Committable(run, new)
  <2>1. /\ run.status \in Active /\ d.row.status = "failed"
        /\ d.error = "wait timeout" => Matching(run) = {}
    BY <1>3 DEF IInv, DoomsSound
  <2> HIDE DEF run
  <2>2. Sound(new)
    BY <1>1, <1>2, <2>1, FailureSound
  <2>3. new \in Run
    BY <1>1, <1>2, FailTerminalType
  <2>4. new.version = run.version + 1 /\ new.status = "failed"
    BY <1>2, Bumps, SettledType DEF FailTerminal, Run
  <2> QED BY <2>2, <2>3, <2>4 DEF Committable
<1>4. RunsFollow
  BY <1>1, <1>3, CommitFollows DEF DetachedFailure
<1> QED BY <1>4, OthersFollow DEF DetachedFailure

LEMMA ClaimFollows ==
  ASSUME IInv, TypeOK', ClaimAndDispatch
  PROVE  IInv'
<1>1. PICK S \in SUBSET RunIds :
        /\ ClaimDue(S, IF Free < ClaimBatch THEN Free ELSE ClaimBatch)
        /\ tasks' = tasks \cup
             {[run |-> r, view |-> Claimed(runs[r]),
               phase |-> "claimed", token |-> 0] : r \in S}
  BY DEF ClaimAndDispatch
<1>2. \A r \in RunIds : runs'[r] = IF r \in S THEN Claimed(runs[r]) ELSE runs[r]
  BY <1>1 DEF ClaimDue
<1>3. \A r \in S : runs[r].status \in Active
  BY <1>1 DEF ClaimDue, DueRuns
<1>4. ASSUME NEW r \in RunIds PROVE Sound(runs'[r]) /\ Evolves(r)
  <2>1. runs[r] \in Run /\ Sound(runs[r])
    BY SoundRuns
  <2>2. CASE r \notin S
    BY <1>2, <2>1, <2>2 DEF Evolves, SameData
  <2>3. CASE r \in S
    <3>1. runs'[r] = Claimed(runs[r]) /\ Present(r)
      BY <1>2, <1>3, <2>3 DEF Present, Active, NoEntry
    <3>2. Sound(Claimed(runs[r])) /\ Claimed(runs[r]).status # "unborn"
      BY <1>3, <2>1, <2>3, ClaimedSound
    <3>3. Claimed(runs[r]).version > runs[r].version
      BY <2>1, Bumps
    <3> QED BY <3>1, <3>2, <3>3 DEF Evolves
  <2> QED BY <2>2, <2>3
<1>5. RunsFollow
  BY <1>4 DEF RunsFollow
<1>6. TasksFollow
  BY <1>1, <1>2, <1>3 DEF TasksFollow
<1>7. DoomsFollow
  BY DEF ClaimAndDispatch, DoomsFollow
<1> QED BY <1>5, <1>6, <1>7, Follows

LEMMA RemovalFollows ==
  ASSUME IInv, TypeOK', CollectGarbage \/ CrashAndRestart
  PROVE  IInv'
<1>1. PICK S \in SUBSET RunIds :
        runs' = [r \in RunIds |-> IF r \in S THEN NoRun("gone") ELSE runs[r]]
  <2>1. CASE CollectGarbage
    BY <2>1 DEF CollectGarbage, GcTerminal
  <2>2. CASE CrashAndRestart
    <3> DEFINE T == {r \in RunIds : Present(r)}
    <3>1. runs' = [r \in RunIds |-> IF r \in T THEN NoRun("gone") ELSE runs[r]]
      BY <2>2 DEF CrashAndRestart, LoseMemory
    <3> QED BY <3>1
  <2> QED BY <2>1, <2>2
<1>2. NoRun("gone").status = "gone" /\ Sound(NoRun("gone"))
  <2>1. Sound(NoRun("gone"))
    BY NewRunSound, EmptySeq DEF NoEntry
  <2> QED BY <2>1 DEF NoRun, NewRun
<1>3. ASSUME NEW r \in RunIds PROVE Sound(runs'[r]) /\ Evolves(r)
  BY <1>1, <1>2, SoundRuns DEF Evolves, SameData
<1>4. RunsFollow
  BY <1>3 DEF RunsFollow
<1>5. tasks' \subseteq tasks /\ doomed' \subseteq doomed
  BY DEF CollectGarbage, CrashAndRestart, engineVars
<1> QED BY <1>4, <1>5, OthersFollow

LEMMA CallsAndTimeFollow ==
  ASSUME IInv, TypeOK', NEW r \in RunIds, ApiCall(r) \/ TimePasses(r)
  PROVE  IInv'
<1>1. tasks' = tasks /\ doomed' = doomed
  BY DEF ApiCall, TimePasses, StartRun, SignalRun, Cancel, ClockTicks,
         StoreLeaseLapses, LockExpires, engineVars
<1>2. runs[r] \in Run /\ Sound(runs[r])
  BY SoundRuns
<1>3. CASE StartRun(r)
  <2>1. PICK steps \in Definitions : CreateRun(r, steps)
    BY <1>3 DEF StartRun
  <2>2. Sound(NewRun(steps))
    BY NewRunSound
  <2>3. RunsFollow
    BY <2>1, <2>2, OneRunFollows DEF CreateRun
  <2> QED BY <1>1, <2>3, OthersFollow
<1>4. CASE SignalRun(r)
  <2>1. PICK name \in SignalNames : DeliverSignal(r, name)
    BY <1>4 DEF SignalRun
  <2> DEFINE signal == [name |-> name, id |-> accepted[r] + 1]
             new == Signalled(runs[r], signal)
  <2>2. runs' = [runs EXCEPT ![r] = new] /\ runs[r].status \in Active
    BY <2>1 DEF DeliverSignal
  <2>3. signal \in Signal
    <3>1. accepted[r] + 1 \in Nat
      BY DEF IInv, TypeOK, TypeOKStore
    <3> QED BY <3>1 DEF Signal
  <2> HIDE DEF signal
  <2>4. Sound(new) /\ new.version > runs[r].version
    BY <1>2, <2>2, <2>3, SignalledSound, Bumps
  <2>5. new.status = runs[r].status
    BY <1>2 DEF Signalled, Run
  <2> HIDE DEF new
  <2>6. RunsFollow
    BY <2>2, <2>4, <2>5, OneRunFollows DEF Present, Active, NoEntry
  <2> QED BY <1>1, <2>6, OthersFollow
<1>5. CASE Cancel(r)
  <2> DEFINE new == Canceled(runs[r])
  <2>1. runs' = [runs EXCEPT ![r] = new] /\ runs[r].status \in Active
    BY <1>5 DEF Cancel, CancelRun
  <2>2. Sound(new) /\ new.version > runs[r].version
    BY <1>2, <2>1, CanceledSound, Bumps
  <2>3. new.status = "canceled"
    BY <1>2 DEF Canceled, Run
  <2> HIDE DEF new
  <2>4. RunsFollow
    BY <2>1, <2>2, <2>3, OneRunFollows DEF Present, Active, NoEntry
  <2> QED BY <1>1, <2>4, OthersFollow
<1>6. CASE ClockTicks(r) \/ StoreLeaseLapses(r)
  <2>1. runs[r].status \in Active
    BY <1>6 DEF ClockTicks, StoreLeaseLapses, TimerFires, DeadlinePasses, LeaseLapses
  <2>2. ASSUME TimerFires(r) PROVE RunsFollow
    <3> DEFINE new == Awoken(runs[r])
    <3>1. Sound(new) /\ runs' = [runs EXCEPT ![r] = new]
      BY <1>2, <2>1, <2>2, ClockSound DEF TimerFires
    <3>2. new.version = runs[r].version /\ SameData(runs[r], new)
      BY <1>2 DEF Awoken, SameData, Run
    <3> HIDE DEF new
    <3> QED BY <3>1, <3>2, OneRunFollows
  <2>3. ASSUME DeadlinePasses(r) PROVE RunsFollow
    <3> DEFINE new == [runs[r] EXCEPT !.deadline = "passed"]
    <3>1. Sound(new) /\ runs' = [runs EXCEPT ![r] = new]
      BY <1>2, <2>1, <2>3, ClockSound DEF DeadlinePasses, Overdue
    <3>2. new.version = runs[r].version /\ SameData(runs[r], new)
      BY <1>2 DEF SameData, Run
    <3> HIDE DEF new
    <3> QED BY <3>1, <3>2, OneRunFollows
  <2>4. ASSUME LeaseLapses(r) PROVE RunsFollow
    <3> DEFINE new == [runs[r] EXCEPT !.lease = "free"]
    <3>1. Sound(new) /\ runs' = [runs EXCEPT ![r] = new]
      BY <1>2, <2>1, <2>4, ClockSound DEF LeaseLapses, Lapsed
    <3>2. new.version = runs[r].version /\ SameData(runs[r], new)
      BY <1>2 DEF SameData, Run
    <3> HIDE DEF new
    <3> QED BY <3>1, <3>2, OneRunFollows
  <2> QED BY <1>1, <1>6, <2>2, <2>3, <2>4, OthersFollow
       DEF ClockTicks, StoreLeaseLapses
<1>7. CASE LockExpires(r)
  BY <1>1, <1>7, SameRunsFollow, OthersFollow DEF LockExpires, storeVars
<1> QED BY <1>3, <1>4, <1>5, <1>6, <1>7 DEF ApiCall, TimePasses

---------------------------------------------------------------------------
(* IInv is inductive. *)

LEMMA InitiallySound == Init => IInv
<1> SUFFICES ASSUME Init PROVE IInv
  OBVIOUS
<1>1. TypeOK
  BY TypeOKInit
<1>2. \A r \in RunIds : Sound(runs[r])
  BY NewRunSound, EmptySeq DEF Init, InitStore, NoEntry
<1>3. TasksSound /\ DoomsSound /\ SnapshotsAreExact
  BY DEF Init, TasksSound, DoomsSound, SnapshotsAreExact
<1> QED BY <1>1, <1>2, <1>3
     DEF IInv, Sound, RunsWellFormed, StepsCommittedOnceInOrder, NoLostWakeup,
         TimeoutNeverLosesSignal

LEMMA StaysSound == IInv /\ [Next]_vars => IInv'
<1> SUFFICES ASSUME IInv, [Next]_vars PROVE IInv'
  OBVIOUS
<1>. TypeOK'
  BY TypeOKStep DEF IInv
<1>1. ASSUME NEW r \in RunIds, ApiCall(r) \/ TimePasses(r) PROVE IInv'
  BY <1>1, CallsAndTimeFollow
<1>2. ASSUME NEW t \in tasks, LeaseStep(t) \/ RunStep(t) PROVE IInv'
  BY <1>2, LeaseStepFollows, RunStepFollows
<1>3. ASSUME NEW d \in doomed, DetachedFailure(d) PROVE IInv'
  BY <1>3, DetachedFailureFollows
<1>4. CASE ClaimAndDispatch
  BY <1>4, ClaimFollows
<1>5. CASE CollectGarbage \/ CrashAndRestart
  BY <1>5, RemovalFollows
<1>6. CASE UNCHANGED vars
  BY <1>6, SameRunsFollow, OthersFollow DEF vars
<1> QED BY <1>1, <1>2, <1>3, <1>4, <1>5, <1>6 DEF Next

(* The strengthening the four safety properties need is preserved by every  *)
(* step, including ones that commit from a view that is no longer current.  *)
THEOREM Invariance == Spec => []IInv
<1>1. Init => IInv
  BY InitiallySound
<1>2. IInv /\ [Next]_vars => IInv'
  BY StaysSound
<1> QED BY <1>1, <1>2, PTL DEF Spec

---------------------------------------------------------------------------

(* Whatever the interleaving, the store's map, the tasks, the detached      *)
(* failures and the node's leases hold values of the kinds the code gives   *)
(* them.                                                                    *)
THEOREM TypeCorrect == Spec => []TypeOK
<1>1. IInv => TypeOK
  BY DEF IInv
<1> QED BY <1>1, Invariance, PTL

(* The version a commit checks under the store's lock is all it has to      *)
(* check: as long as it is the one the task's snapshot was taken at,        *)
(* everything else the snapshot holds is still what the store holds.        *)
THEOREM SnapshotsStayExact == Spec => []SnapshotsAreExact
<1>1. IInv => SnapshotsAreExact
  BY DEF IInv
<1> QED BY <1>1, Invariance, PTL

(* However tasks, signals, retries, refused leases and lapsed leases of the *)
(* store interleave, a run's steps succeed in order, once each, no gap.     *)
THEOREM StepsCommitOnceInOrder == Spec => []StepsCommittedOnceInOrder
<1>1. IInv => StepsCommittedOnceInOrder
  BY DEF IInv
<1> QED BY <1>1, Invariance, PTL

(* No signal is slept through, although the wait is parked on a snapshot    *)
(* taken before the signal could have come.                                 *)
THEOREM NoWakeupIsLost == Spec => []NoLostWakeup
<1>1. IInv => NoLostWakeup
  BY DEF IInv
<1> QED BY <1>1, Invariance, PTL

(* No run times out with the signal it waited for in hand, although the     *)
(* timeout is committed by a detached task at any later time.               *)
THEOREM TimeoutsLoseNoSignal == Spec => []TimeoutNeverLosesSignal
<1>1. IInv => TimeoutNeverLosesSignal
  BY DEF IInv
<1> QED BY <1>1, Invariance, PTL

---------------------------------------------------------------------------
(* Every claim has a version to itself. *)

LEMMA ExclusiveKept ==
  ASSUME IInv, VersionsAreExclusive, NEW t \in tasks, NEW u \in Task,
         Become(t, u), u.run = t.run, u.view = t.view,
         t.phase # "committed", doomed' = doomed
  PROVE  VersionsAreExclusive'
BY DEF VersionsAreExclusive, Become

LEMMA ExclusiveShrinks ==
  ASSUME VersionsAreExclusive, tasks' \subseteq tasks, doomed' \subseteq doomed
  PROVE  VersionsAreExclusive'
BY DEF VersionsAreExclusive

(* A task that leaves its failure to a detached commit is done itself. *)
LEMMA ExclusivePassedOn ==
  ASSUME IInv, VersionsAreExclusive, NEW t \in tasks, t.phase # "committed",
         NEW error, TerminalFailure(t, error)
  PROVE  VersionsAreExclusive'
<1> DEFINE u == [t EXCEPT !.phase = "committed"]
           d == [run |-> t.run, version |-> t.view.version,
                 row |-> Once(Failed(t.view)), error |-> error]
<1>1. u.run = t.run /\ u.view = t.view /\ u.phase = "committed"
  BY DEF IInv, TypeOK, Task
<1>2. d.run = t.run /\ d.version = t.view.version
  OBVIOUS
<1>3. tasks' = (tasks \ {t}) \cup {u} /\ doomed' = doomed \cup {d}
  BY DEF TerminalFailure, Move, Become
<1> HIDE DEF u, d
<1> QED BY <1>1, <1>2, <1>3 DEF VersionsAreExclusive

LEMMA ExclusiveClaims ==
  ASSUME IInv, VersionsAreExclusive, ClaimAndDispatch
  PROVE  VersionsAreExclusive'
<1>1. PICK S \in SUBSET RunIds :
        /\ \A r \in S : runs[r] \in Run /\ Present(r)
        /\ tasks' = tasks \cup {[run |-> r, view |-> Claimed(runs[r]),
                                 phase |-> "claimed", token |-> 0] : r \in S}
  BY SoundRuns DEF ClaimAndDispatch, ClaimDue, DueRuns, Present, Active, NoEntry
<1>2. doomed' = doomed
  BY DEF ClaimAndDispatch
<1>3. \A r \in S : /\ Claimed(runs[r]).version = runs[r].version + 1
                   /\ runs[r].version \in Nat
  BY <1>1 DEF Claimed, Run
<1>4. /\ \A t \in tasks : /\ t.view.version \in Nat
                          /\ t.run \in S => t.view.version <= runs[t.run].version
      /\ \A d \in doomed : /\ d.version \in Nat
                           /\ d.run \in S => d.version <= runs[d.run].version
  BY <1>1 DEF IInv, TypeOK, Task, Doom, Run, SnapshotsAreExact, DoomsSound
<1>5. \A t \in tasks' \ tasks :
        /\ t.run \in S /\ t.view.version = runs[t.run].version + 1
        /\ t = [run |-> t.run, view |-> Claimed(runs[t.run]),
                phase |-> "claimed", token |-> 0]
  BY <1>1, <1>3
<1>6. ASSUME NEW t \in tasks', NEW u \in tasks',
             t.run = u.run, t.view.version = u.view.version
      PROVE  t = u
  <2>1. CASE t \in tasks /\ u \in tasks
    BY <1>6, <2>1 DEF VersionsAreExclusive
  <2>2. CASE t \notin tasks /\ u \notin tasks
    BY <1>5, <1>6, <2>2
  <2>3. ASSUME NEW x \in tasks, NEW y \in tasks' \ tasks, x.run = y.run
        PROVE  x.view.version # y.view.version
    BY <1>3, <1>4, <1>5, <2>3
  <2> QED BY <1>6, <2>1, <2>2, <2>3
<1>7. ASSUME NEW t \in tasks', NEW d \in doomed',
             t.run = d.run, t.view.version = d.version
      PROVE  t.phase = "committed"
  <2>1. CASE t \in tasks
    BY <1>2, <1>7, <2>1 DEF VersionsAreExclusive
  <2>2. CASE t \notin tasks
    BY <1>2, <1>3, <1>4, <1>5, <1>7, <2>2
  <2> QED BY <2>1, <2>2
<1> QED BY <1>2, <1>6, <1>7 DEF VersionsAreExclusive

LEMMA ExclusiveStep == IInv /\ VersionsAreExclusive /\ [Next]_vars => VersionsAreExclusive'
<1> SUFFICES ASSUME IInv, VersionsAreExclusive, [Next]_vars PROVE VersionsAreExclusive'
  OBVIOUS
<1>1. \A t \in tasks, phase \in Phases :
        LET u == [t EXCEPT !.phase = phase] IN
          u \in Task /\ u.run = t.run /\ u.view = t.view
  BY DEF IInv, TypeOK, Task
<1>2. ASSUME NEW t \in tasks, LeaseStep(t) PROVE VersionsAreExclusive'
  <2>1. CASE AcquireLease(t)
    <3>1. PICK token \in Nat :
            /\ Become(t, [t EXCEPT !.phase = "leased", !.token = token])
            /\ t.phase = "claimed" /\ doomed' = doomed
      <4>1. t.run \in RunIds /\ lastToken[t.run] + 1 \in Nat /\ 1 \in Nat
        BY DEF IInv, TypeOK, Task
      <4> QED BY <2>1, <4>1 DEF AcquireLease
    <3> DEFINE u == [t EXCEPT !.phase = "leased", !.token = token]
    <3>2. u \in Task /\ u.run = t.run /\ u.view = t.view
      BY TaskChanges DEF IInv, TypeOK, Task
    <3> HIDE DEF u
    <3> QED BY <3>1, <3>2, ExclusiveKept DEF u
  <2>2. CASE ~AcquireLease(t)
    <3>1. tasks' \subseteq tasks /\ doomed' = doomed
      BY <1>2, <2>2 DEF LeaseStep, LeaseRefused, LeaseUnavailable, RenewalLost,
                        ReleaseLease, End
    <3> QED BY <3>1, ExclusiveShrinks
  <2> QED BY <2>1, <2>2
<1>3. ASSUME NEW t \in tasks, RunStep(t) PROVE VersionsAreExclusive'
  <2>1. t.phase # "committed"
    BY <1>3 DEF RunStep, CompleteRun, UnknownStep, MissingFunction, InvokeActivity,
                ActivitySuccess, ContextOverflow, ActivityFailure, RunSleep,
                ConsumeFirstSignal, Park, WaitTimeout, Repark, NoSignal, AtStep
  <2>2. CASE \E phase \in Phases : Move(t, phase) /\ doomed' = doomed
    BY <1>1, <2>1, <2>2, ExclusiveKept DEF Move
  <2>3. CASE \E error : TerminalFailure(t, error)
    BY <2>1, <2>3, ExclusivePassedOn
  <2>4. \/ \E phase \in Phases : Move(t, phase) /\ doomed' = doomed
        \/ \E error : TerminalFailure(t, error)
    <3>1. "invoking" \in Phases /\ "committed" \in Phases
      BY DEF Phases
    <3> QED BY <1>3, <3>1
            DEF RunStep, CompleteRun, UnknownStep, MissingFunction, InvokeActivity,
                ActivitySuccess, ContextOverflow, ActivityFailure, RunSleep,
                ConsumeFirstSignal, Park, WaitTimeout, Repark, CommitView
  <2> QED BY <2>2, <2>3, <2>4
<1>4. CASE ClaimAndDispatch
  BY <1>4, ExclusiveClaims
<1>5. ASSUME tasks' \subseteq tasks /\ doomed' \subseteq doomed PROVE VersionsAreExclusive'
  BY <1>5, ExclusiveShrinks
<1>6. ASSUME NEW r \in RunIds, ApiCall(r) \/ TimePasses(r) PROVE VersionsAreExclusive'
  BY <1>5, <1>6 DEF ApiCall, StartRun, SignalRun, Cancel, TimePasses, ClockTicks,
                    StoreLeaseLapses, LockExpires, engineVars
<1>7. ASSUME NEW d \in doomed, DetachedFailure(d) PROVE VersionsAreExclusive'
  BY <1>5, <1>7 DEF DetachedFailure
<1>8. CASE CollectGarbage \/ CrashAndRestart \/ UNCHANGED vars
  BY <1>5, <1>8 DEF CollectGarbage, CrashAndRestart, engineVars, vars
<1> QED BY <1>2, <1>3, <1>4, <1>6, <1>7, <1>8 DEF Next

(* Whatever leases lapse or are granted late, at most one task, or the      *)
(* detached failure it has left behind, is ever able to commit to a run.    *)
THEOREM OneCommitterAtATime == Spec => []VersionsAreExclusive
<1>1. Init => IInv /\ VersionsAreExclusive
  BY InitiallySound DEF Init, VersionsAreExclusive
<1>2. (IInv /\ VersionsAreExclusive) /\ [Next]_vars => (IInv /\ VersionsAreExclusive)'
  BY StaysSound, ExclusiveStep
<1> QED BY <1>1, <1>2, PTL DEF Spec
===========================================================================
