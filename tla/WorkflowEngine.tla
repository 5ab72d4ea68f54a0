-------------------------- MODULE WorkflowEngine --------------------------
(***************************************************************************)
(* The durable step machine of src/workflow/engine.rs over the run store   *)
(* and the run leases of fiducia-node (src/coord.rs).                      *)
(*                                                                         *)
(* One scheduler loop claims due runs and spawns a task for each.  A task  *)
(* carries the snapshot (view) its claim took, acquires the node's lease   *)
(* on workflow/run/<id>, performs the current step of its view and commits *)
(* the outcome under the view's version, then releases the lease.  Every   *)
(* point at which the code awaits separates two actions, so tasks, API     *)
(* calls, the clock and the node interleave there.  A terminal failure     *)
(* that is not the exhaustion of retries is committed by a detached task,  *)
(* after its parent may have released the lease.                           *)
(***************************************************************************)
EXTENDS RunStore

CONSTANTS
  Authority,     \* "node": a coordinator is configured; "local": it is not
  MaxInflight,   \* WORKFLOW_MAX_INFLIGHT
  ClaimBatch,    \* WORKFLOW_CLAIM_BATCH
  MaxSignals,    \* bound: signals a run accepts in a behaviour
  MaxFaults,     \* bound: requests to the node that fail, grants that are
                 \* lost and crashes in a behaviour
  MaxDetours     \* bound: how far the version of a run that is claimed may
                 \* be ahead of its rows: a row takes two, its claim and its
                 \* commit, and what lapses, parks or signals takes the rest

ASSUME AuthorityAssumption == Authority \in {"node", "local"}
ASSUME InflightAssumption == MaxInflight \in Nat \ {0}
ASSUME BatchAssumption == ClaimBatch \in Nat \ {0}
ASSUME BoundsAssumption ==
  MaxSignals \in Nat /\ MaxFaults \in Nat /\ MaxDetours \in Nat

VARIABLES
  tasks,      \* the live process_run tasks
  doomed,     \* detached tasks about to commit a terminal failure
  lock,       \* the node's run leases: the fencing token of the grant, or 0
  lastToken,  \* the last fencing token the node issued for each run
  faults      \* bound: things that have gone wrong so far

vars == <<runs, accepted, tasks, doomed, lock, lastToken, faults>>

Phases == {"claimed", "leased", "invoking", "committed"}

Task == [run : RunIds, view : Run, phase : Phases, token : Nat]
Doom == [run : RunIds, version : Nat, row : Row, error : Errors]

TypeOK ==
  /\ TypeOKStore
  /\ tasks \in SUBSET Task
  /\ doomed \in SUBSET Doom
  /\ lock \in [RunIds -> Nat]
  /\ lastToken \in [RunIds -> Nat]
  /\ faults \in Nat

Init ==
  /\ InitStore
  /\ tasks = {}
  /\ doomed = {}
  /\ lock = [r \in RunIds |-> 0]
  /\ lastToken = [r \in RunIds |-> 0]
  /\ faults = 0

engineVars == <<tasks, doomed, lock, lastToken, faults>>
storeVars == <<runs, accepted>>
lockVars == <<lock, lastToken>>

Fault == faults < MaxFaults /\ faults' = faults + 1

---------------------------------------------------------------------------
(* The HTTP API and the garbage collector *)

StartRun(r) ==
  /\ \E steps \in Definitions : CreateRun(r, steps)
  /\ UNCHANGED engineVars

SignalRun(r) ==
  /\ accepted[r] < MaxSignals
  /\ \E name \in SignalNames : DeliverSignal(r, name)
  /\ UNCHANGED engineVars

Cancel(r) == CancelRun(r) /\ UNCHANGED engineVars

CollectGarbage == \E S \in SUBSET RunIds : GcTerminal(S) /\ UNCHANGED engineVars

---------------------------------------------------------------------------
(* The scheduler *)

Free == MaxInflight - Cardinality(tasks)

VersionBound(r) == 2 * Len(runs[r].rows) + MaxDetours

ClaimAndDispatch ==
  /\ Free > 0
  /\ \E S \in SUBSET RunIds :
       /\ ClaimDue(S, IF Free < ClaimBatch THEN Free ELSE ClaimBatch)
       /\ \A r \in S : runs[r].version < VersionBound(r)
       /\ tasks' = tasks \cup
            {[run |-> r, view |-> Claimed(runs[r]),
              phase |-> "claimed", token |-> 0] : r \in S}
  /\ UNCHANGED <<doomed, lock, lastToken, faults>>

---------------------------------------------------------------------------
(* The run lease *)

Become(t, task) == tasks' = (tasks \ {t}) \cup {task}
Move(t, phase) == Become(t, [t EXCEPT !.phase = phase])
End(t) == tasks' = tasks \ {t}

(* The node grants a lease it has not granted, under a token of its own. *)
Grant(r) ==
  /\ lock[r] = 0
  /\ lock' = [lock EXCEPT ![r] = lastToken[r] + 1]
  /\ lastToken' = [lastToken EXCEPT ![r] = @ + 1]

(* Without a coordinator the lease is synthetic: always granted, token 1. *)
AcquireLease(t) ==
  /\ t.phase = "claimed"
  /\ \/ /\ Authority = "node"
        /\ Grant(t.run)
        /\ Become(t, [t EXCEPT !.phase = "leased", !.token = lastToken[t.run] + 1])
     \/ /\ Authority = "local"
        /\ Become(t, [t EXCEPT !.phase = "leased", !.token = 1])
        /\ UNCHANGED lockVars
  /\ UNCHANGED <<storeVars, doomed, faults>>

(* "another replica owns this run right now": the task ends, and the claim *)
(* it stands for stays in the store until the store's own lease lapses.    *)
LeaseRefused(t) ==
  /\ Authority = "node"
  /\ t.phase = "claimed"
  /\ lock[t.run] # 0
  /\ End(t)
  /\ UNCHANGED <<storeVars, doomed, lockVars, faults>>

(* The request failed, before or after the node granted it. *)
LeaseUnavailable(t) ==
  /\ Authority = "node"
  /\ t.phase = "claimed"
  /\ Fault
  /\ End(t)
  /\ UNCHANGED lockVars \/ Grant(t.run)
  /\ UNCHANGED <<storeVars, doomed>>

Held(t) == t.phase \in {"leased", "invoking", "committed"} /\ lock[t.run] = t.token

(* Renewal is refused because the grant is gone, or its request fails; the *)
(* select cancels the step where it awaits (the child's answer, or the     *)
(* publication that follows a commit), and nothing is released.  A release *)
(* whose request fails leaves the same state.                              *)
RenewalLost(t) ==
  /\ Authority = "node"
  /\ t.phase \in {"invoking", "committed"}
  /\ IF Held(t) THEN Fault ELSE UNCHANGED faults
  /\ End(t)
  /\ UNCHANGED <<storeVars, doomed, lockVars>>

(* Only the exact grant is released; a rejection is only logged. *)
ReleaseLease(t) ==
  /\ t.phase = "committed"
  /\ End(t)
  /\ lock' = IF Authority = "node" /\ Held(t)
             THEN [lock EXCEPT ![t.run] = 0] ELSE lock
  /\ UNCHANGED <<storeVars, doomed, lastToken, faults>>

(* The node expires a grant nobody renews.  One whose task is alive runs   *)
(* out only when that task stalls or cannot reach the node.                *)
LockExpires(r) ==
  /\ lock[r] # 0
  /\ IF \E t \in tasks : t.run = r /\ Held(t) THEN Fault ELSE UNCHANGED faults
  /\ lock' = [lock EXCEPT ![r] = 0]
  /\ UNCHANGED <<storeVars, tasks, doomed, lastToken>>

---------------------------------------------------------------------------
(* One step of a run: do_process_run and the branches it dispatches to *)

Total(view) == Len(view.steps)
CurrentStep(view) == view.steps[view.index + 1]

AtStep(t, type) ==
  /\ t.phase = "leased"
  /\ t.view.index < Total(t.view)
  /\ CurrentStep(t.view).type = type

Succeeded(view, output) ==
  [index |-> view.index, attempt |-> view.attempt, status |-> "succeeded",
   output |-> output]
Failed(view) ==
  [index |-> view.index, attempt |-> view.attempt, status |-> "failed", output |-> 0]
(* The rows of steps that are not retried carry attempt 0. *)
Once(row) == [row EXCEPT !.attempt = 0]

(* Mutant: an output of the same name stays. *)
WithFirst(view, payload) ==
  LET name == CurrentStep(view).name IN
    IF \E o \in view.context : o.name = name THEN view.context
    ELSE view.context \cup {[name |-> name, index |-> view.index, payload |-> payload]}

(* The output replaces one of the same name. *)
With(view, payload) ==
  LET name == CurrentStep(view).name IN
    {o \in view.context : o.name # name}
      \cup {[name |-> name, index |-> view.index, payload |-> payload]}

CommitView(t, committed) ==
  /\ Commit(t.run, t.view.version, committed)
  /\ Move(t, "committed")
  /\ UNCHANGED <<doomed, lockVars, faults>>

(* terminal_failure spawns the commit and returns. *)
TerminalFailure(t, error) ==
  /\ doomed' = doomed \cup {[run |-> t.run, version |-> t.view.version,
                             row |-> Once(Failed(t.view)), error |-> error]}
  /\ Move(t, "committed")
  /\ UNCHANGED <<storeVars, lockVars, faults>>

DetachedFailure(d) ==
  /\ Commit(d.run, d.version, FailTerminal(runs[d.run], d.row, d.error))
  /\ doomed' = doomed \ {d}
  /\ UNCHANGED <<tasks, lockVars, faults>>

(* The last step was a sleep or a wait: the run completes one tick later. *)
CompleteRun(t) ==
  /\ t.phase = "leased"
  /\ t.view.index >= Total(t.view)
  /\ CommitView(t, SucceedComplete(runs[t.run], <<>>, t.view.context))

UnknownStep(t) ==
  /\ AtStep(t, "unknown")
  /\ TerminalFailure(t, "unknown step")

MissingFunction(t) ==
  /\ AtStep(t, "activity")
  /\ ~CurrentStep(t.view).functionRef
  /\ TerminalFailure(t, "no function")

InvokeActivity(t) ==
  /\ AtStep(t, "activity")
  /\ CurrentStep(t.view).functionRef
  /\ Move(t, "invoking")
  /\ UNCHANGED <<storeVars, doomed, lockVars, faults>>

(* The child answered, with an in-band failure or a success: both count.  *)
ActivitySuccess(t) ==
  /\ t.phase = "invoking"
  /\ LET context == With(t.view, 0)
         row == Succeeded(t.view, 0)
     IN CommitView(t,
          IF t.view.index + 1 >= Total(t.view)
          THEN SucceedComplete(runs[t.run], <<row>>, context)
          ELSE SucceedAdvance(runs[t.run], row, t.view.index + 1, context))

(* The output would take the context past MAX_CONTEXT_BYTES. *)
ContextOverflow(t) ==
  /\ t.phase = "invoking"
  /\ TerminalFailure(t, "context too large")

(* Mutant: one attempt too many. *)
ActivityFailureOffByOne(t) ==
  /\ t.phase = "invoking"
  /\ CommitView(t,
       IF t.view.attempt + 1 <= CurrentStep(t.view).maxAttempts
       THEN FailRetry(runs[t.run], Failed(t.view), t.view.attempt + 1,
                      "activity failed")
       ELSE FailTerminal(runs[t.run], Failed(t.view), "activity failed"))

ActivityFailure(t) ==
  /\ t.phase = "invoking"
  /\ CommitView(t,
       IF t.view.attempt + 1 < CurrentStep(t.view).maxAttempts
       THEN FailRetry(runs[t.run], Failed(t.view), t.view.attempt + 1,
                      "activity failed")
       ELSE FailTerminal(runs[t.run], Failed(t.view), "activity failed"))

RunSleep(t) ==
  /\ AtStep(t, "sleep")
  /\ CommitView(t, EnterSleep(runs[t.run], Once(Succeeded(t.view, 0)),
                              t.view.index + 1))

(* The positions of the view's signals that the step waits for. *)
Matching(view) ==
  {k \in 1..Len(view.signals) : view.signals[k].name = CurrentStep(view).signal}

ConsumeFirstSignal(t) ==
  /\ AtStep(t, "waitSignal")
  /\ \E k \in Matching(t.view) :
       /\ \A j \in Matching(t.view) : k <= j
       /\ CommitView(t,
            LET payload == t.view.signals[k].id IN
              ConsumeSignal(runs[t.run], Once(Succeeded(t.view, payload)),
                            t.view.index + 1, With(t.view, payload), k))

NoSignal(t) == AtStep(t, "waitSignal") /\ Matching(t.view) = {}

Park(t) ==
  /\ NoSignal(t)
  /\ t.view.status # "waiting"
  /\ CommitView(t, ParkWait(runs[t.run], CurrentStep(t.view).timed))

WaitTimeout(t) ==
  /\ NoSignal(t)
  /\ t.view.status = "waiting"
  /\ t.view.deadline = "passed"
  /\ TerminalFailure(t, "wait timeout")

Repark(t) ==
  /\ NoSignal(t)
  /\ t.view.status = "waiting"
  /\ t.view.deadline # "passed"
  /\ CommitView(t, ReparkWait(runs[t.run]))

---------------------------------------------------------------------------
(* The environment *)

ClockTicks(r) ==
  /\ TimerFires(r) \/ DeadlinePasses(r)
  /\ UNCHANGED engineVars

(* The store's lease has a fixed length and nothing extends it: it runs    *)
(* out under a task whenever the step takes longer than that, by itself.   *)
StoreLeaseLapses(r) == LeaseLapses(r) /\ UNCHANGED engineVars

(* The process dies and starts again; the node's grants outlive it. *)
CrashAndRestart ==
  /\ Fault
  /\ LoseMemory
  /\ tasks' = {}
  /\ doomed' = {}
  /\ UNCHANGED lockVars

---------------------------------------------------------------------------

LeaseStep(t) ==
  \/ AcquireLease(t)
  \/ LeaseRefused(t)
  \/ LeaseUnavailable(t)
  \/ RenewalLost(t)
  \/ ReleaseLease(t)

RunStep(t) ==
  \/ CompleteRun(t)
  \/ UnknownStep(t)
  \/ MissingFunction(t)
  \/ InvokeActivity(t)
  \/ ActivitySuccess(t)
  \/ ContextOverflow(t)
  \/ ActivityFailure(t)
  \/ RunSleep(t)
  \/ ConsumeFirstSignal(t)
  \/ Park(t)
  \/ WaitTimeout(t)
  \/ Repark(t)

ApiCall(r) == StartRun(r) \/ SignalRun(r) \/ Cancel(r)

TimePasses(r) == ClockTicks(r) \/ StoreLeaseLapses(r) \/ LockExpires(r)

Next ==
  \/ \E r \in RunIds : ApiCall(r) \/ TimePasses(r)
  \/ \E t \in tasks : LeaseStep(t) \/ RunStep(t)
  \/ \E d \in doomed : DetachedFailure(d)
  \/ ClaimAndDispatch
  \/ CollectGarbage
  \/ CrashAndRestart

Spec == Init /\ [][Next]_vars

---------------------------------------------------------------------------
(* Properties *)

(* The view of a task carries the version of the run it was taken from; if *)
(* no commit or API call has bumped the version since, everything a step   *)
(* computes from the view is still what the map holds.  This is what makes *)
(* it sound to check nothing but the version under the commit's lock.      *)
SameData(view, run) ==
  /\ view.status = run.status
  /\ view.steps = run.steps
  /\ view.index = run.index
  /\ view.attempt = run.attempt
  /\ view.signals = run.signals
  /\ view.context = run.context
  /\ view.rows = run.rows
  /\ view.deadline = "passed" => run.deadline = "passed"

SnapshotsAreExact ==
  \A t \in tasks :
    /\ Present(t.run) => t.view.version <= runs[t.run].version
    /\ Guard(t.run, t.view.version) => SameData(t.view, runs[t.run])

(* Leases exclude nobody: the store's may lapse, and the node's be granted *)
(* late, while a task is at work.  Every claim has a version to itself, so *)
(* at most one task, or the detached failure it has left behind, is ever   *)
(* able to commit to a run.                                                *)
VersionsAreExclusive ==
  /\ \A t, u \in tasks :
       t.run = u.run /\ t.view.version = u.view.version => t = u
  /\ \A d, e \in doomed :
       d.run = e.run /\ d.version = e.version => d = e
  /\ \A t \in tasks, d \in doomed :
       t.run = d.run /\ t.view.version = d.version => t.phase = "committed"

(* However tasks, signals, retries and lapsed leases interleave, the steps *)
(* of a run are recorded as succeeded in order, once each, with no gap:    *)
(* exactly those before the current one, or all of them that leave a row   *)
(* when the run has completed.                                             *)
CommittedSteps(run) ==
  IF run.status = "completed" THEN Len(run.steps) ELSE run.index

(* The succeeded rows are those of steps 0..n-1, in order, once each. *)
InOrder(rows, n) ==
  LET successes == {k \in 1..Len(rows) : rows[k].status = "succeeded"} IN
    /\ \A k \in successes : rows[k].index < n
    /\ \A i \in 0..n - 1 : \E k \in successes : rows[k].index = i
    /\ \A j, k \in successes : j < k => rows[j].index < rows[k].index

StepsCommittedOnceInOrder ==
  \A r \in RunIds : InOrder(runs[r].rows, CommittedSteps(runs[r]))

(* Retries are counted once: an active run has as many failed rows for its *)
(* current step as attempts behind it, under different attempt numbers,    *)
(* and an activity fails its run after maxAttempts failures, never before. *)
Failures(run) ==
  {k \in 1..Len(run.rows) : /\ run.rows[k].status = "failed"
                            /\ run.rows[k].index = run.index}

Retried(run) ==
  /\ run.status \in Active => Cardinality(Failures(run)) = run.attempt
  /\ run.status = "failed" /\ run.error = "activity failed" =>
       Cardinality(Failures(run)) = CurrentStep(run).maxAttempts
  /\ run.status \in Active \/ (run.status = "failed" /\ run.error = "activity failed") =>
       \A j, k \in Failures(run) :
         j # k => run.rows[j].attempt # run.rows[k].attempt

RetriesAreHonoured == \A r \in RunIds : Present(r) => Retried(runs[r])

(* The context is written back whole from the view, so a stale write would *)
(* erase another step's output: it holds, under every name, the output of  *)
(* the last activity or wait of that name that succeeded, and nothing else.*)
Writers(run) ==
  {i \in 0..CommittedSteps(run) - 1 :
     run.steps[i + 1].type \in {"activity", "waitSignal"}}
NameOf(run, i) == run.steps[i + 1].name
LastWriters(run) ==
  {i \in Writers(run) :
     \A j \in Writers(run) : NameOf(run, j) = NameOf(run, i) => j <= i}

ContextFits(run) ==
  /\ {o.index : o \in run.context} = LastWriters(run)
  /\ \A o \in run.context : o.name = NameOf(run, o.index)
  /\ \A o, p \in run.context : o.name = p.name => o = p

ContextMatchesSteps == \A r \in RunIds : Present(r) => ContextFits(runs[r])

(* A signal the API accepted is pending or has been consumed by one step,  *)
(* never both, never neither, never twice, although it is removed by the   *)
(* position it had in a view and its output may be replaced by one of the  *)
(* same name; and waits for a name take its signals in the order of their  *)
(* arrival.                                                                *)
PendingIds(run) == {run.signals[k].id : k \in 1..Len(run.signals)}
Consumed(run) ==
  {[index |-> run.rows[k].index, payload |-> run.rows[k].output] :
     k \in {j \in 1..Len(run.rows) : run.rows[j].output # 0}}

ConsumedIds(run) == {o.payload : o \in Consumed(run)}
WaitedFor(run, i) == run.steps[i + 1].signal

Accounted(run, number) ==
  /\ PendingIds(run) \cup ConsumedIds(run) = 1..number
  /\ PendingIds(run) \cap ConsumedIds(run) = {}
  /\ \A o \in run.context : o.payload # 0 =>
       [index |-> o.index, payload |-> o.payload] \in Consumed(run)
  /\ \A o, p \in Consumed(run) :
       o.index < p.index /\ WaitedFor(run, o.index) = WaitedFor(run, p.index) =>
         o.payload < p.payload
  /\ \A o \in Consumed(run), k \in 1..Len(run.signals) :
       run.signals[k].name = WaitedFor(run, o.index) => o.payload < run.signals[k].id

SignalsAccounted ==
  \A r \in RunIds : Present(r) => Accounted(runs[r], accepted[r])

(* A signal that arrives while the run is being parked is not slept        *)
(* through: a run is put off only with nothing to consume, and is left     *)
(* unscheduled only in a wait that has no timeout.                         *)
WakesUp(run) ==
  run.status = "waiting" =>
    /\ Matching(run) # {} => run.due = "ready"
    /\ run.due = "never" => run.deadline = "none"

NoLostWakeup == \A r \in RunIds : WakesUp(runs[r])

(* The failure of a wait is committed by a detached task, possibly after   *)
(* its signal has arrived; a run that timed out never has one pending.     *)
TimedOutEmpty(run) ==
  run.status = "failed" /\ run.error = "wait timeout" => Matching(run) = {}

TimeoutNeverLosesSignal == \A r \in RunIds : TimedOutEmpty(runs[r])

(* The engine implements RunLifecycle.  current_step_index is not moved by *)
(* the commit that completes a run with its last activity, so the steps    *)
(* done are counted by CommittedSteps.                                     *)
PhaseOf(run) == IF run.status \in Active THEN "active" ELSE run.status

phaseSeen  == [r \in RunIds |-> PhaseOf(runs[r])]
lengthSeen == [r \in RunIds |-> Len(runs[r].steps)]
doneSeen   == [r \in RunIds |-> CommittedSteps(runs[r])]
inboxSeen  == [r \in RunIds |-> PendingIds(runs[r])]

Lifecycle == INSTANCE RunLifecycle WITH
  phase <- phaseSeen, length <- lengthSeen, done <- doneSeen, inbox <- inboxSeen

LifecycleImplemented == Lifecycle!LSpec

---------------------------------------------------------------------------
(* The inductive invariant behind the safety properties.  A task's view is *)
(* an exact snapshot while its version is current, a detached failure is   *)
(* of a step the run is still at and, if it is a timeout, one whose signal *)
(* has not come; and a run that waits is at a step that waits.             *)

WellFormed(run) ==
  /\ run.index <= Len(run.steps)
  /\ run.status = "waiting" =>
       run.index < Len(run.steps) /\ CurrentStep(run).type = "waitSignal"

RunsWellFormed == \A r \in RunIds : WellFormed(runs[r])

TasksSound ==
  \A t \in tasks :
    /\ runs[t.run].status # "unborn"
    /\ t.view.status \in {"running", "waiting"}
    /\ WellFormed(t.view)
    /\ t.phase = "invoking" =>
         t.view.index < Total(t.view) /\ CurrentStep(t.view).type = "activity"

DoomsSound ==
  \A d \in doomed :
    LET run == runs[d.run] IN
      /\ run.status # "unborn"
      /\ d.row.status = "failed" /\ d.row.output = 0
      /\ d.error # "activity failed"
      /\ Present(d.run) => d.version <= run.version
      /\ Guard(d.run, d.version) =>
           /\ run.status \in Active
           /\ run.index < Len(run.steps)
           /\ d.error = "wait timeout" => Matching(run) = {}

IInv ==
  /\ TypeOK
  /\ RunsWellFormed
  /\ TasksSound
  /\ DoomsSound
  /\ SnapshotsAreExact
  /\ StepsCommittedOnceInOrder
  /\ NoLostWakeup
  /\ TimeoutNeverLosesSignal

(* The inductive invariant, on top of IInv, behind what a run's rows,      *)
(* context and signals add up to.  A run that has not ended has no row of  *)
(* a later step and no row of an attempt to come, and an attempt left;     *)
(* only a success consumes; and signals are pending in their order.        *)

AttemptLeft(run) ==
  run.status \in Active =>
    /\ \A k \in 1..Len(run.rows) : run.rows[k].index <= run.index
    /\ \A k \in Failures(run) : run.rows[k].attempt < run.attempt
    /\ run.index < Len(run.steps) => run.attempt < CurrentStep(run).maxAttempts

InArrivalOrder(run) ==
  /\ \A k \in 1..Len(run.rows) : run.rows[k].output # 0 => run.rows[k].status = "succeeded"
  /\ \A j, k \in 1..Len(run.signals) : j < k => run.signals[j].id < run.signals[k].id

AddsUp(run, number) ==
  /\ AttemptLeft(run)
  /\ Retried(run)
  /\ ContextFits(run)
  /\ InArrivalOrder(run)
  /\ Accounted(run, number)

HistoryInv ==
  \A r \in RunIds :
    /\ runs[r].status = "unborn" =>
         runs[r].index = 0 /\ runs[r].signals = <<>> /\ accepted[r] = 0
    /\ Present(r) => AddsUp(runs[r], accepted[r])

---------------------------------------------------------------------------
(* What a comment claims, and the code does not keep *)

(* engine.rs:10-13: the lease is acquired and its token stamped on the     *)
(* activity, so that a stale party cannot double-drive a run: whoever      *)
(* invokes an activity under the lease invokes the run's current step.     *)
NoDoubleDrive ==
  \A t \in tasks :
    t.phase = "invoking" /\ Held(t) /\ Present(t.run) =>
      runs[t.run].index = t.view.index
===========================================================================
