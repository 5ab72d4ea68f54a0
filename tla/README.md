# A verification development for fiducia-lambda-service

TLA+ models of the service in `src/`, the TLC configurations that check them on
small instances, and proofs, checked by TLAPS, of the safety properties that
matter most. Modules are named below without their extension; source paths are
relative to `src/src/`.

## The system

fiducia-lambda-service runs customers' functions and durable workflows made of
them. One process holds everything below; several replicas may run, and share
only the coordinator (fiducia-node), the database and the NATS broker.

| component | state it keeps | operations | talks to |
|---|---|---|---|
| run store (`workflow/store.rs`) | a map from run id to run behind one mutex: status, step index, attempt, pending signals, context, step rows, schedule, lease, **version** | `create_run`, `deliver_signal`, `cancel_run`, `claim_due`, the eight commits (`succeed_advance`, `fail_retry`, `park_wait`, ...), `gc_terminal` | called by the engine and the HTTP handlers |
| workflow engine (`workflow/engine.rs`) | a poll loop, one task per claimed run, detached tasks for terminal failures | claim and dispatch, acquire/renew/release the run's lease, one step per tick: activity, sleep, wait for a signal, complete, fail | run store, coordinator, child runner, NATS |
| coordination client (`coord.rs`) | the registration status and counters | run leases with fencing tokens, idempotency claims, register, heartbeat, deregister | fiducia-node |
| child runner (`child_runner.rs`) | a map from reuse key to warm worker; a driver task and a child process per worker | `ensure_worker`, `spawn_worker`, `invoke_worker`, `delete_worker`, `reap_idle`, `destroy`, `dispatch_via_pool` | children over pipes, NATS |
| function control plane (`function_control.rs`, `http.rs`, `definition.rs`) | rows of `lambda_functions` | create, update, delete, pause, check and activate | psql processes, child runner |
| definition loading and invocation (`definition.rs`, `child_runner.rs`, `http.rs`) | the row each invocation read | the load of a tenant, the load of a workflow activity, the run of the row loaded | psql processes, child runner |
| runtime helpers (`runtime.rs`) | none | the reuse key and the command of a definition | called by the child runner |
| NATS client (`nats.rs`) | the cached client and the time of the last connect, behind an async mutex | connect, `publish_event`, `pool_dispatch`, invalidate | the broker |
| process lifecycle (`main.rs`) | where startup and shutdown are | register before serving, supervise, drain, join, deregister | coordinator |
| configuration, metrics, router, JavaScript runtimes | none that steps of others depend on, or environment | | |

What is hard in it, and what each component must get right:

* **Engine and store.** The lock is released between the claim of a run and the
  commit of its step. In between the task asks the node for a lease and awaits
  a child. Signals, cancellations, other ticks, a lapsed lease and the detached
  failure tasks all interleave there. A clock read at the claim is compared with
  instants computed from clocks read at commits, by any retry policy a
  definition may write. Correct means: a step is recorded once
  and in order; a retry is counted once; an accepted signal is consumed by at
  most one wait and never slept through; a timeout does not lose a signal; a
  retry, a sleep and a timeout come when they were promised; no run is left that
  nobody picks up again.
* **Starting a run under an idempotency key.** Two lookups and a claim at the
  node, with awaits between them. Correct means: one live run per key, and
  a request that failed can be repeated with success.
* **Child runner.** Calls of one key race to spawn, evict and share a worker,
  time out and are abandoned; a child dies or hangs. Correct means: a call
  gets the answer to its own payload; eviction does not cut a call short;
  calls and evicted workers end.
* **Control plane.** A psql statement outlives the call that gave up on it, and
  a check lies between a read and a write of the row, and an invocation between a
  read and the run of what it read. Correct means: only code that passed the
  sandbox is active, or run for a tenant; a function stays with its tenant; paused
  means paused and deleted means deleted.
* **NATS.** Answers of the broker are lost or late; several callers share one
  cached client. Correct means: connects are on a cadence and go on being
  tried; strict mode never duplicates; the counters are true.
* **Registration.** A supervisor heartbeats and re-registers while the process
  shuts down. Correct means: a stopped process leaves discovery, a serving one
  gets back into it, and shutdown does not wait for ever.

`PROJECT.json` lists the hazards at their lines, with the properties aimed at
each, and the lines every definition stands for.

## The modules

| module | models | state |
|---|---|---|
| `RunRecord` | what each operation of `workflow/store.rs` makes of a run | none: operators |
| `RunStore` (extends `RunRecord`) | `workflow/store.rs` | `runs`, `accepted` (history) |
| `WorkflowEngine` (extends `RunStore`) | `workflow/engine.rs` with the run leases of `coord.rs` | `tasks`, `doomed`, `lock`, `lastToken`, `faults` (bound) |
| `EngineProgress` (extends `WorkflowEngine`) | the same engine without an end to its claims, for liveness | `lost` (history) |
| `RunTiming` (with `RunRecord` as `Record`) | the times of `workflow/store.rs` as numbers and the retry policy of `workflow/engine.rs` | `clock`, `run`, `views`, `promise` and `expiry` (histories) |
| `RunLifecycle` | the abstract promise of a run: steps in order, signals consumed at most once, endings final | `phase`, `length`, `done`, `inbox` |
| `WorkflowStart` | `start_run_from_body`, `create_run`, idempotency claims, and clients who repeat (`Repeaters`) what was refused or failed | `stage`, `live`, `claim` |
| `KeyedStart` | the abstract promise of a start under a key: it finds the key's run or creates it, in one step | `answer`, `stored` |
| `FunctionRuntime` | commands and reuse keys of `runtime.rs` | none: operators |
| `ChildPool` (extends `FunctionRuntime`) | `child_runner.rs`, the lines of `child-runtimes/js-function-runner.mjs` | `pool`, `worker`, `call` |
| `FunctionControl` | `function_control.rs`, the check and invoke handlers, the loads and `run_psql` of `definition.rs`, what a runner refuses | `row`, `call`, `late`, `checked` (history) |
| `NatsDelivery` | `nats.rs`, `dispatch_via_pool` | `settings`, `client`, `cooling`, `holder`, `stage`, `outcome`, `late`, histories |
| `ServiceRegistration` | registration in `coord.rs`, `run` in `main.rs` | `process`, `supervisor`, `needs`, `healthy`, `counters`, `entry`, `late`, histories |
| `MC...` | small instances of the module they extend | |
| `...Proofs`, `WorkflowEngineHistory` | theorems | |

**How steps are cut.** A critical section of a mutex is one step; every point at
which the code awaits separates two. In `WorkflowEngine` a task is therefore
`claimed` (the view of its run is taken), `leased`, `invoking` or `committed`,
and the view it carries is the one `claim_due` copied: the code does not read the
run again. A commit (`Commit`) is the guard of the store (`Guard`: present, not
cancelled, same version) and the run it leaves behind; a conflict changes
nothing. `terminal_failure` spawns its commit, so a `doomed` record outlives the
task. In `ChildPool` the map is not locked while a child is spawned (`MakeRoom`,
`Spawn`), and `delete_worker` removes by key. In `FunctionControl` a call's
statement and its answer are one step, unless the call times out: then the
statement moves to `late` and takes effect at any later time.

A check and an invocation keep the row they read until they end; a child that
gets that row as part of its line refuses it if the *row it was sent* says paused.
Invocations of workflows (`NoOrg`) load without the clauses of a tenant.

**Time** is not a number, except in `RunTiming`. `next_run_at_ms` is `ready`,
`timer` or `never`, a deadline is `none`, `ahead` or `passed`, a lease is `free` or
`held`, the five-second cadence is `cooling` or not; the clock is the actions that
move these. Everything a real clock can do to one run is there, and also orders a
real clock makes unlikely; that is a theorem (`TimesAreAbstracted`). `RunTiming` has the same store operations for one run
with its instants as numbers, of the width of an i64 that wraps, and leaves out
what has no time: the next step is any step, a step succeeds or fails as it
likes. `promise` is when the run should be due, computed without wrapping. Powers
of a backoff factor are a constant function, since f64 arithmetic is neither
exact nor bounded; all that is assumed of it is that it does not shrink.

**Versions without an end.** The store's lease has a fixed length and nothing
extends it, so it runs out under any step that takes longer (`StoreLeaseLapses`), and
the tick that finds it so bumps the run's version and may be refused the node's lease
(`LeaseRefused`). Both happen by themselves and are no faults. For safety, a
behaviour with some of them is as good as one with all of them, and `MaxDetours` limits how far a
version may run ahead of its rows. For liveness it is not: a bound on versions
would end a livelock that the code does not end. The code compares versions and tokens for
equality only, so `EngineProgress` closes the gaps between those in use
(`Renumber`) before it goes on. With `MaxDetached` pending failures at most, four
versions are in use at a time, and no claim is ever cut off.

**The context** is keyed by the step's name, as in the code; nothing demands that
a definition's names are distinct, and in the instances two steps share one.

**Commands and keys** are tuples of what they are built from (`<<"pool", place,
runtime>>`, `<<"container", image>>`); two are equal exactly when the strings are.

**External parts** are modelled from how the code uses them: the node grants a
lease it has not granted, with a growing token, and expires what nobody renews;
it grants a claim nobody holds; a registration whose answer was lost may take
effect late; a broker's missing answer says nothing; a child answers each line
it is given, dies, or hangs. `ServiceRegistration` takes a request and its
answer as one step, since the lease (30 s) is several times the client's
timeout (5 s). A configured node and a configured broker are assumed there;
without them these calls are no-ops.

**A crash** of the process loses the run store and every task; leases, claims
and statements that are under way outlive it.

## The runs

| run | configuration | size | what it shows |
|---|---|---|---|
| `steps` | one run, `Mixed` (retried activity, timed wait, sleep; unknown step; activity without function), claimed, refused and lapsed without limit, one signal, two faults, node | 753 k | `VersionsAreExclusive`, `SnapshotsAreExact`, `StepsCommittedOnceInOrder`, `RetriesAreHonoured`; the engine implements `RunLifecycle` (`LifecycleImplemented`); `RunsSettle` under fairness |
| `signals` | one run of two waits for one name, three signals, room for two, one fault, six detours, node | 1.1 M | `TypeOK`, `ContextMatchesSteps`, `SignalsAccounted`, `NoLostWakeup`, `TimeoutNeverLosesSignal` and the inductive invariants `IInv` and `HistoryInv` |
| `timing` | one run, retry objects with missing, negative, zero and ill-typed fields, durations past, none, soon and beyond the range, five instants, a 12-instant integer | 456 k | `TimingIInv`, `OnTime`, `NoEarlyTimeout`, `LeaseIsExclusive`, `BackoffGrows`; each step is one `RunRecord` allows (`TimeIsAbstracted`) |
| `same_key` | five requests, three of them repeated, two replicas, one key | 64 k | `OneRunPerKey`; the start implements `KeyedStart` (`StartIsAtomic`); `RepeatedStartsAreAccepted` under fairness |
| `functions` | one function, two tenants and workflows, three callers, two sources, one late statement | 747 k | `ActiveSourcesWereChecked`, `InvocationsAreEntitled`, `OwnerNeverChanges`, `DeletedIsFinal`, `PauseHolds` |
| `calls` | four calls: two functions of one pool, a third with its own image, a check that is refused; a channel of one, dying and hanging children | 351 k | `AnswersMatch`, `NoCallCutShort`; `CallsEnd`, `OrphansEnd` under fairness |
| `registration` | one process, four faults | 1.7 k | `GoneOnceDeregistered`, `EpisodesAddUp`, `StaysDiscoverable`, `ShutdownEnds` |
| `delivery` | two publishers, a dispatcher, all four settings, two failed connects | 145 k | `AttemptsAreSpaced`, `StrictSendsOnce`, `DispatchedOnce`, `OutcomesAreTruthful`, `ClientComesBack` |
| `double_drive`, `long_step`, `exact_revision`, `framing` | the smallest that show it | | violated: see the findings |

Deadlock is not checked: a service whose bounded inputs are used up, or that
has stopped, rightly does nothing.

**Why the bounds are enough.** What is dangerous takes two parties on one
object: two tasks of one run (`MaxInflight` 2), two callers of one function or
key, two publishers of one client. A third caller in `functions` can have a check
of the function under way while another pauses it and a third invokes it. A third
call in `calls` fills the channel while another waits to send; a third signal in `signals` finds the queue full
and is accepted once a wait has made room. Two faults are what it takes for a
failure during the recovery from another (a lost grant, then a crash or another
lost grant on the tick that repeats the step). A row takes two versions, its claim and its
commit; the six detours of `signals` are a wait that is parked and parked again (two each),
a signal and a lapsed lease, or six lapsed leases, before any row. In `steps` versions are
renumbered and the bound cuts nothing off. One detached failure is pending at a time in
`steps`; a second waits for the first, which fairness runs. One run is
enough, since runs meet only in the number of tasks the scheduler has free; the proofs are
about any number of them, and, unlike the runs, about a service without a coordinator
too (`Authority`). In `timing` five versions are a
claim, a failure, the claim of its retry, and two more; a lease of two instants
runs out within a tick; the integers end at 12, so that a sleep of 12 leaves them
from any instant but the first. `MaxSignals`, `MaxFaults`, `MaxDetours`,
`MaxDetached`, `MaxLate`, `Horizon`, `MaxVersion` and the finite sets of requests and calls are the only bounds; a fault is something the
environment does out of turn, counted so that liveness is about what happens
once it stops. Run ids are used once, as uuids are, and a request once unless its
client repeats it.

**Mutants.** Every property has a definition next to the one it mutates (marked
"Mutant") that would be a plausible slip in that code, such as a guard that only
looks for cancellation or an attempt too many, and that makes TLC report the
property violated in the same run.

### Fairness

`EngineProgress.Progress`: a live task's next await returns, the detached
failures run, the poll loop polls, timers fire, and a store lease or node grant
that nobody keeps alive runs out. These are tokio's scheduling, `tokio::time` and
the TTLs. Nobody is obliged to call the API or to go wrong. That an invocation
returns is an assumption about the child runner, whose own models show where it
holds (`calls`) and where not (findings). That steps end within the store's lease from
some time on is the premise of `RunsSettle`, not a fairness: the code does not see to
it, and `long_step` shows what happens without it. `ChildPool.PoolFairness`: calls and
drivers are scheduled and a child that has not hung answers; what hangs is
excluded in the properties, not in the model. `WorkflowStart.Patience`: a
client who repeats does not give up, a request is run to its end, as what it waits for is
cut off by a timeout, and the node ends a claim when its time is over. Of
`NatsDelivery.FairNatsSpec`, strong fairness of a call is the queue of tokio's
mutex, which serves its waiters in turn. Of `ServiceRegistration.FairRegSpec`:
sleeps elapse and requests return within the client's timeout; the shutdown
signal is not fair.

## The proofs

All hold for every value of the constants (any number of runs, requests, calls,
functions and publishers, any definitions, any bound), from the named
assumptions on them and the ones stated here.

| module | theorem | says |
|---|---|---|
| `WorkflowEngineProofs` | `Invariance`, `TypeCorrect`, `SnapshotsStayExact`, `StepsCommitOnceInOrder`, `NoWakeupIsLost`, `TimeoutsLoseNoSignal` | `IInv` and the invariants it conjoins |
| | `OneCommitterAtATime` | `VersionsAreExclusive`: of all the tasks and detached failures of a run, one at most can still commit |
| `WorkflowEngineHistory` | `HistoryStaysSound`, `RetriesStayHonoured`, `ContextStaysTrue`, `SignalsStayAccounted` | `HistoryInv`, and what the rows, the context and the signals of a run add up to |
| | `EngineImplementsLifecycle` | `LifecycleImplemented`: the engine implements `RunLifecycle` |
| `RunTimingProofs` | `AttemptsBounded`, `BackoffNeverShrinks` | the clamp of the attempts and the growth of the delay, for every merged retry policy |
| | `TimingInvariant`, `AlwaysOnTime`, `TimeoutsAreNotEarly`, `LeasesExclude`, `AlwaysBackoffGrows` | the five invariants of `timing`, for every clock, lease, duration and policy |
| | `TimesAreAbstracted` | `TimeIsAbstracted`: every step changes the run as an operation of `RunRecord` does, under the guard the engine puts on it |
| `WorkflowStartProofs` | `OneRunOfAKey` | with a coordinator, and requests that end before their claim expires (`Prompt`), no store holds two live runs of one key |
| | `StartsAreAtomic` | under the same assumptions, `StartIsAtomic`: the start implements `KeyedStart` |
| `FunctionControlProofs` | `OnlyCheckedCodeIsActive`, `TenantsRunTheirCheckedCode`, `FunctionsKeepTheirOwner`, `DeletedFunctionsStay`, `QuietPausesHold` | two invariants and three action properties |
| `ChildPoolProofs` | `NoCallIsCutShort` | `NoCallCutShort`, whatever the calls and however they share keys |
| | `AnswersAreTheirCalls` | if every payload is one line (`OneLineEach`), `AnswersMatch` |
| | `HostNeighboursShareCommand` | functions of one host pool run one command |
| `ServiceRegistrationProofs` | `DeregisteredStaysGone`, `CountersNameTheEpisode` | |
| `NatsDeliveryProofs` | `OneConnectInFiveSeconds`, `StrictNeverDuplicates`, `NoSecondDispatch`, `CountersTellTheTruth` | |

*The engine.* None of the safety properties is inductive: a step writes what it
computed from a view that may be old. `IInv` adds that a view whose version is
current is an exact copy of its run (`SnapshotsAreExact`), that a version never
runs ahead of the run's, that an invoking task is at an activity, that a waiting
run is at a wait, and that a detached timeout whose version is current names a
run with no signal to consume (`DoomsSound`). The argument, in
`WorkflowEngineProofs`: every action either leaves a run's data alone or bumps its
version (`Evolves`); hence a view that is still current stays exact, and a commit
that passes the guard is computed from the run as it is, so each commit can be
looked at as if it were atomic with its claim (`SoundRuns` and the lemmas named
after the commits). The clock is the exception, since it changes `due` and
`deadline` without a new version; `SameData` therefore lets a deadline pass in the
run before it does in the view, and that is what makes the timeout argument work.
`VersionsAreExclusive` is inductive on top of it: a claim takes a version that no
view has yet, since none runs ahead of its run's.

What a run adds up to over its life takes a second invariant, `HistoryInv`. A
run that has not ended has no row of a later step, none of an attempt to come, and an
attempt left (`AttemptLeft`); the failed rows of a step are its attempts,
each once (`Retried`); an output is in the context exactly when the last success
of its name put it there (`ContextFits`); only a success consumes a signal, and
pending ones are in the order they came (`InArrivalOrder`); every accepted one is
pending or in a row, never both (`Accounted`). `RetriesAreHonoured` alone is not
inductive: nothing in it keeps a run that has used its last attempt from failing again.
The argument does not go by action. Whatever it is an action of, a step leaves a
run alone (`Quiet`), cancels it (`Stopped`), hands it a signal (`Received`),
completes it (`Finished`), commits its step (`Stepped`) or records a failed
attempt (`Fallen`). The lemma `StoreSteps` says so, and is where `IInv` is used:
a commit builds its row from a view, and only because that view is exact is it
the row of the run. The refinement follows: each of the six is an action of `RunLifecycle`
on the mapped variables, or a stutter. Nothing in it assumes that the lease
excludes anybody, so it holds of a service without a coordinator too.

*Times.* `TimingIInv` says that a run is scheduled at its promise, that only a wait
has a deadline and that it is the sum the wait was parked with, and that a view
whose version is current is the run. The last one is again what a commit rests on:
`Reparks` writes back a deadline it did not compute.
`TimesAreAbstracted` is what lets `RunStore` do without numbers. `runSeen` is the
run with its instants replaced by how they compare with the clock, and a step of
`RunTiming` must leave what an operation of `RunRecord` makes of it, or what the clock
has made of that already (`Later`: a delay of zero is over at once, and so
is one whose sum wrapped). It needs one more invariant, `WakesSound`: a wait that is not due
is scheduled for its deadline and nothing else, only a wait has a deadline (or a
run that failed of one), and a claim is of a run that was due. Without the first of these a
deadline could pass and leave the run asleep, which `RunRecord!Awoken` rules out.
`BackoffNeverShrinks` needs only that powers do not (`PowerAssumption`), and goes through the cap and the
infinite product case by case.

*Starting.* `StartIInv` adds that a request between its grant and its answer
holds the claim of its key, and that one about to insert has nothing to see. Both
looks at the store are needed, as is the claim. In the refinement of `KeyedStart`
a start takes effect at its insertion, a replay at the look that finds the run, and
claims are invisible. The hard part is a refusal: `KeyedStart` refuses a key only
where some other request that carries it has been or may be answered otherwise, so
that contention cannot refuse everyone. `RefusalIInv` finds the one to blame: a
claim is held by a request of its key that was granted it and has not been refused since,
unless it is repeated (`HoldersCameFirst`); one that is repeated stays open, refused or
not; and if the holder was answered with another's run, there is one that was started
(`DuplicatesHaveAnOriginal`).

*Child pool.* `PoolIInv` says that a call holds a worker that has been spawned and
runs its command, and that a call that has not been sent is in nobody's hands;
with these `NoCallCutShort` is inductive, since a driver stops only when no sender is
left and a call that waits is one. `AnswersMatch` takes a second invariant on top of
it: the lines a child still owes are those of its driver's current call, or none
when the driver is idle.

*Control plane.* `ControlIInv` adds that every activation that may still take
effect, late or not, carries a revision that has passed, and that what a tenant
has loaded had too. `PauseHolds` is an action property about functions with
nothing under way that could undo the pause (`Quiet`), and also says that no step
but an edit or a deletion ends that state.

*Registration.* `RegIInv` adds where the supervisor can be at each stage of the
process: nothing is asked of the node after it has been joined.

*Delivery.* `NatsIInv` counts an event's copies together with the ones still on
their way, and says that nothing is known of it anywhere before it was sent.

**Only model-checked.** Liveness (`RunsSettle`, `RepeatedStartsAreAccepted`,
`CallsEnd`, `OrphansEnd`, `StaysDiscoverable`, `ShutdownEnds`, `ClientComesBack`) is
out of the prover's reach, since it needs ENABLED of the fair actions. So is induction
over data, which is why a retry policy is given by what `Power` does and not by
repeated multiplication. Every invariant, action property and refinement
that a passing run checks is also a theorem; the findings are runs only.

## Findings

Each is a run whose property states what a text of the repository says.

* `double_drive`: a task that was claimed before a step committed obtains the
  lease after it, with a fresh token, and invokes the step again;
  `workflow/engine.rs:10-13` says the token prevents it. The version check still
  discards the second result, and that is all the proofs rest on.
* `exact_revision`: an activation passes over a concurrent edit of any field its
  where clause does not compare; `docs/cron-function-api.md:18` promises the exact
  checked revision. What is proved is the part that holds: source, runtime and
  limits.
* `framing`: a request body with a newline is several lines of the protocol, so
  the next call on the worker gets this one's second answer;
  `child_runner.rs:3-5` says an invocation is one line.
* `long_step`: nothing renews the store's lease. When an activity outlasts it, the next
  tick claims the run, and so bumps its version, before the node refuses that tick;
  `workflow/engine.rs:300-301` calls such a tick a no-op. The holder's commit is then a conflict and the activity is
  invoked again, with no attempt counted: one that takes longer than
  `WORKFLOW_LEASE_MS` every time never ends, where `README.md:37-39` promises that
  long steps renew their grant and go on, or are cancelled.

Further disagreements met while reading, which the models show but no run is
kept for:

* `README.md:17` and `workflow/engine.rs:7` say a crash resumes from the store; the
  store is memory (`CrashAndRestart` empties it). `RunsSettle` makes an exception of
  the runs a crash took (`lost`) for that reason.
* An idempotency claim stands for 60 seconds and a run may live longer, so another
  replica can create a second run of the key; `workflow/store.rs:114-117` says it
  cannot. `OneRunPerKey` is a claim about each replica for that reason.
* `README.md:61` says a pause disables future invocation. A check that was under way
  when the function was paused activates it, since `function_control.rs:540` does
  not compare the status. `PauseHolds` has its premise for that reason.
* `child_runner.rs:7-8` and `README.md:149` bound every invocation by a hard
  timeout, but the send before the wait (`child_runner.rs:275`) has none, so that
  behind a hung child with a full channel a call waits for ever. `CallsEnd` makes an
  exception of it for that reason.
* A pool dispatch that times out is run locally *as well*, also when the pool has
  run it; `README.md:11-12` says instead. `DispatchedOnce` is about a service without
  local fallback for that reason.
* An event whose acknowledgement was lost and whose fallback fails is counted as
  dropped and logged as not delivered (`nats.rs:273-286`), although the stream has it.
  `OutcomesAreTruthful` claims nothing of `failed` for that reason.
* Without a coordinator `create_run` looks and inserts under two acquisitions of the
  lock (`workflow/store.rs:139-172`), and two requests that both look first both
  insert. `OneRunOfAKey` assumes the coordinator for that reason.
* A pause sets the status `paused`, where `docs/cron-function-api.md:19` says draft. The
  runner refuses a paused function, in a check too, so an edit is the only way
  back.
* `docs/cron-function-api.md:8` says every definition read includes the tenant
  predicate. The load of a workflow activity does not (`child_runner.rs:91`): it finds
  any function that is not deleted, of any tenant, drafts that were never checked
  too. What `InvocationsAreEntitled` says of a tenant it says of `invoke_for_org` only.
* A signal makes a run due at once, whatever it was waiting for
  (`workflow/store.rs:193`): a sleep has then ended early and a backoff is cut short.
  `promise` moves to the instant of the signal for that reason.
* An instant past the range of an i64 wraps in a release build: a sleep of that length
  ends at once, and a wait of that timeout fails at its next wake-up. `OnTime` and
  `NoEarlyTimeout` are about instants an i64 can name for that reason.
* A backoff field that is no number falls back to the service's default and not
  to the definition's, since the objects are merged first
  (`workflow/engine.rs:864-903`).
* `runtime.rs:78` says its extractors read top-level scalars only; the expressions match
  nested keys too, whichever comes first.
* A worker whose call timed out is only removed from the map. Its driver waits on for
  a hung child, and the process stays; no text says that it is ended, and
  `OrphansEnd` makes an exception of it.
* An activity whose child answers `{"ok":false}` is recorded as succeeded
  (`workflow/engine.rs:401-445`); no text says whether that is meant.

## What is not modelled

Parsing and encodings: JSON, the regular expressions of `runtime.rs`, shell quoting
and SQL text. They are pure string functions, and what the models need of them (which
definitions have equal keys or commands, how many lines a payload is) is stated as
such. Validation of customer input, authentication and routing (stateless);
configuration (read once; its values are constants or `settings`); caps on output
and context sizes beyond their being exceeded; sandbox flags and what runs inside
a child; runners for runtimes whose files are not in the repository; TLS; metrics other
than the delivery and registration counters; queries that only read; the build and
deployment tooling. f64 arithmetic is a table of powers (`Power`), and a backoff
factor is a whole number.

## Plan

Done, in this order, most important first: `RunStore`, `WorkflowEngine` with
`RunLifecycle`, `WorkflowStart`, `FunctionControl`, `ChildPool`,
`ServiceRegistration`, `NatsDelivery`, and their proofs; then `RunTiming`,
`FunctionRuntime` under `ChildPool`, and invocations in `FunctionControl`; then
the rest of the engine's safety and its refinement, `KeyedStart`, and
`RunRecord` as the common ground of `RunStore` and `RunTiming`; then
`EngineProgress` and the repeated starts, liveness under what the code lets recur.

Next:

1. Abstract specifications of a publication (at most once, or at least once with
   the fallback) and of an invocation on a worker, as `KeyedStart` is one of a
   start, with their refinements.
2. The child runner's evictions and the engine together: an invocation given up by
   a lost lease leaves a worker behind that the next tick of the same run may share.
