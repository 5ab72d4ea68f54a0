----------------------------- MODULE RunTiming -----------------------------
(***************************************************************************)
(* The times of a run, as numbers: next_run_at_ms, wait_deadline_ms and    *)
(* lease_until_ms of src/workflow/store.rs, and the retry policy of        *)
(* src/workflow/engine.rs that one of them is computed from.  RunStore     *)
(* says of these only whether they have passed; here are the sums, the     *)
(* clamps and the width of an i64, for one run whose definition may ask    *)
(* for any step next.                                                      *)
(*                                                                         *)
(* A claim reads the clock once, and the tick it starts keeps that reading *)
(* (nowMs); its commit reads the clock again, later.  A sum that exceeds   *)
(* an i64 wraps, as it does in the release build.                          *)
(***************************************************************************)
EXTENDS Integers

CONSTANTS
  IntMax,         \* i64::MAX
  LeaseMs,        \* WORKFLOW_LEASE_MS
  Durations,      \* what durationMs and waitTimeoutMs may be: any i64
  DefaultRetries, \* the defaultRetry objects a definition may have
  StepRetries,    \* the retry objects its steps may have
  NotANumber,     \* a field of such an object that is no integer
  Default,        \* DEFAULT_MAX_ATTEMPTS, DEFAULT_BACKOFF_MS, ...
  AttemptsCap,    \* MAX_ATTEMPTS_CAP
  MaxExponent,    \* 64
  DelayCap,       \* 1.0e15
  Power,          \* f64::powf of a factor and an exponent
  Infinite,       \* its value past the range of an f64
  NoDeadline,     \* wait_deadline_ms None
  Horizon,        \* bound: the last instant of the clock
  MaxVersion,     \* bound: the claims, commits and signals of a behaviour
  MaxSignals      \* bound: the signals of a behaviour

Fields == {"maxAttempts", "backoffMs", "backoffFactor", "maxBackoffMs"}

(* An object has some of the fields; null and other non-objects have none. *)
IsRetry(retry) ==
  /\ DOMAIN retry \subseteq Fields
  /\ \A f \in DOMAIN retry : retry[f] \in Int \/ retry[f] = NotANumber

ASSUME DefaultsAssumption ==
  /\ Default \in [Fields -> Nat \ {0}]
  /\ Default["maxAttempts"] <= AttemptsCap
ASSUME RetriesAssumption == \A retry \in DefaultRetries \cup StepRetries : IsRetry(retry)
ASSUME NumbersAssumption ==
  /\ AttemptsCap \in Nat \ {0}
  /\ MaxExponent \in Nat
  /\ NotANumber \notin Int
  /\ Infinite \notin Int
  /\ NoDeadline \notin Int
ASSUME DurationsAssumption == Durations \subseteq -(IntMax + 1)..IntMax
(* A real clock, a lease and the longest backoff are far from the end of   *)
(* the range.                                                              *)
ASSUME RangeAssumption ==
  /\ IntMax \in Nat /\ LeaseMs \in Nat \ {0} /\ DelayCap \in Nat
  /\ Horizon \in Nat /\ MaxVersion \in Nat /\ MaxSignals \in Nat
  /\ Horizon + DelayCap < IntMax
  /\ Horizon + LeaseMs < IntMax

---------------------------------------------------------------------------
(* The retry policy *)

Larger(x, y) == IF x < y THEN y ELSE x
Smaller(x, y) == IF x < y THEN x ELSE y

(* The fields of the step's object replace those of the definition's. *)
RetryConfig(default, step) ==
  [f \in DOMAIN default \cup DOMAIN step |->
     IF f \in DOMAIN step THEN step[f] ELSE default[f]]

(* A field that is no number counts as absent, not as the definition's; a  *)
(* factor is a whole number here.                                          *)
Field(retry, f) ==
  IF f \in DOMAIN retry /\ retry[f] # NotANumber THEN retry[f] ELSE Default[f]

Factor(retry) == Larger(Field(retry, "backoffFactor"), 1)

Policies == {RetryConfig(d, s) : d \in DefaultRetries, s \in StepRetries}

(* A factor is at least one, so its powers do not shrink. *)
ASSUME PowerAssumption ==
  \A policy \in Policies, e \in 0..MaxExponent :
    LET power == Power[Factor(policy)] IN
      /\ power[e] \in (Nat \ {0}) \cup {Infinite}
      /\ \A d \in 0..e :
           power[e] # Infinite => power[d] # Infinite /\ power[d] <= power[e]

MaxAttempts(retry) == Smaller(Larger(Field(retry, "maxAttempts"), 1), AttemptsCap)

(* Mutant: the floor is put under the base instead of the factor. *)
ScaledUnclamped(retry, attempt) ==
  LET factor == Field(retry, "backoffFactor")
      power  == IF factor > 0 THEN Power[factor][Smaller(attempt, MaxExponent)]
                ELSE IF attempt = 0 THEN 1 ELSE 0
  IN IF power = Infinite THEN DelayCap
     ELSE Smaller(Larger(Field(retry, "backoffMs"), 0) * power, DelayCap)

(* A product with infinity is infinite, or not a number when the base is   *)
(* zero; min turns both into the cap.                                      *)
Scaled(retry, attempt) ==
  LET base  == Larger(Field(retry, "backoffMs"), 0)
      power == Power[Factor(retry)][Smaller(attempt, MaxExponent)]
  IN IF power = Infinite THEN DelayCap ELSE Smaller(base * power, DelayCap)

BackoffMs(retry, attempt) ==
  Smaller(Field(retry, "maxBackoffMs"), Scaled(retry, attempt))

---------------------------------------------------------------------------
(* The run *)

(* The sum of two i64: it leaves the range by less than one turn. *)
Wrap(n) == IF n > IntMax THEN n - 2 * (IntMax + 1) ELSE n

VARIABLES
  clock,
  run,       \* what the store holds of the run
  views,     \* the ticks under way: what each claim saw, and when
  promise,   \* history: the instant at which the run is to be claimed again,
             \* in integers that do not wrap
  expiry     \* history: the instant before which its wait must not time out

timingVars == <<clock, run, views, promise, expiry>>

NextStep == [type : {"sleep", "wait"}, ms : Durations]
            \cup [type : {"activity"}, retry : Policies]

TimedRun == [status : {"running", "waiting", "failed"},
             error : {"none", "activity", "timeout"},
             step : NextStep,
             attempt : Nat,
             signals : Nat,      \* those its wait would match
             next : Int,
             lease : Int,
             deadline : Int \cup {NoDeadline},
             version : Nat]
View == [run : TimedRun, now : Nat]

TimingTypeOK ==
  /\ clock \in 0..Horizon
  /\ run \in TimedRun
  /\ views \in SUBSET View
  /\ promise \in Nat
  /\ expiry \in Int

TimingInit ==
  /\ clock = 0
  /\ \E step \in NextStep :
       run = [status |-> "running", error |-> "none", step |-> step, attempt |-> 0,
              signals |-> 0, next |-> 0, lease |-> 0, deadline |-> NoDeadline,
              version |-> 0]
  /\ views = {}
  /\ promise = 0
  /\ expiry = 0

Tick ==
  /\ clock < Horizon
  /\ clock' = clock + 1
  /\ UNCHANGED <<run, views, promise, expiry>>

Unfinished == run.status # "failed"
(* Mutant: a run under a lease is claimed too. *)
DueLeased == Unfinished /\ run.next <= clock

Due == Unfinished /\ run.next <= clock /\ run.lease <= clock

Bounded == run.version < MaxVersion

Claim ==
  /\ Due
  /\ Bounded
  /\ run' = [run EXCEPT !.lease = Wrap(clock + LeaseMs), !.version = @ + 1]
  /\ views' = views \cup {[run |-> run', now |-> clock]}
  /\ UNCHANGED <<clock, promise, expiry>>

(* A signal of the name the run waits for, or of another. *)
Deliver ==
  /\ Unfinished
  /\ Bounded
  /\ \E matching \in {0, 1} :
       /\ run.signals + matching <= MaxSignals
       /\ run' = [run EXCEPT !.signals = @ + matching, !.next = clock, !.lease = 0,
                             !.version = @ + 1]
  /\ promise' = clock
  /\ UNCHANGED <<clock, views, expiry>>

(* A commit under the view's version; a conflict changes nothing. *)
Settle(v, committed, promised, expires) ==
  /\ IF run.version = v.run.version
     THEN /\ Bounded
          /\ run' = [committed EXCEPT !.lease = 0, !.version = run.version + 1]
          /\ promise' = promised
          /\ expiry' = expires
     ELSE UNCHANGED <<run, promise, expiry>>
  /\ views' = views \ {v}
  /\ UNCHANGED clock

AtType(v, type) == v.run.step.type = type

(* Moving to the next step, whichever that is. *)
Advances(v, committed, promised) ==
  \E step \in NextStep :
    Settle(v, [committed EXCEPT !.step = step, !.attempt = 0, !.status = "running"],
           promised, 0)

Succeeds(v) ==
  /\ AtType(v, "activity")
  /\ Advances(v, [run EXCEPT !.next = clock], clock)

Delay(v) == Larger(BackoffMs(v.run.step.retry, v.run.attempt), 0)

(* Mutant: the delay counts from the claim of the tick. *)
RetriesFromClaim(v) ==
  /\ AtType(v, "activity")
  /\ v.run.attempt + 1 < MaxAttempts(v.run.step.retry)
  /\ Settle(v, [run EXCEPT !.attempt = v.run.attempt + 1, !.status = "running",
                           !.error = "activity", !.next = Wrap(v.now + Delay(v))],
            clock + Delay(v), 0)

RetriesLater(v) ==
  /\ AtType(v, "activity")
  /\ v.run.attempt + 1 < MaxAttempts(v.run.step.retry)
  /\ Settle(v, [run EXCEPT !.attempt = v.run.attempt + 1, !.status = "running",
                           !.error = "activity", !.next = Wrap(clock + Delay(v))],
            clock + Delay(v), 0)

Exhausted(v) ==
  /\ AtType(v, "activity")
  /\ v.run.attempt + 1 >= MaxAttempts(v.run.step.retry)
  /\ Settle(v, [run EXCEPT !.status = "failed", !.error = "activity"], promise, 0)

Sleeps(v) ==
  LET ms == Larger(v.run.step.ms, 0) IN
    /\ AtType(v, "sleep")
    /\ Advances(v, [run EXCEPT !.next = Wrap(clock + ms)], clock + ms)

Consumes(v) ==
  /\ AtType(v, "wait")
  /\ v.run.signals > 0
  /\ Advances(v, [run EXCEPT !.signals = v.run.signals - 1, !.deadline = NoDeadline,
                             !.next = clock],
              clock)

Idle(v) == AtType(v, "wait") /\ v.run.signals = 0

(* With no deadline it is never due: only a signal wakes it. *)
WakeAt(deadline) == IF deadline = NoDeadline THEN IntMax ELSE deadline

(* waitTimeoutMs 0 is no timeout; a negative one has passed already. *)
Parks(v) ==
  LET ms       == v.run.step.ms
      deadline == IF ms = 0 THEN NoDeadline ELSE Wrap(clock + ms)
  IN /\ Idle(v)
     /\ v.run.status # "waiting"
     /\ Settle(v, [run EXCEPT !.status = "waiting", !.deadline = deadline,
                              !.next = WakeAt(deadline)],
               IF ms = 0 THEN IntMax ELSE Larger(clock + ms, 0), clock + ms)

(* Mutant: the instant of the next run is taken for the deadline. *)
ExpiredByNext(v) == v.run.deadline # NoDeadline /\ v.now >= v.run.next

Expired(v) == v.run.deadline # NoDeadline /\ v.now >= v.run.deadline

TimesOut(v) ==
  /\ Idle(v)
  /\ v.run.status = "waiting"
  /\ Expired(v)
  /\ Settle(v, [run EXCEPT !.status = "failed", !.error = "timeout"], promise, expiry)

(* A wait woken by another signal: it keeps its deadline. *)
Reparks(v) ==
  /\ Idle(v)
  /\ v.run.status = "waiting"
  /\ ~Expired(v)
  /\ Settle(v, [run EXCEPT !.status = "waiting", !.next = WakeAt(run.deadline)],
            IF run.deadline = NoDeadline THEN IntMax ELSE Larger(expiry, 0), expiry)

(* The tick is given up: its lease at the node is lost or refused. *)
GivesUp(v) == views' = views \ {v} /\ UNCHANGED <<clock, run, promise, expiry>>

Commits(v) ==
  \/ Succeeds(v) \/ RetriesLater(v) \/ Exhausted(v)
  \/ Sleeps(v) \/ Consumes(v) \/ Parks(v) \/ TimesOut(v) \/ Reparks(v)

TimingNext == Tick \/ Claim \/ Deliver \/ (\E v \in views : Commits(v) \/ GivesUp(v))

TimingSpec == TimingInit /\ [][TimingNext]_timingVars

---------------------------------------------------------------------------
(* Properties *)

(* A run is scheduled for the instant it was promised, no sooner and no    *)
(* later, whenever an i64 can name that instant: however long the tick ran *)
(* before its commit, whatever the backoff grew to, and after any number   *)
(* of wake-ups by signals for other steps.                                 *)
OnTime ==
  Unfinished /\ promise <= IntMax => 
    \A t \in 0..Horizon : run.next <= t <=> promise <= t

(* A wait fails only once its own timeout has passed since it was parked,  *)
(* not because the run was woken, reparked or claimed twice in between.    *)
NoEarlyTimeout ==
  run.status = "failed" /\ run.error = "timeout" /\ expiry <= IntMax => expiry <= clock

(* Of two ticks of a run whose claims no commit or signal separates, the   *)
(* second was claimed a whole lease after the first.                       *)
LeaseIsExclusive ==
  \A v, w \in views :
    w.run.version = v.run.version + 1 => w.now >= v.now + LeaseMs

(* The attempts of a step stay within its policy, and each waits at least  *)
(* as long as the one before, up to the cap of the policy; whatever the    *)
(* definition wrote in its retry object.                                   *)
BackoffGrows ==
  run.step.type = "activity" =>
    /\ run.attempt < MaxAttempts(run.step.retry)
    /\ run.attempt > 0 =>
         BackoffMs(run.step.retry, run.attempt - 1)
           <= BackoffMs(run.step.retry, run.attempt)

---------------------------------------------------------------------------
(* The abstraction of time *)

Record == INSTANCE RunRecord

(* The run as RunRecord would have it at instant t: its times as they      *)
(* compare with the clock.                                                 *)
DueAt(timed, t) ==
  IF timed.next <= t THEN "ready"
  ELSE IF timed.status = "waiting" /\ timed.deadline = NoDeadline THEN "never"
  ELSE "timer"

DeadlineAt(timed, t) ==
  IF timed.deadline = NoDeadline THEN "none"
  ELSE IF timed.deadline <= t THEN "passed" ELSE "ahead"

LeaseAt(timed, t) == IF timed.lease <= t THEN "free" ELSE "held"

SeenAt(timed, t) ==
  [Record!NewRun(<<>>) EXCEPT !.status = timed.status, !.attempt = timed.attempt,
                              !.deadline = DeadlineAt(timed, t), !.due = DueAt(timed, t),
                              !.lease = LeaseAt(timed, t), !.version = timed.version]

runSeen == SeenAt(run, clock)

(* What the clock may have made of a record by the next look at it. *)
Elapsed(record) ==
  {record}
    \cup (IF record.due = "timer" THEN {Record!Awoken(record)} ELSE {})
    \cup (IF record.due = "ready" /\ record.deadline = "ahead"
          THEN {Record!Overdue(record)} ELSE {})

Later(record) == Elapsed(record) \cup {Record!Lapsed(later) : later \in Elapsed(record)}

(* Two records agree on everything but the data that has no part here. *)
Agree(old, new) ==
  /\ old.status = new.status /\ old.attempt = new.attempt /\ old.version = new.version
  /\ old.due = new.due /\ old.deadline = new.deadline /\ old.lease = new.lease

(* A step leaves the run an operation makes of it, or what the clock has   *)
(* made of that already.                                                   *)
Leaves(record) == \E later \in Later(record) : Agree(later, runSeen')

NoRow == <<>>

(* The commits WorkflowEngine allows a task that drives view v. *)
CommitSeen(v) ==
  LET view == SeenAt(v.run, v.now) IN
    /\ view.version = runSeen.version
    /\ \/ /\ AtType(v, "activity")
          /\ \/ Leaves(Record!SucceedAdvance(runSeen, NoRow, 0, {}))
             \/ Leaves(Record!FailRetry(runSeen, NoRow, view.attempt + 1, "activity failed"))
             \/ Leaves(Record!FailTerminal(runSeen, NoRow, "activity failed"))
       \/ AtType(v, "sleep") /\ Leaves(Record!EnterSleep(runSeen, NoRow, 0))
       \/ AtType(v, "wait") /\ Leaves(Record!ConsumeSignal(runSeen, NoRow, 0, {}, 0))
       \/ /\ AtType(v, "wait")
          /\ view.status # "waiting"
          /\ Leaves(Record!ParkWait(runSeen, v.run.step.ms # 0))
       \/ /\ AtType(v, "wait")
          /\ view.status = "waiting"
          /\ IF view.deadline = "passed"
             THEN Leaves(Record!FailTerminal(runSeen, NoRow, "wait timeout"))
             ELSE Leaves(Record!ReparkWait(runSeen))

RecordStep ==
  \/ Agree(runSeen, runSeen')
  \/ /\ Unfinished
     /\ \/ Leaves(runSeen)
        \/ /\ runSeen.due = "ready" /\ runSeen.lease = "free"
           /\ Agree(Record!Claimed(runSeen), runSeen')
        \/ Agree(Record!Signalled(runSeen, NoRow), runSeen')
  \/ \E v \in views : CommitSeen(v)

(* What RunStore and WorkflowEngine abstract from, the numbers, they       *)
(* abstract from soundly: whatever the clock, the durations, the policies  *)
(* and the sums that wrap, every step changes the run as an operation of   *)
(* RunRecord does, under the guard the engine puts on it, and between them *)
(* nothing happens but timers that fire, deadlines that pass with them and *)
(* leases that lapse.  A run that has failed is left alone by the clock.   *)
TimeIsAbstracted == [][RecordStep]_timingVars

---------------------------------------------------------------------------
(* The inductive invariant *)

(* What is written is what was promised, up to a deadline before the clock *)
(* began.                                                                  *)
PromiseKept == Unfinished /\ promise <= IntMax => Larger(run.next, 0) = promise

(* Only a wait has a deadline: the sum its expiry is, unless it wrapped. *)
DeadlineKept ==
  run.deadline # NoDeadline =>
    /\ run.step.type = "wait"
    /\ expiry <= IntMax => run.deadline = expiry

(* A view under the run's version is the run, and was claimed in the past. *)
ViewsSound ==
  \A v \in views :
    /\ v.now <= clock
    /\ v.run.lease = v.now + LeaseMs
    /\ v.run.status # "failed"
    /\ v.run.version <= run.version
    /\ v.run.version = run.version => v.run = run

TimingIInv ==
  /\ TimingTypeOK
  /\ PromiseKept
  /\ DeadlineKept
  /\ ViewsSound
  /\ NoEarlyTimeout
  /\ LeaseIsExclusive
  /\ BackoffGrows

(* What the abstraction of time rests on: a wait that is not due is        *)
(* scheduled for its deadline and nothing else, only a wait has one, a     *)
(* failed run has nothing ahead of it, and a claim is of a run that is due. *)
WakesSound ==
  /\ run.status = "waiting" => run.next <= clock \/ run.next = WakeAt(run.deadline)
  /\ run.deadline # NoDeadline => run.status \in {"waiting", "failed"}
  /\ run.status = "failed" =>
       /\ run.next <= clock /\ run.lease <= clock
       /\ run.deadline = NoDeadline \/ run.deadline <= clock
  /\ \A v \in views : v.run.next <= v.now
===========================================================================
