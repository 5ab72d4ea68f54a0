-------------------------- MODULE RunTimingProofs --------------------------
(***************************************************************************)
(* The times of a run, for every retry policy, every duration an i64 can   *)
(* name, and every width whose range the clock stays away from.            *)
(***************************************************************************)
EXTENDS RunTiming, TLAPS

---------------------------------------------------------------------------
(* The retry policy *)

LEMMA PolicyFields ==
  ASSUME NEW retry \in Policies, NEW f \in Fields
  PROVE  Field(retry, f) \in Int
<1>1. PICK d \in DefaultRetries, s \in StepRetries : retry = RetryConfig(d, s)
  BY DEF Policies
<1>2. IsRetry(d) /\ IsRetry(s)
  BY RetriesAssumption
<1>3. f \in DOMAIN retry => retry[f] \in Int \/ retry[f] = NotANumber
  BY <1>1, <1>2 DEF RetryConfig, IsRetry
<1>4. QED
  BY <1>3, DefaultsAssumption DEF Field

(* Multiplying by a natural keeps the order. *)
LEMMA ProductGrows ==
  ASSUME NEW b \in Nat, NEW x \in Nat, NEW y \in Nat, x <= y
  PROVE  b * x \in Nat /\ b * x <= b * y
  OBVIOUS

(* What a policy allows is at least one attempt and at most the cap. *)
THEOREM AttemptsBounded ==
  ASSUME NEW retry \in Policies
  PROVE  MaxAttempts(retry) \in 1..AttemptsCap
<1>1. Field(retry, "maxAttempts") \in Int
  BY PolicyFields DEF Fields
<1>2. QED
  BY <1>1, NumbersAssumption DEF MaxAttempts, Larger, Smaller

LEMMA ScaledBounded ==
  ASSUME NEW retry \in Policies, NEW n \in Nat
  PROVE  Scaled(retry, n) \in 0..DelayCap
<1>1. Larger(Field(retry, "backoffMs"), 0) \in Nat
  BY PolicyFields DEF Fields, Larger
<1>2. Smaller(n, MaxExponent) \in 0..MaxExponent
  BY NumbersAssumption DEF Smaller
<1> DEFINE power == Power[Factor(retry)][Smaller(n, MaxExponent)]
           base  == Larger(Field(retry, "backoffMs"), 0)
<1>3. power \in (Nat \ {0}) \cup {Infinite}
  BY <1>2, PowerAssumption
<1>4. power # Infinite => base * power \in Nat
  <2> SUFFICES ASSUME power # Infinite PROVE base * power \in Nat
    OBVIOUS
  <2>1. power \in Nat
    BY <1>3
  <2> HIDE DEF power, base
  <2> QED
    BY <1>1, <2>1, ProductGrows DEF base
<1>5. DelayCap \in Nat
  BY RangeAssumption
<1>6. Scaled(retry, n) = IF power = Infinite THEN DelayCap ELSE Smaller(base * power, DelayCap)
  BY DEF Scaled
<1> HIDE DEF power, base
<1>7. QED
  BY <1>4, <1>5, <1>6 DEF Smaller

(* The delay before an attempt is at least the delay before the one it     *)
(* follows, however far the power overflows and whatever the fields hold.  *)
THEOREM BackoffNeverShrinks ==
  ASSUME NEW retry \in Policies, NEW n \in Nat, n > 0
  PROVE  BackoffMs(retry, n - 1) <= BackoffMs(retry, n)
<1> DEFINE base   == Larger(Field(retry, "backoffMs"), 0)
           d      == Smaller(n - 1, MaxExponent)
           e      == Smaller(n, MaxExponent)
           before == Power[Factor(retry)][d]
           after  == Power[Factor(retry)][e]
<1>1. base \in Nat
  BY PolicyFields DEF Fields, Larger
<1>2. e \in 0..MaxExponent /\ d \in 0..e
  BY NumbersAssumption DEF Smaller
<1>3. /\ before \in (Nat \ {0}) \cup {Infinite}
      /\ after \in (Nat \ {0}) \cup {Infinite}
      /\ after # Infinite => before # Infinite /\ before <= after
  <2>1. d \in 0..MaxExponent
    BY <1>2, NumbersAssumption
  <2> HIDE DEF d, e
  <2> QED
    BY <1>2, <2>1, PowerAssumption
<1>4. /\ Scaled(retry, n - 1) =
           IF before = Infinite THEN DelayCap ELSE Smaller(base * before, DelayCap)
      /\ Scaled(retry, n) =
           IF after = Infinite THEN DelayCap ELSE Smaller(base * after, DelayCap)
  BY DEF Scaled
<1> HIDE DEF base, before, after, d, e
<1>5. after # Infinite => base * before \in Nat /\ base * before <= base * after
  BY <1>1, <1>3, ProductGrows
<1>6. DelayCap \in Nat
  BY RangeAssumption
<1>7. Scaled(retry, n - 1) \in 0..DelayCap /\ Scaled(retry, n) \in 0..DelayCap
  BY ScaledBounded
<1>8. Scaled(retry, n - 1) <= Scaled(retry, n)
  <2>1. CASE after = Infinite
    BY <1>4, <1>6, <1>7, <2>1
  <2>2. CASE after # Infinite
    <3>1. base * before \in Nat /\ base * after \in Int
      BY <1>1, <1>3, <1>5, <2>2, ProductGrows
    <3> QED
      BY <1>3, <1>4, <1>5, <1>6, <2>2, <3>1 DEF Smaller
  <2> QED
    BY <2>1, <2>2
<1>9. Field(retry, "maxBackoffMs") \in Int
  BY PolicyFields DEF Fields
<1>10. QED
  BY <1>7, <1>8, <1>9 DEF BackoffMs, Smaller

LEMMA DelayBounded ==
  ASSUME NEW retry \in Policies, NEW n \in Nat
  PROVE  Larger(BackoffMs(retry, n), 0) \in 0..DelayCap
<1>1. Field(retry, "maxBackoffMs") \in Int
  BY PolicyFields DEF Fields
<1>2. QED
  BY <1>1, ScaledBounded, RangeAssumption DEF BackoffMs, Larger, Smaller

---------------------------------------------------------------------------
(* The invariant *)

LEMMA NextStepParts ==
  ASSUME NEW step \in NextStep
  PROVE  /\ step.type \in {"sleep", "wait", "activity"}
         /\ step.type # "activity" => step.ms \in -(IntMax + 1)..IntMax
         /\ step.type = "activity" => step.retry \in Policies
  BY DurationsAssumption DEF NextStep

LEMMA TimingInitInvariant == TimingInit => TimingIInv
<1> SUFFICES ASSUME TimingInit PROVE TimingIInv
  OBVIOUS
<1>1. run.step \in NextStep /\ run.attempt = 0
  BY DEF TimingInit
<1>2. run.step.type = "activity" => run.attempt < MaxAttempts(run.step.retry)
  BY <1>1, NextStepParts, AttemptsBounded
<1>3. BackoffGrows
  BY <1>1, <1>2 DEF BackoffGrows
<1>4. TimingTypeOK
  BY RangeAssumption, NumbersAssumption DEF TimingInit, TimingTypeOK, TimedRun
<1>5. PromiseKept /\ DeadlineKept /\ ViewsSound /\ NoEarlyTimeout /\ LeaseIsExclusive
  BY DEF TimingInit, PromiseKept, DeadlineKept, ViewsSound, NoEarlyTimeout,
     LeaseIsExclusive, Unfinished, Larger
<1> QED
  BY <1>3, <1>4, <1>5 DEF TimingIInv

(* A commit that finds its view still current replaces the run it saw, and *)
(* the other views then lag behind.                                        *)
LEMMA SettleKeepsViews ==
  ASSUME TimingIInv, NEW v \in views, NEW committed \in TimedRun,
         NEW promised, NEW expires, Settle(v, committed, promised, expires)
  PROVE  /\ ViewsSound' /\ LeaseIsExclusive'
         /\ views' \in SUBSET View /\ clock' = clock
         /\ run' \in TimedRun
         /\ \/ UNCHANGED <<run, promise, expiry>>
            \/ /\ v.run = run
               /\ run' = [committed EXCEPT !.lease = 0, !.version = run.version + 1]
               /\ promise' = promised /\ expiry' = expires
<1>1. run \in TimedRun /\ views \in SUBSET View /\ clock \in Nat
  BY RangeAssumption DEF TimingIInv, TimingTypeOK
<1>2. views' \in SUBSET views /\ clock' = clock
  BY DEF Settle
<1>3. \/ UNCHANGED <<run, promise, expiry>>
      \/ /\ v.run = run
         /\ run' = [committed EXCEPT !.lease = 0, !.version = run.version + 1]
         /\ promise' = promised /\ expiry' = expires
  BY DEF Settle, TimingIInv, ViewsSound
<1>4. run' \in TimedRun /\ (run' = run \/ run'.version = run.version + 1)
  <2>1. CASE run' = run
    BY <1>1, <2>1
  <2>2. CASE run' = [committed EXCEPT !.lease = 0, !.version = run.version + 1]
    <3>1. run.version + 1 \in Nat
      BY <1>1 DEF TimedRun
    <3>2. [committed EXCEPT !.lease = 0] \in TimedRun
      BY DEF TimedRun
    <3>3. run' \in TimedRun
      BY <2>2, <3>1, <3>2 DEF TimedRun
    <3>4. [committed EXCEPT !.lease = 0, !.version = run.version + 1].version
            = run.version + 1
      BY <3>1 DEF TimedRun
    <3>5. run'.version = run.version + 1
      BY <2>2, <3>4, Zenon
    <3> QED
      BY <3>3, <3>5, Zenon
  <2> QED
    BY <1>3, <2>1, <2>2
<1>5. ViewsSound'
  <2> SUFFICES ASSUME NEW w \in views'
               PROVE  /\ w.now <= clock'
                      /\ w.run.lease = w.now + LeaseMs
                      /\ w.run.status # "failed"
                      /\ w.run.version <= run'.version
                      /\ w.run.version = run'.version => w.run = run'
    BY DEF ViewsSound
  <2>1. w \in views /\ w.run.version \in Nat /\ run.version \in Nat
    BY <1>1, <1>2 DEF View, TimedRun
  <2>2. /\ w.now <= clock
        /\ w.run.lease = w.now + LeaseMs
        /\ w.run.status # "failed"
        /\ w.run.version <= run.version
        /\ w.run.version = run.version => w.run = run
    BY <2>1 DEF TimingIInv, ViewsSound
  <2> QED
    BY <1>2, <1>4, <2>1, <2>2
<1>6. LeaseIsExclusive'
  BY <1>2 DEF TimingIInv, LeaseIsExclusive
<1> QED
  BY <1>1, <1>2, <1>3, <1>4, <1>5, <1>6

(* What a step leaves behind when the run it committed keeps its promises. *)
LEMMA Assemble ==
  ASSUME TimingIInv, ViewsSound', LeaseIsExclusive', views' \in SUBSET View,
         clock' = clock, run' \in TimedRun,
         \/ UNCHANGED <<run, promise, expiry>>
         \/ /\ promise' \in Nat /\ expiry' \in Int
            /\ PromiseKept' /\ DeadlineKept' /\ NoEarlyTimeout' /\ BackoffGrows'
  PROVE  TimingIInv'
  BY DEF TimingIInv, TimingTypeOK, PromiseKept, DeadlineKept, NoEarlyTimeout,
     BackoffGrows, Unfinished

(* A sum of instants within the range is the sum; past it, it is due.      *)
LEMMA WrapWithin ==
  ASSUME NEW n \in Int
  PROVE  Wrap(n) \in Int /\ (n <= IntMax => Wrap(n) = n)
  BY RangeAssumption DEF Wrap

(* A run that keeps the promises made with it. *)
Sound(new, promised, expires) ==
  /\ new.status # "failed" /\ promised <= IntMax => Larger(new.next, 0) = promised
  /\ new.deadline # NoDeadline =>
       /\ new.step.type = "wait"
       /\ expires <= IntMax => new.deadline = expires
  /\ new.status = "failed" /\ new.error = "timeout" /\ expires <= IntMax =>
       expires <= clock
  /\ new.step.type = "activity" => new.attempt < MaxAttempts(new.step.retry)

LEMMA CommitInvariant ==
  ASSUME TimingIInv, NEW v \in views, NEW committed \in TimedRun,
         NEW promised \in Nat, NEW expires \in Int,
         Settle(v, committed, promised, expires),
         v.run = run => Sound(committed, promised, expires)
  PROVE  TimingIInv'
<1>1. /\ ViewsSound' /\ LeaseIsExclusive'
      /\ views' \in SUBSET View /\ clock' = clock
      /\ run' \in TimedRun
      /\ \/ UNCHANGED <<run, promise, expiry>>
         \/ /\ v.run = run
            /\ run' = [committed EXCEPT !.lease = 0, !.version = run.version + 1]
            /\ promise' = promised /\ expiry' = expires
  BY SettleKeepsViews
<1>2. ASSUME run' = [committed EXCEPT !.lease = 0, !.version = run.version + 1],
             promise' = promised, expiry' = expires, Sound(committed, promised, expires)
      PROVE  PromiseKept' /\ DeadlineKept' /\ NoEarlyTimeout' /\ BackoffGrows'
  <2>1. /\ run'.step = committed.step /\ run'.attempt = committed.attempt
        /\ run'.status = committed.status /\ run'.error = committed.error
        /\ run'.deadline = committed.deadline /\ run'.next = committed.next
    BY <1>2 DEF TimedRun
  <2>2. PromiseKept' /\ DeadlineKept' /\ NoEarlyTimeout'
    BY <1>1, <1>2, <2>1 DEF Sound, PromiseKept, DeadlineKept, NoEarlyTimeout, Unfinished
  <2>3. BackoffGrows'
    <3>1. committed.step \in NextStep /\ committed.attempt \in Nat
      BY DEF TimedRun
    <3>2. committed.step.type = "activity" => committed.step.retry \in Policies
      BY <3>1, NextStepParts
    <3> QED
      BY <1>2, <2>1, <3>1, <3>2, BackoffNeverShrinks DEF Sound, BackoffGrows
  <2> QED
    BY <2>2, <2>3
<1> QED
  BY <1>1, <1>2, Assemble

LEMMA AdvanceInvariant ==
  ASSUME TimingIInv, NEW v \in views, NEW committed \in TimedRun, NEW promised \in Nat,
         Advances(v, committed, promised),
         v.run = run => /\ committed.deadline = NoDeadline
                        /\ promised <= IntMax => committed.next = promised
  PROVE  TimingIInv'
<1>1. PICK step \in NextStep :
        Settle(v, [committed EXCEPT !.step = step, !.attempt = 0, !.status = "running"],
               promised, 0)
  BY DEF Advances
<1> DEFINE new == [committed EXCEPT !.step = step, !.attempt = 0, !.status = "running"]
<1>2. new \in TimedRun
  <2>1. [committed EXCEPT !.step = step] \in TimedRun
    BY DEF TimedRun
  <2>2. [committed EXCEPT !.step = step, !.attempt = 0] \in TimedRun
    BY <2>1 DEF TimedRun
  <2> QED
    BY <2>2 DEF TimedRun
<1>3. /\ new.step = step /\ new.attempt = 0 /\ new.status = "running"
      /\ new.deadline = committed.deadline /\ new.next = committed.next
  BY DEF TimedRun
<1>4. step.type = "activity" => 0 < MaxAttempts(step.retry)
  BY NextStepParts, AttemptsBounded
<1>5. v.run = run => Sound(new, promised, 0)
  <2> HIDE DEF new
  <2> QED
    BY <1>3, <1>4 DEF Sound, Larger
<1> HIDE DEF new
<1> QED
  BY <1>1, <1>2, <1>5, CommitInvariant DEF new

---------------------------------------------------------------------------
(* One lemma per kind of step. *)

LEMMA ClaimInvariant == TimingIInv /\ Claim => TimingIInv'
<1> SUFFICES ASSUME TimingIInv, Claim PROVE TimingIInv'
  OBVIOUS
<1>1. /\ run \in TimedRun /\ views \in SUBSET View /\ clock \in 0..Horizon
      /\ promise \in Nat /\ expiry \in Int
  BY DEF TimingIInv, TimingTypeOK
<1>2. Wrap(clock + LeaseMs) = clock + LeaseMs /\ clock + LeaseMs \in Int /\ clock \in Nat
  BY <1>1, RangeAssumption DEF Wrap
<1>3. run.version + 1 \in Nat
  BY <1>1 DEF TimedRun
<1>4. run' = [run EXCEPT !.lease = clock + LeaseMs, !.version = run.version + 1]
  BY <1>2 DEF Claim
<1>5. run' \in TimedRun
  <2>1. [run EXCEPT !.lease = clock + LeaseMs] \in TimedRun
    BY <1>1, <1>2 DEF TimedRun
  <2> QED
    BY <1>3, <1>4, <2>1 DEF TimedRun
<1>6. /\ run'.lease = clock + LeaseMs /\ run'.version = run.version + 1
      /\ run'.status = run.status /\ run'.error = run.error /\ run'.step = run.step
      /\ run'.attempt = run.attempt /\ run'.next = run.next
      /\ run'.deadline = run.deadline
  BY <1>1, <1>2, <1>3, <1>4 DEF TimedRun
<1>7. /\ views' = views \cup {[run |-> run', now |-> clock]}
      /\ UNCHANGED <<clock, promise, expiry>>
      /\ run.status # "failed" /\ run.lease <= clock
  BY DEF Claim, Due, Unfinished
<1>8. views' \in SUBSET View
  BY <1>1, <1>2, <1>5, <1>7 DEF View
<1>9. ViewsSound'
  <2> SUFFICES ASSUME NEW w \in views'
               PROVE  /\ w.now <= clock
                      /\ w.run.lease = w.now + LeaseMs
                      /\ w.run.status # "failed"
                      /\ w.run.version <= run'.version
                      /\ w.run.version = run'.version => w.run = run'
    BY <1>7 DEF ViewsSound
  <2>1. CASE w \in views
    <3>1. w.run.version \in Nat /\ run.version \in Nat
      BY <1>1, <2>1 DEF View, TimedRun
    <3> QED
      BY <1>6, <2>1, <3>1 DEF TimingIInv, ViewsSound
  <2>2. CASE w = [run |-> run', now |-> clock]
    BY <1>2, <1>3, <1>6, <1>7, <2>2
  <2> QED
    BY <1>7, <2>1, <2>2
<1>10. LeaseIsExclusive'
  <2> SUFFICES ASSUME NEW v \in views', NEW w \in views',
                      w.run.version = v.run.version + 1
               PROVE  w.now >= v.now + LeaseMs
    BY DEF LeaseIsExclusive
  <2>1. v.run.version \in Nat /\ w.run.version \in Nat /\ run.version \in Nat
    BY <1>1, <1>8 DEF View, TimedRun
  <2>2. v \in views
    BY <1>6, <1>7, <1>9, <2>1 DEF ViewsSound
  <2>3. CASE w \in views
    BY <2>2, <2>3 DEF TimingIInv, LeaseIsExclusive
  <2>4. CASE w = [run |-> run', now |-> clock]
    <3>1. v.run.version = run.version
      BY <1>6, <2>1, <2>4
    <3>2. run.lease = v.now + LeaseMs
      BY <2>2, <3>1 DEF TimingIInv, ViewsSound
    <3> QED
      BY <1>7, <2>4, <3>2
  <2> QED
    BY <1>7, <2>3, <2>4
<1>11. PromiseKept' /\ DeadlineKept' /\ NoEarlyTimeout' /\ BackoffGrows'
  BY <1>6, <1>7 DEF TimingIInv, PromiseKept, DeadlineKept, NoEarlyTimeout, BackoffGrows,
     Unfinished
<1> QED
  BY <1>1, <1>5, <1>7, <1>8, <1>9, <1>10, <1>11 DEF TimingIInv, TimingTypeOK

LEMMA DeliverInvariant == TimingIInv /\ Deliver => TimingIInv'
<1> SUFFICES ASSUME TimingIInv, Deliver PROVE TimingIInv'
  OBVIOUS
<1>1. /\ run \in TimedRun /\ views \in SUBSET View /\ clock \in 0..Horizon
      /\ promise \in Nat /\ expiry \in Int /\ clock \in Nat
  BY DEF TimingIInv, TimingTypeOK
<1>2. PICK matching \in {0, 1} :
        run' = [run EXCEPT !.signals = run.signals + matching, !.next = clock,
                           !.lease = 0, !.version = run.version + 1]
  BY DEF Deliver
<1>3. run.version + 1 \in Nat /\ run.signals + matching \in Nat
  BY <1>1 DEF TimedRun
<1>4. run' \in TimedRun
  <2> DEFINE signaled == [run EXCEPT !.signals = run.signals + matching]
             due == [signaled EXCEPT !.next = clock]
             free == [due EXCEPT !.lease = 0]
  <2>1. signaled \in TimedRun
    BY <1>1, <1>3 DEF TimedRun
  <2>2. due \in TimedRun
    <3> HIDE DEF signaled
    <3> QED
      BY <1>1, <2>1 DEF TimedRun
  <2>3. free \in TimedRun
    <3> HIDE DEF due
    <3> QED
      BY <2>2 DEF TimedRun
  <2>4. run' = [free EXCEPT !.version = run.version + 1]
    BY <1>2
  <2> HIDE DEF free
  <2> QED
    BY <1>3, <2>3, <2>4 DEF TimedRun
<1>5. /\ run'.version = run.version + 1 /\ run'.next = clock
      /\ run'.status = run.status /\ run'.error = run.error /\ run'.step = run.step
      /\ run'.attempt = run.attempt /\ run'.deadline = run.deadline
  BY <1>1, <1>2, <1>3 DEF TimedRun
<1>6. promise' = clock /\ UNCHANGED <<clock, views, expiry>> /\ run.status # "failed"
  BY DEF Deliver, Unfinished
<1>7. ViewsSound'
  <2> SUFFICES ASSUME NEW w \in views
               PROVE  /\ w.now <= clock
                      /\ w.run.lease = w.now + LeaseMs
                      /\ w.run.status # "failed"
                      /\ w.run.version <= run'.version
                      /\ w.run.version = run'.version => w.run = run'
    BY <1>6 DEF ViewsSound
  <2>1. w.run.version \in Nat /\ run.version \in Nat
    BY <1>1 DEF View, TimedRun
  <2> QED
    BY <1>5, <2>1 DEF TimingIInv, ViewsSound
<1>8. LeaseIsExclusive'
  BY <1>6 DEF TimingIInv, LeaseIsExclusive
<1>9. PromiseKept'
  BY <1>1, <1>5, <1>6 DEF PromiseKept, Larger
<1>10. DeadlineKept' /\ NoEarlyTimeout' /\ BackoffGrows'
  BY <1>5, <1>6 DEF TimingIInv, DeadlineKept, NoEarlyTimeout, BackoffGrows
<1> QED
  BY <1>1, <1>4, <1>6, <1>7, <1>8, <1>9, <1>10 DEF TimingIInv, TimingTypeOK

(* The facts of the invariant every commit starts from. *)
LEMMA CommitFacts ==
  ASSUME TimingIInv, NEW v \in views
  PROVE  /\ run \in TimedRun /\ clock \in Nat /\ clock \in 0..Horizon
         /\ promise \in Nat /\ expiry \in Int
         /\ v.run \in TimedRun /\ v.now \in Nat /\ v.now <= clock
         /\ v.run.step \in NextStep /\ v.run.attempt \in Nat
         /\ run.deadline # NoDeadline => run.step.type = "wait"
         /\ run.step.type = "activity" => run.attempt < MaxAttempts(run.step.retry)
  BY DEF TimingIInv, TimingTypeOK, DeadlineKept, BackoffGrows, ViewsSound, View, TimedRun

LEMMA SucceedsInvariant ==
  ASSUME TimingIInv, NEW v \in views, Succeeds(v)
  PROVE  TimingIInv'
<1> DEFINE new == [run EXCEPT !.next = clock]
<1>1. new \in TimedRun /\ new.next = clock /\ new.deadline = run.deadline
  BY CommitFacts DEF TimedRun
<1>2. v.run = run => run.deadline = NoDeadline
  BY CommitFacts DEF Succeeds, AtType
<1>3. Advances(v, new, clock)
  BY DEF Succeeds
<1> HIDE DEF new
<1> QED
  BY <1>1, <1>2, <1>3, CommitFacts, AdvanceInvariant

LEMMA SleepsInvariant ==
  ASSUME TimingIInv, NEW v \in views, Sleeps(v)
  PROVE  TimingIInv'
<1> DEFINE ms  == Larger(v.run.step.ms, 0)
           new == [run EXCEPT !.next = Wrap(clock + ms)]
<1>1. ms \in Nat
  BY CommitFacts, NextStepParts, RangeAssumption DEF Sleeps, AtType, Larger
<1>2. Wrap(clock + ms) \in Int /\ clock + ms \in Nat
      /\ (clock + ms <= IntMax => Wrap(clock + ms) = clock + ms)
  <2> HIDE DEF ms
  <2> QED
    BY <1>1, CommitFacts, WrapWithin
<1>3. Advances(v, new, clock + ms)
  BY DEF Sleeps
<1>4. v.run = run => run.deadline = NoDeadline
  BY CommitFacts DEF Sleeps, AtType
<1> HIDE DEF ms
<1>5. new \in TimedRun /\ new.next = Wrap(clock + ms) /\ new.deadline = run.deadline
  BY <1>2, CommitFacts DEF TimedRun
<1> HIDE DEF new
<1> QED
  BY <1>2, <1>3, <1>4, <1>5, AdvanceInvariant

LEMMA ConsumesInvariant ==
  ASSUME TimingIInv, NEW v \in views, Consumes(v)
  PROVE  TimingIInv'
<1> DEFINE taken == [run EXCEPT !.signals = v.run.signals - 1]
           woken == [taken EXCEPT !.deadline = NoDeadline]
           new   == [woken EXCEPT !.next = clock]
<1>1. v.run.signals - 1 \in Nat
  BY CommitFacts DEF Consumes, TimedRun
<1>2. taken \in TimedRun
  BY <1>1, CommitFacts DEF TimedRun
<1>3. woken \in TimedRun /\ woken.deadline = NoDeadline
  <2> HIDE DEF taken
  <2> QED
    BY <1>2 DEF TimedRun
<1>4. new \in TimedRun /\ new.next = clock /\ new.deadline = NoDeadline
  <2> HIDE DEF woken
  <2> QED
    BY <1>3, CommitFacts DEF TimedRun
<1>5. Advances(v, new, clock)
  BY DEF Consumes
<1> HIDE DEF new
<1> QED
  BY <1>4, <1>5, CommitFacts, AdvanceInvariant

LEMMA RetriesInvariant ==
  ASSUME TimingIInv, NEW v \in views, RetriesLater(v)
  PROVE  TimingIInv'
<1> DEFINE wake   == Wrap(clock + Delay(v))
           tried  == [run EXCEPT !.attempt = v.run.attempt + 1]
           again  == [tried EXCEPT !.status = "running"]
           failed == [again EXCEPT !.error = "activity"]
           new    == [failed EXCEPT !.next = wake]
<1>1. Delay(v) \in 0..DelayCap
  BY CommitFacts, NextStepParts, DelayBounded DEF RetriesLater, AtType, Delay
<1>2. clock + Delay(v) \in Nat /\ clock + Delay(v) <= IntMax /\ wake = clock + Delay(v)
  BY <1>1, CommitFacts, RangeAssumption DEF Wrap
<1>3. tried \in TimedRun /\ tried.attempt = v.run.attempt + 1
      /\ tried.step = run.step /\ tried.deadline = run.deadline
  BY CommitFacts DEF TimedRun
<1>4. again \in TimedRun /\ again.attempt = v.run.attempt + 1 /\ again.status = "running"
      /\ again.step = run.step /\ again.deadline = run.deadline
  <2> HIDE DEF tried
  <2> QED
    BY <1>3 DEF TimedRun
<1>5. failed \in TimedRun /\ failed.attempt = v.run.attempt + 1
      /\ failed.status = "running"
      /\ failed.step = run.step /\ failed.deadline = run.deadline
  <2> HIDE DEF again
  <2> QED
    BY <1>4 DEF TimedRun
<1>6. new \in TimedRun /\ new.attempt = v.run.attempt + 1 /\ new.status = "running"
      /\ new.step = run.step /\ new.deadline = run.deadline /\ new.next = wake
  <2> HIDE DEF failed, wake
  <2> QED
    BY <1>2, <1>5 DEF TimedRun
<1>7. Settle(v, new, clock + Delay(v), 0)
  BY DEF RetriesLater
<1>8. v.run = run => Sound(new, clock + Delay(v), 0)
  <2> SUFFICES ASSUME v.run = run PROVE Sound(new, clock + Delay(v), 0)
    OBVIOUS
  <2>1. run.deadline = NoDeadline /\ run.attempt + 1 < MaxAttempts(run.step.retry)
    BY CommitFacts DEF RetriesLater, AtType
  <2> HIDE DEF new, wake
  <2> QED
    BY <1>2, <1>6, <2>1 DEF Sound, Larger
<1> HIDE DEF new
<1> QED
  BY <1>2, <1>6, <1>7, <1>8, CommitInvariant

LEMMA FailsInvariant ==
  ASSUME TimingIInv, NEW v \in views, Exhausted(v) \/ TimesOut(v)
  PROVE  TimingIInv'
<1> DEFINE failed     == [run EXCEPT !.status = "failed"]
           Error(err) == [failed EXCEPT !.error = err]
<1>1. failed \in TimedRun /\ failed.status = "failed" /\ failed.step = run.step
      /\ failed.attempt = run.attempt /\ failed.deadline = run.deadline
  BY CommitFacts DEF TimedRun
<1>2. ASSUME NEW err \in {"activity", "timeout"}
      PROVE  /\ Error(err) \in TimedRun /\ Error(err).status = "failed"
             /\ Error(err).error = err /\ Error(err).step = run.step
             /\ Error(err).attempt = run.attempt /\ Error(err).deadline = run.deadline
  <2> HIDE DEF failed
  <2> QED
    BY <1>1 DEF TimedRun
<1>3. CASE Exhausted(v)
  <2>1. Settle(v, Error("activity"), promise, 0)
    BY <1>3 DEF Exhausted
  <2>2. v.run = run => run.deadline = NoDeadline
    BY <1>3, CommitFacts DEF Exhausted, AtType
  <2> HIDE DEF Error
  <2>3. v.run = run => Sound(Error("activity"), promise, 0)
    BY <1>2, <2>2, CommitFacts DEF Sound
  <2> QED
    BY <1>2, <2>1, <2>3, CommitFacts, CommitInvariant
<1>4. CASE TimesOut(v)
  <2>1. Settle(v, Error("timeout"), promise, expiry)
    BY <1>4 DEF TimesOut
  <2>2. ASSUME v.run = run
        PROVE  run.step.type = "wait" /\ (expiry <= IntMax => run.deadline = expiry)
               /\ run.deadline # NoDeadline /\ v.now >= run.deadline
    BY <1>4, <2>2 DEF TimesOut, Idle, AtType, Expired, TimingIInv, DeadlineKept
  <2> HIDE DEF Error
  <2>3. v.run = run => Sound(Error("timeout"), promise, expiry)
    BY <1>2, <2>2, CommitFacts DEF Sound
  <2> QED
    BY <1>2, <2>1, <2>3, CommitFacts, CommitInvariant
<1> QED
  BY <1>3, <1>4

LEMMA ParksInvariant ==
  ASSUME TimingIInv, NEW v \in views, Parks(v)
  PROVE  TimingIInv'
<1> DEFINE ms       == v.run.step.ms
           deadline == IF ms = 0 THEN NoDeadline ELSE Wrap(clock + ms)
           promised == IF ms = 0 THEN IntMax ELSE Larger(clock + ms, 0)
           parked   == [run EXCEPT !.status = "waiting"]
           bounded  == [parked EXCEPT !.deadline = deadline]
           new      == [bounded EXCEPT !.next = WakeAt(deadline)]
<1>1. ms \in Int /\ clock + ms \in Int /\ v.run.step.type = "wait" /\ IntMax \in Nat
  BY CommitFacts, NextStepParts, RangeAssumption DEF Parks, Idle, AtType
<1>2. Settle(v, new, promised, clock + ms)
  BY DEF Parks
<1> HIDE DEF ms
<1>3. /\ promised \in Nat
      /\ deadline \in Int \cup {NoDeadline}
      /\ deadline # NoDeadline => (clock + ms <= IntMax => deadline = clock + ms)
      /\ WakeAt(deadline) \in Int
      /\ promised <= IntMax => Larger(WakeAt(deadline), 0) = promised
  BY <1>1, WrapWithin, NumbersAssumption DEF WakeAt, Larger
<1> HIDE DEF deadline, promised
<1>4. parked \in TimedRun /\ parked.status = "waiting" /\ parked.step = run.step
  BY CommitFacts DEF TimedRun
<1>5. bounded \in TimedRun /\ bounded.status = "waiting" /\ bounded.step = run.step
      /\ bounded.deadline = deadline
  <2> HIDE DEF parked
  <2> QED
    BY <1>3, <1>4 DEF TimedRun
<1>6. new \in TimedRun /\ new.status = "waiting" /\ new.step = run.step
      /\ new.deadline = deadline /\ new.next = WakeAt(deadline)
  <2> HIDE DEF bounded
  <2> QED
    BY <1>3, <1>5 DEF TimedRun
<1> HIDE DEF new
<1>7. v.run = run => Sound(new, promised, clock + ms)
  BY <1>1, <1>3, <1>6 DEF Sound
<1> QED
  BY <1>1, <1>2, <1>3, <1>6, <1>7, CommitInvariant

LEMMA ReparksInvariant ==
  ASSUME TimingIInv, NEW v \in views, Reparks(v)
  PROVE  TimingIInv'
<1> DEFINE promised == IF run.deadline = NoDeadline THEN IntMax ELSE Larger(expiry, 0)
           parked   == [run EXCEPT !.status = "waiting"]
           new      == [parked EXCEPT !.next = WakeAt(run.deadline)]
<1>1. Settle(v, new, promised, expiry)
  BY DEF Reparks
<1>2. run.deadline \in Int \cup {NoDeadline} /\ IntMax \in Nat /\ expiry \in Int
  BY CommitFacts, RangeAssumption DEF TimedRun
<1>3. run.deadline # NoDeadline => (expiry <= IntMax => run.deadline = expiry)
  BY DEF TimingIInv, DeadlineKept
<1>4. /\ promised \in Nat
      /\ WakeAt(run.deadline) \in Int
      /\ promised <= IntMax => Larger(WakeAt(run.deadline), 0) = promised
  BY <1>2, <1>3, NumbersAssumption DEF WakeAt, Larger
<1> HIDE DEF promised
<1>5. parked \in TimedRun /\ parked.status = "waiting" /\ parked.step = run.step
      /\ parked.deadline = run.deadline
  BY CommitFacts DEF TimedRun
<1>6. new \in TimedRun /\ new.status = "waiting" /\ new.step = run.step
      /\ new.deadline = run.deadline /\ new.next = WakeAt(run.deadline)
  <2> HIDE DEF parked
  <2> QED
    BY <1>4, <1>5 DEF TimedRun
<1> HIDE DEF new
<1>7. v.run = run => Sound(new, promised, expiry)
  <2> SUFFICES ASSUME v.run = run PROVE Sound(new, promised, expiry)
    OBVIOUS
  <2>1. run.step.type = "wait"
    BY DEF Reparks, Idle, AtType
  <2> QED
    BY <1>3, <1>4, <1>6, <2>1 DEF Sound
<1> QED
  BY <1>1, <1>2, <1>4, <1>6, <1>7, CommitInvariant

(* A tick of the clock, and a tick of the engine that is given up.         *)
LEMMA IdleInvariant ==
  ASSUME TimingIInv, Tick \/ (\E v \in views : GivesUp(v))
  PROVE  TimingIInv'
<1>1. /\ views' \in SUBSET views /\ UNCHANGED <<run, promise, expiry>>
      /\ clock' \in 0..Horizon /\ clock <= clock'
      /\ views \in SUBSET View /\ clock \in 0..Horizon /\ expiry \in Int
  BY RangeAssumption DEF Tick, GivesUp, TimingIInv, TimingTypeOK
<1>2. ViewsSound'
  <2> SUFFICES ASSUME NEW w \in views'
               PROVE  /\ w.now <= clock'
                      /\ w.run.lease = w.now + LeaseMs
                      /\ w.run.status # "failed"
                      /\ w.run.version <= run.version
                      /\ w.run.version = run.version => w.run = run
    BY <1>1 DEF ViewsSound
  <2>1. w \in views /\ w.now \in Nat
    BY <1>1 DEF View
  <2> QED
    BY <1>1, <2>1, RangeAssumption DEF TimingIInv, ViewsSound
<1>3. LeaseIsExclusive' /\ PromiseKept' /\ DeadlineKept' /\ BackoffGrows'
  BY <1>1 DEF TimingIInv, LeaseIsExclusive, PromiseKept, DeadlineKept, BackoffGrows,
     Unfinished
<1>4. NoEarlyTimeout'
  BY <1>1, RangeAssumption DEF TimingIInv, NoEarlyTimeout
<1> QED
  BY <1>1, <1>2, <1>3, <1>4 DEF TimingIInv, TimingTypeOK

LEMMA TimingStepInvariant == TimingIInv /\ [TimingNext]_timingVars => TimingIInv'
<1> SUFFICES ASSUME TimingIInv, [TimingNext]_timingVars PROVE TimingIInv'
  OBVIOUS
<1>1. CASE Tick \/ \E v \in views : GivesUp(v)
  BY <1>1, IdleInvariant
<1>2. CASE Claim
  BY <1>2, ClaimInvariant
<1>3. CASE Deliver
  BY <1>3, DeliverInvariant
<1>4. ASSUME NEW v \in views, Commits(v) PROVE TimingIInv'
  BY <1>4, SucceedsInvariant, RetriesInvariant, FailsInvariant, SleepsInvariant,
     ConsumesInvariant, ParksInvariant, ReparksInvariant DEF Commits
<1>5. CASE UNCHANGED timingVars
  BY <1>5 DEF timingVars, TimingIInv, TimingTypeOK, PromiseKept, DeadlineKept, ViewsSound,
     NoEarlyTimeout, LeaseIsExclusive, BackoffGrows, Unfinished
<1> QED
  BY <1>1, <1>2, <1>3, <1>4, <1>5 DEF TimingNext

(* TimingIInv holds in every reachable state. *)
THEOREM TimingInvariant == TimingSpec => []TimingIInv
  BY TimingInitInvariant, TimingStepInvariant, PTL DEF TimingSpec

LEMMA PromiseIsOnTime == TimingIInv => OnTime
<1> SUFFICES ASSUME TimingIInv, Unfinished, promise <= IntMax, NEW t \in 0..Horizon
             PROVE  run.next <= t <=> promise <= t
  BY DEF OnTime
<1>1. run.next \in Int /\ t \in Nat
  BY RangeAssumption DEF TimingIInv, TimingTypeOK, TimedRun
<1> QED
  BY <1>1 DEF TimingIInv, PromiseKept, Larger

(* A retry, a sleep and a wait are due at the instant they were promised,  *)
(* whatever the retry policy and however late the commit.                  *)
THEOREM AlwaysOnTime == TimingSpec => []OnTime
  BY TimingInvariant, PromiseIsOnTime, PTL

(* A wait fails no sooner than its timeout, however often it is woken.     *)
THEOREM TimeoutsAreNotEarly == TimingSpec => []NoEarlyTimeout
<1>1. TimingIInv => NoEarlyTimeout
  BY DEF TimingIInv
<1> QED
  BY <1>1, TimingInvariant, PTL

(* A lease that is neither freed nor overtaken by a signal keeps other     *)
(* ticks out for its length.                                               *)
THEOREM LeasesExclude == TimingSpec => []LeaseIsExclusive
<1>1. TimingIInv => LeaseIsExclusive
  BY DEF TimingIInv
<1> QED
  BY <1>1, TimingInvariant, PTL

(* A step is tried no more often than its policy says, after delays that   *)
(* never shrink.                                                           *)
THEOREM AlwaysBackoffGrows == TimingSpec => []BackoffGrows
<1>1. TimingIInv => BackoffGrows
  BY DEF TimingIInv
<1> QED
  BY <1>1, TimingInvariant, PTL

---------------------------------------------------------------------------
(* What a commit changes of the times *)

TimedFields == {"status", "error", "step", "attempt", "signals", "next", "lease",
                "deadline", "version"}

Changed(v, status, attempt, next, deadline) ==
  /\ clock' = clock /\ views' \in SUBSET views
  /\ \/ UNCHANGED run
     \/ /\ v.run = run
        /\ run'.status = status /\ run'.attempt = attempt /\ run'.next = next
        /\ run'.deadline = deadline /\ run'.lease = 0
        /\ run'.version = run.version + 1

LEMMA SettleChanges ==
  ASSUME TimingIInv, NEW v \in views, NEW committed, DOMAIN committed = TimedFields,
         NEW promised, NEW expires, Settle(v, committed, promised, expires)
  PROVE  Changed(v, committed.status, committed.attempt, committed.next,
                 committed.deadline)
<1>1. clock' = clock /\ views' \in SUBSET views
  BY DEF Settle
<1>2. CASE run.version = v.run.version
  <2>1. v.run = run
    BY <1>2 DEF TimingIInv, ViewsSound
  <2>2. run' = [committed EXCEPT !.lease = 0, !.version = run.version + 1]
    BY <1>2 DEF Settle
  <2> QED
    BY <1>1, <2>1, <2>2 DEF Changed, TimedFields
<1>3. CASE run.version # v.run.version
  BY <1>1, <1>3 DEF Settle, Changed
<1> QED
  BY <1>2, <1>3

LEMMA AdvanceChanges ==
  ASSUME TimingIInv, NEW v \in views, NEW committed, DOMAIN committed = TimedFields,
         NEW promised, Advances(v, committed, promised)
  PROVE  Changed(v, "running", 0, committed.next, committed.deadline)
<1>1. PICK step \in NextStep :
        Settle(v, [committed EXCEPT !.step = step, !.attempt = 0, !.status = "running"],
               promised, 0)
  BY DEF Advances
<1> DEFINE new == [committed EXCEPT !.step = step, !.attempt = 0, !.status = "running"]
<1>2. /\ DOMAIN new = TimedFields
      /\ new.status = "running" /\ new.attempt = 0
      /\ new.next = committed.next /\ new.deadline = committed.deadline
  BY DEF TimedFields
<1>3. Settle(v, new, promised, 0)
  BY <1>1
<1> HIDE DEF new
<1> QED
  BY <1>2, <1>3, SettleChanges

LEMMA RunFields == TimingIInv => DOMAIN run = TimedFields
  BY DEF TimingIInv, TimingTypeOK, TimedRun, TimedFields

LEMMA SucceedsChanges ==
  ASSUME TimingIInv, NEW v \in views, Succeeds(v)
  PROVE  Changed(v, "running", 0, clock, run.deadline)
<1> DEFINE new == [run EXCEPT !.next = clock]
<1>1. DOMAIN new = TimedFields /\ new.next = clock /\ new.deadline = run.deadline
  BY RunFields DEF TimedFields
<1>2. Advances(v, new, clock)
  BY DEF Succeeds
<1> HIDE DEF new
<1> QED
  BY <1>1, <1>2, AdvanceChanges

LEMMA SleepsChanges ==
  ASSUME TimingIInv, NEW v \in views, Sleeps(v)
  PROVE  \E next \in Int : Changed(v, "running", 0, next, run.deadline)
<1> DEFINE ms   == Larger(v.run.step.ms, 0)
           next == Wrap(clock + ms)
           new  == [run EXCEPT !.next = next]
<1>1. ms \in Nat
  BY CommitFacts, NextStepParts, RangeAssumption DEF Sleeps, AtType, Larger
<1>2. next \in Int
  <2> HIDE DEF ms
  <2> QED
    BY <1>1, CommitFacts, WrapWithin
<1>3. Advances(v, new, clock + ms)
  BY DEF Sleeps
<1> HIDE DEF next, ms
<1>4. DOMAIN new = TimedFields /\ new.next = next /\ new.deadline = run.deadline
  BY RunFields DEF TimedFields
<1> HIDE DEF new
<1>5. Changed(v, "running", 0, next, run.deadline)
  BY <1>3, <1>4, AdvanceChanges
<1> QED
  BY <1>2, <1>5

LEMMA ConsumesChanges ==
  ASSUME TimingIInv, NEW v \in views, Consumes(v)
  PROVE  Changed(v, "running", 0, clock, NoDeadline)
<1> DEFINE new == [run EXCEPT !.signals = v.run.signals - 1, !.deadline = NoDeadline,
                              !.next = clock]
<1>1. DOMAIN new = TimedFields /\ new.next = clock /\ new.deadline = NoDeadline
  BY RunFields DEF TimedFields
<1>2. Advances(v, new, clock)
  BY DEF Consumes
<1> HIDE DEF new
<1> QED
  BY <1>1, <1>2, AdvanceChanges

LEMMA RetriesChanges ==
  ASSUME TimingIInv, NEW v \in views, RetriesLater(v)
  PROVE  \E next \in Int :
           Changed(v, "running", v.run.attempt + 1, next, run.deadline)
<1> DEFINE next == Wrap(clock + Delay(v))
           new  == [run EXCEPT !.attempt = v.run.attempt + 1, !.status = "running",
                               !.error = "activity", !.next = next]
<1>1. Delay(v) \in 0..DelayCap
  BY CommitFacts, NextStepParts, DelayBounded DEF RetriesLater, AtType, Delay
<1>2. next \in Int
  BY <1>1, CommitFacts, WrapWithin, RangeAssumption
<1>3. Settle(v, new, clock + Delay(v), 0)
  BY DEF RetriesLater
<1> HIDE DEF next
<1>4. /\ DOMAIN new = TimedFields /\ new.status = "running"
      /\ new.attempt = v.run.attempt + 1 /\ new.next = next
      /\ new.deadline = run.deadline
  BY RunFields DEF TimedFields
<1> HIDE DEF new
<1>5. Changed(v, "running", v.run.attempt + 1, next, run.deadline)
  BY <1>3, <1>4, SettleChanges
<1> QED
  BY <1>2, <1>5

LEMMA FailsChanges ==
  ASSUME TimingIInv, NEW v \in views, Exhausted(v) \/ TimesOut(v)
  PROVE  Changed(v, "failed", run.attempt, run.next, run.deadline)
<1> DEFINE new(err) == [run EXCEPT !.status = "failed", !.error = err]
<1>1. ASSUME NEW err
      PROVE  /\ DOMAIN new(err) = TimedFields /\ new(err).status = "failed"
             /\ new(err).attempt = run.attempt /\ new(err).next = run.next
             /\ new(err).deadline = run.deadline
  BY RunFields DEF TimedFields
<1>2. CASE Exhausted(v)
  <2>1. Settle(v, new("activity"), promise, 0)
    BY <1>2 DEF Exhausted
  <2> HIDE DEF new
  <2>2. Changed(v, new("activity").status, new("activity").attempt, new("activity").next,
                new("activity").deadline)
    BY <1>1, <2>1, SettleChanges
  <2> QED
    BY <1>1, <2>2
<1>3. CASE TimesOut(v)
  <2>1. Settle(v, new("timeout"), promise, expiry)
    BY <1>3 DEF TimesOut
  <2> HIDE DEF new
  <2>2. Changed(v, new("timeout").status, new("timeout").attempt, new("timeout").next,
                new("timeout").deadline)
    BY <1>1, <2>1, SettleChanges
  <2> QED
    BY <1>1, <2>2
<1> QED
  BY <1>2, <1>3

(* The deadline a wait is parked with. *)
Awaited(v) == IF v.run.step.ms = 0 THEN NoDeadline ELSE Wrap(clock + v.run.step.ms)

LEMMA ParksChanges ==
  ASSUME TimingIInv, NEW v \in views, Parks(v)
  PROVE  /\ Changed(v, "waiting", run.attempt, WakeAt(Awaited(v)), Awaited(v))
         /\ Awaited(v) \in Int \cup {NoDeadline}
         /\ Awaited(v) = NoDeadline <=> v.run.step.ms = 0
<1> DEFINE ms  == v.run.step.ms
           new == [run EXCEPT !.status = "waiting", !.deadline = Awaited(v),
                              !.next = WakeAt(Awaited(v))]
<1>1. ms \in Int /\ clock + ms \in Int
  BY CommitFacts, NextStepParts, RangeAssumption DEF Parks, Idle, AtType
<1>2. Wrap(clock + ms) \in Int
  BY <1>1, WrapWithin
<1>3. /\ Awaited(v) \in Int \cup {NoDeadline}
      /\ Awaited(v) = NoDeadline <=> v.run.step.ms = 0
  BY <1>2, NumbersAssumption DEF Awaited
<1>4. \E promised : Settle(v, new, promised, clock + ms)
  BY DEF Parks, Awaited
<1>5. /\ DOMAIN new = TimedFields /\ new.status = "waiting"
      /\ new.attempt = run.attempt /\ new.next = WakeAt(Awaited(v))
      /\ new.deadline = Awaited(v)
  BY RunFields DEF TimedFields
<1> HIDE DEF new
<1> QED
  BY <1>3, <1>4, <1>5, SettleChanges

LEMMA ReparksChanges ==
  ASSUME TimingIInv, NEW v \in views, Reparks(v)
  PROVE  Changed(v, "waiting", run.attempt, WakeAt(run.deadline), run.deadline)
<1> DEFINE new == [run EXCEPT !.status = "waiting", !.next = WakeAt(run.deadline)]
<1>1. \E promised : Settle(v, new, promised, expiry)
  BY DEF Reparks
<1>2. /\ DOMAIN new = TimedFields /\ new.status = "waiting"
      /\ new.attempt = run.attempt /\ new.next = WakeAt(run.deadline)
      /\ new.deadline = run.deadline
  BY RunFields DEF TimedFields
<1> HIDE DEF new
<1> QED
  BY <1>1, <1>2, SettleChanges
---------------------------------------------------------------------------
(* Waits and wake-ups *)

LEMMA WakesInit == TimingInit => WakesSound
  BY DEF TimingInit, WakesSound

(* What the commits leave behind keeps it. *)
LEMMA ChangedWakes ==
  ASSUME TimingIInv, WakesSound, NEW v \in views, NEW status, NEW attempt,
         NEW next, NEW deadline, Changed(v, status, attempt, next, deadline),
         v.run = run =>
           /\ status \in {"running", "waiting", "failed"}
           /\ status = "waiting" => next = WakeAt(deadline)
           /\ status = "running" => deadline = NoDeadline
           /\ status = "failed" =>
                next <= clock /\ (deadline = NoDeadline \/ deadline <= clock)
  PROVE  WakesSound'
<1>1. clock \in Nat
  BY CommitFacts
<1>2. CASE UNCHANGED run
  BY <1>2 DEF Changed, WakesSound
<1>3. CASE ~UNCHANGED run
  <2>1. /\ clock' = clock /\ views' \in SUBSET views
        /\ v.run = run
        /\ run'.status = status /\ run'.next = next
        /\ run'.deadline = deadline /\ run'.lease = 0
    BY <1>3 DEF Changed
  <2> QED
    BY <1>1, <2>1 DEF WakesSound
<1> QED
  BY <1>2, <1>3

LEMMA WakesStep ==
  ASSUME TimingIInv, WakesSound, [TimingNext]_timingVars
  PROVE  WakesSound'
<1>1. /\ run \in TimedRun /\ clock \in Nat /\ run.next \in Int /\ run.lease \in Int
      /\ run.deadline \in Int \cup {NoDeadline}
  BY RangeAssumption DEF TimingIInv, TimingTypeOK, TimedRun
<1>2. CASE Tick
  BY <1>1, <1>2 DEF Tick, WakesSound
<1>3. CASE Claim
  <2>1. /\ run'.status = run.status /\ run'.next = run.next
        /\ run'.deadline = run.deadline
    BY <1>1, <1>3 DEF Claim, TimedRun
  <2>2. /\ views' = views \cup {[run |-> run', now |-> clock]} /\ clock' = clock
        /\ run.status # "failed" /\ run.next <= clock
    BY <1>3 DEF Claim, Due, Unfinished
  <2> QED
    BY <2>1, <2>2 DEF WakesSound
<1>4. CASE Deliver
  <2>1. /\ run'.status = run.status /\ run'.next = clock
        /\ run'.deadline = run.deadline
    BY <1>1, <1>4 DEF Deliver, TimedRun
  <2>2. UNCHANGED <<clock, views>> /\ run.status # "failed"
    BY <1>4 DEF Deliver, Unfinished
  <2> QED
    BY <1>1, <2>1, <2>2 DEF WakesSound
<1>5. ASSUME NEW v \in views, GivesUp(v) PROVE WakesSound'
  BY <1>5 DEF GivesUp, WakesSound
<1>6. ASSUME NEW v \in views, Commits(v) PROVE WakesSound'
  <2>1. v.run = run => run.deadline = NoDeadline \/ AtType(v, "wait")
    BY CommitFacts DEF AtType
  <2>2. CASE Succeeds(v)
    BY <2>1, <2>2, SucceedsChanges, ChangedWakes DEF Succeeds, AtType
  <2>3. CASE RetriesLater(v)
    <3>1. PICK next \in Int :
            Changed(v, "running", v.run.attempt + 1, next, run.deadline)
      BY <2>3, RetriesChanges
    <3> QED
      BY <2>1, <2>3, <3>1, ChangedWakes DEF RetriesLater, AtType
  <2>4. CASE Sleeps(v)
    <3>1. PICK next \in Int : Changed(v, "running", 0, next, run.deadline)
      BY <2>4, SleepsChanges
    <3> QED
      BY <2>1, <2>4, <3>1, ChangedWakes DEF Sleeps, AtType
  <2>5. CASE Consumes(v)
    BY <2>5, ConsumesChanges, ChangedWakes
  <2>6. CASE Parks(v)
    BY <2>6, ParksChanges, ChangedWakes
  <2>7. CASE Reparks(v)
    BY <2>7, ReparksChanges, ChangedWakes
  <2>8. CASE Exhausted(v) \/ TimesOut(v)
    <3>1. Changed(v, "failed", run.attempt, run.next, run.deadline)
      BY <2>8, FailsChanges
    <3>2. v.run.next <= v.now /\ v.now \in Nat /\ v.now <= clock
      BY CommitFacts DEF WakesSound
    <3>3. v.run = run => run.deadline = NoDeadline \/ run.deadline <= v.now
      BY <1>1, <2>1, <2>8 DEF Exhausted, TimesOut, Expired, AtType
    <3> QED
      BY <1>1, <3>1, <3>2, <3>3, ChangedWakes
  <2> QED
    BY <1>6, <2>2, <2>3, <2>4, <2>5, <2>6, <2>7, <2>8 DEF Commits
<1>7. CASE UNCHANGED timingVars
  BY <1>7 DEF timingVars, WakesSound
<1> QED
  BY <1>2, <1>3, <1>4, <1>5, <1>6, <1>7 DEF TimingNext

LEMMA WakesInvariant == TimingSpec => [](TimingIInv /\ WakesSound)
<1>1. TimingIInv /\ WakesSound /\ [TimingNext]_timingVars => WakesSound'
  BY WakesStep
<1> QED
  BY <1>1, TimingInitInvariant, TimingStepInvariant, WakesInit, PTL DEF TimingSpec

---------------------------------------------------------------------------
(* The run as a record *)

RecordFields == {"status", "steps", "index", "attempt", "signals", "deadline", "due",
                 "lease", "context", "rows", "error", "version"}

(* The times and counters of a record. *)
Reads(record, status, attempt, version, due, deadline, lease) ==
  /\ record.status = status /\ record.attempt = attempt /\ record.version = version
  /\ record.due = due /\ record.deadline = deadline /\ record.lease = lease

LEMMA SeenReads ==
  ASSUME NEW timed, NEW t
  PROVE  /\ DOMAIN SeenAt(timed, t) = RecordFields
         /\ Reads(SeenAt(timed, t), timed.status, timed.attempt, timed.version,
                  DueAt(timed, t), DeadlineAt(timed, t), LeaseAt(timed, t))
  BY DEF SeenAt, Record!NewRun, RecordFields, Reads

(* What each operation of RunRecord makes of them. *)
LEMMA RecordOperations ==
  ASSUME NEW R, DOMAIN R = RecordFields
  PROVE  /\ Reads(Record!SucceedAdvance(R, NoRow, 0, {}), "running", 0, R.version + 1,
                  "ready", R.deadline, "free")
         /\ Reads(Record!EnterSleep(R, NoRow, 0), "running", 0, R.version + 1,
                  "timer", R.deadline, "free")
         /\ DOMAIN Record!EnterSleep(R, NoRow, 0) = RecordFields
         /\ Reads(Record!ConsumeSignal(R, NoRow, 0, {}, 0), "running", 0, R.version + 1,
                  "ready", "none", "free")
         /\ Reads(Record!Signalled(R, NoRow), R.status, R.attempt, R.version + 1,
                  "ready", R.deadline, "free")
         /\ R.status # "pending" =>
              Reads(Record!Claimed(R), R.status, R.attempt, R.version + 1,
                    R.due, R.deadline, "held")
<1> USE DEF RecordFields, Reads, Record!Settled
<1>1. Reads(Record!SucceedAdvance(R, NoRow, 0, {}), "running", 0, R.version + 1,
            "ready", R.deadline, "free")
  BY DEF Record!SucceedAdvance
<1>2. /\ Reads(Record!EnterSleep(R, NoRow, 0), "running", 0, R.version + 1,
               "timer", R.deadline, "free")
      /\ DOMAIN Record!EnterSleep(R, NoRow, 0) = RecordFields
  BY DEF Record!EnterSleep
<1>3. Reads(Record!ConsumeSignal(R, NoRow, 0, {}, 0), "running", 0, R.version + 1,
            "ready", "none", "free")
  BY DEF Record!ConsumeSignal
<1>4. Reads(Record!Signalled(R, NoRow), R.status, R.attempt, R.version + 1,
            "ready", R.deadline, "free")
  BY DEF Record!Signalled
<1>5. R.status # "pending" =>
        Reads(Record!Claimed(R), R.status, R.attempt, R.version + 1,
              R.due, R.deadline, "held")
  BY DEF Record!Claimed
<1> QED
  BY <1>1, <1>2, <1>3, <1>4, <1>5

LEMMA FailureReads ==
  ASSUME NEW R, DOMAIN R = RecordFields, NEW n, NEW error
  PROVE  /\ Reads(Record!FailRetry(R, NoRow, n, error), "running", n, R.version + 1,
                  "timer", R.deadline, "free")
         /\ DOMAIN Record!FailRetry(R, NoRow, n, error) = RecordFields
         /\ Reads(Record!FailTerminal(R, NoRow, error), "failed", R.attempt,
                  R.version + 1, R.due, R.deadline, "free")
  BY DEF RecordFields, Reads, Record!Settled, Record!FailRetry, Record!FailTerminal

LEMMA ParkReads ==
  ASSUME NEW R, DOMAIN R = RecordFields, NEW timed \in BOOLEAN
  PROVE  /\ Reads(Record!ParkWait(R, timed), "waiting", R.attempt, R.version + 1,
                  IF timed THEN "timer" ELSE "never", IF timed THEN "ahead" ELSE "none",
                  "free")
         /\ DOMAIN Record!ParkWait(R, timed) = RecordFields
  BY DEF RecordFields, Reads, Record!Settled, Record!ParkWait

LEMMA ReparkReads ==
  ASSUME NEW R, DOMAIN R = RecordFields, R.deadline \in {"none", "ahead", "passed"}
  PROVE  Reads(Record!ReparkWait(R), "waiting", R.attempt, R.version + 1,
               IF R.deadline = "none" THEN "never"
               ELSE IF R.deadline = "ahead" THEN "timer" ELSE "ready",
               R.deadline, "free")
  BY DEF RecordFields, Reads, Record!Settled, Record!ReparkWait

(* The clock's part. *)
LEMMA LeavesNow ==
  ASSUME NEW R, Agree(R, runSeen')
  PROVE  Leaves(R)
  BY DEF Leaves, Later, Elapsed

LEMMA LeavesAwoken ==
  ASSUME NEW R, DOMAIN R = RecordFields, R.due = "timer",
         Reads(runSeen', R.status, R.attempt, R.version, "ready",
               IF R.deadline = "ahead" THEN "passed" ELSE R.deadline, R.lease)
  PROVE  Leaves(R)
<1>1. Agree(Record!Awoken(R), runSeen')
  BY DEF Agree, Reads, Record!Awoken, RecordFields
<1> QED
  BY <1>1 DEF Leaves, Later, Elapsed

(* A record that Reads like the next one, up to a timer set to an instant  *)
(* that may have come already.                                             *)
LEMMA LeavesTimer ==
  ASSUME NEW R, DOMAIN R = RecordFields, NEW status, NEW attempt, NEW version,
         NEW deadline, NEW lease, NEW due \in {"timer", "ready"}, deadline # "ahead",
         Reads(R, status, attempt, version, "timer", deadline, lease),
         Reads(runSeen', status, attempt, version, due, deadline, lease)
  PROVE  Leaves(R)
<1>1. CASE due = "timer"
  BY <1>1, LeavesNow DEF Agree, Reads
<1>2. CASE due = "ready"
  BY <1>2, LeavesAwoken DEF Reads
<1> QED
  BY <1>1, <1>2

LEMMA ReadsAgree ==
  ASSUME NEW R, NEW status, NEW attempt, NEW version, NEW due, NEW deadline, NEW lease,
         Reads(R, status, attempt, version, due, deadline, lease),
         Reads(runSeen', status, attempt, version, due, deadline, lease)
  PROVE  Agree(R, runSeen') /\ Leaves(R)
<1>1. Agree(R, runSeen')
  BY DEF Agree, Reads
<1> QED
  BY <1>1, LeavesNow

---------------------------------------------------------------------------
(* Every step is one of RunRecord's *)

(* How a commit reads, once it is made. *)
LEMMA ChangedReads ==
  ASSUME TimingIInv, NEW v \in views, NEW status, NEW attempt, NEW next, NEW deadline,
         Changed(v, status, attempt, next, deadline)
  PROVE  \/ Agree(runSeen, runSeen')
         \/ /\ v.run = run
            /\ Reads(runSeen', status, attempt, run.version + 1,
                     IF next <= clock THEN "ready"
                     ELSE IF status = "waiting" /\ deadline = NoDeadline THEN "never"
                     ELSE "timer",
                     IF deadline = NoDeadline THEN "none"
                     ELSE IF deadline <= clock THEN "passed" ELSE "ahead",
                     "free")
<1>1. runSeen' = SeenAt(run', clock')
  BY DEF runSeen
<1>2. clock' = clock /\ clock \in Nat
  BY CommitFacts DEF Changed
<1>3. CASE UNCHANGED run
  <2>1. runSeen' = runSeen
    BY <1>1, <1>2, <1>3 DEF runSeen
  <2> QED
    BY <2>1 DEF Agree
<1>4. CASE ~UNCHANGED run
  <2>1. /\ v.run = run
        /\ run'.status = status /\ run'.attempt = attempt /\ run'.next = next
        /\ run'.deadline = deadline /\ run'.lease = 0
        /\ run'.version = run.version + 1
    BY <1>4 DEF Changed
  <2>2. Reads(runSeen', run'.status, run'.attempt, run'.version,
              DueAt(run', clock), DeadlineAt(run', clock), LeaseAt(run', clock))
    BY <1>1, <1>2, SeenReads
  <2> QED
    BY <1>2, <2>1, <2>2 DEF DueAt, DeadlineAt, LeaseAt
<1> QED
  BY <1>3, <1>4
(* The run, and the view of a task whose commit finds it unchanged. *)
LEMMA RunSeen ==
  ASSUME TimingIInv
  PROVE  /\ DOMAIN runSeen = RecordFields
         /\ Reads(runSeen, run.status, run.attempt, run.version,
                  DueAt(run, clock), DeadlineAt(run, clock), LeaseAt(run, clock))
  BY SeenReads DEF runSeen

LEMMA ViewSeen ==
  ASSUME NEW v, v.run = run
  PROVE  /\ SeenAt(v.run, v.now).version = run.version
         /\ SeenAt(v.run, v.now).status = run.status
         /\ SeenAt(v.run, v.now).attempt = run.attempt
         /\ SeenAt(v.run, v.now).deadline = DeadlineAt(run, v.now)
  BY SeenReads DEF Reads

(* An activity and a sleep begin without a deadline. *)
LEMMA NoDeadlineSeen ==
  ASSUME TimingIInv, NEW v \in views, v.run = run, ~AtType(v, "wait")
  PROVE  run.deadline = NoDeadline /\ runSeen.deadline = "none"
  BY CommitFacts, RunSeen DEF AtType, DeadlineAt, Reads

LEMMA SucceedsSeen ==
  ASSUME TimingIInv, NEW v \in views, Succeeds(v)
  PROVE  Agree(runSeen, runSeen') \/ CommitSeen(v)
<1> DEFINE R == Record!SucceedAdvance(runSeen, NoRow, 0, {})
<1>1. clock \in Nat
  BY CommitFacts
<1>2. ASSUME v.run = run,
             Reads(runSeen', "running", 0, run.version + 1, "ready",
                   IF run.deadline = NoDeadline THEN "none"
                   ELSE IF run.deadline <= clock THEN "passed" ELSE "ahead", "free")
      PROVE  CommitSeen(v)
  <2>1. Reads(R, "running", 0, run.version + 1, "ready", DeadlineAt(run, clock), "free")
    BY RunSeen, RecordOperations DEF Reads
  <2>2. Leaves(R)
    BY <1>2, <2>1, ReadsAgree DEF DeadlineAt
  <2>3. AtType(v, "activity") /\ SeenAt(v.run, v.now).version = runSeen.version
    BY <1>2, ViewSeen, RunSeen DEF Succeeds, Reads
  <2> QED
    BY <2>2, <2>3 DEF CommitSeen
<1>3. Changed(v, "running", 0, clock, run.deadline)
  BY SucceedsChanges
<1> QED
  BY <1>1, <1>2, <1>3, ChangedReads

LEMMA RetriesSeen ==
  ASSUME TimingIInv, NEW v \in views, RetriesLater(v)
  PROVE  Agree(runSeen, runSeen') \/ CommitSeen(v)
<1> SUFFICES ASSUME ~Agree(runSeen, runSeen') PROVE CommitSeen(v)
  OBVIOUS
<1> DEFINE n == v.run.attempt + 1
           R == Record!FailRetry(runSeen, NoRow, n, "activity failed")
<1>1. PICK next \in Int : Changed(v, "running", n, next, run.deadline)
  BY RetriesChanges
<1> DEFINE due == IF next <= clock THEN "ready" ELSE "timer"
<1> HIDE DEF n
<1>2. v.run = run /\ ~AtType(v, "wait")
  BY <1>1, ChangedReads DEF RetriesLater, AtType
<1>3. run.deadline = NoDeadline /\ runSeen.deadline = "none"
  BY <1>2, NoDeadlineSeen
<1>4. Reads(runSeen', "running", n, run.version + 1, due, "none", "free")
  BY <1>1, <1>3, ChangedReads
<1>5. Reads(R, "running", n, run.version + 1, "timer", "none", "free")
        /\ DOMAIN R = RecordFields
  <2>1. DOMAIN runSeen = RecordFields /\ runSeen.version = run.version
    BY RunSeen DEF Reads
  <2> QED
    BY <1>3, <2>1, FailureReads
<1> HIDE DEF R
<1>6. Leaves(R)
  BY <1>4, <1>5, LeavesTimer
<1>7. AtType(v, "activity") /\ SeenAt(v.run, v.now).version = runSeen.version
      /\ SeenAt(v.run, v.now).attempt + 1 = n
  BY <1>2, ViewSeen, RunSeen DEF RetriesLater, Reads, n
<1> QED
  BY <1>6, <1>7 DEF CommitSeen, R

LEMMA SleepsSeen ==
  ASSUME TimingIInv, NEW v \in views, Sleeps(v)
  PROVE  Agree(runSeen, runSeen') \/ CommitSeen(v)
<1> SUFFICES ASSUME ~Agree(runSeen, runSeen') PROVE CommitSeen(v)
  OBVIOUS
<1> DEFINE R == Record!EnterSleep(runSeen, NoRow, 0)
<1>1. PICK next \in Int : Changed(v, "running", 0, next, run.deadline)
  BY SleepsChanges
<1> DEFINE due == IF next <= clock THEN "ready" ELSE "timer"
<1>2. v.run = run /\ ~AtType(v, "wait")
  BY <1>1, ChangedReads DEF Sleeps, AtType
<1>3. run.deadline = NoDeadline /\ runSeen.deadline = "none"
  BY <1>2, NoDeadlineSeen
<1>4. Reads(runSeen', "running", 0, run.version + 1, due, "none", "free")
  BY <1>1, <1>3, ChangedReads
<1>5. Reads(R, "running", 0, run.version + 1, "timer", "none", "free")
        /\ DOMAIN R = RecordFields
  BY <1>3, RunSeen, RecordOperations DEF Reads
<1> HIDE DEF R
<1>6. Leaves(R)
  BY <1>4, <1>5, LeavesTimer
<1>7. AtType(v, "sleep") /\ SeenAt(v.run, v.now).version = runSeen.version
  BY <1>2, ViewSeen, RunSeen DEF Sleeps, Reads
<1> QED
  BY <1>6, <1>7 DEF CommitSeen, R

LEMMA ConsumesSeen ==
  ASSUME TimingIInv, NEW v \in views, Consumes(v)
  PROVE  Agree(runSeen, runSeen') \/ CommitSeen(v)
<1> SUFFICES ASSUME ~Agree(runSeen, runSeen') PROVE CommitSeen(v)
  OBVIOUS
<1> DEFINE R == Record!ConsumeSignal(runSeen, NoRow, 0, {}, 0)
<1>1. Changed(v, "running", 0, clock, NoDeadline) /\ clock \in Nat
  BY ConsumesChanges, CommitFacts
<1>2. v.run = run
      /\ Reads(runSeen', "running", 0, run.version + 1, "ready", "none", "free")
  BY <1>1, ChangedReads
<1>3. Reads(R, "running", 0, run.version + 1, "ready", "none", "free")
  BY RunSeen, RecordOperations DEF Reads
<1> HIDE DEF R
<1>4. Leaves(R)
  BY <1>2, <1>3, ReadsAgree
<1>5. AtType(v, "wait") /\ SeenAt(v.run, v.now).version = runSeen.version
  BY <1>2, ViewSeen, RunSeen DEF Consumes, Reads
<1> QED
  BY <1>4, <1>5 DEF CommitSeen, R

LEMMA FailsSeen ==
  ASSUME TimingIInv, WakesSound, NEW v \in views, Exhausted(v) \/ TimesOut(v)
  PROVE  Agree(runSeen, runSeen') \/ CommitSeen(v)
<1> SUFFICES ASSUME ~Agree(runSeen, runSeen') PROVE CommitSeen(v)
  OBVIOUS
<1> DEFINE R(error) == Record!FailTerminal(runSeen, NoRow, error)
<1>1. Changed(v, "failed", run.attempt, run.next, run.deadline)
  BY FailsChanges
<1>2. v.run = run
      /\ Reads(runSeen', "failed", run.attempt, run.version + 1,
               IF run.next <= clock THEN "ready" ELSE "timer",
               DeadlineAt(run, clock), "free")
  BY <1>1, ChangedReads DEF DeadlineAt
<1>3. run.next <= clock
  BY <1>2, CommitFacts DEF WakesSound, TimedRun
<1>4. ASSUME NEW error
      PROVE  Reads(R(error), "failed", run.attempt, run.version + 1, "ready",
                   DeadlineAt(run, clock), "free")
  BY <1>3, RunSeen, FailureReads DEF Reads, DueAt
<1> HIDE DEF R
<1>5. ASSUME NEW error PROVE Leaves(R(error))
  BY <1>2, <1>3, <1>4, ReadsAgree
<1>6. SeenAt(v.run, v.now).version = runSeen.version
  BY <1>2, ViewSeen, RunSeen DEF Reads
<1>7. CASE Exhausted(v)
  <2>1. AtType(v, "activity")
    BY <1>7 DEF Exhausted
  <2> QED
    BY <1>5, <1>6, <2>1 DEF CommitSeen, R
<1>8. CASE TimesOut(v)
  <2>1. AtType(v, "wait")
    BY <1>8 DEF TimesOut, Idle
  <2>2. SeenAt(v.run, v.now).status = "waiting" /\ SeenAt(v.run, v.now).deadline = "passed"
    BY <1>2, <1>8, ViewSeen, CommitFacts DEF TimesOut, Expired, DeadlineAt, TimedRun
  <2> QED
    BY <1>5, <1>6, <2>1, <2>2 DEF CommitSeen, R
<1> QED
  BY <1>7, <1>8

LEMMA ParksSeen ==
  ASSUME TimingIInv, NEW v \in views, Parks(v)
  PROVE  Agree(runSeen, runSeen') \/ CommitSeen(v)
<1> SUFFICES ASSUME ~Agree(runSeen, runSeen') PROVE CommitSeen(v)
  OBVIOUS
<1> DEFINE timed == v.run.step.ms # 0
           R     == Record!ParkWait(runSeen, timed)
<1>1. /\ Changed(v, "waiting", run.attempt, WakeAt(Awaited(v)), Awaited(v))
      /\ Awaited(v) \in Int \cup {NoDeadline}
      /\ Awaited(v) = NoDeadline <=> ~timed
  BY ParksChanges
<1>2. clock \in Nat /\ clock < IntMax /\ IntMax \in Nat /\ NoDeadline \notin Int
  BY CommitFacts, RangeAssumption, NumbersAssumption
<1>3. v.run = run
      /\ Reads(runSeen', "waiting", run.attempt, run.version + 1,
               IF WakeAt(Awaited(v)) <= clock THEN "ready"
               ELSE IF Awaited(v) = NoDeadline THEN "never" ELSE "timer",
               IF Awaited(v) = NoDeadline THEN "none"
               ELSE IF Awaited(v) <= clock THEN "passed" ELSE "ahead",
               "free")
  BY <1>1, ChangedReads
<1>4. /\ Reads(R, "waiting", run.attempt, run.version + 1,
               IF timed THEN "timer" ELSE "never", IF timed THEN "ahead" ELSE "none",
               "free")
      /\ DOMAIN R = RecordFields
  <2>1. timed \in BOOLEAN
    OBVIOUS
  <2> HIDE DEF timed
  <2> QED
    BY <2>1, RunSeen, ParkReads DEF Reads
<1> HIDE DEF R, timed
<1>5. Leaves(R)
  <2>1. CASE ~timed
    <3>1. Reads(runSeen', "waiting", run.attempt, run.version + 1, "never", "none", "free")
      BY <1>1, <1>2, <1>3, <2>1 DEF WakeAt
    <3> QED
      BY <1>4, <2>1, <3>1, ReadsAgree
  <2>2. CASE timed /\ Awaited(v) <= clock
    <3>1. Reads(runSeen', "waiting", run.attempt, run.version + 1, "ready", "passed",
                "free")
      BY <1>1, <1>2, <1>3, <2>2 DEF WakeAt
    <3> QED
      BY <1>4, <2>2, <3>1, LeavesAwoken DEF Reads
  <2>3. CASE timed /\ ~(Awaited(v) <= clock)
    <3>1. Reads(runSeen', "waiting", run.attempt, run.version + 1, "timer", "ahead",
                "free")
      BY <1>1, <1>2, <1>3, <2>3 DEF WakeAt
    <3> QED
      BY <1>4, <2>3, <3>1, ReadsAgree
  <2> QED
    BY <2>1, <2>2, <2>3
<1>6. /\ AtType(v, "wait") /\ SeenAt(v.run, v.now).version = runSeen.version
      /\ SeenAt(v.run, v.now).status # "waiting"
  BY <1>3, ViewSeen, RunSeen DEF Parks, Idle, Reads
<1> QED
  BY <1>5, <1>6 DEF CommitSeen, R, timed

LEMMA ReparksSeen ==
  ASSUME TimingIInv, NEW v \in views, Reparks(v)
  PROVE  Agree(runSeen, runSeen') \/ CommitSeen(v)
<1> SUFFICES ASSUME ~Agree(runSeen, runSeen') PROVE CommitSeen(v)
  OBVIOUS
<1> DEFINE R == Record!ReparkWait(runSeen)
<1>1. /\ run.deadline \in Int \cup {NoDeadline}
      /\ clock \in Nat /\ clock < IntMax /\ IntMax \in Nat /\ NoDeadline \notin Int
      /\ v.now \in Nat
  BY CommitFacts, RangeAssumption, NumbersAssumption DEF TimedRun
<1>2. Changed(v, "waiting", run.attempt, WakeAt(run.deadline), run.deadline)
  BY ReparksChanges
<1>3. v.run = run
      /\ Reads(runSeen', "waiting", run.attempt, run.version + 1,
               IF WakeAt(run.deadline) <= clock THEN "ready"
               ELSE IF run.deadline = NoDeadline THEN "never" ELSE "timer",
               DeadlineAt(run, clock), "free")
  BY <1>2, ChangedReads DEF DeadlineAt
<1>4. runSeen.deadline = DeadlineAt(run, clock) /\ DOMAIN runSeen = RecordFields
      /\ runSeen.attempt = run.attempt /\ runSeen.version = run.version
  BY RunSeen DEF Reads
<1>5. DeadlineAt(run, clock) \in {"none", "ahead", "passed"}
  BY DEF DeadlineAt
<1>6. Reads(R, "waiting", run.attempt, run.version + 1,
            IF DeadlineAt(run, clock) = "none" THEN "never"
            ELSE IF DeadlineAt(run, clock) = "ahead" THEN "timer" ELSE "ready",
            DeadlineAt(run, clock), "free")
  BY <1>4, <1>5, ReparkReads
<1> HIDE DEF R
<1>7. (IF DeadlineAt(run, clock) = "none" THEN "never"
       ELSE IF DeadlineAt(run, clock) = "ahead" THEN "timer" ELSE "ready")
      = (IF WakeAt(run.deadline) <= clock THEN "ready"
         ELSE IF run.deadline = NoDeadline THEN "never" ELSE "timer")
  BY <1>1 DEF DeadlineAt, WakeAt
<1>8. Leaves(R)
  BY <1>3, <1>6, <1>7, ReadsAgree
<1>9. /\ AtType(v, "wait") /\ SeenAt(v.run, v.now).version = runSeen.version
      /\ SeenAt(v.run, v.now).status = "waiting"
      /\ SeenAt(v.run, v.now).deadline # "passed"
  BY <1>1, <1>3, ViewSeen, RunSeen DEF Reparks, Idle, Expired, DeadlineAt, Reads
<1> QED
  BY <1>8, <1>9 DEF CommitSeen, R

LEMMA ClaimSeen ==
  ASSUME TimingIInv, Claim
  PROVE  RecordStep
<1>1. run \in TimedRun /\ clock \in 0..Horizon /\ clock \in Nat
  BY RangeAssumption DEF TimingIInv, TimingTypeOK
<1>2. Wrap(clock + LeaseMs) = clock + LeaseMs /\ clock + LeaseMs > clock
  BY <1>1, RangeAssumption DEF Wrap
<1>3. run' = [run EXCEPT !.lease = clock + LeaseMs, !.version = run.version + 1]
      /\ clock' = clock
  BY <1>2 DEF Claim
<1>4. /\ run'.lease = clock + LeaseMs /\ run'.version = run.version + 1
      /\ run'.status = run.status /\ run'.attempt = run.attempt
      /\ run'.next = run.next /\ run'.deadline = run.deadline
  BY <1>1, <1>3 DEF TimedRun
<1>5. runSeen' = SeenAt(run', clock)
  BY <1>3 DEF runSeen
<1>6. Reads(runSeen', run.status, run.attempt, run.version + 1, DueAt(run, clock),
            DeadlineAt(run, clock), "held")
  <2>1. Reads(runSeen', run'.status, run'.attempt, run'.version, DueAt(run', clock),
              DeadlineAt(run', clock), LeaseAt(run', clock))
    BY <1>5, SeenReads
  <2>2. ~(clock + LeaseMs <= clock)
    BY <1>1, <1>2, RangeAssumption
  <2> QED
    BY <1>4, <2>1, <2>2 DEF DueAt, DeadlineAt, LeaseAt
<1>7. runSeen.due = "ready" /\ runSeen.lease = "free" /\ Unfinished
  BY RunSeen DEF Claim, Due, Reads, DueAt, LeaseAt
<1>8. run.status # "pending"
  BY <1>1 DEF TimedRun
<1>9. Reads(Record!Claimed(runSeen), run.status, run.attempt, run.version + 1,
            DueAt(run, clock), DeadlineAt(run, clock), "held")
  BY <1>8, RunSeen, RecordOperations DEF Reads
<1>10. Agree(Record!Claimed(runSeen), runSeen')
  BY <1>6, <1>9, ReadsAgree
<1> QED
  BY <1>7, <1>10 DEF RecordStep

LEMMA DeliverSeen ==
  ASSUME TimingIInv, Deliver
  PROVE  RecordStep
<1>1. run \in TimedRun /\ clock \in Nat
  BY RangeAssumption DEF TimingIInv, TimingTypeOK
<1>2. clock' = clock /\ Unfinished
  BY DEF Deliver
<1>3. /\ run'.lease = 0 /\ run'.version = run.version + 1
      /\ run'.status = run.status /\ run'.attempt = run.attempt
      /\ run'.next = clock /\ run'.deadline = run.deadline
  BY <1>1 DEF Deliver, TimedRun
<1>4. Reads(runSeen', run.status, run.attempt, run.version + 1, "ready",
            DeadlineAt(run, clock), "free")
  <2>1. runSeen' = SeenAt(run', clock)
    BY <1>2 DEF runSeen
  <2>2. Reads(runSeen', run'.status, run'.attempt, run'.version, DueAt(run', clock),
              DeadlineAt(run', clock), LeaseAt(run', clock))
    BY <2>1, SeenReads
  <2> QED
    BY <1>1, <1>3, <2>2 DEF DueAt, DeadlineAt, LeaseAt
<1>5. Reads(Record!Signalled(runSeen, NoRow), run.status, run.attempt, run.version + 1,
            "ready", DeadlineAt(run, clock), "free")
  BY RunSeen, RecordOperations DEF Reads
<1>6. Agree(Record!Signalled(runSeen, NoRow), runSeen')
  BY <1>4, <1>5, ReadsAgree
<1> QED
  BY <1>2, <1>6 DEF RecordStep
(* The clock moves the timer of a wait and its deadline together. *)
LEMMA TickSeen ==
  ASSUME TimingIInv, WakesSound, Tick
  PROVE  RecordStep
<1>1. /\ run \in TimedRun /\ clock \in Nat /\ clock' = clock + 1 /\ run' = run
      /\ clock + 1 < IntMax /\ IntMax \in Nat
      /\ run.next \in Int /\ run.lease \in Int
      /\ run.deadline \in Int \cup {NoDeadline} /\ NoDeadline \notin Int
  BY RangeAssumption, NumbersAssumption DEF Tick, TimingIInv, TimingTypeOK, TimedRun
<1> DEFINE due      == DueAt(run, clock + 1)
           deadline == DeadlineAt(run, clock + 1)
           lease    == LeaseAt(run, clock + 1)
<1>2. Reads(runSeen', run.status, run.attempt, run.version, due, deadline, lease)
  <2>1. runSeen' = SeenAt(run, clock + 1)
    BY <1>1 DEF runSeen
  <2> QED
    BY <2>1, SeenReads
<1>3. /\ DOMAIN runSeen = RecordFields
      /\ Reads(runSeen, run.status, run.attempt, run.version,
               DueAt(run, clock), DeadlineAt(run, clock), LeaseAt(run, clock))
  BY RunSeen
<1>4. lease = LeaseAt(run, clock) \/ lease = "free"
  BY <1>1 DEF LeaseAt
<1>5. CASE run.status = "failed"
  <2>1. /\ due = DueAt(run, clock) /\ deadline = DeadlineAt(run, clock)
        /\ lease = LeaseAt(run, clock)
    BY <1>1, <1>5 DEF WakesSound, DueAt, DeadlineAt, LeaseAt
  <2>2. Agree(runSeen, runSeen')
    BY <1>2, <1>3, <2>1, ReadsAgree
  <2> QED
    BY <2>2 DEF RecordStep
<1>6. CASE run.status # "failed"
  <2>1. \/ due = DueAt(run, clock) /\ deadline = DeadlineAt(run, clock)
        \/ /\ DueAt(run, clock) = "timer" /\ due = "ready"
           /\ deadline = IF DeadlineAt(run, clock) = "ahead" THEN "passed"
                         ELSE DeadlineAt(run, clock)
        \/ /\ DueAt(run, clock) = "ready" /\ due = "ready"
           /\ DeadlineAt(run, clock) = "ahead" /\ deadline = "passed"
    <3>1. CASE run.deadline = NoDeadline
      BY <1>1, <3>1 DEF WakesSound, WakeAt, DueAt, DeadlineAt
    <3>2. CASE run.deadline # NoDeadline
      <4>1. run.status = "waiting" /\ (run.next <= clock \/ run.next = run.deadline)
        BY <1>6, <3>2 DEF WakesSound, WakeAt
      <4> QED
        BY <1>1, <3>2, <4>1 DEF DueAt, DeadlineAt
    <3> QED
      BY <3>1, <3>2
  <2> HIDE DEF due, deadline, lease
  <2>2. \E old \in Elapsed(runSeen) :
          /\ DOMAIN old = RecordFields
          /\ Reads(old, run.status, run.attempt, run.version, due, deadline,
                   LeaseAt(run, clock))
    <3>1. CASE due = DueAt(run, clock) /\ deadline = DeadlineAt(run, clock)
      BY <1>3, <3>1 DEF Elapsed
    <3>2. CASE /\ DueAt(run, clock) = "timer" /\ due = "ready"
               /\ deadline = IF DeadlineAt(run, clock) = "ahead" THEN "passed"
                             ELSE DeadlineAt(run, clock)
      <4>1. Record!Awoken(runSeen) \in Elapsed(runSeen)
        BY <1>3, <3>2 DEF Elapsed, Reads
      <4>2. DOMAIN Record!Awoken(runSeen) = RecordFields
            /\ Reads(Record!Awoken(runSeen), run.status, run.attempt, run.version, due,
                     deadline, LeaseAt(run, clock))
        BY <1>3, <3>2 DEF Reads, RecordFields, Record!Awoken
      <4> QED
        BY <4>1, <4>2
    <3>3. CASE /\ DueAt(run, clock) = "ready" /\ due = "ready"
               /\ DeadlineAt(run, clock) = "ahead" /\ deadline = "passed"
      <4>1. Record!Overdue(runSeen) \in Elapsed(runSeen)
        BY <1>3, <3>3 DEF Elapsed, Reads
      <4>2. DOMAIN Record!Overdue(runSeen) = RecordFields
            /\ Reads(Record!Overdue(runSeen), run.status, run.attempt, run.version, due,
                     deadline, LeaseAt(run, clock))
        BY <1>3, <3>3 DEF Reads, RecordFields, Record!Overdue
      <4> QED
        BY <4>1, <4>2
    <3> QED
      BY <2>1, <3>1, <3>2, <3>3
  <2>3. PICK old \in Elapsed(runSeen) :
          /\ DOMAIN old = RecordFields
          /\ Reads(old, run.status, run.attempt, run.version, due, deadline,
                   LeaseAt(run, clock))
    BY <2>2
  <2>4. Leaves(runSeen)
    <3>1. CASE lease = LeaseAt(run, clock)
      <4>1. Agree(old, runSeen')
        BY <1>2, <2>3, <3>1, ReadsAgree DEF due, deadline, lease
      <4> QED
        BY <2>3, <4>1 DEF Leaves, Later
    <3>2. CASE lease = "free"
      <4>1. Reads(Record!Lapsed(old), run.status, run.attempt, run.version, due, deadline,
                  "free")
        BY <2>3 DEF Reads, RecordFields, Record!Lapsed
      <4>2. Agree(Record!Lapsed(old), runSeen')
        BY <1>2, <3>2, <4>1, ReadsAgree DEF due, deadline, lease
      <4> QED
        BY <2>3, <4>2 DEF Leaves, Later
    <3> QED
      BY <1>4, <3>1, <3>2 DEF lease
  <2> QED
    BY <1>6, <2>4 DEF RecordStep, Unfinished
<1> QED
  BY <1>5, <1>6

LEMMA StepSeen ==
  ASSUME TimingIInv, WakesSound, [TimingNext]_timingVars
  PROVE  RecordStep
<1>1. ASSUME UNCHANGED <<clock, run>> PROVE RecordStep
  <2>1. runSeen' = runSeen
    BY <1>1 DEF runSeen
  <2> QED
    BY <2>1 DEF RecordStep, Agree
<1>2. ASSUME NEW v \in views, Commits(v) PROVE RecordStep
  <2>1. Agree(runSeen, runSeen') \/ CommitSeen(v)
    BY <1>2, SucceedsSeen, RetriesSeen, SleepsSeen, ConsumesSeen, FailsSeen, ParksSeen,
       ReparksSeen DEF Commits
  <2> QED
    BY <2>1 DEF RecordStep
<1> QED
  BY <1>1, <1>2, ClaimSeen, DeliverSeen, TickSeen DEF TimingNext, GivesUp, timingVars

(* The timeless run of RunRecord, which RunStore and WorkflowEngine are    *)
(* about, is a sound abstraction of next_run_at_ms, wait_deadline_ms and   *)
(* lease_until_ms, whatever the clock, the width of its integers, the      *)
(* durations and the retry policies.                                       *)
THEOREM TimesAreAbstracted == TimingSpec => TimeIsAbstracted
<1>1. TimingIInv /\ WakesSound /\ [TimingNext]_timingVars => [RecordStep]_timingVars
  BY StepSeen
<1> QED
  BY <1>1, WakesInvariant, PTL DEF TimingSpec, TimeIsAbstracted
===========================================================================
