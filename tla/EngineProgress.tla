-------------------------- MODULE EngineProgress --------------------------
(***************************************************************************)
(* Whether the runs of WorkflowEngine come to an end.  A run can be        *)
(* claimed, lapse and be claimed again for ever, so its version and its    *)
(* fencing tokens grow without bound, and a bound on them would hide that  *)
(* it gets nowhere.  The code compares versions and tokens for equality    *)
(* only, so here they are renumbered after every step: MaxDetours cuts no  *)
(* claim off, and the states are still finitely many.                      *)
(***************************************************************************)
EXTENDS WorkflowEngine

CONSTANT MaxDetached   \* bound: detached failures not yet committed

ASSUME DetachedAssumption == MaxDetached \in Nat \ {0}

VARIABLE lost   \* history: the runs a crash took before they had ended

progressVars == <<vars, lost>>

ProgressInit == Init /\ lost = {}

---------------------------------------------------------------------------
(* Renumbering *)

VersionsOf(r) ==
  {runs[r].version}
    \cup {t.view.version : t \in {u \in tasks : u.run = r}}
    \cup {d.version : d \in {e \in doomed : e.run = r}}

TokensOf(r) ==
  ({lock[r]} \cup {t.token : t \in {u \in tasks : u.run = r}}) \ {0}

Below(n, S) == Cardinality({m \in S : m < n})

NewVersion(r, version) == Below(version, VersionsOf(r))
NewToken(r, token) == IF token = 0 THEN 0 ELSE Below(token, TokensOf(r)) + 1

Gapless(r) == NewVersion(r, runs[r].version) = runs[r].version

(* Every version and token in use keeps its place, and the gaps go.        *)
Renumber(r) ==
  /\ ~Gapless(r)
  /\ runs' = [runs EXCEPT ![r].version = NewVersion(r, @)]
  /\ tasks' =
       {IF t.run = r
        THEN [t EXCEPT !.view.version = NewVersion(r, @), !.token = NewToken(r, @)]
        ELSE t : t \in tasks}
  /\ doomed' =
       {IF d.run = r THEN [d EXCEPT !.version = NewVersion(r, @)] ELSE d : d \in doomed}
  /\ lock' = [lock EXCEPT ![r] = NewToken(r, @)]
  /\ lastToken' = [lastToken EXCEPT ![r] = Cardinality(TokensOf(r))]
  /\ UNCHANGED <<accepted, faults, lost>>

---------------------------------------------------------------------------

Lost ==
  {r \in RunIds : runs[r].status \in Active /\ runs'[r].status \in NoEntry}

ProgressNext ==
  \/ /\ \A r \in RunIds : Gapless(r)
     /\ Next
     /\ Cardinality(doomed') <= MaxDetached
     /\ lost' = lost \cup Lost
  \/ \E r \in RunIds : Renumber(r)

(* What the runtime guarantees: a live task's next await completes (an     *)
(* invocation is given up at its deadline), the detached failures run, the *)
(* poll loop keeps claiming, timers fire, and leases run out.  Nobody is   *)
(* obliged to call the API, and nothing is obliged to go wrong.  That an   *)
(* invocation returns is an assumption about the child pool.               *)
TaskStep(t) ==
  AcquireLease(t) \/ LeaseRefused(t) \/ RunStep(t) \/ ReleaseLease(t)

Progress ==
  /\ \A r \in RunIds :
       /\ WF_vars(Renumber(r))
       /\ \A phase \in Phases :
            WF_vars(\E t \in tasks : t.run = r /\ t.phase = phase /\ TaskStep(t))
       /\ WF_vars(\E d \in doomed : d.run = r /\ DetachedFailure(d))
       /\ WF_vars(ClockTicks(r))
       /\ WF_vars(StoreLeaseLapses(r))
       /\ WF_vars((\A t \in tasks : t.run = r => ~Held(t)) /\ LockExpires(r))
  /\ WF_vars(ClaimAndDispatch)

ProgressSpec == ProgressInit /\ [][ProgressNext]_progressVars /\ Progress

---------------------------------------------------------------------------
(* Properties *)

(* Who can still commit to a run: they hold its current version. *)
Authors(r) ==
  {t \in tasks : t.run = r /\ t.phase # "committed" /\ t.view.version = runs[r].version}
FailuresDue(r) == {d \in doomed : d.run = r /\ d.version = runs[r].version}

(* A step takes longer than the store's lease: it runs out under the one   *)
(* that was to commit.                                                     *)
Outlasted ==
  \E r \in RunIds : StoreLeaseLapses(r) /\ Authors(r) \cup FailuresDue(r) # {}
InvocationOutlasted ==
  \E r \in RunIds :
    StoreLeaseLapses(r) /\ \E t \in Authors(r) : t.phase = "invoking"

(* A wait that only a signal ends. *)
Parked(r) ==
  /\ runs[r].status = "waiting"
  /\ Matching(runs[r]) = {}
  /\ ~CurrentStep(runs[r]).timed

AtRest(r) == runs[r].status \in Terminal \/ Parked(r)

(* However often runs are claimed, refused, interrupted by signals, cut    *)
(* off by a lost lease or overtaken by a later tick, each of them reaches  *)
(* its end or a wait that only a signal can end, unless the process that   *)
(* holds it crashes: provided that from some time on steps end within the  *)
(* store's lease.                                                          *)
RunsSettle ==
  <>[][~Outlasted]_progressVars =>
    \A r \in RunIds : runs[r].status \in Active ~> AtRest(r) \/ r \in lost

---------------------------------------------------------------------------
(* What the documents claim, and the code does not keep *)

(* README.md:37-39: a long-running step renews its grant and goes on.  But *)
(* the tick that finds the store's lease lapsed has bumped the version by  *)
(* the time the node refuses it, so the step's commit is a conflict and    *)
(* the step is invoked again, for ever and without using up an attempt,    *)
(* although nothing but the child takes long.                              *)
LongStepsSettle ==
  <>[][Outlasted => InvocationOutlasted]_progressVars =>
    \A r \in RunIds : runs[r].status \in Active ~> AtRest(r) \/ r \in lost
=============================================================================
