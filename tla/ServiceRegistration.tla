------------------------ MODULE ServiceRegistration ------------------------
(***************************************************************************)
(* The service-discovery registration of one process: main.rs registers    *)
(* before it serves, a supervisor task (src/coord.rs,                      *)
(* maintain_service_registration) heartbeats and re-registers, and a       *)
(* graceful shutdown joins that task before it deregisters.                *)
(*                                                                         *)
(* entry is the node's record of the instance, a lease that expires unless *)
(* refreshed.  A request and its answer are one step: the lease is several *)
(* times longer than the client's request timeout.  A request whose answer *)
(* is lost took effect, did not, or takes effect later: a registration     *)
(* then joins late.  An instance id is never used by two processes, so one *)
(* process is the whole system.                                            *)
(***************************************************************************)
EXTENDS Naturals

CONSTANT MaxFaults      \* bound: things that go wrong in a behaviour

ASSUME FaultsAssumption == MaxFaults \in Nat

VARIABLES
  process,     \* where run() is
  supervisor,  \* where the supervisor's loop is
  needs,       \* needs_registration
  healthy,     \* registration_healthy
  counters,    \* the registration_* counters
  entry,       \* the node knows the instance
  late,        \* a registration whose answer was lost is still on its way
  lateApplied, \* history: such a registration has been carried out
  left,        \* history: the node has confirmed the deregistration
  faults       \* bound: things that have gone wrong so far

regVars == <<process, supervisor, needs, healthy, counters, entry, late,
             lateApplied, left, faults>>
procVars == <<process, left>>
loopVars == <<supervisor, needs, counters>>
nodeVars == <<entry, late, lateApplied>>

Stages == {"starting", "serving", "draining", "joining", "leaving", "stopped"}
LoopStages == {"unborn", "sleeping", "due", "asking", "ended"}
Counters == [heartbeatFailures : Nat, attempts : Nat, failures : Nat,
             recoveries : Nat]

Flags ==
  /\ needs \in BOOLEAN /\ healthy \in BOOLEAN /\ left \in BOOLEAN
  /\ entry \in BOOLEAN /\ late \in BOOLEAN /\ lateApplied \in BOOLEAN

RegTypeOK ==
  /\ process \in Stages
  /\ supervisor \in LoopStages
  /\ counters \in Counters
  /\ faults \in Nat
  /\ Flags

RegInit ==
  /\ process = "starting"
  /\ supervisor = "unborn"
  /\ needs = FALSE
  /\ healthy = FALSE
  /\ counters = [heartbeatFailures |-> 0, attempts |-> 0, failures |-> 0,
                 recoveries |-> 0]
  /\ entry = FALSE
  /\ late = FALSE
  /\ lateApplied = FALSE
  /\ left = FALSE
  /\ faults = 0

Fault == faults < MaxFaults /\ faults' = faults + 1
Count(name) == counters' = [counters EXCEPT ![name] = @ + 1]

(* The node during a registration whose answer is lost. *)
Unanswered ==
  /\ Fault
  /\ \/ UNCHANGED nodeVars
     \/ entry' = TRUE /\ UNCHANGED <<late, lateApplied>>
     \/ late' = TRUE /\ UNCHANGED <<entry, lateApplied>>

Registered == entry' = TRUE /\ UNCHANGED <<late, lateApplied, faults>>

---------------------------------------------------------------------------
(* Startup: registration must succeed before the process serves *)

Start ==
  /\ process = "starting"
  /\ Registered
  /\ healthy' = TRUE
  /\ process' = "serving"
  /\ supervisor' = "sleeping"
  /\ UNCHANGED <<needs, counters, left>>

StartFails ==
  /\ process = "starting"
  /\ Unanswered
  /\ healthy' = FALSE
  /\ process' = "stopped"
  /\ UNCHANGED <<loopVars, left>>

---------------------------------------------------------------------------
(* The supervisor *)

ShuttingDown == process \in {"joining", "leaving", "stopped"}

(* The select sees the shutdown at once, so a sleep that is still running  *)
(* then never ends; when both are ready either may be chosen.              *)
SleepElapses ==
  /\ supervisor = "sleeping"
  /\ ~ShuttingDown
  /\ supervisor' = "due"
  /\ UNCHANGED <<procVars, nodeVars, needs, counters, healthy, faults>>

(* Mutant: the loop goes on after a shutdown it has seen. *)
SupervisorIgnores ==
  /\ supervisor = "due"
  /\ ShuttingDown
  /\ supervisor' = "sleeping"
  /\ UNCHANGED <<procVars, nodeVars, needs, counters, healthy, faults>>

SupervisorEnds ==
  /\ supervisor \in {"sleeping", "due"}
  /\ ShuttingDown
  /\ supervisor' = "ended"
  /\ UNCHANGED <<procVars, nodeVars, needs, counters, healthy, faults>>

Ask ==
  /\ supervisor = "due"
  /\ supervisor' = "asking"
  /\ IF needs THEN Count("attempts") ELSE UNCHANGED counters
  /\ UNCHANGED <<procVars, nodeVars, needs, healthy, faults>>

Answered(health) ==
  /\ supervisor = "asking"
  /\ supervisor' = "sleeping"
  /\ healthy' = health
  /\ UNCHANGED procVars

Reregister ==
  /\ needs
  /\ Answered(TRUE)
  /\ Registered
  /\ needs' = FALSE
  /\ Count("recoveries")

(* Mutant: a failed attempt ends the loop. *)
ReregisterGivesUp ==
  /\ needs
  /\ supervisor = "asking"
  /\ supervisor' = "ended"
  /\ healthy' = FALSE
  /\ Unanswered
  /\ Count("failures")
  /\ UNCHANGED <<procVars, needs>>

ReregisterFails ==
  /\ needs
  /\ Answered(FALSE)
  /\ Unanswered
  /\ Count("failures")
  /\ UNCHANGED needs

(* A heartbeat refreshes an instance the node knows. *)
Heartbeat ==
  /\ ~needs
  /\ entry
  /\ Answered(TRUE)
  /\ UNCHANGED <<nodeVars, needs, counters, faults>>

(* Mutant: a failed heartbeat is only followed by the next heartbeat. *)
HeartbeatFailsQuietly ==
  /\ ~needs
  /\ IF entry THEN Fault ELSE UNCHANGED faults
  /\ Answered(FALSE)
  /\ Count("heartbeatFailures")
  /\ UNCHANGED <<nodeVars, needs>>

(* The heartbeat is rejected, or its answer does not arrive; a refresh of  *)
(* an entry the node has forgotten creates nothing.                        *)
HeartbeatFails ==
  /\ ~needs
  /\ IF entry THEN Fault ELSE UNCHANGED faults
  /\ Answered(FALSE)
  /\ Count("heartbeatFailures")
  /\ needs' = TRUE
  /\ UNCHANGED nodeVars

---------------------------------------------------------------------------
(* Shutdown *)

(* SIGTERM, Ctrl-C; the heartbeats go on while connections drain. *)
ShutdownSignal ==
  /\ process = "serving"
  /\ process' = "draining"
  /\ UNCHANGED <<loopVars, nodeVars, healthy, left, faults>>

(* The server has ended, by itself or drained. *)
ServeReturns ==
  /\ process \in {"serving", "draining"}
  /\ process' = "joining"
  /\ UNCHANGED <<loopVars, nodeVars, healthy, left, faults>>

(* Mutant: the supervisor is told to stop and not waited for. *)
JoinNobody ==
  /\ process = "joining"
  /\ process' = "leaving"
  /\ UNCHANGED <<loopVars, nodeVars, healthy, left, faults>>

JoinSupervisor ==
  /\ process = "joining"
  /\ supervisor = "ended"
  /\ process' = "leaving"
  /\ UNCHANGED <<loopVars, nodeVars, healthy, left, faults>>

Deregister ==
  /\ process = "leaving"
  /\ process' = "stopped"
  /\ entry' = FALSE
  /\ healthy' = FALSE
  /\ left' = TRUE
  /\ UNCHANGED <<loopVars, late, lateApplied, faults>>

(* Only logged: the process exits all the same. *)
DeregisterFails ==
  /\ process = "leaving"
  /\ Fault
  /\ process' = "stopped"
  /\ entry' \in {entry, FALSE}
  /\ UNCHANGED <<loopVars, late, lateApplied, healthy, left>>

(* The request the supervisor was making may still arrive. *)
Crash ==
  /\ process \notin {"starting", "stopped"}
  /\ Fault
  /\ process' = "stopped"
  /\ supervisor' = "ended"
  /\ late' \in {late, supervisor = "asking" /\ needs}
  /\ UNCHANGED <<needs, counters, healthy, left, entry, lateApplied>>

---------------------------------------------------------------------------
(* The node *)

(* The lease runs out when nothing refreshes it: the process is gone, or   *)
(* it stalls or cannot reach the node for the length of the lease.         *)
EntryExpires ==
  /\ entry
  /\ IF process = "stopped" THEN UNCHANGED faults ELSE Fault
  /\ entry' = FALSE
  /\ UNCHANGED <<procVars, loopVars, healthy, late, lateApplied>>

LateRegistration ==
  /\ late
  /\ late' = FALSE
  /\ \/ entry' = TRUE /\ lateApplied' = TRUE
     \/ UNCHANGED <<entry, lateApplied>>
  /\ UNCHANGED <<procVars, loopVars, healthy, faults>>

---------------------------------------------------------------------------

SupervisorStep ==
  \/ SleepElapses
  \/ SupervisorEnds
  \/ Ask
  \/ Reregister
  \/ ReregisterFails
  \/ Heartbeat
  \/ HeartbeatFails

ShutdownStep == JoinSupervisor \/ Deregister \/ DeregisterFails

RegNext ==
  \/ Start
  \/ StartFails
  \/ SupervisorStep
  \/ ShutdownSignal
  \/ ServeReturns
  \/ ShutdownStep
  \/ Crash
  \/ EntryExpires
  \/ LateRegistration

RegSpec == RegInit /\ [][RegNext]_regVars

(* Requests return within the client's timeout and sleeps elapse.  Nobody  *)
(* is obliged to shut the process down, and nothing is obliged to go wrong. *)
FairRegSpec ==
  /\ RegSpec
  /\ WF_regVars(SupervisorStep)
  /\ WF_regVars(ShutdownStep)

---------------------------------------------------------------------------
(* Properties *)

(* README.md:236, main.rs:84-92: the heartbeat stops before the instance   *)
(* is deregistered.  Once the node has confirmed the deregistration the    *)
(* instance is not in discovery, unless a registration that had timed out  *)
(* reached the node after it.                                              *)
GoneOnceDeregistered == left => ~entry \/ lateApplied

(* Every failed heartbeat opens one degraded episode that one recovery     *)
(* closes, and every attempt of an episode ends as a failure or as its     *)
(* recovery: the counters of /metrics say which episode the supervisor is  *)
(* in, and /healthz agrees while the process serves.                       *)
EpisodesAddUp ==
  process # "stopped" =>
    /\ needs =>
         /\ counters.heartbeatFailures = counters.recoveries + 1
         /\ counters.attempts = counters.failures + counters.recoveries
                                + (IF supervisor = "asking" THEN 1 ELSE 0)
    /\ ~needs =>
         /\ counters.heartbeatFailures = counters.recoveries
         /\ counters.attempts = counters.failures + counters.recoveries
    /\ process \in {"serving", "draining"} => (healthy <=> ~needs)

(* The inductive invariant behind both: nothing is asked of the node any   *)
(* more once the supervisor has been joined.                               *)
InSequence ==
  /\ process = "starting" => supervisor = "unborn" /\ ~needs
  /\ process \in {"leaving", "stopped"} => supervisor \in {"unborn", "ended"}
  /\ left => process = "stopped"

RegIInv == RegTypeOK /\ InSequence /\ EpisodesAddUp /\ GoneOnceDeregistered

(* A serving process that has fallen out of discovery finds its way back. *)
StaysDiscoverable ==
  process = "serving" /\ ~entry ~> entry \/ process # "serving"

(* Whatever the supervisor is doing when the server ends, run() is not     *)
(* left waiting for it.                                                    *)
ShutdownEnds == process = "joining" ~> process = "stopped"
=============================================================================
