--------------------- MODULE ServiceRegistrationProofs ---------------------
(***************************************************************************)
(* The safety of ServiceRegistration for every MaxFaults: RegIInv is       *)
(* inductive.  After the join the supervisor has ended, and only a         *)
(* registration already on its way can put the entry back.                 *)
(***************************************************************************)
EXTENDS ServiceRegistration, TLAPS

(* Before anything has happened. *)
LEMMA RegInitially == RegInit => RegIInv
<1> SUFFICES ASSUME RegInit PROVE RegIInv
  OBVIOUS
<1> USE FaultsAssumption DEF RegInit
<1>1. RegTypeOK
  BY DEF RegTypeOK, Flags, Stages, LoopStages, Counters
<1>2. InSequence
  BY DEF InSequence
<1>3. EpisodesAddUp
  BY DEF EpisodesAddUp
<1>4. GoneOnceDeregistered
  BY DEF GoneOnceDeregistered
<1> QED BY <1>1, <1>2, <1>3, <1>4 DEF RegIInv

(* The supervisor's steps: none of them is taken after the join. *)
LEMMA SupervisorPreserves ==
  ASSUME RegIInv, SupervisorStep
  PROVE  RegIInv'
<1> USE FaultsAssumption
        DEF RegIInv, RegTypeOK, Stages, LoopStages, Counters, ShuttingDown,
            procVars, loopVars, nodeVars
<1>1. CASE SleepElapses
  <2>1. RegTypeOK'
    <3>1. /\ process' \in Stages /\ supervisor' \in LoopStages
          /\ counters' \in Counters /\ faults' \in Nat
      BY <1>1 DEF SleepElapses
    <3>2. Flags'
      BY <1>1 DEF SleepElapses, Flags
    <3> QED BY <3>1, <3>2
  <2>2. InSequence'
    BY <1>1 DEF SleepElapses, InSequence
  <2>3. EpisodesAddUp'
    BY <1>1 DEF SleepElapses, EpisodesAddUp
  <2>4. GoneOnceDeregistered'
    BY <1>1 DEF SleepElapses, InSequence, GoneOnceDeregistered
  <2> QED BY <2>1, <2>2, <2>3, <2>4
<1>2. CASE SupervisorEnds
  <2>1. RegTypeOK'
    <3>1. /\ process' \in Stages /\ supervisor' \in LoopStages
          /\ counters' \in Counters /\ faults' \in Nat
      BY <1>2 DEF SupervisorEnds
    <3>2. Flags'
      BY <1>2 DEF SupervisorEnds, Flags
    <3> QED BY <3>1, <3>2
  <2>2. InSequence'
    BY <1>2 DEF SupervisorEnds, InSequence
  <2>3. EpisodesAddUp'
    BY <1>2 DEF SupervisorEnds, EpisodesAddUp
  <2>4. GoneOnceDeregistered'
    BY <1>2 DEF SupervisorEnds, InSequence, GoneOnceDeregistered
  <2> QED BY <2>1, <2>2, <2>3, <2>4
<1>3. CASE Ask
  <2>1. RegTypeOK'
    <3>1. /\ process' \in Stages /\ supervisor' \in LoopStages
          /\ counters' \in Counters /\ faults' \in Nat
      BY <1>3 DEF Ask, Count
    <3>2. Flags'
      BY <1>3 DEF Ask, Count, Flags
    <3> QED BY <3>1, <3>2
  <2>2. InSequence'
    BY <1>3 DEF Ask, Count, InSequence
  <2>3. EpisodesAddUp'
    BY <1>3 DEF Ask, Count, EpisodesAddUp
  <2>4. GoneOnceDeregistered'
    BY <1>3 DEF Ask, Count, InSequence, GoneOnceDeregistered
  <2> QED BY <2>1, <2>2, <2>3, <2>4
<1>4. CASE Reregister
  <2>1. RegTypeOK'
    <3>1. /\ process' \in Stages /\ supervisor' \in LoopStages
          /\ counters' \in Counters /\ faults' \in Nat
      BY <1>4 DEF Reregister, Answered, Registered, Count
    <3>2. Flags'
      BY <1>4 DEF Reregister, Answered, Registered, Count, Flags
    <3> QED BY <3>1, <3>2
  <2>2. InSequence'
    BY <1>4 DEF Reregister, Answered, Registered, Count, InSequence
  <2>3. EpisodesAddUp'
    BY <1>4 DEF Reregister, Answered, Registered, Count, EpisodesAddUp
  <2>4. GoneOnceDeregistered'
    BY <1>4 DEF Reregister, Answered, Registered, Count, InSequence, GoneOnceDeregistered
  <2> QED BY <2>1, <2>2, <2>3, <2>4
<1>5. CASE ReregisterFails
  <2>1. RegTypeOK'
    <3>1. /\ process' \in Stages /\ supervisor' \in LoopStages
          /\ counters' \in Counters /\ faults' \in Nat
      BY <1>5 DEF ReregisterFails, Answered, Unanswered, Fault, Count
    <3>2. Flags'
      BY <1>5 DEF ReregisterFails, Answered, Unanswered, Fault, Count, Flags
    <3> QED BY <3>1, <3>2
  <2>2. InSequence'
    BY <1>5 DEF ReregisterFails, Answered, Unanswered, Fault, Count, InSequence
  <2>3. EpisodesAddUp'
    BY <1>5 DEF ReregisterFails, Answered, Unanswered, Fault, Count, EpisodesAddUp
  <2>4. GoneOnceDeregistered'
    BY <1>5 DEF ReregisterFails, Answered, Unanswered, Fault, Count, InSequence, GoneOnceDeregistered
  <2> QED BY <2>1, <2>2, <2>3, <2>4
<1>6. CASE Heartbeat
  <2>1. RegTypeOK'
    <3>1. /\ process' \in Stages /\ supervisor' \in LoopStages
          /\ counters' \in Counters /\ faults' \in Nat
      BY <1>6 DEF Heartbeat, Answered
    <3>2. Flags'
      BY <1>6 DEF Heartbeat, Answered, Flags
    <3> QED BY <3>1, <3>2
  <2>2. InSequence'
    BY <1>6 DEF Heartbeat, Answered, InSequence
  <2>3. EpisodesAddUp'
    BY <1>6 DEF Heartbeat, Answered, EpisodesAddUp
  <2>4. GoneOnceDeregistered'
    BY <1>6 DEF Heartbeat, Answered, InSequence, GoneOnceDeregistered
  <2> QED BY <2>1, <2>2, <2>3, <2>4
<1>7. CASE HeartbeatFails
  <2>1. RegTypeOK'
    <3>1. /\ process' \in Stages /\ supervisor' \in LoopStages
          /\ counters' \in Counters /\ faults' \in Nat
      BY <1>7 DEF HeartbeatFails, Answered, Fault, Count
    <3>2. Flags'
      BY <1>7 DEF HeartbeatFails, Answered, Fault, Count, Flags
    <3> QED BY <3>1, <3>2
  <2>2. InSequence'
    BY <1>7 DEF HeartbeatFails, Answered, Fault, Count, InSequence
  <2>3. EpisodesAddUp'
    BY <1>7 DEF HeartbeatFails, Answered, Fault, Count, EpisodesAddUp
  <2>4. GoneOnceDeregistered'
    BY <1>7 DEF HeartbeatFails, Answered, Fault, Count, InSequence, GoneOnceDeregistered
  <2> QED BY <2>1, <2>2, <2>3, <2>4
<1> QED
  BY <1>1, <1>2, <1>3, <1>4, <1>5, <1>6, <1>7 DEF SupervisorStep

(* The steps of run() and of the node. *)
LEMMA ProcessPreserves ==
  ASSUME RegIInv,
         Start \/ StartFails \/ ShutdownSignal \/ ServeReturns \/ ShutdownStep
           \/ Crash \/ EntryExpires \/ LateRegistration
  PROVE  RegIInv'
<1> USE FaultsAssumption
        DEF RegIInv, RegTypeOK, Stages, LoopStages, Counters, ShuttingDown,
            procVars, loopVars, nodeVars
<1>1. CASE Start
  <2>1. RegTypeOK'
    <3>1. /\ process' \in Stages /\ supervisor' \in LoopStages
          /\ counters' \in Counters /\ faults' \in Nat
      BY <1>1 DEF Start, Registered
    <3>2. Flags'
      BY <1>1 DEF Start, Registered, Flags
    <3> QED BY <3>1, <3>2
  <2>2. InSequence'
    BY <1>1 DEF Start, Registered, InSequence
  <2>3. EpisodesAddUp'
    BY <1>1 DEF Start, Registered, InSequence, EpisodesAddUp
  <2>4. GoneOnceDeregistered'
    BY <1>1 DEF Start, Registered, InSequence, GoneOnceDeregistered
  <2> QED BY <2>1, <2>2, <2>3, <2>4
<1>2. CASE StartFails
  <2>1. RegTypeOK'
    <3>1. /\ process' \in Stages /\ supervisor' \in LoopStages
          /\ counters' \in Counters /\ faults' \in Nat
      BY <1>2 DEF StartFails, Unanswered, Fault
    <3>2. Flags'
      BY <1>2 DEF StartFails, Unanswered, Fault, Flags
    <3> QED BY <3>1, <3>2
  <2>2. InSequence'
    BY <1>2 DEF StartFails, Unanswered, Fault, InSequence
  <2>3. EpisodesAddUp'
    BY <1>2 DEF StartFails, Unanswered, Fault, EpisodesAddUp
  <2>4. GoneOnceDeregistered'
    BY <1>2 DEF StartFails, Unanswered, Fault, InSequence, GoneOnceDeregistered
  <2> QED BY <2>1, <2>2, <2>3, <2>4
<1>3. CASE ShutdownSignal
  <2>1. RegTypeOK'
    <3>1. /\ process' \in Stages /\ supervisor' \in LoopStages
          /\ counters' \in Counters /\ faults' \in Nat
      BY <1>3 DEF ShutdownSignal
    <3>2. Flags'
      BY <1>3 DEF ShutdownSignal, Flags
    <3> QED BY <3>1, <3>2
  <2>2. InSequence'
    BY <1>3 DEF ShutdownSignal, InSequence
  <2>3. EpisodesAddUp'
    BY <1>3 DEF ShutdownSignal, EpisodesAddUp
  <2>4. GoneOnceDeregistered'
    BY <1>3 DEF ShutdownSignal, InSequence, GoneOnceDeregistered
  <2> QED BY <2>1, <2>2, <2>3, <2>4
<1>4. CASE ServeReturns
  <2>1. RegTypeOK'
    <3>1. /\ process' \in Stages /\ supervisor' \in LoopStages
          /\ counters' \in Counters /\ faults' \in Nat
      BY <1>4 DEF ServeReturns
    <3>2. Flags'
      BY <1>4 DEF ServeReturns, Flags
    <3> QED BY <3>1, <3>2
  <2>2. InSequence'
    BY <1>4 DEF ServeReturns, InSequence
  <2>3. EpisodesAddUp'
    BY <1>4 DEF ServeReturns, EpisodesAddUp
  <2>4. GoneOnceDeregistered'
    BY <1>4 DEF ServeReturns, InSequence, GoneOnceDeregistered
  <2> QED BY <2>1, <2>2, <2>3, <2>4
<1>5. CASE JoinSupervisor
  <2>1. RegTypeOK'
    <3>1. /\ process' \in Stages /\ supervisor' \in LoopStages
          /\ counters' \in Counters /\ faults' \in Nat
      BY <1>5 DEF JoinSupervisor
    <3>2. Flags'
      BY <1>5 DEF JoinSupervisor, Flags
    <3> QED BY <3>1, <3>2
  <2>2. InSequence'
    BY <1>5 DEF JoinSupervisor, InSequence
  <2>3. EpisodesAddUp'
    BY <1>5 DEF JoinSupervisor, EpisodesAddUp
  <2>4. GoneOnceDeregistered'
    BY <1>5 DEF JoinSupervisor, InSequence, GoneOnceDeregistered
  <2> QED BY <2>1, <2>2, <2>3, <2>4
<1>6. CASE Deregister
  <2>1. RegTypeOK'
    <3>1. /\ process' \in Stages /\ supervisor' \in LoopStages
          /\ counters' \in Counters /\ faults' \in Nat
      BY <1>6 DEF Deregister
    <3>2. Flags'
      BY <1>6 DEF Deregister, Flags
    <3> QED BY <3>1, <3>2
  <2>2. InSequence'
    BY <1>6 DEF Deregister, InSequence
  <2>3. EpisodesAddUp'
    BY <1>6 DEF Deregister, EpisodesAddUp
  <2>4. GoneOnceDeregistered'
    BY <1>6 DEF Deregister, InSequence, GoneOnceDeregistered
  <2> QED BY <2>1, <2>2, <2>3, <2>4
<1>7. CASE DeregisterFails
  <2>1. RegTypeOK'
    <3>1. /\ process' \in Stages /\ supervisor' \in LoopStages
          /\ counters' \in Counters /\ faults' \in Nat
      BY <1>7 DEF DeregisterFails, Fault
    <3>2. Flags'
      BY <1>7 DEF DeregisterFails, Fault, Flags
    <3> QED BY <3>1, <3>2
  <2>2. InSequence'
    BY <1>7 DEF DeregisterFails, Fault, InSequence
  <2>3. EpisodesAddUp'
    BY <1>7 DEF DeregisterFails, Fault, EpisodesAddUp
  <2>4. GoneOnceDeregistered'
    BY <1>7 DEF DeregisterFails, Fault, InSequence, GoneOnceDeregistered
  <2> QED BY <2>1, <2>2, <2>3, <2>4
<1>8. CASE Crash
  <2>1. RegTypeOK'
    <3>1. /\ process' \in Stages /\ supervisor' \in LoopStages
          /\ counters' \in Counters /\ faults' \in Nat
      BY <1>8 DEF Crash, Fault
    <3>2. Flags'
      BY <1>8 DEF Crash, Fault, Flags
    <3> QED BY <3>1, <3>2
  <2>2. InSequence'
    BY <1>8 DEF Crash, Fault, InSequence
  <2>3. EpisodesAddUp'
    BY <1>8 DEF Crash, Fault, EpisodesAddUp
  <2>4. GoneOnceDeregistered'
    BY <1>8 DEF Crash, Fault, InSequence, GoneOnceDeregistered
  <2> QED BY <2>1, <2>2, <2>3, <2>4
<1>9. CASE EntryExpires
  <2>1. RegTypeOK'
    <3>1. /\ process' \in Stages /\ supervisor' \in LoopStages
          /\ counters' \in Counters /\ faults' \in Nat
      BY <1>9 DEF EntryExpires, Fault
    <3>2. Flags'
      BY <1>9 DEF EntryExpires, Fault, Flags
    <3> QED BY <3>1, <3>2
  <2>2. InSequence'
    BY <1>9 DEF EntryExpires, Fault, InSequence
  <2>3. EpisodesAddUp'
    BY <1>9 DEF EntryExpires, Fault, EpisodesAddUp
  <2>4. GoneOnceDeregistered'
    BY <1>9 DEF EntryExpires, Fault, InSequence, GoneOnceDeregistered
  <2> QED BY <2>1, <2>2, <2>3, <2>4
<1>10. CASE LateRegistration
  <2>1. RegTypeOK'
    <3>1. /\ process' \in Stages /\ supervisor' \in LoopStages
          /\ counters' \in Counters /\ faults' \in Nat
      BY <1>10 DEF LateRegistration
    <3>2. Flags'
      BY <1>10 DEF LateRegistration, Flags
    <3> QED BY <3>1, <3>2
  <2>2. InSequence'
    BY <1>10 DEF LateRegistration, InSequence
  <2>3. EpisodesAddUp'
    BY <1>10 DEF LateRegistration, EpisodesAddUp
  <2>4. GoneOnceDeregistered'
    BY <1>10 DEF LateRegistration, InSequence, GoneOnceDeregistered
  <2> QED BY <2>1, <2>2, <2>3, <2>4
<1> QED
  BY <1>1, <1>2, <1>3, <1>4, <1>5, <1>6, <1>7, <1>8, <1>9, <1>10
     DEF ShutdownStep

LEMMA RegInvariance == RegSpec => []RegIInv
<1>1. ASSUME RegIInv, [RegNext]_regVars
      PROVE  RegIInv'
  <2>1. CASE RegNext
    BY <1>1, <2>1, SupervisorPreserves, ProcessPreserves DEF RegNext
  <2>2. CASE UNCHANGED regVars
    BY <1>1, <2>2
       DEF regVars, RegIInv, RegTypeOK, Flags, InSequence, EpisodesAddUp,
           GoneOnceDeregistered
  <2> QED BY <1>1, <2>1, <2>2
<1> QED BY <1>1, RegInitially, PTL DEF RegSpec

(* README.md:236, main.rs:84-92: a deregistered instance stays out of      *)
(* discovery, but for a registration that had timed out.                   *)
THEOREM DeregisteredStaysGone == RegSpec => []GoneOnceDeregistered
<1>1. RegIInv => GoneOnceDeregistered
  BY DEF RegIInv
<1> QED BY <1>1, RegInvariance, PTL

(* coord.rs:284-349: the counters of /metrics and the health of /healthz   *)
(* always name the episode the supervisor is in.                           *)
THEOREM CountersNameTheEpisode == RegSpec => []EpisodesAddUp
<1>1. RegIInv => EpisodesAddUp
  BY DEF RegIInv
<1> QED BY <1>1, RegInvariance, PTL
=============================================================================
