------------------------ MODULE NatsDeliveryProofs ------------------------
(***************************************************************************)
(* The safety of NatsDelivery for any number of callers: NatsIInv is       *)
(* inductive.  A step of one caller leaves the event of another alone, so  *)
(* the proof of a step looks at the caller that takes it.                  *)
(***************************************************************************)
EXTENDS NatsDelivery, TLAPS

LEMMA NatsInitially == NatsInit => NatsIInv
<1> SUFFICES ASSUME NatsInit PROVE NatsIInv
  OBVIOUS
<1> USE DEF NatsInit, NoCopies
<1>1. NatsTypeOK
  BY DEF NatsTypeOK, Stages, Outcomes, Copies
<1>2. attempts = 0
  OBVIOUS
<1>3. \A c \in Publishers : EventInOrder(c)
  BY DEF EventInOrder, Callers
<1>4. \A c \in Dispatchers : InvocationInOrder(c)
  BY DEF InvocationInOrder, Callers
<1> QED BY <1>1, <1>2, <1>3, <1>4 DEF NatsIInv

LEMMA OneFewer ==
  ASSUME NEW n \in Nat, n > 0
  PROVE  n - 1 \in Nat
OBVIOUS

(* What became of a message nobody has answered for, as a type. *)
LEMMA ReceivedType ==
  ASSUME NatsTypeOK, NEW c \in Callers, NEW stored \in BOOLEAN,
         Received(c, stored)
  PROVE  /\ copies' \in [Callers -> Copies]
         /\ \A d \in Callers \ {c} : copies'[d] = copies[d]
         /\ c \in Publishers =>
              /\ copies'[c].live = copies[c].live + 1
              /\ copies'[c].stored = IF stored THEN copies[c].stored + 1
                                     ELSE copies[c].stored
         /\ c \in Dispatchers => copies'[c].ran = copies[c].ran + 1
<1>1. copies \in [Callers -> Copies]
  BY DEF NatsTypeOK
<1>2. copies[c].stored \in Nat /\ copies[c].live \in Nat /\ copies[c].ran \in Nat
  BY <1>1 DEF Copies
<1>3. copies' = [copies EXCEPT ![c] = copies'[c]]
  BY <1>1 DEF Received
<1>4. copies'[c] = [stored |-> IF stored THEN copies[c].stored + 1 ELSE copies[c].stored,
                    live   |-> IF c \in Publishers THEN copies[c].live + 1 ELSE copies[c].live,
                    ran    |-> IF c \in Dispatchers THEN copies[c].ran + 1 ELSE copies[c].ran]
  BY <1>1 DEF Received
<1>5. copies'[c] \in Copies
  BY <1>2, <1>4 DEF Copies
<1> QED BY <1>1, <1>3, <1>4, <1>5

LEMMA UnansweredType ==
  ASSUME NatsTypeOK, NEW c \in Callers, Unanswered(c)
  PROVE  /\ copies' \in [Callers -> Copies]
         /\ late' \in [Callers -> Nat]
         /\ \A d \in Callers \ {c} : copies'[d] = copies[d] /\ late'[d] = late[d]
<1>1. CASE UNCHANGED <<copies, late>>
  BY <1>1 DEF NatsTypeOK
<1>2. CASE late' = [late EXCEPT ![c] = @ + 1] /\ UNCHANGED copies
  BY <1>2 DEF NatsTypeOK
<1>3. CASE (\E stored \in BOOLEAN : (stored => c \in Publishers) /\ Received(c, stored))
             /\ UNCHANGED late
  BY <1>3, ReceivedType DEF NatsTypeOK
<1> QED BY <1>1, <1>2, <1>3 DEF Unanswered

(* An event that was unknown everywhere has at most one copy after it was  *)
(* sent once.                                                              *)
LEMMA UnansweredOnce ==
  ASSUME NatsTypeOK, NEW c \in Publishers, Unanswered(c),
         copies[c] = NoCopies, late[c] = 0
  PROVE  copies'[c].live + late'[c] <= 1 /\ copies'[c].stored + late'[c] <= 1
<1> c \in Callers
  BY DEF Callers
<1>1. CASE UNCHANGED <<copies, late>>
  BY <1>1 DEF NatsTypeOK, NoCopies
<1>2. CASE late' = [late EXCEPT ![c] = @ + 1] /\ UNCHANGED copies
  BY <1>2 DEF NatsTypeOK, NoCopies
<1>3. CASE (\E stored \in BOOLEAN : (stored => c \in Publishers) /\ Received(c, stored))
             /\ UNCHANGED late
  BY <1>3, ReceivedType DEF NatsTypeOK, NoCopies
<1> QED BY <1>1, <1>2, <1>3 DEF Unanswered

(* So does an invocation that the pool was asked for once. *)
LEMMA UnansweredRun ==
  ASSUME NatsTypeOK, NEW c \in Dispatchers, Unanswered(c),
         copies[c] = NoCopies, late[c] = 0
  PROVE  copies'[c].ran + late'[c] <= 1
<1> c \in Callers
  BY DEF Callers
<1>1. CASE UNCHANGED <<copies, late>>
  BY <1>1 DEF NatsTypeOK, NoCopies
<1>2. CASE late' = [late EXCEPT ![c] = @ + 1] /\ UNCHANGED copies
  BY <1>2 DEF NatsTypeOK, NoCopies
<1>3. CASE (\E stored \in BOOLEAN : (stored => c \in Publishers) /\ Received(c, stored))
             /\ UNCHANGED late
  BY <1>3, ReceivedType DEF NatsTypeOK, NoCopies
<1> QED BY <1>1, <1>2, <1>3 DEF Unanswered

(* A step of a caller: what it does to the types, to the cadence and to    *)
(* the events of the other callers.                                        *)
LEMMA StepFrame ==
  ASSUME NatsTypeOK, NEW d \in Callers,
         CallStep(d) \/ BeginCall(d) \/ LateArrival(d)
  PROVE  /\ stage' \in [Callers -> Stages]
         /\ outcome' \in [Callers -> Outcomes]
         /\ copies' \in [Callers -> Copies]
         /\ late' \in [Callers -> Nat]
         /\ \A c \in Callers \ {d} :
              /\ stage'[c] = stage[c] /\ outcome'[c] = outcome[c]
              /\ copies'[c] = copies[c] /\ late'[c] = late[c]
<1> USE DEF NatsTypeOK, Stages, Outcomes, Goto, linkVars
<1>0. NoCopies \in Copies
  BY DEF NoCopies, Copies
<1>1. CASE UseCached(d)
  BY <1>1 DEF UseCached, WithClient
<1>2. CASE Refused(d)
  BY <1>2 DEF Refused, NoClient, Finish
<1>3. CASE Connect(d)
  BY <1>3 DEF Connect
<1>4. CASE Connected(d)
  BY <1>4 DEF Connected, WithClient
<1>5. CASE ConnectFails(d)
  BY <1>5 DEF ConnectFails, NoClient, Finish
<1>6. CASE Invalidate(d)
  BY <1>6 DEF Invalidate
<1>7. CASE Acknowledged(d)
  BY <1>7, ReceivedType DEF Acknowledged, Finish
<1>8. CASE Unacked(d)
  BY <1>8, UnansweredType DEF Unacked, Fail
<1>9. CASE CoreAccepted(d)
  BY <1>9, UnansweredType DEF CoreAccepted, Finish
<1>10. CASE CoreFails(d)
  BY <1>10 DEF CoreFails, Fail
<1>11. CASE PoolAnswers(d)
  BY <1>11, ReceivedType DEF PoolAnswers, Finish
<1>12. CASE PoolFails(d)
  BY <1>12, UnansweredType DEF PoolFails, Finish
<1>13. CASE RunLocally(d)
  BY <1>13, ReceivedType DEF RunLocally, Finish
<1>14. CASE BeginCall(d)
  BY <1>14, <1>0 DEF BeginCall
<1>15. CASE LateArrival(d)
  <2>0. /\ late[d] \in Nat /\ late[d] > 0 /\ late' = [late EXCEPT ![d] = late[d] - 1]
        /\ UNCHANGED <<stage, outcome>>
    BY <1>15 DEF LateArrival
  <2>a. /\ late' \in [Callers -> Nat]
        /\ \A c \in Callers \ {d} : late'[c] = late[c]
    <3>1. late[d] - 1 \in Nat
      BY <2>0, OneFewer, Zenon
    <3> HIDE DEF Stages, Outcomes
    <3> QED BY <2>0, <3>1
  <2>1. CASE UNCHANGED copies
    BY <2>0, <2>a, <2>1
  <2>2. CASE \E stored \in BOOLEAN :
               (stored => d \in Publishers) /\ Received(d, stored)
    <3>1. /\ copies' \in [Callers -> Copies]
          /\ \A c \in Callers \ {d} : copies'[c] = copies[c]
      BY <2>2, ReceivedType
    <3> QED BY <2>0, <2>a, <3>1
  <2> QED BY <1>15, <2>1, <2>2 DEF LateArrival
<1> QED
  BY <1>1, <1>2, <1>3, <1>4, <1>5, <1>6, <1>7, <1>8, <1>9, <1>10, <1>11,
     <1>12, <1>13, <1>14, <1>15
     DEF CallStep

LEMMA StepCadence ==
  ASSUME NatsIInv, NEW d \in Callers,
         CallStep(d) \/ BeginCall(d) \/ LateArrival(d)
  PROVE  /\ settings' = settings
         /\ client' \in BOOLEAN /\ cooling' \in BOOLEAN
         /\ holder' \in Callers \cup {Nobody}
         /\ attempts' \in Nat /\ faults' \in Nat
         /\ attempts' = 0 \/ (attempts' = 1 /\ cooling')
<1> USE DEF NatsIInv, NatsTypeOK
<1>1. CASE Connect(d)
  BY <1>1 DEF Connect
<1>2. CASE Connected(d)
  BY <1>2 DEF Connected
<1>3. CASE ConnectFails(d)
  BY <1>3 DEF ConnectFails
<1>4. CASE Invalidate(d)
  BY <1>4 DEF Invalidate
<1>5. CASE UNCHANGED linkVars
  BY <1>5 DEF linkVars
<1> QED
  BY <1>1, <1>2, <1>3, <1>4, <1>5
     DEF CallStep, UseCached, Refused, Acknowledged, Unacked, CoreAccepted,
         CoreFails, PoolAnswers, PoolFails, RunLocally, BeginCall, LateArrival

(* The caller's own event. *)
LEMMA StepOwn ==
  ASSUME NatsIInv, NEW d \in Publishers,
         CallStep(d) \/ BeginCall(d) \/ LateArrival(d)
  PROVE  EventInOrder(d)'
<1>0. /\ NatsTypeOK /\ EventInOrder(d) /\ d \in Callers /\ d \notin Dispatchers
      /\ stage[d] \in Stages /\ late[d] \in Nat /\ copies[d] \in Copies
      /\ copies[d].live \in Nat /\ copies[d].stored \in Nat
      /\ settings' = settings /\ Strict' = Strict /\ Strict \in BOOLEAN
  BY CallersAssumption, StepCadence
     DEF NatsIInv, NatsTypeOK, Callers, Copies, Strict, Settings
<1>00. NoCopies.live = 0 /\ NoCopies.stored = 0
  BY DEF NoCopies
<1>000. d \in Publishers /\ DOMAIN stage = Callers /\ DOMAIN outcome = Callers
        /\ DOMAIN copies = Callers /\ DOMAIN late = Callers
  BY <1>0 DEF NatsTypeOK
<1> USE <1>0, <1>00, <1>000 DEF Goto
<1>1. CASE UseCached(d)
  BY <1>1 DEF UseCached, WithClient, EventInOrder
<1>2. CASE Refused(d)
  BY <1>2 DEF Refused, NoClient, Finish, EventInOrder
<1>3. CASE Connect(d)
  BY <1>3 DEF Connect, EventInOrder
<1>4. CASE Connected(d)
  BY <1>4 DEF Connected, WithClient, EventInOrder
<1>5. CASE ConnectFails(d)
  BY <1>5 DEF ConnectFails, NoClient, Finish, EventInOrder
<1>6. CASE Invalidate(d)
  BY <1>6 DEF Invalidate, EventInOrder
<1>7. CASE Acknowledged(d)
  <2>1. copies'[d].live = 1 /\ copies'[d].stored = 1
    <3>1. Received(d, TRUE) /\ copies[d] = NoCopies
      BY <1>7 DEF Acknowledged, EventInOrder
    <3>2. /\ copies'[d].live = copies[d].live + 1
          /\ copies'[d].stored = IF TRUE THEN copies[d].stored + 1 ELSE copies[d].stored
      BY <3>1, ReceivedType, Zenon
    <3> QED BY <3>1, <3>2
  <2>2. late'[d] = 0 /\ stage'[d] = "idle" /\ outcome'[d] = "published"
    BY <1>7 DEF Acknowledged, Finish, EventInOrder
  <2> QED BY <2>1, <2>2 DEF EventInOrder
<1>8. CASE Unacked(d)
  BY <1>8, UnansweredType, UnansweredOnce
     DEF Unacked, Fail, EventInOrder
<1>9. CASE CoreAccepted(d)
  BY <1>9, UnansweredType, UnansweredOnce
     DEF CoreAccepted, Finish, EventInOrder
<1>10. CASE CoreFails(d)
  BY <1>10 DEF CoreFails, Fail, EventInOrder
<1>11. CASE PoolAnswers(d)
  BY <1>11, ReceivedType DEF PoolAnswers, Finish, EventInOrder
<1>12. CASE PoolFails(d)
  BY <1>12, UnansweredType DEF PoolFails, Finish, EventInOrder
<1>13. CASE RunLocally(d)
  BY <1>13, ReceivedType DEF RunLocally, Finish, EventInOrder
<1>14. CASE BeginCall(d)
  BY <1>14 DEF BeginCall, EventInOrder
<1>15. CASE LateArrival(d)
  BY <1>15, ReceivedType DEF LateArrival, EventInOrder
<1> QED
  BY <1>1, <1>2, <1>3, <1>4, <1>5, <1>6, <1>7, <1>8, <1>9, <1>10, <1>11,
     <1>12, <1>13, <1>14, <1>15
     DEF CallStep

(* The caller's own invocation. *)
LEMMA StepOwnInvocation ==
  ASSUME NatsIInv, NEW d \in Dispatchers,
         CallStep(d) \/ BeginCall(d) \/ LateArrival(d)
  PROVE  InvocationInOrder(d)'
<1>0. /\ NatsTypeOK /\ InvocationInOrder(d) /\ d \in Callers /\ d \notin Publishers
      /\ stage[d] \in Stages /\ late[d] \in Nat /\ copies[d].ran \in Nat
      /\ settings' = settings /\ FallbackLocal' = FallbackLocal
      /\ FallbackLocal \in BOOLEAN
  BY CallersAssumption, StepCadence
     DEF NatsIInv, NatsTypeOK, Callers, Copies, FallbackLocal, Settings
<1>00. NoCopies.ran = 0
  BY DEF NoCopies
<1>000. d \in Dispatchers /\ DOMAIN stage = Callers /\ DOMAIN copies = Callers
        /\ DOMAIN late = Callers
  BY <1>0 DEF NatsTypeOK
<1> USE <1>0, <1>00, <1>000 DEF Goto
<1>1. CASE UseCached(d)
  BY <1>1 DEF UseCached, WithClient, InvocationInOrder
<1>2. CASE Refused(d)
  BY <1>2 DEF Refused, NoClient, Finish, InvocationInOrder
<1>3. CASE Connect(d)
  BY <1>3 DEF Connect, InvocationInOrder
<1>4. CASE Connected(d)
  BY <1>4 DEF Connected, WithClient, InvocationInOrder
<1>5. CASE ConnectFails(d)
  BY <1>5 DEF ConnectFails, NoClient, Finish, InvocationInOrder
<1>6. CASE Invalidate(d)
  BY <1>6 DEF Invalidate, InvocationInOrder
<1>7. CASE Acknowledged(d)
  BY <1>7 DEF Acknowledged, InvocationInOrder
<1>8. CASE Unacked(d)
  BY <1>8 DEF Unacked, InvocationInOrder
<1>9. CASE CoreAccepted(d)
  BY <1>9 DEF CoreAccepted, InvocationInOrder
<1>10. CASE CoreFails(d)
  BY <1>10 DEF CoreFails, InvocationInOrder
<1>11. CASE PoolAnswers(d)
  <2>1. Received(d, FALSE) /\ copies[d] = NoCopies /\ late'[d] = 0 /\ stage'[d] = "idle"
    BY <1>11 DEF PoolAnswers, Finish, InvocationInOrder
  <2>2. copies'[d].ran = copies[d].ran + 1
    BY <2>1, ReceivedType, Zenon
  <2> QED BY <2>1, <2>2 DEF InvocationInOrder
<1>12. CASE PoolFails(d)
  BY <1>12, UnansweredType, UnansweredRun DEF PoolFails, Finish, InvocationInOrder
<1>13. CASE RunLocally(d)
  BY <1>13 DEF RunLocally, Finish, InvocationInOrder
<1>14. CASE BeginCall(d)
  BY <1>14 DEF BeginCall, InvocationInOrder
<1>15. CASE LateArrival(d)
  BY <1>15, ReceivedType DEF LateArrival, InvocationInOrder
<1> QED
  BY <1>1, <1>2, <1>3, <1>4, <1>5, <1>6, <1>7, <1>8, <1>9, <1>10, <1>11,
     <1>12, <1>13, <1>14, <1>15
     DEF CallStep

LEMMA NatsInvariance == NatsSpec => []NatsIInv
<1>1. ASSUME NatsIInv, [NatsNext]_natsVars
      PROVE  NatsIInv'
  <2>1. ASSUME NEW d \in Callers, CallStep(d) \/ BeginCall(d) \/ LateArrival(d)
        PROVE  NatsIInv'
    <3>1. NatsTypeOK' /\ (attempts = 0 \/ (attempts = 1 /\ cooling))'
      BY <1>1, <2>1, StepFrame, StepCadence DEF NatsIInv, NatsTypeOK
    <3>2. ASSUME NEW c \in Publishers PROVE EventInOrder(c)'
      <4>1. CASE c = d
        BY <1>1, <2>1, <4>1, StepOwn
      <4>2. CASE c # d
        <5>1. /\ stage'[c] = stage[c] /\ outcome'[c] = outcome[c]
              /\ copies'[c] = copies[c] /\ late'[c] = late[c]
              /\ settings' = settings
          BY <1>1, <2>1, <4>2, StepFrame, StepCadence DEF NatsIInv, Callers
        <5> QED BY <1>1, <5>1 DEF NatsIInv, EventInOrder, Strict
      <4> QED BY <4>1, <4>2
    <3>3. ASSUME NEW c \in Dispatchers PROVE InvocationInOrder(c)'
      <4>1. CASE c = d
        BY <1>1, <2>1, <4>1, StepOwnInvocation
      <4>2. CASE c # d
        <5>1. /\ stage'[c] = stage[c] /\ copies'[c] = copies[c]
              /\ late'[c] = late[c] /\ settings' = settings
          BY <1>1, <2>1, <4>2, StepFrame, StepCadence DEF NatsIInv, Callers
        <5> QED BY <1>1, <5>1 DEF NatsIInv, InvocationInOrder, FallbackLocal
      <4> QED BY <4>1, <4>2
    <3> QED BY <3>1, <3>2, <3>3 DEF NatsIInv
  <2>2. CASE CadenceElapses
    BY <1>1, <2>2 DEF CadenceElapses, NatsIInv, NatsTypeOK, EventInOrder,
       InvocationInOrder, Strict, FallbackLocal
  <2>3. CASE UNCHANGED natsVars
    BY <1>1, <2>3 DEF natsVars, NatsIInv, NatsTypeOK, EventInOrder,
       InvocationInOrder, Strict, FallbackLocal
  <2> QED BY <1>1, <2>1, <2>2, <2>3 DEF NatsNext
<1> QED BY <1>1, NatsInitially, PTL DEF NatsSpec

(* nats.rs:176-187: however many callers share the client, one connect is  *)
(* attempted in any five seconds.                                          *)
THEOREM OneConnectInFiveSeconds == NatsSpec => []AttemptsAreSpaced
<1>1. NatsIInv => AttemptsAreSpaced
  BY DEF NatsIInv, AttemptsAreSpaced
<1> QED BY <1>1, NatsInvariance, PTL

(* nats.rs:222-224: in strict mode no event is seen or stored twice.         *)
THEOREM StrictNeverDuplicates == NatsSpec => []StrictSendsOnce
<1>1. NatsIInv => StrictSendsOnce
  <2>1. ASSUME NatsIInv, Strict, NEW c \in Publishers
        PROVE  copies[c].live <= 1 /\ copies[c].stored <= 1
    <3>1. /\ copies[c].live + late[c] <= 1 /\ copies[c].stored + late[c] <= 1
          /\ late[c] \in Nat /\ copies[c].live \in Nat /\ copies[c].stored \in Nat
      BY <2>1 DEF NatsIInv, NatsTypeOK, EventInOrder, Callers, Copies
    <3> QED BY <3>1
  <2> QED BY <2>1 DEF StrictSendsOnce
<1> QED BY <1>1, NatsInvariance, PTL

(* child_runner.rs:221-235: without local fallback no invocation runs twice. *)
THEOREM NoSecondDispatch == NatsSpec => []DispatchedOnce
<1>1. NatsIInv => DispatchedOnce
  <2>1. ASSUME NatsIInv, ~FallbackLocal, NEW c \in Dispatchers
        PROVE  copies[c].ran <= 1
    <3>1. /\ copies[c].ran + late[c] <= 1
          /\ late[c] \in Nat /\ copies[c].ran \in Nat
      BY <2>1 DEF NatsIInv, NatsTypeOK, InvocationInOrder, Callers, Copies
    <3> QED BY <3>1
  <2> QED BY <2>1 DEF DispatchedOnce
<1> QED BY <1>1, NatsInvariance, PTL

(* metrics.rs:143-184: published means stored, unavailable means unsent.   *)
THEOREM CountersTellTheTruth == NatsSpec => []OutcomesAreTruthful
<1>1. NatsIInv => OutcomesAreTruthful
  BY DEF NatsIInv, EventInOrder, OutcomesAreTruthful
<1> QED BY <1>1, NatsInvariance, PTL
===========================================================================
