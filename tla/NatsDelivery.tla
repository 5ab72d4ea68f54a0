--------------------------- MODULE NatsDelivery ---------------------------
(***************************************************************************)
(* Delivery over NATS: the cached connection, the publication of events    *)
(* (src/nats.rs) and the dispatch of invocations to the container pool     *)
(* with its local fallback (src/child_runner.rs, dispatch_via_pool).       *)
(*                                                                         *)
(* One mutex guards the cached client and is held while connecting.  A     *)
(* caller publishes one event, or dispatches one invocation, at a time.    *)
(* Whoever waits for the broker's answer and does not get it cannot know   *)
(* whether the broker got the message, did not, or gets it later.          *)
(* A configured broker is assumed; without a URL every call is a no-op.    *)
(***************************************************************************)
EXTENDS Integers

CONSTANTS
  Publishers,      \* callers of publish_event
  Dispatchers,     \* callers of dispatch_via_pool
  Nobody,          \* the holder of the mutex when it is free
  MaxFaults        \* bound: connects that fail in a behaviour

Callers == Publishers \cup Dispatchers

ASSUME CallersAssumption ==
  Publishers \cap Dispatchers = {} /\ Nobody \notin Callers
ASSUME FaultsAssumption == MaxFaults \in Nat

VARIABLES
  settings,  \* what the process was started with; nothing changes it
  client,    \* the mutex's data: a client is cached
  cooling,   \* last_attempt is less than five seconds ago
  holder,    \* the caller that connects, holding the mutex
  stage,     \* where each caller is
  outcome,   \* how its last call ended: the counter it incremented
  copies,    \* history: what became of the message of its last call
  late,      \* messages of each caller that the broker may still get
  attempts,  \* history: connects since the last time it was not cooling
  faults     \* bound: connects that have failed so far

natsVars == <<settings, client, cooling, holder, stage, outcome, copies, late,
              attempts, faults>>
linkVars == <<settings, client, cooling, holder, attempts, faults>>

(* FIDUCIA_NATS_STRICT_PUBLISH and LAMBDA_POOL_FALLBACK_LOCAL *)
Settings == [strict : BOOLEAN, fallbackLocal : BOOLEAN]
Strict == settings.strict
FallbackLocal == settings.fallbackLocal

Stages == {"idle", "entering", "connecting", "publishing", "fallback",
           "invalidating", "requesting", "local"}
Outcomes == {"none", "published", "core fallback", "failed", "unavailable",
             "answered"}
(* How often the event was stored by the stream, how often a live          *)
(* subscriber got it; how often the invocation ran, in the pool or here.   *)
Copies == [stored : Nat, live : Nat, ran : Nat]
NoCopies == [stored |-> 0, live |-> 0, ran |-> 0]

NatsTypeOK ==
  /\ settings \in Settings
  /\ client \in BOOLEAN /\ cooling \in BOOLEAN
  /\ holder \in Callers \cup {Nobody}
  /\ stage \in [Callers -> Stages]
  /\ outcome \in [Callers -> Outcomes]
  /\ copies \in [Callers -> Copies]
  /\ late \in [Callers -> Nat]
  /\ attempts \in Nat /\ faults \in Nat

NatsInit ==
  /\ settings \in Settings
  /\ client = FALSE
  /\ cooling = FALSE
  /\ holder = Nobody
  /\ stage = [c \in Callers |-> "idle"]
  /\ outcome = [c \in Callers |-> "none"]
  /\ copies = [c \in Callers |-> NoCopies]
  /\ late = [c \in Callers |-> 0]
  /\ attempts = 0
  /\ faults = 0

Goto(c, s) == stage' = [stage EXCEPT ![c] = s]
Finish(c, result) ==
  Goto(c, "idle") /\ outcome' = [outcome EXCEPT ![c] = result]

(* The broker gets c's message: an event is seen by the live subscribers,  *)
(* and stored when a stream is bound to its subject; an invocation is run. *)
Received(c, stored) ==
  copies' = [copies EXCEPT ![c] =
    [stored |-> IF stored THEN @.stored + 1 ELSE @.stored,
     live   |-> IF c \in Publishers THEN @.live + 1 ELSE @.live,
     ran    |-> IF c \in Dispatchers THEN @.ran + 1 ELSE @.ran]]

(* What may have become of a message nobody has answered for. *)
Unanswered(c) ==
  \/ UNCHANGED <<copies, late>>
  \/ late' = [late EXCEPT ![c] = @ + 1] /\ UNCHANGED copies
  \/ /\ \E stored \in BOOLEAN : (stored => c \in Publishers) /\ Received(c, stored)
     /\ UNCHANGED late

---------------------------------------------------------------------------
(* The client *)

BeginCall(c) ==
  /\ stage[c] = "idle"
  /\ late[c] = 0
  /\ Goto(c, "entering")
  /\ outcome' = [outcome EXCEPT ![c] = "none"]
  /\ copies' = [copies EXCEPT ![c] = NoCopies]
  /\ UNCHANGED <<linkVars, late>>

WithClient(c) == IF c \in Publishers THEN "publishing" ELSE "requesting"

UseCached(c) ==
  /\ stage[c] = "entering"
  /\ holder = Nobody
  /\ client
  /\ Goto(c, WithClient(c))
  /\ UNCHANGED <<linkVars, outcome, copies, late>>

(* No client: an event is dropped, an invocation runs here or fails. *)
NoClient(c) ==
  /\ UNCHANGED <<copies, late>>
  /\ IF c \in Dispatchers /\ FallbackLocal
     THEN Goto(c, "local") /\ UNCHANGED outcome
     ELSE Finish(c, "unavailable")

Refused(c) ==
  /\ stage[c] = "entering"
  /\ holder = Nobody
  /\ ~client
  /\ cooling
  /\ NoClient(c)
  /\ UNCHANGED linkVars

Connect(c) ==
  /\ stage[c] = "entering"
  /\ holder = Nobody
  /\ ~client
  /\ ~cooling
  /\ holder' = c
  /\ cooling' = TRUE
  /\ attempts' = attempts + 1
  /\ Goto(c, "connecting")
  /\ UNCHANGED <<settings, client, faults, outcome, copies, late>>

Connected(c) ==
  /\ stage[c] = "connecting"
  /\ holder' = Nobody
  /\ client' = TRUE
  /\ Goto(c, WithClient(c))
  /\ UNCHANGED <<settings, cooling, attempts, faults, outcome, copies, late>>

ConnectFails(c) ==
  /\ stage[c] = "connecting"
  /\ faults < MaxFaults
  /\ faults' = faults + 1
  /\ holder' = Nobody
  /\ NoClient(c)
  /\ UNCHANGED <<settings, client, cooling, attempts>>

(* Mutant: once a connect has failed it is not tried again. *)
CadenceOfSuccesses ==
  /\ cooling
  /\ client
  /\ cooling' = FALSE
  /\ attempts' = 0
  /\ UNCHANGED <<settings, client, holder, faults, stage, outcome, copies, late>>

(* Five seconds have passed; the connect itself may take longer. *)
CadenceElapses ==
  /\ cooling
  /\ cooling' = FALSE
  /\ attempts' = 0
  /\ UNCHANGED <<settings, client, holder, faults, stage, outcome, copies, late>>

(* Mutant: the attempt's time is forgotten with the client. *)
InvalidateAll(c) ==
  /\ stage[c] = "invalidating"
  /\ holder = Nobody
  /\ client' = FALSE
  /\ cooling' = FALSE
  /\ Goto(c, "idle")
  /\ UNCHANGED <<settings, holder, attempts, faults, outcome, copies, late>>

(* Whichever client is cached by now: it may be a newer one than failed. *)
Invalidate(c) ==
  /\ stage[c] = "invalidating"
  /\ holder = Nobody
  /\ client' = FALSE
  /\ Goto(c, "idle")
  /\ UNCHANGED <<settings, cooling, holder, attempts, faults, outcome, copies, late>>

---------------------------------------------------------------------------
(* publish_event *)

Acknowledged(c) ==
  /\ stage[c] = "publishing"
  /\ Received(c, TRUE)
  /\ Finish(c, "published")
  /\ UNCHANGED <<linkVars, late>>

Fail(c) ==
  /\ Goto(c, "invalidating")
  /\ outcome' = [outcome EXCEPT ![c] = "failed"]

(* Mutants: the strict setting is not consulted; the acknowledgement is   *)
(* not waited for.                                                        *)
UnackedAlwaysFallsBack(c) ==
  /\ stage[c] = "publishing"
  /\ Unanswered(c)
  /\ Goto(c, "fallback")
  /\ UNCHANGED <<linkVars, outcome>>
UnackedCountsAsPublished(c) ==
  /\ stage[c] = "publishing"
  /\ Unanswered(c)
  /\ Finish(c, "published")
  /\ UNCHANGED linkVars

Unacked(c) ==
  /\ stage[c] = "publishing"
  /\ Unanswered(c)
  /\ IF Strict THEN Fail(c) ELSE Goto(c, "fallback") /\ UNCHANGED outcome
  /\ UNCHANGED linkVars

(* Core NATS acknowledges nothing.  A stream bound to the subject stores   *)
(* what is published this way, too.                                        *)
CoreAccepted(c) ==
  /\ stage[c] = "fallback"
  /\ Unanswered(c)
  /\ Finish(c, "core fallback")
  /\ UNCHANGED linkVars

CoreFails(c) ==
  /\ stage[c] = "fallback"
  /\ Fail(c)
  /\ UNCHANGED <<linkVars, copies, late>>

---------------------------------------------------------------------------
(* dispatch_via_pool *)

PoolAnswers(c) ==
  /\ stage[c] = "requesting"
  /\ Received(c, FALSE)
  /\ Finish(c, "answered")
  /\ UNCHANGED <<linkVars, late>>

(* Mutant: an invocation the pool has not answered runs here. *)
PoolFailsOver(c) ==
  /\ stage[c] = "requesting"
  /\ Unanswered(c)
  /\ Goto(c, "local")
  /\ UNCHANGED <<linkVars, outcome>>

(* The request failed, its time ran out, or the reply is unreadable. *)
PoolFails(c) ==
  /\ stage[c] = "requesting"
  /\ Unanswered(c)
  /\ IF FallbackLocal THEN Goto(c, "local") /\ UNCHANGED outcome
     ELSE Finish(c, "failed")
  /\ UNCHANGED linkVars

(* What a call on the local pool goes through is ChildPool. *)
RunLocally(c) ==
  /\ stage[c] = "local"
  /\ Received(c, FALSE)
  /\ Finish(c, "answered")
  /\ UNCHANGED <<linkVars, late>>

---------------------------------------------------------------------------
(* The broker *)

LateArrival(c) ==
  /\ late[c] > 0
  /\ late' = [late EXCEPT ![c] = @ - 1]
  /\ \/ UNCHANGED copies
     \/ \E stored \in BOOLEAN : (stored => c \in Publishers) /\ Received(c, stored)
  /\ UNCHANGED <<linkVars, stage, outcome>>

---------------------------------------------------------------------------

CallStep(c) ==
  \/ UseCached(c)
  \/ Refused(c)
  \/ Connect(c)
  \/ Connected(c)
  \/ ConnectFails(c)
  \/ Invalidate(c)
  \/ Acknowledged(c)
  \/ Unacked(c)
  \/ CoreAccepted(c)
  \/ CoreFails(c)
  \/ PoolAnswers(c)
  \/ PoolFails(c)
  \/ RunLocally(c)

NatsNext ==
  \/ \E c \in Callers : BeginCall(c) \/ CallStep(c) \/ LateArrival(c)
  \/ CadenceElapses

NatsSpec == NatsInit /\ [][NatsNext]_natsVars

(* Connects, acknowledgements and requests return or time out, and tokio's *)
(* mutex serves its waiters in turn; five seconds pass.                    *)
FairNatsSpec ==
  /\ NatsSpec
  /\ \A c \in Callers : SF_natsVars(CallStep(c))
  /\ WF_natsVars(CadenceElapses)

---------------------------------------------------------------------------
(* Properties *)

(* nats.rs:5-6, 176-187: attempts are on a bounded cadence.  However many  *)
(* callers find no client, or throw one away, one of them connects in any  *)
(* five seconds.                                                           *)
AttemptsAreSpaced == attempts <= 1

(* nats.rs:222-224, child_runner.rs:221-235: strict mode never downgrades  *)
(* and a dispatch without local fallback ends with its error, so whatever  *)
(* is lost on the way back or arrives late, nobody sees an event twice and *)
(* no invocation runs twice.                                               *)
StrictSendsOnce ==
  Strict => \A c \in Publishers : copies[c].live <= 1 /\ copies[c].stored <= 1

DispatchedOnce ==
  ~FallbackLocal => \A c \in Dispatchers : copies[c].ran <= 1

(* metrics.rs:143-184: what a counter says of an event is so, whatever     *)
(* arrives late: a published one is in the stream, and one that found no   *)
(* client has reached nobody and never will.                               *)
OutcomesAreTruthful ==
  \A c \in Publishers :
    /\ outcome[c] = "published" => copies[c].stored > 0
    /\ outcome[c] = "unavailable" => copies[c] = NoCopies /\ late[c] = 0

(* The inductive invariant behind the four.  An event is sent to the       *)
(* stream once, so before that nothing is known of it anywhere; in strict  *)
(* mode a copy that is late is the only one there will be.  The same goes  *)
(* for an invocation that may not be run locally.                          *)
EventInOrder(c) ==
  /\ stage[c] \notin {"requesting", "local"}
  /\ stage[c] = "fallback" => ~Strict
  /\ stage[c] \in {"entering", "connecting", "publishing"} =>
       copies[c] = NoCopies /\ late[c] = 0
  /\ stage[c] \notin {"idle", "invalidating"} => outcome[c] = "none"
  /\ outcome[c] = "published" => copies[c].stored > 0
  /\ outcome[c] = "unavailable" => copies[c] = NoCopies /\ late[c] = 0
  /\ Strict => copies[c].live + late[c] <= 1 /\ copies[c].stored + late[c] <= 1

InvocationInOrder(c) ==
  /\ stage[c] \notin {"publishing", "fallback", "invalidating"}
  /\ stage[c] = "local" => FallbackLocal
  /\ stage[c] \in {"entering", "connecting", "requesting"} =>
       copies[c] = NoCopies /\ late[c] = 0
  /\ ~FallbackLocal => copies[c].ran + late[c] <= 1

NatsIInv ==
  /\ NatsTypeOK
  /\ attempts = 0 \/ (attempts = 1 /\ cooling)
  /\ \A c \in Publishers : EventInOrder(c)
  /\ \A c \in Dispatchers : InvocationInOrder(c)

(* nats.rs:5-6: a failed connect is retried, not cached for the lifetime   *)
(* of the process: as long as callers come, there is a client again.       *)
ClientComesBack ==
  ([]<>(\E c \in Callers : stage[c] = "entering")) => []<>client
=============================================================================
