-------------------------- MODULE ChildPoolProofs --------------------------
(***************************************************************************)
(* A call that waits is in the hands of its worker's driver until it is    *)
(* answered; and with payloads of one line each, the line a driver reads   *)
(* next is always the answer to the invocation it is serving.              *)
(***************************************************************************)
EXTENDS ChildPool, TLAPS

(* A call that has a worker has one that was spawned, for its command; and *)
(* a call that has not spawned yet has spawned none.                       *)
WorkersFit ==
  \A c \in Calls :
    /\ Stage(c) \in Holding \cup {"answered"} =>
         /\ call[c].worker \in Calls
         /\ worker[call[c].worker].driver # "unborn"
         /\ worker[call[c].worker].command = CommandOf(c)
    /\ Stage(c) \in {"idle", "spawning"} => worker[c].driver = "unborn"

(* What has not been sent is nowhere. *)
UnsentNowhere ==
  \A c \in Calls : Stage(c) \in {"idle", "spawning", "sending"} =>
    \A w \in Calls : c \notin QueuedCalls(w) /\ worker[w].current # c

PoolIInv ==
  /\ PoolTypeOK
  /\ WorkersFit
  /\ UnsentNowhere
  /\ NoCallCutShort

(* A driver that serves nothing has no line to read, and one that serves a *)
(* call has that call's.                                                   *)
LinesInStep ==
  \A w \in Calls :
    /\ worker[w].driver \in {"unborn", "idle"} => worker[w].output = <<>>
    /\ worker[w].driver = "busy" =>
         /\ worker[w].current \in Calls
         /\ worker[w].output = <<worker[w].current>>

OwnAnswers == \A c \in Calls : Stage(c) = "answered" => call[c].answer = c

OneLineEach == \A c \in Calls : Request[c].payload = "line"

---------------------------------------------------------------------------
(* Queues, replies and the two kinds of step *)

(* What joins and what leaves a queue. *)
LEMMA QueueFacts ==
  ASSUME NEW q \in Seq(Calls), NEW c \in Calls
  PROVE  /\ Append(q, c) \in Seq(Calls)
         /\ {Append(q, c)[i] : i \in 1..Len(Append(q, c))} =
              {q[i] : i \in 1..Len(q)} \cup {c}
         /\ q # <<>> =>
              /\ Head(q) \in Calls /\ Tail(q) \in Seq(Calls)
              /\ {q[i] : i \in 1..Len(q)} =
                   {Tail(q)[i] : i \in 1..Len(Tail(q))} \cup {Head(q)}
  <1>1. /\ Append(q, c) \in Seq(Calls) /\ Len(Append(q, c)) = Len(q) + 1
        /\ \A i \in 1..Len(q) : Append(q, c)[i] = q[i]
        /\ Append(q, c)[Len(q) + 1] = c
    OBVIOUS
  <1>2. {Append(q, c)[i] : i \in 1..Len(Append(q, c))} =
          {q[i] : i \in 1..Len(q)} \cup {c}
    <2>1. ASSUME NEW x \in {q[i] : i \in 1..Len(q)} \cup {c}
          PROVE  \E i \in 1..(Len(q) + 1) : x = Append(q, c)[i]
      BY <1>1
    <2>2. \A i \in 1..(Len(q) + 1) : i \in 1..Len(q) \/ i = Len(q) + 1
      OBVIOUS
    <2> QED BY <1>1, <2>1, <2>2
  <1>3. ASSUME q # <<>>
        PROVE  /\ Head(q) \in Calls /\ Tail(q) \in Seq(Calls)
               /\ {q[i] : i \in 1..Len(q)} =
                    {Tail(q)[i] : i \in 1..Len(Tail(q))} \cup {Head(q)}
    <2>1. /\ Head(q) = q[1] /\ Head(q) \in Calls /\ Tail(q) \in Seq(Calls)
          /\ Len(q) \in Nat \ {0} /\ Len(Tail(q)) = Len(q) - 1
          /\ \A i \in 1..(Len(q) - 1) : Tail(q)[i] = q[i + 1]
      BY <1>3
    <2>2. ASSUME NEW i \in 1..Len(q)
          PROVE  q[i] \in {Tail(q)[j] : j \in 1..Len(Tail(q))} \cup {Head(q)}
      <3>1. CASE i = 1
        BY <2>1, <3>1
      <3>2. CASE i # 1
        <4>1. i - 1 \in 1..(Len(q) - 1) /\ Tail(q)[i - 1] = q[i]
          BY <2>1, <3>2
        <4> QED BY <2>1, <4>1
      <3> QED BY <3>1, <3>2
    <2>3. ASSUME NEW i \in 1..Len(Tail(q))
          PROVE  Tail(q)[i] \in {q[j] : j \in 1..Len(q)}
      <3>1. i + 1 \in 1..Len(q) /\ Tail(q)[i] = q[i + 1]
        BY <2>1
      <3> QED BY <3>1
    <2>4. Head(q) \in {q[j] : j \in 1..Len(q)}
      BY <2>1
    <2> QED BY <2>1, <2>2, <2>3, <2>4
  <1> QED BY <1>1, <1>2, <1>3

(* What a reply does to the calls: an answer, and an error. *)
LEMMA AnswerFacts ==
  ASSUME PoolTypeOK, NEW S, NEW line \in Calls, Reply(S, "answered", line)
  PROVE  /\ call' \in [Calls -> CallState]
         /\ \A c \in Calls :
              /\ call'[c].worker = call[c].worker
              /\ \/ call'[c] = call[c] /\ ~(c \in S /\ Stage(c) = "awaiting")
                 \/ /\ c \in S /\ Stage(c) = "awaiting"
                    /\ call'[c].stage = "answered" /\ call'[c].answer = line
  <1>1. ASSUME NEW c \in Calls
        PROVE  [call[c] EXCEPT !.stage = "answered", !.answer = line] \in CallState
    BY DEF PoolTypeOK, CallState, CallStages
  <1> QED BY <1>1 DEF Reply, PoolTypeOK, CallState, Stage

LEMMA ErrorFacts ==
  ASSUME PoolTypeOK, NEW S, Reply(S, "removing", NoCall)
  PROVE  /\ call' \in [Calls -> CallState]
         /\ \A c \in Calls :
              /\ call'[c].worker = call[c].worker
              /\ \/ call'[c] = call[c] /\ ~(c \in S /\ Stage(c) = "awaiting")
                 \/ /\ c \in S /\ Stage(c) = "awaiting"
                    /\ call'[c].stage = "removing" /\ call'[c].answer = NoCall
  <1>1. ASSUME NEW c \in Calls
        PROVE  [call[c] EXCEPT !.stage = "removing", !.answer = NoCall] \in CallState
    BY DEF PoolTypeOK, CallState, CallStages
  <1> QED BY <1>1 DEF Reply, PoolTypeOK, CallState, Stage

(* The invocations of a worker that wait in its queue or are being served. *)
QueueOf(v) == {v.queue[i] : i \in 1..Len(v.queue)}
Carries(v, c) ==
  \/ v.driver = "busy" /\ v.current = c
  \/ v.driver \in {"idle", "busy", "closing"} /\ c \in QueueOf(v)

LEMMA InFlightIsCarried ==
  /\ \A w, c : InFlight(w, c) <=> Carries(worker[w], c)
  /\ \A w, c : InFlight(w, c)' <=> Carries(worker'[w], c)
  BY DEF InFlight, Carries, QueueOf, QueuedCalls, Alive

(* A step of a driver or its child keeps the invariant when it loses no    *)
(* invocation that still waits and invents none.                           *)
LEMMA WorkerStep ==
  ASSUME PoolIInv, NEW w \in Calls, NEW new \in Worker,
         worker' = [worker EXCEPT ![w] = new],
         new.command = worker[w].command,
         worker[w].driver # "unborn", new.driver # "unborn",
         pool' = pool, call' \in [Calls -> CallState],
         \A c \in Calls :
           /\ call'[c].worker = call[c].worker
           /\ \/ call'[c] = call[c]
              \/ Stage(c) = "awaiting" /\ call'[c].stage \in {"answered", "removing"},
         QueueOf(new) \subseteq QueueOf(worker[w]),
         new.current \in QueueOf(worker[w]) \cup {worker[w].current, NoCall},
         \A c \in Calls : call'[c].stage = "awaiting" =>
           (Carries(new, c) <=> Carries(worker[w], c))
  PROVE  PoolIInv'
  <1> USE DEF PoolIInv, Stage, Holding
  <1>. NoCall \notin Calls
    BY NoCallAssumption
  <1>1. \A v \in Calls : worker'[v] = IF v = w THEN new ELSE worker[v]
    BY DEF PoolTypeOK
  <1>2. PoolTypeOK'
    BY DEF PoolTypeOK
  <1>3. \A v \in Calls : /\ worker'[v].command = worker[v].command
                         /\ worker'[v].driver = "unborn" <=>
                            worker[v].driver = "unborn"
    BY <1>1
  <1>4. WorkersFit'
    BY <1>3 DEF WorkersFit
  <1>5. UnsentNowhere'
    <2> SUFFICES ASSUME NEW c \in Calls, Stage(c)' \in {"idle", "spawning", "sending"},
                        NEW v \in Calls
                 PROVE  c \notin QueuedCalls(v)' /\ worker'[v].current # c
      BY DEF UnsentNowhere
    <2>1. Stage(c) \in {"idle", "spawning", "sending"}
      OBVIOUS
    <2>2. c \notin QueuedCalls(v) /\ worker[v].current # c
      BY <2>1 DEF UnsentNowhere
    <2>3. QueuedCalls(v) = QueueOf(worker[v]) /\ QueuedCalls(v)' = QueueOf(worker'[v])
      BY DEF QueuedCalls, QueueOf
    <2> HIDE DEF PoolIInv
    <2>4. CASE v = w
      <3>1. c \notin QueueOf(new) /\ new.current # c
        BY <2>2, <2>3, <2>4
      <3> QED BY <1>1, <2>3, <2>4, <3>1
    <2> QED BY <1>1, <2>2, <2>3, <2>4
  <1>6. NoCallCutShort'
    <2> SUFFICES ASSUME NEW c \in Calls, Stage(c)' = "awaiting", NEW v \in Calls
                 PROVE  Carries(worker'[v], c) <=> v = call'[c].worker
      BY InFlightIsCarried DEF NoCallCutShort
    <2>1. Stage(c) = "awaiting" /\ call'[c].worker = call[c].worker
      OBVIOUS
    <2>2. Carries(worker[v], c) <=> v = call[c].worker
      BY <2>1, InFlightIsCarried DEF NoCallCutShort
    <2> QED BY <1>1, <2>1, <2>2
  <1> QED BY <1>2, <1>4, <1>5, <1>6

(* A step of a call keeps the invariant when it touches no worker and the  *)
(* call does not begin to wait.                                            *)
LEMMA CallOnlyStep ==
  ASSUME PoolIInv, NEW c \in Calls, NEW new \in CallState,
         call' = [call EXCEPT ![c] = new], worker' = worker,
         pool' \in [Keys -> Calls \cup {NoCall}],
         \/ new.stage \in {"removing"} /\ new.worker = call[c].worker
            /\ Stage(c) \in {"sending", "awaiting"}
         \/ new.stage = "failed"
         \/ new.stage = "spawning" /\ Stage(c) = "idle"
         \/ /\ new.stage = "sending" /\ Stage(c) = "idle" /\ new.worker \in Calls
            /\ worker[new.worker].driver # "unborn"
            /\ worker[new.worker].command = CommandOf(c)
  PROVE  PoolIInv'
  <1> USE DEF PoolIInv, Stage, Holding
  <1>1. \A d \in Calls : call'[d] = IF d = c THEN new ELSE call[d]
    BY DEF PoolTypeOK
  <1>2. PoolTypeOK'
    BY DEF PoolTypeOK
  <1>3. WorkersFit'
    BY <1>1 DEF WorkersFit
  <1>4. UnsentNowhere'
    BY <1>1 DEF UnsentNowhere, QueuedCalls
  <1>5. NoCallCutShort'
    BY <1>1 DEF NoCallCutShort, InFlight, Alive, QueuedCalls
  <1> QED BY <1>2, <1>3, <1>4, <1>5

---------------------------------------------------------------------------
(* Every step *)

(* The invariant holds of an empty pool. *)
LEMMA PoolInitInvariant == PoolInit => PoolIInv /\ LinesInStep /\ OwnAnswers
  <1> SUFFICES ASSUME PoolInit PROVE PoolIInv /\ LinesInStep /\ OwnAnswers
    OBVIOUS
  <1>1. PoolTypeOK
    BY DEF PoolInit, PoolTypeOK, Worker, DriverStates, NewWorker, CallState,
       CallStages, Commands
  <1>2. \A c \in Calls :
          /\ call[c].stage = "idle"
          /\ worker[c].driver = "unborn" /\ worker[c].output = <<>>
          /\ worker[c].current = NoCall /\ worker[c].queue = <<>>
    BY DEF PoolInit, NewWorker
  <1>3. \A c \in Calls : QueuedCalls(c) = {}
    BY <1>2 DEF QueuedCalls
  <1>4. WorkersFit /\ LinesInStep /\ NoCallCutShort /\ OwnAnswers
    BY <1>2 DEF LinesInStep, WorkersFit, NoCallCutShort, OwnAnswers, Stage, Holding
  <1>5. UnsentNowhere
    BY <1>2, <1>3, NoCallAssumption DEF UnsentNowhere
  <1> QED BY <1>1, <1>4, <1>5 DEF PoolIInv

(* A step of a call keeps the invariant. *)
LEMMA CallKeepsInvariant ==
  ASSUME PoolIInv, NEW c \in Calls, CallProgress(c) \/ Abandon(c)
  PROVE  PoolIInv'
  <1>. /\ KeyOf(c) \in Keys /\ CommandOf(c) \in Commands /\ NoCall \notin Calls
       /\ PoolTypeOK /\ call[c] \in CallState
    BY NoCallAssumption DEF Keys, Commands, PoolIInv, PoolTypeOK
  <1>1. CASE Reuse(c)
    <2> DEFINE new == [call[c] EXCEPT !.stage = "sending", !.worker = pool[KeyOf(c)]]
    <2>1. pool[KeyOf(c)] \in Calls
      BY <1>1 DEF Reuse, Reusable, PoolTypeOK
    <2>2. new \in CallState /\ call' = [call EXCEPT ![c] = new] /\ worker' = worker
          /\ new.stage = "sending" /\ new.worker = pool[KeyOf(c)] /\ pool' = pool
          /\ Stage(c) = "idle"
      BY <1>1, <2>1 DEF Reuse, CallState, CallStages
    <2>3. /\ worker[pool[KeyOf(c)]].driver # "unborn"
          /\ worker[pool[KeyOf(c)]].command = CommandOf(c)
      BY <1>1 DEF Reuse, Reusable, Alive
    <2> HIDE DEF new
    <2> QED BY <2>1, <2>2, <2>3, CallOnlyStep DEF PoolTypeOK
  <1>2. CASE MakeRoom(c)
    <2> DEFINE new == [call[c] EXCEPT !.stage = "spawning"]
    <2>1. new \in CallState /\ call' = [call EXCEPT ![c] = new] /\ worker' = worker
          /\ new.stage = "spawning" /\ Stage(c) = "idle"
          /\ pool' \in [Keys -> Calls \cup {NoCall}]
      BY <1>2 DEF MakeRoom, Step, CallState, CallStages, PoolTypeOK
    <2> HIDE DEF new
    <2> QED BY <2>1, CallOnlyStep
  <1>3. CASE Spawn(c)
    <2>1. NewWorker(c, "idle") \in Worker
      BY DEF NewWorker, Worker, DriverStates
    <2>2. PoolTypeOK'
      BY <1>3, <2>1 DEF Spawn, PoolTypeOK, CallState, CallStages
    <2>3. worker[c].driver = "unborn"
      BY <1>3 DEF Spawn, WorkersFit, PoolIInv
    <2>4. \A w \in Calls :
            worker'[w] = IF w = c THEN NewWorker(c, "idle") ELSE worker[w]
      BY <1>3 DEF Spawn, PoolTypeOK
    <2>5. \A d \in Calls :
            call'[d] = IF d = c THEN [call[c] EXCEPT !.stage = "sending", !.worker = c]
                       ELSE call[d]
      BY <1>3 DEF Spawn, PoolTypeOK
    <2>6. WorkersFit'
      BY <1>3, <2>3, <2>4, <2>5 DEF Spawn, NewWorker, WorkersFit, PoolTypeOK,
         CallState, PoolIInv, Stage, Holding
    <2>7. /\ NewWorker(c, "idle").queue = <<>> /\ NewWorker(c, "idle").current = NoCall
          /\ NewWorker(c, "idle").driver = "idle"
          /\ QueueOf(NewWorker(c, "idle")) = {}
      BY DEF NewWorker, QueueOf
    <2>8. \A d \in Calls : ~Carries(worker[c], d) /\ ~Carries(worker'[c], d)
      BY <2>3, <2>4, <2>7 DEF Carries
    <2>9. \A d \in Calls : /\ Stage(d)' # Stage(d) => d = c
                           /\ Stage(c) = "spawning" /\ Stage(c)' = "sending"
                           /\ d # c => call'[d] = call[d]
      BY <1>3, <2>5 DEF Spawn, Stage, PoolTypeOK, CallState
    <2>10. UnsentNowhere'
      <3> SUFFICES ASSUME NEW d \in Calls, Stage(d)' \in {"idle", "spawning", "sending"},
                          NEW v \in Calls
                   PROVE  d \notin QueuedCalls(v)' /\ worker'[v].current # d
        BY DEF UnsentNowhere
      <3>1. Stage(d) \in {"idle", "spawning", "sending"}
        BY <2>9
      <3>2. d \notin QueuedCalls(v) /\ worker[v].current # d
        BY <3>1 DEF UnsentNowhere, PoolIInv
      <3>3. QueuedCalls(c)' = {}
        BY <2>4, <2>7 DEF QueuedCalls
      <3>4. CASE v = c
        BY <2>4, <2>7, <3>3, <3>4
      <3>5. CASE v # c
        BY <2>4, <3>2, <3>5 DEF QueuedCalls
      <3> QED BY <3>4, <3>5
    <2>11. NoCallCutShort'
      <3> SUFFICES ASSUME NEW d \in Calls, Stage(d)' = "awaiting", NEW v \in Calls
                   PROVE  Carries(worker'[v], d) <=> v = call'[d].worker
        BY InFlightIsCarried DEF NoCallCutShort
      <3>1. Stage(d) = "awaiting" /\ call'[d] = call[d]
        BY <2>9
      <3>2. Carries(worker[v], d) <=> v = call[d].worker
        BY <3>1, InFlightIsCarried DEF NoCallCutShort, PoolIInv
      <3> QED BY <2>4, <2>8, <3>1, <3>2
    <2> QED BY <2>2, <2>6, <2>10, <2>11 DEF PoolIInv
  <1>4. CASE Send(c)
    <2> DEFINE w == call[c].worker
               new == [worker[w] EXCEPT !.queue = Append(@, c)]
    <2>1. w \in Calls
      BY <1>4 DEF Send, WorkersFit, PoolIInv, Stage, Holding
    <2>2. worker[w] \in Worker /\ worker[w].queue \in Seq(Calls)
      BY <2>1 DEF PoolTypeOK, Worker
    <2>3. Append(worker[w].queue, c) \in Seq(Calls)
      BY <2>2, QueueFacts
    <2>4. worker' = [worker EXCEPT ![w] = new] /\ pool' = pool /\ Alive(w)
          /\ Stage(c) = "sending" /\ call' = [call EXCEPT ![c].stage = "awaiting"]
      BY <1>4 DEF Send, Step
    <2>5. new \in Worker /\ new.driver = worker[w].driver
          /\ new.current = worker[w].current /\ new.command = worker[w].command
          /\ new.queue = Append(worker[w].queue, c)
      BY <2>2, <2>3 DEF Worker
    <2>6. QueueOf(new) = QueueOf(worker[w]) \cup {c}
      <3> DEFINE q == worker[w].queue
      <3>1. q \in Seq(Calls) /\ new.queue = Append(q, c)
        BY <2>2, <2>5
      <3> HIDE DEF q
      <3>2. {Append(q, c)[i] : i \in 1..Len(Append(q, c))} =
              {q[i] : i \in 1..Len(q)} \cup {c}
        BY <3>1, QueueFacts
      <3>3. QueueOf(new) = {Append(q, c)[i] : i \in 1..Len(Append(q, c))}
        BY <3>1, Zenon DEF QueueOf
      <3>4. QueueOf(worker[w]) = {q[i] : i \in 1..Len(q)}
        BY Zenon DEF QueueOf, q
      <3> QED BY <3>2, <3>3, <3>4
    <2> HIDE DEF new, w
    <2>7. \A v \in Calls : worker'[v] = IF v = w THEN new ELSE worker[v]
      BY <2>1, <2>4 DEF PoolTypeOK
    <2>8. \A d \in Calls :
            call'[d] = IF d = c THEN [call[c] EXCEPT !.stage = "awaiting"] ELSE call[d]
      BY <2>4 DEF PoolTypeOK
    <2>9. [call[c] EXCEPT !.stage = "awaiting"] \in CallState
          /\ [call[c] EXCEPT !.stage = "awaiting"].worker = w
          /\ [call[c] EXCEPT !.stage = "awaiting"].stage = "awaiting"
      BY DEF CallState, CallStages, w
    <2>10. PoolTypeOK'
      BY <2>1, <2>4, <2>5, <2>7, <2>8, <2>9 DEF PoolTypeOK
    <2>11. WorkersFit'
      BY <2>4, <2>5, <2>7, <2>8, <2>9 DEF WorkersFit, PoolIInv, Stage, Holding, w
    <2>12. UnsentNowhere'
      <3> SUFFICES ASSUME NEW d \in Calls, Stage(d)' \in {"idle", "spawning", "sending"},
                          NEW v \in Calls
                   PROVE  d \notin QueuedCalls(v)' /\ worker'[v].current # d
        BY DEF UnsentNowhere
      <3>1. d # c /\ Stage(d) \in {"idle", "spawning", "sending"}
        BY <2>8, <2>9 DEF Stage
      <3>2. d \notin QueuedCalls(v) /\ worker[v].current # d
        BY <3>1 DEF UnsentNowhere, PoolIInv
      <3>3. QueuedCalls(v) = QueueOf(worker[v]) /\ QueuedCalls(v)' = QueueOf(worker'[v])
        BY DEF QueuedCalls, QueueOf
      <3>4. CASE v = w
        <4>1. d \notin QueueOf(new)
          BY <2>6, <3>1, <3>2, <3>3, <3>4
        <4> QED BY <2>5, <2>7, <3>2, <3>3, <3>4, <4>1
      <3> QED BY <2>7, <3>2, <3>3, <3>4
    <2>13. NoCallCutShort'
      <3> SUFFICES ASSUME NEW d \in Calls, Stage(d)' = "awaiting", NEW v \in Calls
                   PROVE  Carries(worker'[v], d) <=> v = call'[d].worker
        BY InFlightIsCarried DEF NoCallCutShort
      <3>1. CASE d = c
        <4>1. ~Carries(worker[v], c)
          BY <2>4 DEF UnsentNowhere, PoolIInv, Carries, QueueOf, QueuedCalls
        <4>2. Carries(new, c)
          BY <2>4, <2>5, <2>6 DEF Carries, Alive
        <4> QED BY <2>7, <2>8, <2>9, <3>1, <4>1, <4>2
      <3>2. CASE d # c
        <4>1. Stage(d) = "awaiting" /\ call'[d] = call[d]
          BY <2>8, <3>2 DEF Stage
        <4>2. Carries(worker[v], d) <=> v = call[d].worker
          BY <4>1, InFlightIsCarried DEF NoCallCutShort, PoolIInv
        <4>3. Carries(new, d) <=> Carries(worker[w], d)
          BY <2>5, <2>6, <3>2 DEF Carries
        <4> QED BY <2>7, <4>1, <4>2, <4>3
      <3> QED BY <3>1, <3>2
    <2> QED BY <2>10, <2>11, <2>12, <2>13 DEF PoolIInv
  <1>5. CASE SendFails(c) \/ TimeOut(c)
    <2> DEFINE new == [call[c] EXCEPT !.stage = "removing"]
    <2>1. new \in CallState /\ call' = [call EXCEPT ![c] = new] /\ worker' = worker
          /\ new.stage = "removing" /\ new.worker = call[c].worker
          /\ Stage(c) \in {"sending", "awaiting"} /\ pool' = pool
      BY <1>5 DEF SendFails, TimeOut, Step, CallState, CallStages
    <2> HIDE DEF new
    <2> QED BY <2>1, CallOnlyStep DEF PoolTypeOK
  <1>6. CASE Refuse(c) \/ SpawnFails(c) \/ Remove(c) \/ Abandon(c)
    <2> DEFINE new == [call[c] EXCEPT !.stage = "failed", !.worker = NoCall]
    <2>1. new \in CallState /\ call' = [call EXCEPT ![c] = new] /\ worker' = worker
          /\ new.stage = "failed" /\ pool' \in [Keys -> Calls \cup {NoCall}]
      BY <1>6 DEF Refuse, SpawnFails, Remove, Abandon, Return, CallState, CallStages,
         PoolTypeOK
    <2> HIDE DEF new
    <2> QED BY <2>1, CallOnlyStep
  <1> QED BY <1>1, <1>2, <1>3, <1>4, <1>5, <1>6 DEF CallProgress

(* A step of a driver or its child keeps the invariant. *)
LEMMA DriverKeepsInvariant ==
  ASSUME PoolIInv, NEW w \in Calls, DriverProgress(w) \/ ChildExits(w) \/ ChildHangs(w)
  PROVE  PoolIInv'
  <1>. /\ NoCall \notin Calls /\ PoolTypeOK
       /\ worker[w] \in Worker /\ worker[w].queue \in Seq(Calls)
       /\ worker[w].current \in Calls \cup {NoCall}
       /\ worker[w].output \in Seq(Calls) /\ <<>> \in Seq(Calls)
       /\ Request \in [Calls -> Requests]
    BY NoCallAssumption, RequestAssumption DEF PoolIInv, PoolTypeOK, Worker
  <1>1. CASE TakeInvocation(w)
    <2> DEFINE c == Head(worker[w].queue)
    <2>1. PICK n \in AnswersTo(Request[c].payload) :
            worker' = [worker EXCEPT
              ![w].driver = "busy", ![w].current = c, ![w].queue = Tail(@),
              ![w].output = @ \o [i \in 1..n |-> c]]
      BY <1>1 DEF TakeInvocation
    <2> DEFINE new == [worker[w] EXCEPT !.driver = "busy", !.current = c,
                         !.queue = Tail(@), !.output = @ \o [i \in 1..n |-> c]]
    <2>2. c \in Calls /\ Tail(worker[w].queue) \in Seq(Calls)
          /\ worker[w].queue # <<>>
      BY <1>1 DEF TakeInvocation
    <2>3. n \in Nat
      <3>1. Request[c].payload \in {"line", "two lines", "oversize"}
        BY <2>2 DEF Requests
      <3> HIDE DEF c
      <3>2. AnswersTo(Request[c].payload) \subseteq {1, 2}
        BY <3>1 DEF AnswersTo
      <3> QED BY <3>2
    <2>4. QueueOf(worker[w]) =
            {Tail(worker[w].queue)[i] : i \in 1..Len(Tail(worker[w].queue))} \cup {c}
      <3> DEFINE q == worker[w].queue
      <3>1. q \in Seq(Calls) /\ q # <<>> /\ c = Head(q)
        BY <2>2
      <3> HIDE DEF q
      <3>2. {q[i] : i \in 1..Len(q)} =
              {Tail(q)[i] : i \in 1..Len(Tail(q))} \cup {Head(q)}
        BY <2>2, <3>1, QueueFacts
      <3> QED BY <3>1, <3>2, Zenon DEF QueueOf, q
    <2> HIDE DEF c
    <2>5. [i \in 1..n |-> c] \in Seq(Calls)
      BY <2>2, <2>3
    <2>6. worker[w].output \o [i \in 1..n |-> c] \in Seq(Calls)
      BY <2>5
    <2>7. new \in Worker /\ new.command = worker[w].command /\ new.driver = "busy"
          /\ new.current = c /\ new.queue = Tail(worker[w].queue)
      BY <2>2, <2>6 DEF Worker, DriverStates
    <2>8. /\ worker' = [worker EXCEPT ![w] = new] /\ worker[w].driver = "idle"
          /\ pool' = pool /\ call' = call
      BY <1>1, <2>1 DEF TakeInvocation, c
    <2> HIDE DEF new
    <2>9. QueueOf(worker[w]) = QueueOf(new) \cup {c}
      BY <2>4, <2>7, Zenon DEF QueueOf
    <2>10. \A d \in Calls : Carries(new, d) <=> Carries(worker[w], d)
      BY <2>7, <2>8, <2>9 DEF Carries
    <2> QED BY <2>7, <2>8, <2>9, <2>10, WorkerStep DEF PoolTypeOK
  <1>2. CASE ReadLine(w)
    <2> DEFINE c == worker[w].current
               new == [worker[w] EXCEPT !.driver = "idle", !.current = NoCall,
                                        !.output = Tail(@)]
    <2>1. Tail(worker[w].output) \in Seq(Calls) /\ Head(worker[w].output) \in Calls
      BY <1>2 DEF ReadLine
    <2>2. new \in Worker /\ new.command = worker[w].command /\ new.driver = "idle"
          /\ new.current = NoCall /\ new.queue = worker[w].queue
      BY <2>1 DEF Worker, DriverStates
    <2>3. /\ worker' = [worker EXCEPT ![w] = new] /\ worker[w].driver = "busy"
          /\ pool' = pool /\ Reply({c}, "answered", Head(worker[w].output))
      BY <1>2 DEF ReadLine
    <2> HIDE DEF new
    <2>4. QueueOf(new) = QueueOf(worker[w])
      BY <2>2 DEF QueueOf
    <2>5. /\ call' \in [Calls -> CallState]
          /\ \A d \in Calls :
               /\ call'[d].worker = call[d].worker
               /\ \/ call'[d] = call[d] /\ ~(d \in {c} /\ Stage(d) = "awaiting")
                  \/ /\ d \in {c} /\ Stage(d) = "awaiting"
                     /\ call'[d].stage = "answered" /\ call'[d].answer = Head(worker[w].output)
      BY <2>1, <2>3, AnswerFacts
    <2>6. \A d \in Calls : call'[d].stage = "awaiting" =>
            (Carries(new, d) <=> Carries(worker[w], d))
      BY <2>2, <2>3, <2>4, <2>5 DEF Carries, Stage
    <2> QED BY <2>2, <2>3, <2>4, <2>5, <2>6, WorkerStep
  <1>3. CASE DriverFails(w)
    <2> DEFINE c == worker[w].current
               new == [worker[w] EXCEPT !.driver = "closing", !.current = NoCall,
                                        !.output = <<>>]
    <2>1. new \in Worker /\ new.command = worker[w].command /\ new.driver = "closing"
          /\ new.current = NoCall /\ new.queue = worker[w].queue
      BY DEF Worker, DriverStates
    <2>2. /\ worker' = [worker EXCEPT ![w] = new] /\ worker[w].driver = "busy"
          /\ pool' = pool /\ Reply({c}, "removing", NoCall)
      BY <1>3 DEF DriverFails
    <2> HIDE DEF new
    <2>3. QueueOf(new) = QueueOf(worker[w])
      BY <2>1 DEF QueueOf
    <2>4. /\ call' \in [Calls -> CallState]
          /\ \A d \in Calls :
               /\ call'[d].worker = call[d].worker
               /\ \/ call'[d] = call[d] /\ ~(d \in {c} /\ Stage(d) = "awaiting")
                  \/ /\ d \in {c} /\ Stage(d) = "awaiting"
                     /\ call'[d].stage = "removing" /\ call'[d].answer = NoCall
      BY <2>2, ErrorFacts
    <2>5. \A d \in Calls : call'[d].stage = "awaiting" =>
            (Carries(new, d) <=> Carries(worker[w], d))
      BY <2>1, <2>2, <2>3, <2>4 DEF Carries, Stage
    <2> QED BY <2>1, <2>2, <2>3, <2>4, <2>5, WorkerStep
  <1>e. /\ Ended(worker[w]) \in Worker
        /\ Ended(worker[w]).command = worker[w].command
        /\ Ended(worker[w]).driver = "ended"
        /\ Ended(worker[w]).current = worker[w].current
        /\ QueueOf(Ended(worker[w])) = {}
    <2>1. Ended(worker[w]).queue = <<>>
      BY DEF Ended, Worker
    <2>2. QueueOf(Ended(worker[w])) = {}
      BY <2>1 DEF QueueOf
    <2> QED BY <2>2 DEF Ended, Worker, DriverStates
  <1>4. CASE Close(w)
    <2>1. /\ worker' = [worker EXCEPT ![w] = Ended(worker[w])]
          /\ worker[w].driver = "closing"
          /\ pool' = pool /\ Reply(QueuedCalls(w), "removing", NoCall)
      BY <1>4 DEF Close
    <2>2. /\ call' \in [Calls -> CallState]
          /\ \A d \in Calls :
               /\ call'[d].worker = call[d].worker
               /\ \/ call'[d] = call[d] /\ ~(d \in QueuedCalls(w) /\ Stage(d) = "awaiting")
                  \/ /\ d \in QueuedCalls(w) /\ Stage(d) = "awaiting"
                     /\ call'[d].stage = "removing" /\ call'[d].answer = NoCall
      BY <2>1, ErrorFacts
    <2>3. QueuedCalls(w) = QueueOf(worker[w])
      BY DEF QueuedCalls, QueueOf
    <2>4. \A d \in Calls : call'[d].stage = "awaiting" =>
            (Carries(Ended(worker[w]), d) <=> Carries(worker[w], d))
      BY <1>e, <2>1, <2>2, <2>3 DEF Carries, Stage
    <2> QED BY <1>e, <2>1, <2>2, <2>4, WorkerStep
  <1>5. CASE DriverStops(w)
    <2>1. /\ worker' = [worker EXCEPT ![w] = Ended(worker[w])]
          /\ worker[w].driver = "idle" /\ worker[w].queue = <<>>
          /\ pool' = pool /\ call' = call
      BY <1>5 DEF DriverStops
    <2>2. QueueOf(worker[w]) = {}
      BY <2>1 DEF QueueOf
    <2>3. \A d \in Calls : Carries(Ended(worker[w]), d) <=> Carries(worker[w], d)
      BY <1>e, <2>1, <2>2 DEF Carries
    <2> QED BY <1>e, <2>1, <2>2, <2>3, WorkerStep DEF PoolTypeOK
  <1>6. ASSUME NEW child \in {"gone", "hung"},
               worker' = [worker EXCEPT ![w].child = child],
               worker[w].driver \in {"idle", "busy"}, pool' = pool, call' = call
        PROVE  PoolIInv'
    <2> DEFINE new == [worker[w] EXCEPT !.child = child]
    <2>1. new \in Worker /\ new.command = worker[w].command
          /\ new.driver = worker[w].driver /\ new.queue = worker[w].queue
          /\ new.current = worker[w].current
      BY DEF Worker
    <2>2. worker' = [worker EXCEPT ![w] = new]
      BY <1>6
    <2> HIDE DEF new
    <2>3. QueueOf(new) = QueueOf(worker[w])
      BY <2>1 DEF QueueOf
    <2>4. \A d \in Calls : Carries(new, d) <=> Carries(worker[w], d)
      BY <2>1, <2>3 DEF Carries
    <2> QED BY <1>6, <2>1, <2>2, <2>3, <2>4, WorkerStep DEF PoolTypeOK
  <1>7. CASE ChildExits(w) \/ ChildHangs(w)
    BY <1>6, <1>7 DEF ChildExits, ChildHangs
  <1> QED BY <1>1, <1>2, <1>3, <1>4, <1>5, <1>7 DEF DriverProgress

LEMMA PoolStepInvariant == PoolIInv /\ [PoolNext]_poolVars => PoolIInv'
  <1> SUFFICES ASSUME PoolIInv, [PoolNext]_poolVars PROVE PoolIInv'
    OBVIOUS
  <1> USE DEF PoolIInv, PoolTypeOK, WorkersFit, UnsentNowhere, NoCallCutShort,
             InFlight, Alive, QueuedCalls, Stage, Holding
  <1>1. ASSUME NEW S \in SUBSET Keys, Evict(S) PROVE PoolIInv'
    BY <1>1 DEF Evict
  <1>2. CASE UNCHANGED poolVars
    BY <1>2 DEF poolVars
  <1> QED BY <1>1, <1>2, CallKeepsInvariant, DriverKeepsInvariant DEF PoolNext

---------------------------------------------------------------------------
(* Answers *)

(* Only the drivers answer, and each of them the call it serves. *)
LEMMA AnswersStepInvariant ==
  ASSUME OneLineEach, PoolIInv, LinesInStep, OwnAnswers, [PoolNext]_poolVars
  PROVE  LinesInStep' /\ OwnAnswers'
  <1> USE DEF Stage
  <1>. /\ worker \in [Calls -> Worker] /\ call \in [Calls -> CallState]
       /\ PoolTypeOK /\ NoCall \notin Calls
    BY NoCallAssumption DEF PoolIInv, PoolTypeOK
  <1>0. ASSUME UNCHANGED worker, NEW c \in Calls, NEW new,
               call' = [call EXCEPT ![c] = new], new.stage # "answered"
        PROVE  LinesInStep' /\ OwnAnswers'
    BY <1>0 DEF LinesInStep, OwnAnswers
  <1>1. ASSUME NEW c \in Calls, CallProgress(c) \/ Abandon(c)
        PROVE  LinesInStep' /\ OwnAnswers'
    <2>. call[c] \in CallState
      OBVIOUS
    <2>1. CASE Spawn(c)
      <3>1. worker' = [worker EXCEPT ![c] = NewWorker(c, "idle")]
            /\ NewWorker(c, "idle").driver = "idle"
            /\ NewWorker(c, "idle").output = <<>>
        BY <2>1 DEF Spawn, NewWorker
      <3>2. \A d \in Calls : call'[d].stage = "answered" => call'[d] = call[d]
        BY <2>1 DEF Spawn, CallState
      <3> QED BY <3>1, <3>2 DEF LinesInStep, OwnAnswers
    <2>2. CASE Send(c)
      <3>1. \A w \in Calls : /\ worker'[w].driver = worker[w].driver
                             /\ worker'[w].current = worker[w].current
                             /\ worker'[w].output = worker[w].output
        BY <2>2 DEF Send, Worker
      <3>2. \A d \in Calls : call'[d].stage = "answered" => call'[d] = call[d]
        BY <2>2 DEF Send, Step, CallState
      <3> QED BY <3>1, <3>2 DEF LinesInStep, OwnAnswers
    <2>3. CASE ~Spawn(c) /\ ~Send(c)
      <3>1. worker' = worker
        BY <1>1, <2>3 DEF CallProgress, Refuse, Reuse, MakeRoom, SpawnFails, SendFails,
           TimeOut, Remove, Abandon
      <3>2. \A d \in Calls : call'[d].stage = "answered" => call'[d] = call[d]
        BY <1>1, <2>3 DEF CallProgress, Refuse, Reuse, MakeRoom, SpawnFails, SendFails,
           TimeOut, Remove, Abandon, Step, Return, CallState
      <3> QED BY <3>1, <3>2 DEF LinesInStep, OwnAnswers
    <2> QED BY <2>1, <2>2, <2>3
  <1>2. ASSUME NEW w \in Calls, DriverProgress(w) \/ ChildExits(w) \/ ChildHangs(w)
        PROVE  LinesInStep' /\ OwnAnswers'
    <2>. /\ worker[w] \in Worker /\ worker[w].queue \in Seq(Calls)
      BY DEF Worker
    <2>1. CASE TakeInvocation(w)
      <3> DEFINE c == Head(worker[w].queue)
      <3>1. c \in Calls /\ worker[w].output = <<>> /\ call' = call
        BY <2>1 DEF TakeInvocation, LinesInStep
      <3>2. Request[c].payload = "line"
        BY <3>1 DEF OneLineEach
      <3>3. PICK n \in {1} :
              worker' = [worker EXCEPT
                ![w].driver = "busy", ![w].current = c, ![w].queue = Tail(@),
                ![w].output = @ \o [i \in 1..n |-> c]]
        BY <2>1, <3>2 DEF TakeInvocation, AnswersTo
      <3> HIDE DEF c
      <3>4. [i \in 1..n |-> c] = <<c>>
        BY <3>1, <3>3
      <3>5. worker[w].output \o [i \in 1..n |-> c] = <<c>>
        BY <3>1, <3>4
      <3>6. /\ worker'[w].driver = "busy" /\ worker'[w].current = c
            /\ worker'[w].output = <<c>>
            /\ \A v \in Calls : v # w => worker'[v] = worker[v]
        BY <3>3, <3>5 DEF Worker
      <3> QED BY <3>1, <3>6 DEF LinesInStep, OwnAnswers
    <2>2. CASE ReadLine(w)
      <3> DEFINE served == worker[w].current
      <3>1. served \in Calls /\ worker[w].output = <<served>>
        BY <2>2 DEF ReadLine, LinesInStep
      <3>2. Head(worker[w].output) = served /\ Tail(worker[w].output) = <<>>
        BY <3>1
      <3>3. /\ worker'[w].driver = "idle" /\ worker'[w].output = <<>>
            /\ \A v \in Calls : v # w => worker'[v] = worker[v]
            /\ Reply({served}, "answered", served)
        BY <2>2, <3>2 DEF ReadLine, Worker
      <3> HIDE DEF served
      <3>4. \A d \in Calls :
              call'[d] = call[d] \/ (d = served /\ call'[d].answer = served)
        BY <3>1, <3>3, AnswerFacts
      <3> QED BY <3>3, <3>4 DEF LinesInStep, OwnAnswers
    <2>3. CASE DriverFails(w)
      <3>1. /\ worker'[w].driver = "closing"
            /\ \A v \in Calls : v # w => worker'[v] = worker[v]
            /\ Reply({worker[w].current}, "removing", NoCall)
        BY <2>3 DEF DriverFails, Worker
      <3>2. \A d \in Calls : call'[d] = call[d] \/ call'[d].stage = "removing"
        BY <3>1, ErrorFacts
      <3> QED BY <3>1, <3>2 DEF LinesInStep, OwnAnswers
    <2>4. CASE Close(w)
      <3>1. /\ worker'[w].driver = "ended"
            /\ \A v \in Calls : v # w => worker'[v] = worker[v]
            /\ Reply(QueuedCalls(w), "removing", NoCall)
        BY <2>4 DEF Close, Ended, Worker
      <3>2. \A d \in Calls : call'[d] = call[d] \/ call'[d].stage = "removing"
        BY <3>1, ErrorFacts
      <3> QED BY <3>1, <3>2 DEF LinesInStep, OwnAnswers
    <2>5. CASE DriverStops(w)
      <3>1. /\ worker'[w].driver = "ended"
            /\ \A v \in Calls : v # w => worker'[v] = worker[v]
            /\ call' = call
        BY <2>5 DEF DriverStops, Ended, Worker
      <3> QED BY <3>1 DEF LinesInStep, OwnAnswers
    <2>6. CASE ChildExits(w) \/ ChildHangs(w)
      <3>1. /\ worker'[w].driver = worker[w].driver
            /\ worker'[w].current = worker[w].current
            /\ worker'[w].output = worker[w].output
            /\ \A v \in Calls : v # w => worker'[v] = worker[v]
            /\ call' = call
        BY <2>6 DEF ChildExits, ChildHangs, Worker
      <3> QED BY <3>1 DEF LinesInStep, OwnAnswers
    <2> QED BY <1>2, <2>1, <2>2, <2>3, <2>4, <2>5, <2>6 DEF DriverProgress
  <1>3. ASSUME UNCHANGED <<worker, call>> PROVE LinesInStep' /\ OwnAnswers'
    BY <1>3 DEF LinesInStep, OwnAnswers
  <1> QED BY <1>1, <1>2, <1>3 DEF PoolNext, Evict, poolVars

---------------------------------------------------------------------------
(* The theorems *)

(* Whatever evictions, replacements, timeouts and deaths come between, a   *)
(* call that waits is in the hands of one driver that will answer it: the  *)
(* one of the worker it was sent to.                                       *)
THEOREM NoCallIsCutShort == PoolSpec => []NoCallCutShort
  <1>1. PoolIInv => NoCallCutShort
    BY DEF PoolIInv
  <1> QED BY <1>1, PoolInitInvariant, PoolStepInvariant, PTL DEF PoolSpec

(* However calls, timeouts, evictions, exits and hangs interleave, no call *)
(* is given another call's answer or that of another command, provided     *)
(* that every payload is one line.                                         *)
THEOREM AnswersAreTheirCalls ==
  ASSUME OneLineEach
  PROVE  PoolSpec => []AnswersMatch
  <1> DEFINE Inv == PoolIInv /\ LinesInStep /\ OwnAnswers
  <1>1. Inv => AnswersMatch
    BY DEF PoolIInv, WorkersFit, OwnAnswers, AnswersMatch, Stage
  <1>2. Inv /\ [PoolNext]_poolVars => Inv'
    BY PoolStepInvariant, AnswersStepInvariant
  <1>3. PoolInit => Inv
    BY PoolInitInvariant
  <1> QED BY <1>1, <1>2, <1>3, PTL DEF PoolSpec

(* Functions that share the pool of a runtime on the host run the same     *)
(* command, so that none of them replaces the others' worker (containers   *)
(* with images of their own do).                                           *)
THEOREM HostNeighboursShareCommand ==
  ASSUME NEW d \in Definition, NEW e \in Definition, NEW i, NEW j,
         ~d.containerized, d.reuseKey = None, e.reuseKey = None,
         WorkerKey(i, d) = WorkerKey(j, e)
  PROVE  Command(d) = Command(e)
  <1>1. <<"pool", Place(d), RuntimeOf(d)>> = <<"pool", Place(e), RuntimeOf(e)>>
    BY DEF WorkerKey
  <1>2. RuntimeOf(d) = RuntimeOf(e) /\ Place(e) = "host"
    BY <1>1 DEF Place
  <1>3. ~e.containerized
    BY <1>2 DEF Place
  <1> QED BY <1>2, <1>3 DEF Command
===========================================================================
