----------------------------- MODULE ChildPool -----------------------------
(***************************************************************************)
(* The pool of warm child processes of src/child_runner.rs.                *)
(*                                                                         *)
(* A call (invoke_worker) finds or spawns the worker of its reuse key,     *)
(* sends its invocation over the worker's bounded channel and waits for    *)
(* the reply.  A driver task owns each child: it takes one invocation at a *)
(* time, writes the payload, and reads one line back as the answer.  The   *)
(* pool's map is behind a mutex that is held neither while a child is      *)
(* spawned nor while a call waits, so calls, drivers, evictions, timeouts  *)
(* and children interleave.  A worker whose senders are all gone ends: the *)
(* pool's entry is one, and every call on it keeps another until it ends.  *)
(*                                                                         *)
(* A call spawns at most one worker, which is named after it.              *)
(***************************************************************************)
EXTENDS FunctionRuntime, Sequences, FiniteSets

CONSTANTS
  Calls,       \* invocations; each is made once
  Identifiers, \* ids and slugs of functions
  Request,     \* what each call asks for
  NoCall,
  QueueCap     \* the channel's capacity, 16 in the code

(* A request body may bring line breaks of its own into the payload; and a *)
(* context that has grown may make it too long for the child.              *)
Requests == [identifier : Identifiers, definition : Definition,
             check : BOOLEAN, payload : {"line", "two lines", "oversize"}]

ASSUME RequestAssumption == Request \in [Calls -> Requests]
ASSUME NoCallAssumption == NoCall \notin Calls
ASSUME CapAssumption == QueueCap \in Nat \ {0}

DefinitionOf(c) == Request[c].definition

(* invoke_loaded_definition_local and check_definition *)
Accepted(c) ==
  /\ Runnable(DefinitionOf(c))
  /\ Request[c].check \/ SafeKey(DefinitionOf(c))

CommandOf(c) == Command(DefinitionOf(c))

KeyOf(c) ==
  IF Request[c].check
  THEN CheckWorkerKey(DefinitionOf(c))
  ELSE WorkerKey(Request[c].identifier, DefinitionOf(c))

Commands == {CommandOf(c) : c \in Calls}
Keys == {KeyOf(c) : c \in Calls}

(* How many lines the child writes for a payload.  It answers every line   *)
(* it reads.  What is too long it answers with an error and forgets; the   *)
(* rest of that payload, if it ends later, is one more line.               *)
AnswersTo(payload) ==
  CASE payload = "line"      -> {1}
    [] payload = "two lines" -> {2}
    [] payload = "oversize"  -> {1, 2}

VARIABLES
  pool,     \* the map: the worker each reuse key has, if any
  worker,   \* the workers there have been
  call      \* how far each call has come

poolVars == <<pool, worker, call>>

DriverStates == {"unborn", "idle", "busy", "closing", "ended"}

(* output: for each line the child will write, the call whose payload it  *)
(* answers.                                                               *)
Worker == [driver : DriverStates,
           child : {"up", "hung", "gone"},
           command : Commands,
           queue : Seq(Calls),
           current : Calls \cup {NoCall},
           output : Seq(Calls)]

CallStages == {"idle", "spawning", "sending", "awaiting", "removing",
               "answered", "failed"}
CallState == [stage : CallStages,
              worker : Calls \cup {NoCall},
              answer : Calls \cup {NoCall}]

PoolTypeOK ==
  /\ pool \in [Keys -> Calls \cup {NoCall}]
  /\ worker \in [Calls -> Worker]
  /\ call \in [Calls -> CallState]

NewWorker(c, driver) ==
  [driver |-> driver, child |-> "up", command |-> CommandOf(c),
   queue |-> <<>>, current |-> NoCall, output |-> <<>>]

PoolInit ==
  /\ pool = [k \in Keys |-> NoCall]
  /\ worker = [c \in Calls |-> NewWorker(c, "unborn")]
  /\ call = [c \in Calls |->
       [stage |-> "idle", worker |-> NoCall, answer |-> NoCall]]

Stage(c) == call[c].stage
Step(c, stage) == call' = [call EXCEPT ![c].stage = stage]
(* The call returns without an answer, and its sender is dropped. *)
Return(c) ==
  call' = [call EXCEPT ![c].stage = "failed", ![c].worker = NoCall]

(* The flag a driver clears when it leaves its loop. *)
Alive(w) == worker[w].driver \in {"idle", "busy", "closing"}

Holding == {"sending", "awaiting", "removing"}
(* Mutant: the driver task owns a sender of its own channel. *)
SendersWithDriver(w) ==
  {k \in Keys : pool[k] = w} \cup
  {c \in Calls : Stage(c) \in Holding /\ call[c].worker = w} \cup {w}

Senders(w) ==
  {k \in Keys : pool[k] = w} \cup
  {c \in Calls : Stage(c) \in Holding /\ call[c].worker = w}

---------------------------------------------------------------------------
(* A call *)

(* Mutant: the key alone decides. *)
ReusableByKey(w, c) == w # NoCall /\ Alive(w)

(* The slot's worker runs the same command and is alive. *)
Reusable(w, c) == w # NoCall /\ Alive(w) /\ worker[w].command = CommandOf(c)

(* No command, or no key: the call does not touch the pool. *)
Refuse(c) ==
  /\ Stage(c) = "idle"
  /\ ~Accepted(c)
  /\ Return(c)
  /\ UNCHANGED <<pool, worker>>

(* ensure_worker, under the lock: what cannot be reused leaves the map. *)
Reuse(c) ==
  /\ Stage(c) = "idle"
  /\ Accepted(c)
  /\ Reusable(pool[KeyOf(c)], c)
  /\ call' = [call EXCEPT ![c].stage = "sending", ![c].worker = pool[KeyOf(c)]]
  /\ UNCHANGED <<pool, worker>>

MakeRoom(c) ==
  /\ Stage(c) = "idle"
  /\ Accepted(c)
  /\ ~Reusable(pool[KeyOf(c)], c)
  /\ pool' = [pool EXCEPT ![KeyOf(c)] = NoCall]
  /\ Step(c, "spawning")
  /\ UNCHANGED worker

(* spawn_worker: the insert replaces whatever another call has put there  *)
(* since.                                                                 *)
Spawn(c) ==
  /\ Stage(c) = "spawning"
  /\ worker' = [worker EXCEPT ![c] = NewWorker(c, "idle")]
  /\ pool' = [pool EXCEPT ![KeyOf(c)] = c]
  /\ call' = [call EXCEPT ![c].stage = "sending", ![c].worker = c]

SpawnFails(c) ==
  /\ Stage(c) = "spawning"
  /\ Return(c)
  /\ UNCHANGED <<pool, worker>>

(* send waits, without a deadline, while the channel is full. *)
Send(c) ==
  LET w == call[c].worker IN
    /\ Stage(c) = "sending"
    /\ Alive(w)
    /\ Len(worker[w].queue) < QueueCap
    /\ worker' = [worker EXCEPT ![w].queue = Append(@, c)]
    /\ Step(c, "awaiting")
    /\ UNCHANGED pool

(* Mutant: a closed channel is waited for like a full one. *)
SendWaits(c) ==
  /\ Stage(c) = "sending"
  /\ worker[call[c].worker].driver = "ended"
  /\ UNCHANGED poolVars

SendFails(c) ==
  /\ Stage(c) = "sending"
  /\ worker[call[c].worker].driver = "ended"
  /\ Step(c, "removing")
  /\ UNCHANGED <<pool, worker>>

TimeOut(c) ==
  /\ Stage(c) = "awaiting"
  /\ Step(c, "removing")
  /\ UNCHANGED <<pool, worker>>

(* delete_worker removes by key, whichever worker is there by now. *)
Remove(c) ==
  /\ Stage(c) = "removing"
  /\ pool' = [pool EXCEPT ![KeyOf(c)] = NoCall]
  /\ Return(c)
  /\ UNCHANGED worker

(* The caller's future is dropped: the client went away, or the workflow   *)
(* engine lost the lease of the run.                                       *)
Abandon(c) ==
  /\ Stage(c) \in {"spawning", "sending", "awaiting", "removing"}
  /\ Return(c)
  /\ UNCHANGED <<pool, worker>>

(* destroy and reap_idle.  Which workers have been idle for long enough is *)
(* the clock's choice; last_used is not moved while a call waits.          *)
Evict(S) ==
  /\ \E k \in S : pool[k] # NoCall
  /\ pool' = [k \in Keys |-> IF k \in S THEN NoCall ELSE pool[k]]
  /\ UNCHANGED <<worker, call>>

---------------------------------------------------------------------------
(* A driver and its child *)

(* An answer or an error reaches a call that still waits for it. *)
Reply(S, stage, line) ==
  call' = [c \in Calls |->
    IF c \in S /\ Stage(c) = "awaiting"
    THEN [call[c] EXCEPT !.stage = stage, !.answer = line] ELSE call[c]]

QueuedCalls(w) == {worker[w].queue[i] : i \in 1..Len(worker[w].queue)}

TakeInvocation(w) ==
  /\ worker[w].driver = "idle"
  /\ worker[w].queue # <<>>
  /\ LET c == Head(worker[w].queue) IN
       \E n \in AnswersTo(Request[c].payload) :
         worker' = [worker EXCEPT
           ![w].driver = "busy", ![w].current = c, ![w].queue = Tail(@),
           ![w].output = @ \o [i \in 1..n |-> c]]
  /\ UNCHANGED <<pool, call>>

ReadLine(w) ==
  /\ worker[w].driver = "busy"
  /\ worker[w].child = "up"
  /\ worker[w].output # <<>>
  /\ Reply({worker[w].current}, "answered", Head(worker[w].output))
  /\ worker' = [worker EXCEPT
       ![w].driver = "idle", ![w].current = NoCall, ![w].output = Tail(@)]
  /\ UNCHANGED pool

(* The write fails, the child's output ends, or its line is too long. *)
DriverFails(w) ==
  /\ worker[w].driver = "busy"
  /\ worker[w].child # "hung"
  /\ Reply({worker[w].current}, "removing", NoCall)
  /\ worker' = [worker EXCEPT
       ![w].driver = "closing", ![w].current = NoCall, ![w].output = <<>>]
  /\ UNCHANGED pool

Ended(w) == [w EXCEPT !.driver = "ended", !.child = "gone",
                      !.queue = <<>>, !.output = <<>>]

(* The loop is left: the flag is cleared, the child killed, and the        *)
(* invocations still queued are dropped with the reply channels in them.   *)
Close(w) ==
  /\ worker[w].driver = "closing"
  /\ Reply(QueuedCalls(w), "removing", NoCall)
  /\ worker' = [worker EXCEPT ![w] = Ended(@)]
  /\ UNCHANGED pool

(* Mutant: a worker that has left the map ends, whoever is waiting. *)
DriverStopsUnmapped(w) ==
  /\ worker[w].driver \in {"idle", "busy"}
  /\ \A k \in Keys : pool[k] # w
  /\ worker' = [worker EXCEPT ![w] = Ended(@)]
  /\ UNCHANGED <<pool, call>>

(* recv returns nothing: the channel is empty and has no sender. *)
DriverStops(w) ==
  /\ worker[w].driver = "idle"
  /\ worker[w].queue = <<>>
  /\ Senders(w) = {}
  /\ worker' = [worker EXCEPT ![w] = Ended(@)]
  /\ UNCHANGED <<pool, call>>

(* A driver reads only when it has written, so it learns of this late. *)
ChildExits(w) ==
  /\ worker[w].driver \in {"idle", "busy"}
  /\ worker[w].child # "gone"
  /\ worker' = [worker EXCEPT ![w].child = "gone"]
  /\ UNCHANGED <<pool, call>>

(* It stops answering without exiting: a function that never returns. *)
ChildHangs(w) ==
  /\ worker[w].driver = "busy"
  /\ worker[w].child = "up"
  /\ worker' = [worker EXCEPT ![w].child = "hung"]
  /\ UNCHANGED <<pool, call>>

---------------------------------------------------------------------------

CallProgress(c) ==
  \/ Refuse(c)
  \/ Reuse(c)
  \/ MakeRoom(c)
  \/ Spawn(c)
  \/ SpawnFails(c)
  \/ Send(c)
  \/ SendFails(c)
  \/ TimeOut(c)
  \/ Remove(c)

DriverProgress(w) ==
  \/ TakeInvocation(w)
  \/ ReadLine(w)
  \/ DriverFails(w)
  \/ Close(w)
  \/ DriverStops(w)

PoolNext ==
  \/ \E c \in Calls : CallProgress(c) \/ Abandon(c)
  \/ \E w \in Calls : DriverProgress(w) \/ ChildExits(w) \/ ChildHangs(w)
  \/ \E S \in SUBSET Keys : Evict(S)

PoolSpec == PoolInit /\ [][PoolNext]_poolVars

(* The tasks of the runtime are scheduled, timers fire, and a child that  *)
(* has not hung answers or exits.  Nobody is obliged to make a call.      *)
PoolFairness ==
  \A c \in Calls :
    /\ WF_poolVars(Stage(c) # "idle" /\ CallProgress(c))
    /\ WF_poolVars(DriverProgress(c))

FairPoolSpec == PoolSpec /\ PoolFairness

---------------------------------------------------------------------------
(* Properties *)

(* However calls of one key race to spawn, time out, are abandoned, evict  *)
(* each other's worker and share one, an answer is the line the child      *)
(* wrote for that very call, from a child that runs its command.           *)
AnswersMatch ==
  \A c \in Calls :
    Stage(c) = "answered" =>
      /\ call[c].answer = c
      /\ worker[call[c].worker].command = CommandOf(c)

(* A worker that is replaced, destroyed or reaped finishes what it has     *)
(* been sent: a call that waits is in the hands of a driver that will      *)
(* answer it, and of one only.                                             *)
InFlight(w, c) ==
  \/ worker[w].driver = "busy" /\ worker[w].current = c
  \/ Alive(w) /\ c \in QueuedCalls(w)

NoCallCutShort ==
  \A c \in Calls :
    Stage(c) = "awaiting" =>
      \A w \in Calls : InFlight(w, c) <=> w = call[c].worker

(* Nothing but a child that hangs keeps a call from ending: its timeout     *)
(* does not cover the wait for room in the channel of such a child.  Calls *)
(* are finite in number and never start again, so that all of them are     *)
(* over or have not begun time and again says that each one ends.          *)
StuckSending(c) == Stage(c) = "sending" /\ worker[call[c].worker].child = "hung"

CallsEnd ==
  []<>(\A c \in Calls : Stage(c) \in {"idle", "answered", "failed"} \/ StuckSending(c))

(* Every worker that has left the map is torn down, and so no child        *)
(* process outlives its last call, unless it hangs: one that has left the  *)
(* map never gets back into it.                                            *)
Mapped(w) == \E k \in Keys : pool[k] = w

OrphansEnd ==
  []<>(\A w \in Calls : Alive(w) => Mapped(w) \/ worker[w].child = "hung")
===========================================================================
