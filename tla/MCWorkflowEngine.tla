------------------------- MODULE MCWorkflowEngine -------------------------
(* Small instances of WorkflowEngine: the step lists the runs are started  *)
(* with.                                                                   *)
EXTENDS WorkflowEngine

CONSTANTS a, b   \* signal names, which are also the names of steps

Plain(type) == [type |-> type, name |-> a, functionRef |-> TRUE, maxAttempts |-> 1,
                signal |-> a, timed |-> FALSE]
Activity(n) == [Plain("activity") EXCEPT !.maxAttempts = n]
Wait(name) == [Plain("waitSignal") EXCEPT !.signal = name]
TimedWait(name) == [Wait(name) EXCEPT !.timed = TRUE]
Sleep == Plain("sleep")
Named(step, name) == [step EXCEPT !.name = name]

\* Retries, then the last step is an activity.
Activities == {<<Activity(2), Named(Activity(1), b)>>}
\* Two waits for the same signal, the first with a timeout, the last step a
\* wait; under one name, and under two.
Waits == {<<TimedWait(a), Wait(a)>>, <<TimedWait(a), Named(Wait(a), b)>>}
\* Every kind of step, and every kind that fails at once.
Mixed == {<<Activity(2), Named(TimedWait(a), b), Sleep>>,
          <<Plain("unknown")>>,
          <<[Activity(1) EXCEPT !.functionRef = FALSE]>>,
          <<>>}
===========================================================================
