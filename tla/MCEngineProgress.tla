------------------------- MODULE MCEngineProgress -------------------------
(* Small instances of EngineProgress, with the step lists of the engine's. *)
EXTENDS EngineProgress, MCWorkflowEngine

\* One activity that is not retried.
OneActivity == {<<Activity(1)>>}
===========================================================================
