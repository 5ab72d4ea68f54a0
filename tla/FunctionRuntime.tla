-------------------------- MODULE FunctionRuntime --------------------------
(***************************************************************************)
(* From the definition of a function to the child process that runs it:    *)
(* the reuse key of a warm worker and the command its child must run       *)
(* (src/runtime.rs).  A key and a command are built from what they name.   *)
(***************************************************************************)
EXTENDS Naturals

CONSTANTS
  Tokens,        \* reuse keys and images a definition may give
  SafeTokens,    \* those without unsupported characters
  None,          \* the field is missing or empty
  HostRuntimes   \* LAMBDA_ALLOW_HOST_RUNTIMES

ASSUME TokensAssumption == SafeTokens \subseteq Tokens /\ None \notin Tokens

(* The names a runtime goes by; a missing one is nodejs. *)
NamesOf ==
  [nodejs     |-> {"nodejs", "node", "javascript", "typescript", ""},
   playwright |-> {"playwright", "browser-playwright"},
   puppeteer  |-> {"puppeteer", "browser-puppeteer"},
   python3    |-> {"python3", "python"},
   ruby       |-> {"ruby"},
   bash       |-> {"bash", "shell"},
   golang     |-> {"golang", "go"},
   dart       |-> {"dart"},
   erlang     |-> {"erlang", "erl"},
   elixir     |-> {"elixir", "ex"},
   java       |-> {"java", "jvm"}]

Runtimes == DOMAIN NamesOf
RuntimeNames == UNION {NamesOf[r] : r \in Runtimes}

CanonicalRuntime(name) ==
  IF name \in RuntimeNames
  THEN CHOOSE r \in Runtimes : name \in NamesOf[r]
  ELSE name

(* What is looked up in a definition.  Its image counts once it is built.  *)
Definition == [runtime : STRING, containerized : BOOLEAN, built : BOOLEAN,
               image : Tokens \cup {None}, reuseKey : Tokens \cup {None}]

RuntimeOf(d) == CanonicalRuntime(d.runtime)
Place(d) == IF d.containerized THEN "container" ELSE "host"

---------------------------------------------------------------------------
(* Commands *)

Browsers == {"playwright", "puppeteer"}

DefaultImage(r) ==
  IF r \in Runtimes \ Browsers THEN <<"default image", r>> ELSE None

ImageOf(d) ==
  IF d.built /\ d.image # None THEN d.image ELSE DefaultImage(RuntimeOf(d))

SafeImage(i) ==
  i \in SafeTokens \/ \E r \in Runtimes \ Browsers : i = DefaultImage(r)

(* A runtime that is allowed on the host and has no command there gets the *)
(* fallback, the command of the service's own configuration.               *)
HostCommand(r) ==
  IF r \in Browsers THEN <<"host", "browser">>
  ELSE IF r \in {"nodejs", "python3", "ruby", "bash"} THEN <<"host", r>>
  ELSE <<"host", "fallback">>

Command(d) ==
  IF d.containerized THEN <<"container", ImageOf(d)>> ELSE HostCommand(RuntimeOf(d))

(* The definition has a command. *)
Runnable(d) ==
  /\ RuntimeOf(d) \in Runtimes
  /\ IF d.containerized THEN SafeImage(ImageOf(d)) ELSE RuntimeOf(d) \in HostRuntimes

---------------------------------------------------------------------------
(* Reuse keys *)

(* A function without a reuse key shares the workers of its runtime with   *)
(* every other such function.                                              *)
WorkerKey(identifier, d) ==
  IF d.reuseKey = None
  THEN <<"pool", Place(d), RuntimeOf(d)>>
  ELSE <<"function", identifier, d.reuseKey>>

SafeKey(d) == d.reuseKey \in SafeTokens \cup {None}

CheckWorkerKey(d) == <<"check", Place(d), RuntimeOf(d)>>
===========================================================================
