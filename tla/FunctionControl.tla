-------------------------- MODULE FunctionControl --------------------------
(***************************************************************************)
(* The control plane of customer functions and the invocations it admits:  *)
(* src/function_control.rs, the check and invoke handlers of src/http.rs,  *)
(* the loads and run_psql of src/definition.rs, and what the JavaScript    *)
(* runner refuses by itself.                                               *)
(*                                                                         *)
(* A call is one SQL statement over the table of definitions, run by a     *)
(* psql process, except for check, which reads the definition, runs it in  *)
(* the sandbox and activates it with a second statement.  Statements are   *)
(* atomic.  A call waits five seconds for its psql process and then        *)
(* answers with an error, but nothing stops the process: its statement may *)
(* still take effect, at any later time (late).                            *)
(*                                                                         *)
(* A check and an invocation work on the row as they read it: what the     *)
(* child runs is that snapshot, however the row changes in the meantime.   *)
(***************************************************************************)
EXTENDS FiniteSets, Naturals

CONSTANTS
  FunctionIds,
  Orgs,      \* tenants; a definition belongs to the one in its meta_data
  NoOrg,     \* the owner of a row whose meta_data names none
  Callers,   \* calls of the API that can be under way together
  Sources,   \* function_body, runtime, containerized and max_run_ms
  Metas,     \* the rest of meta_data and the customer's slug within it
  Rests,     \* display name, description, reuse key, idle timeout, labels
  MaxLate    \* bound: statements left running by calls that timed out

ASSUME NoOrgAssumption == NoOrg \notin Orgs
ASSUME MaxLateAssumption == MaxLate \in Nat

VARIABLES
  row,       \* lambda_functions
  call,      \* what each caller is doing
  late,      \* the statements no call waits for any more
  checked    \* history: the revisions the sandbox has passed

controlVars == <<row, call, late, checked>>

Statuses == {"absent", "draft", "active", "paused", "archived"}

Revision == [source : Sources, meta : Metas, rest : Rests]

(* A soft-deleted row is exactly an archived one.  Until its INSERT a row *)
(* is absent, whatever its columns.                                       *)
Row == [status : Statuses, owner : Orgs \cup {NoOrg}, revision : Revision]

(* A statement carries the whole of the input or record it is built from. *)
Statement == [kind : {"create", "update", "delete", "pause", "activate"},
              id : FunctionIds, org : Orgs, revision : Revision]

Idle == [stage |-> "idle"]

(* A check keeps the status its snapshot carries; an invocation of a       *)
(* workflow is for no tenant.                                              *)
Call ==
  {Idle}
  \cup [stage : {"executing"}, statement : Statement]
  \cup [stage : {"checking"}, statement : Statement, status : Statuses]
  \cup [stage : {"loaded", "running"}, for : Orgs \cup {NoOrg}, snapshot : Row]

ControlTypeOK ==
  /\ row \in [FunctionIds -> Row]
  /\ call \in [Callers -> Call]
  /\ late \in SUBSET Statement
  /\ checked \in SUBSET Revision

ControlInit ==
  /\ \E r \in Revision : row = [f \in FunctionIds |->
       [status |-> "absent", owner |-> NoOrg, revision |-> r]]
  /\ call = [c \in Callers |-> Idle]
  /\ late = {}
  /\ checked = {}

---------------------------------------------------------------------------
(* The statements *)

Created(r, s) ==
  [r EXCEPT !.status = "draft", !.owner = s.org, !.revision = s.revision]

Updated(r, s) ==
  [r EXCEPT !.status = "draft", !.owner = s.org, !.revision = s.revision]

(* Mutant: meta_data is written back as the record shows it, without the  *)
(* organization.                                                          *)
ActivatedWithoutOrg(r, s) ==
  [r EXCEPT !.status = "active", !.owner = NoOrg,
            !.revision.meta = s.revision.meta]

(* The record shown to the client hides the organization; it is put back. *)
Activated(r, s) ==
  [r EXCEPT !.status = "active", !.owner = s.org,
            !.revision.meta = s.revision.meta]

Visible(r, org) == r.status \notin {"absent", "archived"} /\ r.owner = org

(* Mutants: an update reaches deleted rows; an activation is not compared *)
(* with what was checked.                                                 *)
MatchesDeleted(r, s) ==
  CASE s.kind = "create"   -> r.status = "absent"
    [] s.kind = "activate" -> /\ Visible(r, s.org)
                              /\ r.revision.source = s.revision.source
    [] OTHER               -> r.status # "absent" /\ r.owner = s.org
MatchesUnchecked(r, s) ==
  IF s.kind = "create" THEN r.status = "absent" ELSE Visible(r, s.org)

(* The where clauses.  An INSERT is given an id of its own. *)
Matches(r, s) ==
  CASE s.kind = "create"   -> r.status = "absent"
    [] s.kind = "activate" -> /\ Visible(r, s.org)
                              /\ r.revision.source = s.revision.source
    [] OTHER               -> Visible(r, s.org)

Effect(r, s) ==
  CASE s.kind = "create"   -> Created(r, s)
    [] s.kind = "update"   -> Updated(r, s)
    [] s.kind = "delete"   -> [r EXCEPT !.status = "archived"]
    [] s.kind = "pause"    -> [r EXCEPT !.status = "paused"]
    [] s.kind = "activate" -> Activated(r, s)

Execute(s) ==
  row' = [row EXCEPT ![s.id] = IF Matches(@, s) THEN Effect(@, s) ELSE @]

---------------------------------------------------------------------------
(* The calls *)

Enter(c, state) == call' = [call EXCEPT ![c] = state]
Leave(c) == call' = [call EXCEPT ![c] = Idle]

Executing(c) == call[c].stage = "executing"
Checking(c) == call[c].stage = "checking"
Invoking(c) == call[c].stage \in {"loaded", "running"}

(* The statements that may still take effect. *)
Outstanding == late \cup {call[c].statement : c \in {d \in Callers : Executing(d)}}

(* Only an INSERT and an update read the revision of their statement. *)
BeginCall(c, s) ==
  /\ call[c] = Idle
  /\ s.kind \in {"create", "update", "delete", "pause"}
  /\ s.kind = "create" => /\ row[s.id].status = "absent"
                          /\ \A t \in Outstanding : t.id # s.id
  /\ s.kind \in {"delete", "pause"} => s.revision = row[s.id].revision
  /\ Enter(c, [stage |-> "executing", statement |-> s])
  /\ UNCHANGED <<row, late, checked>>

(* get: no row, no check.  A get that fails is no step. *)
ReadForCheck(c, f, org) ==
  /\ call[c] = Idle
  /\ Visible(row[f], org)
  /\ Enter(c, [stage |-> "checking",
               statement |-> [kind |-> "activate", id |-> f, org |-> org,
                              revision |-> row[f].revision],
               status |-> row[f].status])
  /\ UNCHANGED <<row, late, checked>>

(* Mutant: the definition is run whatever its status. *)
RefusesNothing(status) == FALSE

(* The runner refuses by the status in the line it is given, in a check    *)
(* as in an invocation.                                                    *)
Refused(status) == status \in {"paused", "archived"}

CheckPassed(c) ==
  /\ Checking(c)
  /\ ~Refused(call[c].status)
  /\ Enter(c, [stage |-> "executing", statement |-> call[c].statement])
  /\ checked' = checked \cup {call[c].statement.revision}
  /\ UNCHANGED <<row, late>>

(* The child refused the function, found an error, or did not answer in    *)
(* time.                                                                   *)
CheckFailed(c) ==
  /\ Checking(c)
  /\ Leave(c)
  /\ UNCHANGED <<row, late, checked>>

(* The statement takes effect and its call answers: the row it left, or    *)
(* "not found", or for an activation "conflict".                           *)
Answer(c) ==
  /\ Executing(c)
  /\ Execute(call[c].statement)
  /\ Leave(c)
  /\ UNCHANGED <<late, checked>>

(* psql failed, and its statement has no effect. *)
AnswerError(c) ==
  /\ Executing(c)
  /\ Leave(c)
  /\ UNCHANGED <<row, late, checked>>

TimeOut(c) ==
  /\ Executing(c)
  /\ Cardinality(late) < MaxLate
  /\ late' = late \cup {call[c].statement}
  /\ Leave(c)
  /\ UNCHANGED <<row, checked>>

ExecuteLate(s) ==
  /\ Execute(s)
  /\ late' = late \ {s}
  /\ UNCHANGED <<call, checked>>

(* Mutant: a tenant's load without its status clause. *)
LoadableInAnyStatus(r, org) ==
  /\ r.status \notin {"absent", "archived"}
  /\ org # NoOrg => r.owner = org

(* invoke_for_org adds the tenant's clause; the invoke of an activity does *)
(* not.                                                                    *)
Loadable(r, org) ==
  /\ r.status \notin {"absent", "archived"}
  /\ org # NoOrg => r.status = "active" /\ r.owner = org

(* A load that finds no row answers "not found" and is no step. *)
Load(c, f, org) ==
  /\ call[c] = Idle
  /\ Loadable(row[f], org)
  /\ Enter(c, [stage |-> "loaded", for |-> org, snapshot |-> row[f]])
  /\ UNCHANGED <<row, late, checked>>

Run(c) ==
  /\ call[c].stage = "loaded"
  /\ ~Refused(call[c].snapshot.status)
  /\ Enter(c, [call[c] EXCEPT !.stage = "running"])
  /\ UNCHANGED <<row, late, checked>>

(* The child answered, refused or failed, or the call gave up on it. *)
EndInvocation(c) ==
  /\ Invoking(c)
  /\ Leave(c)
  /\ UNCHANGED <<row, late, checked>>

CallStep(c) ==
  \/ \E s \in Statement : BeginCall(c, s)
  \/ \E f \in FunctionIds, org \in Orgs : ReadForCheck(c, f, org)
  \/ \E f \in FunctionIds, org \in Orgs \cup {NoOrg} : Load(c, f, org)
  \/ Run(c)
  \/ EndInvocation(c)
  \/ CheckPassed(c)
  \/ CheckFailed(c)
  \/ Answer(c)
  \/ AnswerError(c)
  \/ TimeOut(c)

ControlNext ==
  \/ \E c \in Callers : CallStep(c)
  \/ \E s \in late : ExecuteLate(s)

ControlSpec == ControlInit /\ [][ControlNext]_controlVars

---------------------------------------------------------------------------
(* Properties *)

(* Whatever edits, pauses and late statements come between a check's read  *)
(* and its activation, the code an active function runs, with its runtime  *)
(* and run limit, has passed the sandbox.                                  *)
ActiveSourcesWereChecked ==
  \A f \in FunctionIds :
    row[f].status = "active" =>
      \E r \in checked : r.source = row[f].revision.source

(* A function stays with the tenant that created it, although every update *)
(* and activation writes the column that says whose it is.                 *)
OwnerNeverChanges ==
  [][\A f \in FunctionIds :
       row[f].status # "absent" => row'[f].owner = row[f].owner]_controlVars

(* Nothing, no statement that arrives late either, changes a deleted       *)
(* function.                                                               *)
DeletedIsFinal ==
  [][\A f \in FunctionIds :
       row[f].status = "archived" => row'[f] = row[f]]_controlVars

(* Whatever edits, pauses and deletions come between an invocation's load  *)
(* and its run, the code a tenant's call runs is code of a function of its *)
(* own that has passed the sandbox; and no call, of a workflow either,     *)
(* runs a function it read as paused or deleted.                           *)
InvocationsAreEntitled ==
  \A c \in Callers : call[c].stage = "running" =>
    /\ call[c].snapshot.status \notin {"absent", "paused", "archived"}
    /\ call[c].for # NoOrg =>
         /\ call[c].snapshot.owner = call[c].for
         /\ \E r \in checked : r.source = call[c].snapshot.revision.source

(* Nothing under way can still make f active: no activation, and no check  *)
(* that read it before it was paused.                                      *)
Quiet(f) ==
  /\ \A s \in Outstanding : s.id = f => s.kind # "activate"
  /\ \A c \in Callers : Checking(c) /\ call[c].statement.id = f =>
       call[c].status = "paused"

(* A function that was paused, with no check of it under way, stays paused *)
(* until it is edited or deleted: no later check brings it back.  Neither  *)
(* check nor its activation looks at the status; the runner does.          *)
PauseHolds ==
  [][\A f \in FunctionIds : row[f].status = "paused" /\ Quiet(f) =>
       /\ row'[f].status # "active"
       /\ row'[f].status = "paused" => Quiet(f)']_controlVars

Entitled(invocation) ==
  /\ invocation.stage = "running" => invocation.snapshot.status # "paused"
  /\ invocation.snapshot.status \notin {"absent", "archived"}
  /\ invocation.for # NoOrg =>
       /\ invocation.snapshot.owner = invocation.for
       /\ \E r \in checked : r.source = invocation.snapshot.revision.source

(* The inductive invariant of the two: an activation that may still take   *)
(* effect carries a source that has passed, and so does what a tenant      *)
(* loaded.                                                                 *)
ControlIInv ==
  /\ ControlTypeOK
  /\ ActiveSourcesWereChecked
  /\ \A c \in Callers : Invoking(c) => Entitled(call[c])
  /\ \A s \in Outstanding : s.kind = "activate" => s.revision \in checked

---------------------------------------------------------------------------
(* What the documents say, and the code does not keep *)

(* docs/cron-function-api.md: a check "atomically activates the exact      *)
(* checked revision", README.md: "concurrent edits stay in draft".  What   *)
(* is active has been checked as it stands.                                *)
ActiveRevisionsWereChecked ==
  \A f \in FunctionIds : row[f].status = "active" => row[f].revision \in checked
===========================================================================
