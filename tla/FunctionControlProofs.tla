----------------------- MODULE FunctionControlProofs -----------------------
(***************************************************************************)
(* For any number of functions, tenants, concurrent calls and late         *)
(* statements: active code has been checked, functions keep their tenant,  *)
(* deletion is final, tenants run only checked code of their own, and a    *)
(* quiet pause holds.                                                      *)
(***************************************************************************)
EXTENDS FunctionControl, TLAPS

(* Every statement leaves a row. *)
LEMMA EffectIsRow ==
  ASSUME NEW r \in Row, NEW s \in Statement
  PROVE  Effect(r, s) \in Row
  <1> USE DEF Row, Statement, Revision, Statuses
  <1>1. CASE s.kind = "create" \/ s.kind = "update"
    BY <1>1 DEF Effect, Created, Updated
  <1>2. CASE s.kind = "delete" \/ s.kind = "pause"
    BY <1>2 DEF Effect
  <1>3. CASE s.kind = "activate"
    BY <1>3 DEF Effect, Activated
  <1> QED BY <1>1, <1>2, <1>3

(* What a statement does to any row. *)
LEMMA ExecuteEffect ==
  ASSUME NEW s \in Statement, row \in [FunctionIds -> Row], Execute(s)
  PROVE  /\ row' \in [FunctionIds -> Row]
         /\ \A f \in FunctionIds :
              row'[f] = IF f = s.id /\ Matches(row[f], s)
                        THEN Effect(row[f], s) ELSE row[f]
  <1>1. s.id \in FunctionIds
    BY DEF Statement
  <1>2. row[s.id] \in Row
    BY <1>1
  <1>3. Effect(row[s.id], s) \in Row
    BY <1>2, EffectIsRow
  <1>4. row' = [row EXCEPT ![s.id] = IF Matches(row[s.id], s)
                                     THEN Effect(row[s.id], s) ELSE row[s.id]]
    BY DEF Execute
  <1> QED BY <1>1, <1>3, <1>4

(* A statement changes only rows that are not deleted, keeps the owner of  *)
(* a row that exists, and leaves a row active only if it was, or if it is  *)
(* an activation of the source the row holds.                              *)
LEMMA EffectFacts ==
  ASSUME NEW r \in Row, NEW s \in Statement, Matches(r, s)
  PROVE  /\ r.status # "archived"
         /\ r.status # "absent" => Effect(r, s).owner = r.owner
         /\ Effect(r, s).status = "active" =>
              /\ s.kind = "activate"
              /\ Effect(r, s).revision.source = s.revision.source
  <1> USE DEF Row, Statement, Revision, Statuses, Matches, Visible
  <1>1. CASE s.kind = "create"
    BY <1>1 DEF Effect, Created
  <1>2. CASE s.kind = "update"
    BY <1>2 DEF Effect, Updated
  <1>3. CASE s.kind = "delete" \/ s.kind = "pause"
    BY <1>3 DEF Effect
  <1>4. CASE s.kind = "activate"
    BY <1>4 DEF Effect, Activated
  <1> QED BY <1>1, <1>2, <1>3, <1>4

---------------------------------------------------------------------------

(* The invariant holds when the service starts. *)
LEMMA ControlInitInvariant == ControlInit => ControlIInv
  <1> SUFFICES ASSUME ControlInit PROVE ControlIInv
    OBVIOUS
  <1>1. ControlTypeOK
    BY DEF ControlInit, ControlTypeOK, Row, Statuses, Call, Idle
  <1>2. Outstanding = {}
    BY DEF ControlInit, Outstanding, Executing, Idle
  <1>3. \A c \in Callers : ~Invoking(c)
    BY DEF ControlInit, Invoking, Idle
  <1> QED BY <1>1, <1>2, <1>3 DEF ControlInit, ControlIInv, ActiveSourcesWereChecked

(* A statement that is outstanding is well formed. *)
LEMMA OutstandingType ==
  ASSUME ControlTypeOK
  PROVE  Outstanding \subseteq Statement
  <1>1. ASSUME NEW c \in Callers, Executing(c) PROVE call[c].statement \in Statement
    BY <1>1 DEF ControlTypeOK, Call, Idle, Executing
  <1> QED BY <1>1 DEF ControlTypeOK, Outstanding

(* An outstanding statement takes effect, and what has been checked stays. *)
LEMMA ExecutePreserves ==
  ASSUME ControlIInv, NEW s \in Outstanding, Execute(s), checked' = checked
  PROVE  row' \in [FunctionIds -> Row] /\ ActiveSourcesWereChecked'
  <1>1. s \in Statement /\ row \in [FunctionIds -> Row]
    BY OutstandingType DEF ControlIInv, ControlTypeOK
  <1>2. row' \in [FunctionIds -> Row]
    BY <1>1, ExecuteEffect
  <1>3. ASSUME NEW f \in FunctionIds, row'[f].status = "active"
        PROVE  \E r \in checked : r.source = row'[f].revision.source
    <2>1. CASE f = s.id /\ Matches(row[f], s)
      <3>1. row'[f] = Effect(row[f], s)
        BY <1>1, <2>1, ExecuteEffect
      <3>2. s.kind = "activate" /\ row'[f].revision.source = s.revision.source
        BY <1>1, <1>3, <2>1, <3>1, EffectFacts
      <3>3. s.revision \in checked
        BY <3>2 DEF ControlIInv
      <3> QED BY <3>2, <3>3
    <2>2. CASE ~(f = s.id /\ Matches(row[f], s))
      <3>1. row'[f] = row[f]
        BY <1>1, <2>2, ExecuteEffect
      <3> QED BY <1>3, <3>1 DEF ControlIInv, ActiveSourcesWereChecked
    <2> QED BY <2>1, <2>2
  <1> QED BY <1>2, <1>3 DEF ActiveSourcesWereChecked

(* A caller that leaves, or that goes on without a statement, leaves       *)
(* nothing new outstanding.                                                *)
LEMMA EnterFacts ==
  ASSUME ControlTypeOK, NEW c \in Callers, NEW state \in Call, Enter(c, state)
  PROVE  /\ call' \in [Callers -> Call]
         /\ call'[c] = state
         /\ \A d \in Callers : d # c => call'[d] = call[d]
  BY DEF ControlTypeOK, Enter

LEMMA LeaveFacts ==
  ASSUME ControlTypeOK, NEW c \in Callers, Leave(c)
  PROVE  /\ call' \in [Callers -> Call]
         /\ call'[c] = Idle
         /\ \A d \in Callers : d # c => call'[d] = call[d]
  BY DEF ControlTypeOK, Leave, Call

(* What the parts of the invariant that speak of calls say of one call.    *)
CallOK(c) ==
  /\ Executing(c) /\ call[c].statement.kind = "activate" =>
       call[c].statement.revision \in checked
  /\ Invoking(c) => Entitled(call[c])

LateOK == \A s \in late : s.kind = "activate" => s.revision \in checked

(* The invariant, call by call. *)
LEMMA CallByCall ==
  ControlIInv <=> /\ ControlTypeOK
                  /\ ActiveSourcesWereChecked
                  /\ LateOK
                  /\ \A c \in Callers : CallOK(c)
  BY DEF ControlIInv, CallOK, LateOK, Outstanding

(* A step of one call that changes neither rows nor late statements, and   *)
(* forgets no check, keeps the invariant if it keeps that call's part.     *)
LEMMA OneCallSteps ==
  ASSUME ControlIInv, NEW c \in Callers, UNCHANGED <<row, late>>,
         call' \in [Callers -> Call],
         \A d \in Callers : d # c => call'[d] = call[d],
         checked \subseteq checked', checked' \in SUBSET Revision,
         CallOK(c)'
  PROVE  ControlIInv'
  <1>1. ControlTypeOK /\ ActiveSourcesWereChecked /\ LateOK
    BY CallByCall
  <1>2. ControlTypeOK'
    BY <1>1 DEF ControlTypeOK
  <1>3. ActiveSourcesWereChecked' /\ LateOK'
    BY <1>1 DEF ActiveSourcesWereChecked, LateOK
  <1>4. ASSUME NEW d \in Callers, d # c PROVE CallOK(d)'
    <2>1. CallOK(d) /\ call'[d] = call[d]
      BY <1>4, CallByCall
    <2> QED BY <2>1 DEF CallOK, Executing, Invoking, Entitled
  <1>5. ControlTypeOK' /\ ActiveSourcesWereChecked' /\ LateOK'
        /\ (\A d \in Callers : CallOK(d)')
    BY <1>2, <1>3, <1>4
  <1> QED BY <1>5 DEF ControlIInv, CallOK, LateOK, Outstanding

(* Every step keeps the invariant. *)
LEMMA ControlStepInvariant ==
  ASSUME ControlIInv, [ControlNext]_controlVars
  PROVE  ControlIInv'
  <1>. ControlTypeOK
    BY DEF ControlIInv
  <1>1. ASSUME NEW c \in Callers, NEW s \in Statement, BeginCall(c, s)
        PROVE  ControlIInv'
    <2> DEFINE state == [stage |-> "executing", statement |-> s]
    <2>1. /\ state \in Call /\ Enter(c, state) /\ s.kind # "activate"
          /\ UNCHANGED <<row, late, checked>>
      BY <1>1 DEF BeginCall, Call
    <2>2. CallOK(c)'
      BY <2>1, EnterFacts DEF CallOK, Executing, Invoking
    <2> HIDE DEF state
    <2> QED BY <2>1, <2>2, EnterFacts, OneCallSteps DEF ControlTypeOK
  <1>2. ASSUME NEW c \in Callers, NEW f \in FunctionIds, NEW org \in Orgs,
               ReadForCheck(c, f, org)
        PROVE  ControlIInv'
    <2> DEFINE s == [kind |-> "activate", id |-> f, org |-> org,
                     revision |-> row[f].revision]
               state == [stage |-> "checking", statement |-> s,
                         status |-> row[f].status]
    <2>1. s \in Statement /\ row[f].status \in Statuses
      BY DEF ControlTypeOK, Row, Statement
    <2>2. Enter(c, state) /\ UNCHANGED <<row, late, checked>>
      BY <1>2 DEF ReadForCheck
    <2> HIDE DEF s
    <2>3. state \in Call
      BY <2>1 DEF Call
    <2>4. CallOK(c)'
      BY <2>2, <2>3, EnterFacts DEF CallOK, Executing, Invoking
    <2> HIDE DEF state
    <2> QED BY <2>2, <2>3, <2>4, EnterFacts, OneCallSteps DEF ControlTypeOK
  <1>3. ASSUME NEW c \in Callers, NEW f \in FunctionIds, NEW org \in Orgs \cup {NoOrg},
               Load(c, f, org)
        PROVE  ControlIInv'
    <2> DEFINE state == [stage |-> "loaded", for |-> org, snapshot |-> row[f]]
    <2>1. /\ Loadable(row[f], org) /\ Enter(c, state)
          /\ UNCHANGED <<row, late, checked>>
      BY <1>3 DEF Load
    <2>2. state \in Call /\ state.stage = "loaded"
      BY DEF Call, ControlTypeOK
    <2>3. call'[c] = state
      BY <2>1, <2>2, EnterFacts
    <2>4. org # NoOrg => /\ row[f].owner = org
                         /\ \E r \in checked : r.source = row[f].revision.source
      BY <2>1 DEF Loadable, ControlIInv, ActiveSourcesWereChecked
    <2>5. CallOK(c)'
      BY <2>1, <2>3, <2>4 DEF CallOK, Executing, Entitled, Loadable
    <2> HIDE DEF state
    <2> QED BY <2>1, <2>2, <2>5, EnterFacts, OneCallSteps DEF ControlTypeOK
  <1>4. ASSUME NEW c \in Callers, Run(c) PROVE ControlIInv'
    <2> DEFINE state == [call[c] EXCEPT !.stage = "running"]
    <2>1. /\ call[c].stage = "loaded" /\ ~Refused(call[c].snapshot.status)
          /\ Enter(c, state) /\ UNCHANGED <<row, late, checked>>
      BY <1>4 DEF Run
    <2>2. /\ state \in Call /\ state.stage = "running"
          /\ state.for = call[c].for /\ state.snapshot = call[c].snapshot
      BY <2>1 DEF Call, Idle, ControlTypeOK
    <2>3. Entitled(call[c])
      BY <2>1 DEF ControlIInv, Invoking
    <2>4. call'[c] = state
      BY <2>1, <2>2, EnterFacts
    <2> HIDE DEF state
    <2>5. CallOK(c)'
      BY <2>1, <2>2, <2>3, <2>4 DEF CallOK, Executing, Entitled, Refused
    <2> QED BY <2>1, <2>2, <2>5, EnterFacts, OneCallSteps DEF ControlTypeOK
  <1>5. ASSUME NEW c \in Callers, CheckPassed(c) PROVE ControlIInv'
    <2> DEFINE s == call[c].statement
               state == [stage |-> "executing", statement |-> s]
    <2>1. s \in Statement /\ Enter(c, state) /\ UNCHANGED <<row, late>>
      BY <1>5 DEF CheckPassed, Checking, ControlTypeOK, Call, Idle
    <2>2. /\ checked' = checked \cup {s.revision}
          /\ checked \subseteq checked' /\ checked' \in SUBSET Revision
      BY <1>5, <2>1 DEF CheckPassed, Statement, ControlTypeOK
    <2> HIDE DEF s
    <2>3. state \in Call
      BY <2>1 DEF Call
    <2>4. CallOK(c)'
      BY <2>1, <2>2, <2>3, EnterFacts DEF CallOK, Executing, Invoking
    <2> HIDE DEF state
    <2> QED BY <2>1, <2>2, <2>3, <2>4, EnterFacts, OneCallSteps
  <1>6. ASSUME NEW c \in Callers, CheckFailed(c) \/ AnswerError(c) \/ EndInvocation(c)
        PROVE  ControlIInv'
    <2>1. Leave(c) /\ UNCHANGED <<row, late, checked>>
      BY <1>6 DEF CheckFailed, AnswerError, EndInvocation
    <2>2. CallOK(c)'
      BY <2>1, LeaveFacts DEF CallOK, Executing, Invoking, Idle
    <2> QED BY <2>1, <2>2, LeaveFacts, OneCallSteps DEF ControlTypeOK
  <1>7. ASSUME NEW c \in Callers, Answer(c) PROVE ControlIInv'
    <2> DEFINE s == call[c].statement
    <2>1. s \in Outstanding /\ Execute(s) /\ Leave(c) /\ UNCHANGED <<late, checked>>
      BY <1>7 DEF Answer, Outstanding
    <2>2. row' \in [FunctionIds -> Row] /\ ActiveSourcesWereChecked'
      BY <2>1, ExecutePreserves
    <2> HIDE DEF s
    <2>3. ControlTypeOK'
      BY <2>1, <2>2, LeaveFacts DEF ControlTypeOK
    <2>4. ASSUME NEW d \in Callers PROVE CallOK(d)'
      <3>1. CASE d = c
        BY <2>1, <3>1, LeaveFacts DEF CallOK, Executing, Invoking, Idle
      <3>2. CASE d # c
        <4>1. CallOK(d) /\ call'[d] = call[d]
          BY <2>1, <3>2, LeaveFacts, CallByCall
        <4> QED BY <2>1, <4>1 DEF CallOK, Executing, Invoking, Entitled
      <3> QED BY <3>1, <3>2
    <2>5. LateOK'
      BY <2>1, CallByCall DEF LateOK
    <2> QED BY <2>2, <2>3, <2>4, <2>5 DEF ControlIInv, CallOK, LateOK, Outstanding
  <1>8. ASSUME NEW c \in Callers, TimeOut(c) PROVE ControlIInv'
    <2> DEFINE s == call[c].statement
    <2>1. /\ Leave(c) /\ s \in Outstanding /\ late' = late \cup {s}
          /\ UNCHANGED <<row, checked>>
      BY <1>8 DEF TimeOut, Outstanding
    <2>2. s \in Statement
      BY <2>1, OutstandingType
    <2>3. LateOK' /\ ActiveSourcesWereChecked'
      BY <2>1 DEF LateOK, ControlIInv, Outstanding, ActiveSourcesWereChecked
    <2> HIDE DEF s
    <2>4. ControlTypeOK'
      BY <2>1, <2>2, LeaveFacts DEF ControlTypeOK
    <2>5. ASSUME NEW d \in Callers PROVE CallOK(d)'
      <3>1. CASE d = c
        BY <2>1, <3>1, LeaveFacts DEF CallOK, Executing, Invoking, Idle
      <3>2. CASE d # c
        <4>1. CallOK(d) /\ call'[d] = call[d]
          BY <2>1, <3>2, LeaveFacts, CallByCall
        <4> QED BY <2>1, <4>1 DEF CallOK, Executing, Invoking, Entitled
      <3> QED BY <3>1, <3>2
    <2> QED BY <2>3, <2>4, <2>5 DEF ControlIInv, CallOK, LateOK, Outstanding
  <1>9. ASSUME NEW s \in late, ExecuteLate(s) PROVE ControlIInv'
    <2>1. /\ s \in Outstanding /\ Execute(s) /\ late' = late \ {s}
          /\ UNCHANGED <<call, checked>>
      BY <1>9 DEF ExecuteLate, Outstanding
    <2>2. row' \in [FunctionIds -> Row] /\ ActiveSourcesWereChecked'
      BY <2>1, ExecutePreserves
    <2>3. LateOK' /\ ControlTypeOK'
      BY <2>1, <2>2, CallByCall DEF LateOK, ControlTypeOK
    <2>4. \A d \in Callers : CallOK(d)'
      BY <2>1, CallByCall DEF CallOK, Executing, Invoking, Entitled
    <2> QED BY <2>2, <2>3, <2>4 DEF ControlIInv, CallOK, LateOK, Outstanding
  <1>10. CASE UNCHANGED controlVars
    BY <1>10 DEF controlVars, ControlIInv, ControlTypeOK, ActiveSourcesWereChecked,
       Outstanding, Executing, Invoking, Entitled
  <1> QED BY <1>1, <1>2, <1>3, <1>4, <1>5, <1>6, <1>7, <1>8, <1>9, <1>10
          DEF ControlNext, CallStep

(* Only an outstanding statement changes a row. *)
LEMMA RowsChangeByStatements ==
  ASSUME ControlIInv, [ControlNext]_controlVars
  PROVE  \/ row' = row
         \/ \E s \in Statement :
              s \in Outstanding /\ Execute(s) /\ row \in [FunctionIds -> Row]
  <1>1. row \in [FunctionIds -> Row] /\ Outstanding \subseteq Statement
    BY OutstandingType DEF ControlIInv, ControlTypeOK
  <1>2. ASSUME NEW c \in Callers, CallStep(c), ~Answer(c) PROVE row' = row
    BY <1>2 DEF CallStep, BeginCall, ReadForCheck, CheckPassed, CheckFailed,
       AnswerError, TimeOut, Load, Run, EndInvocation
  <1>3. ASSUME NEW c \in Callers, Answer(c)
        PROVE  /\ call[c].statement \in Statement \cap Outstanding
               /\ Execute(call[c].statement)
    BY <1>1, <1>3 DEF Answer, Outstanding
  <1>4. ASSUME NEW s \in late, ExecuteLate(s)
        PROVE  s \in Statement \cap Outstanding /\ Execute(s)
    BY <1>1, <1>4 DEF ExecuteLate, Outstanding
  <1>5. CASE UNCHANGED controlVars
    BY <1>5 DEF controlVars
  <1> QED BY <1>1, <1>2, <1>3, <1>4, <1>5 DEF ControlNext

(* The invariant holds always. *)
LEMMA ControlInvariance == ControlSpec => []ControlIInv
  <1>1. ControlIInv /\ [ControlNext]_controlVars => ControlIInv'
    BY ControlStepInvariant
  <1> QED BY <1>1, ControlInitInvariant, PTL DEF ControlSpec

(* Active code has passed the sandbox, whatever came between the check's   *)
(* read and its activation, and whenever that took effect.                 *)
THEOREM OnlyCheckedCodeIsActive == ControlSpec => []ActiveSourcesWereChecked
  <1>1. ControlIInv => ActiveSourcesWereChecked
    BY DEF ControlIInv
  <1> QED BY <1>1, ControlInvariance, PTL

(* No update, activation or late statement moves a function to another     *)
(* tenant.                                                                 *)
THEOREM FunctionsKeepTheirOwner == ControlSpec => OwnerNeverChanges
  <1> DEFINE A == \A f \in FunctionIds :
                    row[f].status # "absent" => row'[f].owner = row[f].owner
  <1>1. ControlIInv /\ [ControlNext]_controlVars => [A]_controlVars
    <2> SUFFICES ASSUME ControlIInv, [ControlNext]_controlVars PROVE A
      OBVIOUS
    <2>1. CASE row' = row
      BY <2>1
    <2>2. ASSUME NEW s \in Statement, Execute(s), row \in [FunctionIds -> Row] PROVE A
      BY <2>2, ExecuteEffect, EffectFacts
    <2> QED BY <2>1, <2>2, RowsChangeByStatements
  <1> QED BY <1>1, ControlInvariance, PTL DEF ControlSpec, OwnerNeverChanges

(* No call and no late statement changes a function once it is deleted. *)
THEOREM DeletedFunctionsStay == ControlSpec => DeletedIsFinal
  <1> DEFINE A == \A f \in FunctionIds :
                    row[f].status = "archived" => row'[f] = row[f]
  <1>1. ControlIInv /\ [ControlNext]_controlVars => [A]_controlVars
    <2> SUFFICES ASSUME ControlIInv, [ControlNext]_controlVars PROVE A
      OBVIOUS
    <2>1. CASE row' = row
      BY <2>1
    <2>2. ASSUME NEW s \in Statement, Execute(s), row \in [FunctionIds -> Row] PROVE A
      BY <2>2, ExecuteEffect, EffectFacts
    <2> QED BY <2>1, <2>2, RowsChangeByStatements
  <1> QED BY <1>1, ControlInvariance, PTL DEF ControlSpec, DeletedIsFinal

(* A tenant's call runs only code of its own that has passed the sandbox,  *)
(* and no call runs what it read as paused or deleted, whatever happens to *)
(* the function between the load and the run.                              *)
THEOREM TenantsRunTheirCheckedCode == ControlSpec => []InvocationsAreEntitled
  <1>1. ControlIInv => InvocationsAreEntitled
    BY DEF ControlIInv, InvocationsAreEntitled, Invoking, Entitled
  <1> QED BY <1>1, ControlInvariance, PTL

(* Nothing that begins while a function is paused makes it active again.   *)
LEMMA QuietStays ==
  ASSUME ControlIInv, [ControlNext]_controlVars, NEW f \in FunctionIds,
         row[f].status = "paused", Quiet(f)
  PROVE  row'[f].status = "paused" => Quiet(f)'
  <1>. ControlTypeOK
    BY DEF ControlIInv
  <1> DEFINE Part(c) ==
        /\ Executing(c) /\ call[c].statement.id = f =>
             call[c].statement.kind # "activate"
        /\ Checking(c) /\ call[c].statement.id = f => call[c].status = "paused"
  <1>1. Quiet(f) <=> /\ \A s \in late : s.id = f => s.kind # "activate"
                     /\ \A c \in Callers : Part(c)
    BY DEF Quiet, Outstanding
  <1>2. Quiet(f)' <=> /\ \A s \in late' : s.id = f => s.kind # "activate"
                      /\ \A c \in Callers : Part(c)'
    BY DEF Quiet, Outstanding
  <1>3. ASSUME NEW c \in Callers, call' \in [Callers -> Call], Part(c)', late' = late,
               \A d \in Callers : d # c => call'[d] = call[d]
        PROVE  Quiet(f)'
    BY <1>1, <1>2, <1>3 DEF Executing, Checking
  <1>4. ASSUME NEW c \in Callers, NEW s \in Statement, BeginCall(c, s)
        PROVE  Quiet(f)'
    <2>1. /\ [stage |-> "executing", statement |-> s] \in Call
          /\ Enter(c, [stage |-> "executing", statement |-> s])
          /\ s.kind # "activate" /\ late' = late
      BY <1>4 DEF BeginCall, Call
    <2> QED BY <1>3, <2>1, EnterFacts DEF Executing, Checking
  <1>5. ASSUME NEW c \in Callers, NEW g \in FunctionIds, NEW org \in Orgs,
               ReadForCheck(c, g, org)
        PROVE  Quiet(f)'
    <2> DEFINE s == [kind |-> "activate", id |-> g, org |-> org,
                     revision |-> row[g].revision]
               state == [stage |-> "checking", statement |-> s,
                         status |-> row[g].status]
    <2>1. s \in Statement /\ row[g].status \in Statuses /\ s.id = g
      BY DEF ControlTypeOK, Row, Statement
    <2>2. Enter(c, state) /\ late' = late
      BY <1>5 DEF ReadForCheck
    <2> HIDE DEF s
    <2>3. state \in Call
      BY <2>1 DEF Call
    <2>4. Part(c)'
      BY <2>1, <2>2, <2>3, EnterFacts DEF Executing, Checking
    <2> HIDE DEF state
    <2> QED BY <1>3, <2>2, <2>3, <2>4, EnterFacts
  <1>6. ASSUME NEW c \in Callers, NEW g \in FunctionIds,
               NEW org \in Orgs \cup {NoOrg}, Load(c, g, org)
        PROVE  Quiet(f)'
    <2>1. /\ [stage |-> "loaded", for |-> org, snapshot |-> row[g]] \in Call
          /\ Enter(c, [stage |-> "loaded", for |-> org, snapshot |-> row[g]])
          /\ late' = late
      BY <1>6 DEF Load, Call, ControlTypeOK
    <2> QED BY <1>3, <2>1, EnterFacts DEF Executing, Checking
  <1>7. ASSUME NEW c \in Callers, Run(c) PROVE Quiet(f)'
    <2> DEFINE state == [call[c] EXCEPT !.stage = "running"]
    <2>1. /\ call[c].stage = "loaded" /\ Enter(c, state) /\ late' = late
      BY <1>7 DEF Run
    <2>2. state \in Call /\ state.stage = "running"
      BY <2>1 DEF Call, Idle, ControlTypeOK
    <2> HIDE DEF state
    <2> QED BY <1>3, <2>1, <2>2, EnterFacts DEF Executing, Checking
  <1>8. ASSUME NEW c \in Callers, CheckPassed(c) PROVE Quiet(f)'
    <2> DEFINE s == call[c].statement
               state == [stage |-> "executing", statement |-> s]
    <2>1. s \in Statement /\ Enter(c, state) /\ late' = late
      BY <1>8 DEF CheckPassed, Checking, ControlTypeOK, Call, Idle
    <2>2. s.id # f
      BY <1>1, <1>8 DEF CheckPassed, Refused
    <2> HIDE DEF s
    <2>3. state \in Call
      BY <2>1 DEF Call
    <2>4. Part(c)'
      BY <2>1, <2>2, <2>3, EnterFacts DEF Executing, Checking
    <2> HIDE DEF state
    <2> QED BY <1>3, <2>1, <2>3, <2>4, EnterFacts
  <1>9. ASSUME NEW c \in Callers,
               CheckFailed(c) \/ AnswerError(c) \/ EndInvocation(c) \/ Answer(c)
        PROVE  Quiet(f)'
    <2>1. Leave(c) /\ late' = late
      BY <1>9 DEF CheckFailed, AnswerError, EndInvocation, Answer
    <2> QED BY <1>3, <2>1, LeaveFacts DEF Executing, Checking, Idle
  <1>10. ASSUME NEW c \in Callers, TimeOut(c) PROVE Quiet(f)'
    <2>1. Leave(c) /\ Executing(c) /\ late' = late \cup {call[c].statement}
      BY <1>10 DEF TimeOut
    <2>2. \A s \in late' : s.id = f => s.kind # "activate"
      BY <1>1, <2>1
    <2>3. \A d \in Callers : Part(d)'
      BY <1>1, <2>1, LeaveFacts DEF Executing, Checking, Idle
    <2> QED BY <1>2, <2>2, <2>3
  <1>11. ASSUME NEW s \in late, ExecuteLate(s) PROVE Quiet(f)'
    BY <1>1, <1>2, <1>11 DEF ExecuteLate, Executing, Checking
  <1>12. CASE UNCHANGED controlVars
    BY <1>12 DEF controlVars, Quiet, Outstanding, Executing, Checking
  <1> QED BY <1>4, <1>5, <1>6, <1>7, <1>8, <1>9, <1>10, <1>11, <1>12
          DEF ControlNext, CallStep

(* A pause with no check under way holds until an edit or the deletion.    *)
THEOREM QuietPausesHold == ControlSpec => PauseHolds
  <1> DEFINE A == \A f \in FunctionIds : row[f].status = "paused" /\ Quiet(f) =>
                    /\ row'[f].status # "active"
                    /\ row'[f].status = "paused" => Quiet(f)'
  <1>1. ControlIInv /\ [ControlNext]_controlVars => [A]_controlVars
    <2> SUFFICES ASSUME ControlIInv, [ControlNext]_controlVars, NEW f \in FunctionIds,
                        row[f].status = "paused", Quiet(f)
                 PROVE  /\ row'[f].status # "active"
                        /\ row'[f].status = "paused" => Quiet(f)'
      OBVIOUS
    <2>1. ASSUME NEW s \in Statement, s \in Outstanding, Execute(s),
                 row \in [FunctionIds -> Row]
          PROVE  row'[f].status # "active"
      <3>1. CASE f = s.id /\ Matches(row[f], s)
        <4>1. s.kind # "activate" /\ row'[f] = Effect(row[f], s)
          BY <2>1, <3>1, ExecuteEffect DEF Quiet
        <4> QED BY <2>1, <3>1, <4>1, EffectFacts
      <3>2. CASE ~(f = s.id /\ Matches(row[f], s))
        BY <2>1, <3>2, ExecuteEffect
      <3> QED BY <3>1, <3>2
    <2>2. row'[f].status # "active"
      BY <2>1, RowsChangeByStatements
    <2> QED BY <2>2, QuietStays
  <1> QED BY <1>1, ControlInvariance, PTL DEF ControlSpec, PauseHolds
===========================================================================
