------------------------ MODULE WorkflowStartProofs ------------------------
(***************************************************************************)
(* With a coordinator whose claims outlast the requests that hold them,    *)
(* the two looks at the store and the claim between them keep the runs of  *)
(* one key apart in every replica.                                         *)
(***************************************************************************)
EXTENDS WorkflowStart, TLAPS

(* The invariant holds when the service starts. *)
LEMMA StartInitInvariant == StartInit => StartIInv
  BY NoKeyAssumption DEF StartInit, StartIInv, StartTypeOK, Stages, OneRunPerKey,
     Granted, Existing

(* With a coordinator and prompt requests every step keeps it. *)
LEMMA StartStepInvariant ==
  ASSUME Authority = "node", Prompt, StartIInv, [StartNext]_startVars
  PROVE  StartIInv'
  <1> USE DEF StartTypeOK, Stages, Granted
  <1>. ReplicaOf \in [Requests -> Replicas] /\ KeyOf \in [Requests -> Keys \cup {NoKey}]
    BY ReplicaOfAssumption, KeyOfAssumption
  <1>. NoKey \notin Keys /\ Nobody \notin Requests
    BY NoKeyAssumption
  <1>1. ASSUME NEW q \in Requests, BeginStart(q) PROVE StartIInv'
    BY <1>1 DEF StartIInv, OneRunPerKey, BeginStart, Goto, Keyed, Existing
  <1>2. ASSUME NEW q \in Requests, ClaimGranted(q) PROVE StartIInv'
    BY <1>2 DEF StartIInv, OneRunPerKey, ClaimGranted, Take, Goto, Keyed, Existing
  <1>3. ASSUME NEW q \in Requests, ClaimRefused(q) PROVE StartIInv'
    BY <1>3 DEF StartIInv, OneRunPerKey, ClaimRefused, Goto, Keyed, Existing
  <1>4. ASSUME NEW q \in Requests, ClaimFails(q) PROVE StartIInv'
    BY <1>4 DEF StartIInv, OneRunPerKey, ClaimFails, Take, Goto, Keyed, Existing
  <1>5. ASSUME NEW q \in Requests, Resolve(q) \/ ResolveFails(q) PROVE StartIInv'
    BY <1>5 DEF StartIInv, OneRunPerKey, Resolve, ResolveFails, Goto, Keyed, Existing
  <1>6. ASSUME NEW q \in Requests, Recheck(q) PROVE StartIInv'
    BY <1>6 DEF StartIInv, OneRunPerKey, Recheck, Goto, Keyed, Existing
  <1>7. ASSUME NEW q \in Requests, Insert(q) PROVE StartIInv'
    <2>1. StartTypeOK' /\ \A p \in live' : stage'[p] = "started"
      BY <1>7 DEF StartIInv, Insert, Goto
    <2>2. \A p \in Requests : Keyed(p) /\ stage'[p] \in Granted => claim'[KeyOf[p]] = p
      BY <1>7 DEF StartIInv, Insert, Goto
    <2>3. OneRunPerKey'
      BY <1>7 DEF StartIInv, Insert, OneRunPerKey, Existing, Keyed
    <2>4. \A p \in Requests : Keyed(p) /\ stage'[p] = "creating" => Existing(p)' = {}
      <3> SUFFICES ASSUME NEW p \in Requests, Keyed(p), stage'[p] = "creating"
                   PROVE  Existing(p)' = {}
        OBVIOUS
      <3>1. p # q /\ stage[p] = "creating" /\ Existing(p) = {}
        BY <1>7 DEF StartIInv, Insert, Goto
      <3>2. KeyOf[p] # KeyOf[q]
        BY <1>7, <3>1 DEF StartIInv, Insert, Keyed
      <3> QED BY <1>7, <3>1, <3>2 DEF Insert, Existing
    <2> QED BY <2>1, <2>2, <2>3, <2>4 DEF StartIInv, Keyed
  <1>8. ASSUME NEW q \in Requests, Collect(q) PROVE StartIInv'
    BY <1>8 DEF StartIInv, OneRunPerKey, Collect, Goto, Keyed, Existing
  <1>9. ASSUME NEW k \in Keys, ClaimExpires(k) PROVE StartIInv'
    BY <1>9 DEF StartIInv, OneRunPerKey, ClaimExpires, Keyed, Existing
  <1>10. ASSUME NEW n \in Replicas, ReplicaCrashes(n) PROVE StartIInv'
    BY <1>10 DEF StartIInv, OneRunPerKey, ReplicaCrashes, Keyed, Existing
  <1>11. ASSUME NEW q \in Requests, Repeat(q) PROVE StartIInv'
    BY <1>11 DEF StartIInv, OneRunPerKey, Repeat, Goto, Keyed, Existing
  <1>12. CASE UNCHANGED startVars
    BY <1>12 DEF StartIInv, OneRunPerKey, startVars, Keyed, Existing
  <1> QED BY <1>1, <1>2, <1>3, <1>4, <1>5, <1>6, <1>7, <1>8, <1>9, <1>10, <1>11, <1>12
          DEF StartNext, Advance

(* start_run_from_body and create_run never leave two runs of one key in   *)
(* a store, however many requests carry it, however they overlap, and      *)
(* however many replicas take them.                                        *)
THEOREM OneRunOfAKey ==
  ASSUME Authority = "node", Prompt
  PROVE  StartSpec => []OneRunPerKey
  <1>1. StartIInv => OneRunPerKey
    BY DEF StartIInv
  <1>2. StartIInv /\ [StartNext]_startVars => StartIInv'
    BY StartStepInvariant
  <1> QED BY <1>1, <1>2, StartInitInvariant, PTL DEF StartSpec

---------------------------------------------------------------------------
(* Refusals *)

LEMMA RefusalInit == StartInit => RefusalIInv
  BY DEF StartInit, RefusalIInv, AskersHaveKeys, HoldersCameFirst,
     DuplicatesHaveAnOriginal

LEMMA AskersKept ==
  ASSUME StartTypeOK, AskersHaveKeys, [StartNext]_startVars
  PROVE  AskersHaveKeys'
  BY DEF StartTypeOK, Stages, Granted, StartNext, Advance, startVars, BeginStart,
     ClaimGranted, ClaimRefused, ClaimFails, Resolve, ResolveFails, Recheck, Insert,
     Repeat, Collect, ClaimExpires, ReplicaCrashes, Goto, AskersHaveKeys, Keyed

(* Only a grant takes a claim, and only a repeated request goes back to    *)
(* where the claim is asked for.                                           *)
LEMMA HoldersKept ==
  ASSUME StartTypeOK, HoldersCameFirst, [StartNext]_startVars
  PROVE  HoldersCameFirst'
  <1> USE DEF StartTypeOK, Stages, Granted, HoldersCameFirst
  <1>. KeyOf \in [Requests -> Keys \cup {NoKey}] /\ Nobody \notin Requests
    BY KeyOfAssumption, NoKeyAssumption
  <1>1. ASSUME NEW q \in Requests, BeginStart(q) PROVE HoldersCameFirst'
    BY <1>1 DEF BeginStart, Goto
  <1>2. ASSUME NEW q \in Requests, ClaimGranted(q) PROVE HoldersCameFirst'
    BY <1>2 DEF ClaimGranted, Take, Goto
  <1>3. ASSUME NEW q \in Requests, ClaimRefused(q) PROVE HoldersCameFirst'
    BY <1>3 DEF ClaimRefused, Goto
  <1>4. ASSUME NEW q \in Requests, ClaimFails(q) PROVE HoldersCameFirst'
    BY <1>4 DEF ClaimFails, Take, Goto
  <1>5. ASSUME NEW q \in Requests, Resolve(q) \/ ResolveFails(q)
        PROVE  HoldersCameFirst'
    BY <1>5 DEF Resolve, ResolveFails, Goto
  <1>6. ASSUME NEW q \in Requests, Recheck(q) \/ Insert(q) PROVE HoldersCameFirst'
    BY <1>6 DEF Recheck, Insert, Goto
  <1>7. ASSUME NEW k \in Keys, ClaimExpires(k) PROVE HoldersCameFirst'
    BY <1>7 DEF ClaimExpires
  <1>8. ASSUME NEW n \in Replicas, ReplicaCrashes(n) PROVE HoldersCameFirst'
    BY <1>8 DEF ReplicaCrashes
  <1>9. ASSUME NEW q \in Requests, Repeat(q) PROVE HoldersCameFirst'
    BY <1>9 DEF Repeat, Goto
  <1>10. ASSUME UNCHANGED <<stage, claim>> PROVE HoldersCameFirst'
    BY <1>10
  <1> QED BY <1>1, <1>2, <1>3, <1>4, <1>5, <1>6, <1>7, <1>8, <1>9, <1>10
          DEF StartNext, Advance, Collect, startVars

(* No answer is taken back. *)
LEMMA AnswersStand ==
  ASSUME StartTypeOK, [StartNext]_startVars, NEW p \in Requests,
         stage[p] \in {"started", "duplicate"}
  PROVE  stage'[p] = stage[p]
  BY DEF StartTypeOK, Stages, Granted, StartNext, Advance, startVars, BeginStart,
     ClaimGranted, ClaimRefused, ClaimFails, Resolve, ResolveFails, Recheck, Insert,
     Repeat, Collect, ClaimExpires, ReplicaCrashes, Goto

(* A request becomes a duplicate only by seeing a run of its key. *)
LEMMA DuplicatesSaw ==
  ASSUME StartTypeOK, [StartNext]_startVars, NEW q \in Requests,
         stage[q] # "duplicate", stage'[q] = "duplicate"
  PROVE  Existing(q) # {}
  BY DEF StartTypeOK, Stages, Granted, StartNext, Advance, startVars, BeginStart,
     ClaimGranted, ClaimRefused, ClaimFails, Resolve, ResolveFails, Recheck, Insert,
     Repeat, Collect, ClaimExpires, ReplicaCrashes, Goto

LEMMA OriginalsKept ==
  ASSUME StartIInv, DuplicatesHaveAnOriginal, [StartNext]_startVars
  PROVE  DuplicatesHaveAnOriginal'
  <1>1. StartTypeOK /\ \A p \in live : stage[p] = "started"
    BY DEF StartIInv
  <1> SUFFICES ASSUME NEW q \in Requests, stage'[q] = "duplicate"
               PROVE  \E p \in Requests : KeyOf[p] = KeyOf[q] /\ stage'[p] = "started"
    BY DEF DuplicatesHaveAnOriginal
  <1>2. \E p \in Requests : KeyOf[p] = KeyOf[q] /\ stage[p] = "started"
    <2>1. CASE stage[q] = "duplicate"
      BY <2>1 DEF DuplicatesHaveAnOriginal
    <2>2. CASE stage[q] # "duplicate"
      <3>1. Existing(q) # {}
        BY <1>1, <2>2, DuplicatesSaw
      <3> QED BY <1>1, <3>1 DEF Existing, StartTypeOK
    <2> QED BY <2>1, <2>2
  <1> QED BY <1>1, <1>2, AnswersStand

LEMMA StartInvariant ==
  ASSUME Authority = "node", Prompt
  PROVE  StartSpec => [](StartIInv /\ RefusalIInv)
  <1>1. StartIInv /\ RefusalIInv /\ [StartNext]_startVars => (StartIInv /\ RefusalIInv)'
    BY StartStepInvariant, AskersKept, HoldersKept, OriginalsKept DEF RefusalIInv, StartIInv
  <1> QED BY <1>1, StartInitInvariant, RefusalInit, PTL DEF StartSpec

---------------------------------------------------------------------------
(* Atomicity *)

(* A step that leaves the store and what the clients know alone is none of *)
(* KeyedStart's.                                                           *)
LEMMA Unseen ==
  ASSUME StartTypeOK, UNCHANGED live,
         \A q \in Requests : answerSeen'[q] = answerSeen[q]
  PROVE  UNCHANGED Atomic!keyedVars
  BY DEF answerSeen, Atomic!keyedVars

LEMMA AnswerSeen ==
  ASSUME StartTypeOK, NEW q \in Requests, NEW s \in Stages \ Granted, Goto(q, s),
         s \notin {"idle", "asking"}, answerSeen[q] = "open",
         s \in {"refused", "failed"} => q \notin Repeaters
  PROVE  Atomic!Answer(q, s)
  BY DEF StartTypeOK, Stages, Granted, Goto, answerSeen, Open, Atomic!Answer

LEMMA StillOpen ==
  ASSUME StartTypeOK, NEW q \in Requests, NEW s \in Stages, Goto(q, s),
         \/ s \in Granted \cup {"idle", "asking"}
         \/ q \in Repeaters /\ s \in {"refused", "failed"},
         answerSeen[q] = "open", UNCHANGED live
  PROVE  UNCHANGED Atomic!keyedVars
  BY DEF StartTypeOK, Stages, Granted, Goto, answerSeen, Open, Atomic!keyedVars

(* What each step is to KeyedStart: nothing, one of its actions, or, for   *)
(* the insertion, the whole request.                                       *)
LEMMA StartStepRefines ==
  ASSUME StartIInv, RefusalIInv, [StartNext]_startVars
  PROVE  [Atomic!KNext]_Atomic!keyedVars
  <1>1. StartTypeOK
    BY DEF StartIInv
  <1>2. \A q \in Requests : Keyed(q) <=> Atomic!HasKey(q)
    BY DEF Keyed, Atomic!HasKey
  <1>3. \A q \in Requests : Existing(q) = Atomic!RunsOfKey(q)
    BY DEF Existing, Atomic!RunsOfKey
  <1>4. ASSUME NEW q \in Requests,
               \/ Atomic!Create(q) \/ Atomic!Replay(q) \/ Atomic!Refuse(q)
               \/ Atomic!GiveUp(q) \/ Atomic!Remove(q)
        PROVE  Atomic!KNext
    BY <1>4 DEF Atomic!KNext
  <1>5. ASSUME NEW q \in Requests, UNCHANGED live, answerSeen[q] = "open",
               Goto(q, "duplicate"), Keyed(q), Existing(q) # {}
        PROVE  Atomic!Replay(q)
    BY <1>1, <1>2, <1>3, <1>5, AnswerSeen DEF Atomic!Replay, Stages, Granted
  <1>6. ASSUME NEW q \in Requests, UNCHANGED live, answerSeen[q] = "open",
               Goto(q, "failed")
        PROVE  [Atomic!KNext]_Atomic!keyedVars
    <2>1. CASE q \in Repeaters
      BY <1>1, <1>6, <2>1, StillOpen DEF Stages
    <2>2. CASE q \notin Repeaters
      <3>1. Atomic!GiveUp(q)
        BY <1>1, <1>6, <2>2, AnswerSeen DEF Atomic!GiveUp, Stages, Granted
      <3> QED BY <1>4, <3>1
    <2> QED BY <2>1, <2>2
  <1>7. ASSUME NEW q \in Requests, NEW s \in Granted \cup {"idle", "asking"},
               UNCHANGED live, answerSeen[q] = "open", Goto(q, s)
        PROVE  UNCHANGED Atomic!keyedVars
    BY <1>1, <1>7, StillOpen DEF Stages, Granted
  <1>8. ASSUME NEW q \in Requests, BeginStart(q)
        PROVE  [Atomic!KNext]_Atomic!keyedVars
    <2>1. answerSeen[q] = "open" /\ UNCHANGED live
      BY <1>8 DEF BeginStart, answerSeen, Open
    <2>2. CASE Keyed(q) /\ Existing(q) # {}
      BY <1>4, <1>5, <1>8, <2>1, <2>2 DEF BeginStart
    <2>3. CASE ~(Keyed(q) /\ Existing(q) # {})
      <3>1. \E s \in Granted \cup {"asking"} : Goto(q, s)
        BY <1>8, <2>3 DEF BeginStart, Granted
      <3> QED BY <1>7, <2>1, <3>1
    <2> QED BY <2>2, <2>3
  <1>9. ASSUME NEW q \in Requests, ClaimGranted(q)
        PROVE  UNCHANGED Atomic!keyedVars
    BY <1>7, <1>9 DEF ClaimGranted, answerSeen, Open, Granted
  <1>10. ASSUME NEW q \in Requests, ClaimRefused(q)
         PROVE  [Atomic!KNext]_Atomic!keyedVars
    <2>1. stage[q] = "asking" /\ answerSeen[q] = "open" /\ UNCHANGED live
      BY <1>10 DEF ClaimRefused, answerSeen, Open
    <2>2. CASE q \in Repeaters
      BY <1>1, <1>10, <2>1, <2>2, StillOpen DEF ClaimRefused, Stages
    <2>3. CASE q \notin Repeaters
      <3>1. Keyed(q) /\ KeyOf[q] \in Keys
        BY <2>1, KeyOfAssumption DEF RefusalIInv, AskersHaveKeys, Keyed
      <3>2. Atomic!Answer(q, "refused")
        BY <1>1, <1>10, <2>1, <2>3, AnswerSeen DEF ClaimRefused, Stages, Granted
      <3>3. PICK p \in Requests :
              /\ KeyOf[p] = KeyOf[q]
              /\ p \in Repeaters \/ stage[p] \notin {"idle", "asking", "refused"}
        BY <1>1, <1>10, <3>1 DEF RefusalIInv, HoldersCameFirst, ClaimRefused, StartTypeOK
      <3>4. PICK o \in Requests :
              /\ KeyOf[o] = KeyOf[q]
              /\ o # q
              /\ answerSeen[o] \notin {"refused", "duplicate"}
        <4>1. CASE stage[p] = "duplicate"
          <5>1. PICK o \in Requests : KeyOf[o] = KeyOf[p] /\ stage[o] = "started"
            BY <4>1 DEF RefusalIInv, DuplicatesHaveAnOriginal
          <5> QED BY <2>1, <3>3, <5>1 DEF answerSeen
        <4>2. CASE stage[p] # "duplicate"
          <5>1. p # q
            BY <2>1, <2>3, <3>3
          <5>2. answerSeen[p] \notin {"refused", "duplicate"}
            BY <3>3, <4>2 DEF answerSeen, Open
          <5> QED BY <3>3, <5>1, <5>2
        <4> QED BY <4>1, <4>2
      <3>5. Atomic!Refuse(q)
        BY <1>2, <2>1, <3>1, <3>2, <3>4 DEF Atomic!Refuse
      <3> QED BY <1>4, <3>5
    <2> QED BY <2>2, <2>3
  <1>11. ASSUME NEW q \in Requests, ClaimFails(q) \/ ResolveFails(q)
         PROVE  [Atomic!KNext]_Atomic!keyedVars
    BY <1>6, <1>11 DEF ClaimFails, ResolveFails, answerSeen, Open, Granted
  <1>12. ASSUME NEW q \in Requests, Resolve(q) PROVE UNCHANGED Atomic!keyedVars
    BY <1>7, <1>12 DEF Resolve, answerSeen, Open, Granted
  <1>13. ASSUME NEW q \in Requests, Recheck(q)
         PROVE  [Atomic!KNext]_Atomic!keyedVars
    <2>1. answerSeen[q] = "open" /\ UNCHANGED live
      BY <1>13 DEF Recheck, answerSeen, Open, Granted
    <2>2. CASE Keyed(q) /\ Existing(q) # {}
      BY <1>4, <1>5, <1>13, <2>1, <2>2 DEF Recheck
    <2>3. CASE ~(Keyed(q) /\ Existing(q) # {})
      <3>1. Goto(q, "creating")
        BY <1>13, <2>3 DEF Recheck
      <3> QED BY <1>7, <2>1, <3>1 DEF Granted
    <2> QED BY <2>2, <2>3
  <1>14. ASSUME NEW q \in Requests, Insert(q) PROVE Atomic!KNext
    <2>1. answerSeen[q] = "open" /\ (Keyed(q) => Existing(q) = {})
      BY <1>14 DEF Insert, answerSeen, Open, Granted, StartIInv
    <2>2. Atomic!Answer(q, "started")
      BY <1>1, <1>14, <2>1, AnswerSeen DEF Insert, Stages, Granted
    <2>3. Atomic!Create(q)
      BY <1>2, <1>3, <1>14, <2>1, <2>2 DEF Insert, Atomic!Create
    <2> QED BY <1>4, <2>3
  <1>15. ASSUME NEW q \in Requests, Collect(q) PROVE Atomic!KNext
    <2>1. Atomic!Remove(q)
      BY <1>15 DEF Collect, Atomic!Remove, answerSeen, Open
    <2> QED BY <1>4, <2>1
  <1>16. ASSUME NEW k \in Keys, ClaimExpires(k) PROVE UNCHANGED Atomic!keyedVars
    BY <1>16 DEF ClaimExpires, Atomic!keyedVars, answerSeen, Open
  <1>17. ASSUME NEW n \in Replicas, ReplicaCrashes(n) PROVE Atomic!KNext
    <2> DEFINE S == {q \in Requests \ Repeaters :
                       ReplicaOf[q] = n /\ stage[q] \in Granted \cup {"asking"}}
    <2>1. S \in SUBSET {q \in Requests : ReplicaOf[q] = n /\ answerSeen[q] = "open"}
      BY DEF answerSeen, Open
    <2>2. answerSeen' = [q \in Requests |-> IF q \in S THEN "failed" ELSE answerSeen[q]]
      BY <1>1, <1>17 DEF ReplicaCrashes, answerSeen, Open, StartTypeOK, Granted
    <2>3. Atomic!Crash(n)
      BY <1>17, <2>1, <2>2 DEF ReplicaCrashes, Atomic!Crash
    <2> QED BY <2>3 DEF Atomic!KNext
  <1>18. ASSUME NEW q \in Requests, Repeat(q) PROVE UNCHANGED Atomic!keyedVars
    BY <1>7, <1>18 DEF Repeat, answerSeen, Open, Granted
  <1>19. CASE UNCHANGED startVars
    BY <1>19 DEF startVars, Atomic!keyedVars, answerSeen, Open
  <1> QED BY <1>8, <1>9, <1>10, <1>11, <1>12, <1>13, <1>14, <1>15, <1>16, <1>17, <1>18,
             <1>19
          DEF StartNext, Advance

(* Every answer start_run_from_body gives is one that finding or creating  *)
(* the run of the key in a single step could have given: the looks at the  *)
(* store, the claim, the await of the definition and the insertion, with   *)
(* crashes, expiries and hang-ups between them, cannot be told apart from  *)
(* it.                                                                     *)
THEOREM StartsAreAtomic ==
  ASSUME Authority = "node", Prompt
  PROVE  StartSpec => StartIsAtomic
  <1>1. StartInit => Atomic!KInit
    BY DEF StartInit, Atomic!KInit, answerSeen, Open
  <1>2. StartIInv /\ RefusalIInv /\ [StartNext]_startVars
        => [Atomic!KNext]_Atomic!keyedVars
    BY StartStepRefines
  <1> QED BY <1>1, <1>2, StartInvariant, PTL DEF StartSpec, StartIsAtomic, Atomic!KSpec
===========================================================================
