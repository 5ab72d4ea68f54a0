--------------------------- MODULE WorkflowStart ---------------------------
(***************************************************************************)
(* POST /workflows/start under an idempotency key: start_run_from_body     *)
(* (src/workflow/engine.rs) over create_run (src/workflow/store.rs) and    *)
(* the idempotency claims of fiducia-node (src/coord.rs).                  *)
(*                                                                         *)
(* A request asks its replica's store for a run of its key, asks the node  *)
(* for the key, resolves the definition, looks for a run of the key a      *)
(* second time and inserts a new one.  Each of these is a step of its own: *)
(* the first three await, and the last two lock the store separately.  A   *)
(* run is named after the request that inserts it.  A client may call      *)
(* again, at the same replica, for the same request, until it gets a run.  *)
(***************************************************************************)
EXTENDS Naturals, FiniteSets

CONSTANTS
  Requests,
  Replicas,    \* processes of the service, each with a store of its own
  Keys,        \* idempotency keys
  ReplicaOf,   \* the replica a request is sent to
  KeyOf,       \* the key it carries, if any
  Repeaters,   \* the requests whose client repeats a call that was refused
               \* or failed, until it is answered with a run
  NoKey,
  Nobody,      \* the holder of a claim that nobody holds
  Authority,   \* "node": a coordinator is configured; "local": it is not
  Prompt       \* a claim outlasts the request that holds it: 60 s against
               \* the 5 s of the query that resolves a definition

ASSUME ReplicaOfAssumption == ReplicaOf \in [Requests -> Replicas]
ASSUME KeyOfAssumption == KeyOf \in [Requests -> Keys \cup {NoKey}]
ASSUME RepeatersAssumption == Repeaters \subseteq Requests
ASSUME NoKeyAssumption == NoKey \notin Keys /\ Nobody \notin Requests
ASSUME StartAuthorityAssumption == Authority \in {"node", "local"}
ASSUME PromptAssumption == Prompt \in BOOLEAN

VARIABLES
  stage,   \* how far each request has come
  live,    \* the requests whose run is in the store of their replica
  claim    \* the node's table: the request whose claim of a key stands

startVars == <<stage, live, claim>>

Stages == {"idle", "asking", "claimed", "resolved", "creating",
           "started", "duplicate", "refused", "failed"}

(* Between the grant of its claim and its answer. *)
Granted == {"claimed", "resolved", "creating"}

StartTypeOK ==
  /\ stage \in [Requests -> Stages]
  /\ live \in SUBSET Requests
  /\ claim \in [Keys -> Requests \cup {Nobody}]

StartInit ==
  /\ stage = [q \in Requests |-> "idle"]
  /\ live = {}
  /\ claim = [k \in Keys |-> Nobody]

Keyed(q) == KeyOf[q] # NoKey

(* The runs of q's key that q's replica can see. *)
Existing(q) ==
  {p \in live : ReplicaOf[p] = ReplicaOf[q] /\ KeyOf[p] = KeyOf[q]}

Goto(q, s) == stage' = [stage EXCEPT ![q] = s]

(* A request without a key goes straight to create_run. *)
BeginStart(q) ==
  /\ stage[q] = "idle"
  /\ Goto(q, IF ~Keyed(q) THEN "claimed"
             ELSE IF Existing(q) # {} THEN "duplicate" ELSE "asking")
  /\ UNCHANGED <<live, claim>>

Take(q) ==
  /\ claim[KeyOf[q]] = Nobody
  /\ claim' = [claim EXCEPT ![KeyOf[q]] = q]

(* Without a coordinator every claim is granted. *)
ClaimGranted(q) ==
  /\ stage[q] = "asking"
  /\ IF Authority = "node" THEN Take(q) ELSE UNCHANGED claim
  /\ Goto(q, "claimed")
  /\ UNCHANGED live

ClaimRefused(q) ==
  /\ stage[q] = "asking"
  /\ Authority = "node"
  /\ claim[KeyOf[q]] # Nobody
  /\ Goto(q, "refused")
  /\ UNCHANGED <<live, claim>>

(* The claim's request fails, or its client hangs up, before or after the  *)
(* node granted it.                                                        *)
ClaimFails(q) ==
  /\ stage[q] = "asking"
  /\ Authority = "node"
  /\ Take(q) \/ UNCHANGED claim
  /\ Goto(q, "failed")
  /\ UNCHANGED live

Resolve(q) ==
  /\ stage[q] = "claimed"
  /\ Goto(q, "resolved")
  /\ UNCHANGED <<live, claim>>

(* The definition cannot be loaded or has no steps, or the client hangs up *)
(* and its request is dropped where it waits.  The claim stays.            *)
ResolveFails(q) ==
  /\ stage[q] = "claimed"
  /\ Goto(q, "failed")
  /\ UNCHANGED <<live, claim>>

(* Mutant: create_run trusts the check its caller made. *)
RecheckNothing(q) ==
  /\ stage[q] = "resolved"
  /\ Goto(q, "creating")
  /\ UNCHANGED <<live, claim>>

Recheck(q) ==
  /\ stage[q] = "resolved"
  /\ Goto(q, IF Keyed(q) /\ Existing(q) # {} THEN "duplicate" ELSE "creating")
  /\ UNCHANGED <<live, claim>>

Insert(q) ==
  /\ stage[q] = "creating"
  /\ live' = live \cup {q}
  /\ Goto(q, "started")
  /\ UNCHANGED claim

(* The client is not part of the service.  The claim of its last call may  *)
(* still stand, and then it stands against this one as well.               *)
Repeat(q) ==
  /\ q \in Repeaters
  /\ stage[q] \in {"refused", "failed"}
  /\ Goto(q, "idle")
  /\ UNCHANGED <<live, claim>>

(* The run has ended and its retention is over. *)
Collect(q) ==
  /\ q \in live
  /\ live' = live \ {q}
  /\ UNCHANGED <<stage, claim>>

(* Mutant: claims are made without a time to live, and given up only when  *)
(* a run is there.                                                         *)
ClaimGivenUp(k) ==
  /\ claim[k] # Nobody
  /\ stage[claim[k]] = "started"
  /\ claim' = [claim EXCEPT ![k] = Nobody]
  /\ UNCHANGED <<stage, live>>

ClaimExpires(k) ==
  /\ claim[k] # Nobody
  /\ Prompt => stage[claim[k]] \notin Granted
  /\ claim' = [claim EXCEPT ![k] = Nobody]
  /\ UNCHANGED <<stage, live>>

(* A replica loses its store and the requests it was serving; the node's  *)
(* claims outlive it.                                                     *)
ReplicaCrashes(n) ==
  /\ live' = {q \in live : ReplicaOf[q] # n}
  /\ stage' = [q \in Requests |->
       IF ReplicaOf[q] = n /\ stage[q] \in Granted \cup {"asking"}
       THEN "failed" ELSE stage[q]]
  /\ UNCHANGED claim

Advance(q) ==
  \/ BeginStart(q)
  \/ ClaimGranted(q)
  \/ ClaimRefused(q)
  \/ ClaimFails(q)
  \/ Resolve(q)
  \/ ResolveFails(q)
  \/ Recheck(q)
  \/ Insert(q)
  \/ Repeat(q)
  \/ Collect(q)

StartNext ==
  \/ \E q \in Requests : Advance(q)
  \/ \E k \in Keys : ClaimExpires(k)
  \/ \E n \in Replicas : ReplicaCrashes(n)

StartSpec == StartInit /\ [][StartNext]_startVars

(* A client that repeats its call does not give up, and calls a first      *)
(* time.  Whatever its request waits for, the node's answer or the query   *)
(* that resolves its definition, comes or is cut off by a timeout, and     *)
(* nothing else holds it up.  The node ends every claim when its time to   *)
(* live is over; that of a prompt request needs the request to go on.      *)
Patience ==
  /\ \A q \in Requests :
       /\ WF_startVars(ClaimGranted(q) \/ ClaimRefused(q) \/ ClaimFails(q))
       /\ WF_startVars(Resolve(q) \/ ResolveFails(q))
       /\ WF_startVars(Recheck(q))
       /\ WF_startVars(Insert(q))
  /\ \A q \in Repeaters : WF_startVars(Repeat(q)) /\ WF_startVars(BeginStart(q))
  /\ \A k \in Keys : WF_startVars(ClaimExpires(k))

PatientSpec == StartSpec /\ Patience

---------------------------------------------------------------------------
(* Properties *)

(* store.rs:138, "an existing run with the same key is returned as-is".    *)
(* However requests with the same key overlap, fail and are repeated, and  *)
(* however late the node answers, no replica's store holds two runs of one *)
(* key.                                                                    *)
OneRunPerKey ==
  \A p, q \in live :
    Keyed(p) /\ KeyOf[p] = KeyOf[q] /\ ReplicaOf[p] = ReplicaOf[q] => p = q

(* The implementation is atomic: it answers every request as KeyedStart    *)
(* does, a started run with its insertion, whatever happens between the    *)
(* looks at the store, the claim and the insertion.  A request that is     *)
(* repeated has its answer when it has a run.                              *)
Open(q) ==
  \/ stage[q] \in Granted \cup {"idle", "asking"}
  \/ q \in Repeaters /\ stage[q] \in {"refused", "failed"}

answerSeen == [q \in Requests |-> IF Open(q) THEN "open" ELSE stage[q]]

Atomic == INSTANCE KeyedStart WITH answer <- answerSeen, stored <- live

StartIsAtomic == Atomic!KSpec

Failing == \E q \in Requests : stage[q] # "failed" /\ stage'[q] = "failed"

(* A request that fails after its claim was granted, or dies with its      *)
(* replica, leaves its key claimed and no run, so that all that repeat it  *)
(* are refused, at every replica, as if its run existed.  Once the node,   *)
(* the definitions and the replicas stop failing, each of them is answered *)
(* with a run of its key: no claim is left in the way for ever, and the    *)
(* repetitions do not keep one another out.                                *)
RepeatedStartsAreAccepted ==
  <>[][~Failing]_startVars =>
    \A q \in Repeaters :
      stage[q] \in {"refused", "failed"} ~> stage[q] \in {"started", "duplicate"}

(* The inductive invariant: a granted request holds its key's claim, and   *)
(* one about to insert has no run of its key to see.                       *)
StartIInv ==
  /\ StartTypeOK
  /\ OneRunPerKey
  /\ \A q \in live : stage[q] = "started"
  /\ \A q \in Requests :
       Keyed(q) /\ stage[q] \in Granted => claim[KeyOf[q]] = q
  /\ \A q \in Requests :
       Keyed(q) /\ stage[q] = "creating" => Existing(q) = {}

(* Why there is someone to blame for a refusal: only a key is asked for,   *)
(* its claim is held by a request that was granted it or failed, or is     *)
(* repeated, and a request answered with another's run leads to the one    *)
(* that was started.                                                       *)
AskersHaveKeys == \A q \in Requests : stage[q] = "asking" => Keyed(q)

HoldersCameFirst ==
  \A k \in Keys : claim[k] # Nobody =>
    /\ KeyOf[claim[k]] = k
    /\ claim[k] \in Repeaters \/ stage[claim[k]] \notin {"idle", "asking", "refused"}

DuplicatesHaveAnOriginal ==
  \A q \in Requests : stage[q] = "duplicate" =>
    \E p \in Requests : KeyOf[p] = KeyOf[q] /\ stage[p] = "started"

RefusalIInv == AskersHaveKeys /\ HoldersCameFirst /\ DuplicatesHaveAnOriginal
===========================================================================
