---------------------------- MODULE KeyedStart ----------------------------
(***************************************************************************)
(* What starting a workflow under an idempotency key promises, without     *)
(* claims, awaits or the two looks at the store: a request is answered in  *)
(* one step, which finds the run of its key in its replica's store or      *)
(* creates it there.                                                       *)
(***************************************************************************)
CONSTANTS Requests, Replicas, ReplicaOf, KeyOf, NoKey

VARIABLES
  answer,  \* of each request: "open" until it has one
  stored   \* the requests whose run is in the store of their replica

keyedVars == <<answer, stored>>

HasKey(q) == KeyOf[q] # NoKey

RunsOfKey(q) ==
  {p \in stored : ReplicaOf[p] = ReplicaOf[q] /\ KeyOf[p] = KeyOf[q]}

Answer(q, a) ==
  /\ answer[q] = "open"
  /\ answer' = [answer EXCEPT ![q] = a]

KInit ==
  /\ answer = [q \in Requests |-> "open"]
  /\ stored = {}

Create(q) ==
  /\ Answer(q, "started")
  /\ HasKey(q) => RunsOfKey(q) = {}
  /\ stored' = stored \cup {q}

Replay(q) ==
  /\ Answer(q, "duplicate")
  /\ HasKey(q)
  /\ RunsOfKey(q) # {}
  /\ UNCHANGED stored

(* A key is refused only where another request that carries it, at         *)
(* whichever replica, has been or may be answered otherwise: no contention *)
(* refuses everyone.                                                       *)
Refuse(q) ==
  /\ Answer(q, "refused")
  /\ HasKey(q)
  /\ \E p \in Requests \ {q} :
       KeyOf[p] = KeyOf[q] /\ answer[p] \notin {"refused", "duplicate"}
  /\ UNCHANGED stored

GiveUp(q) ==
  /\ Answer(q, "failed")
  /\ UNCHANGED stored

(* A run that has ended leaves the store. *)
Remove(q) ==
  /\ q \in stored
  /\ stored' = stored \ {q}
  /\ UNCHANGED answer

(* A replica forgets its runs, and may leave requests of its own without   *)
(* the answer they waited for.                                             *)
Crash(n) ==
  /\ stored' = {q \in stored : ReplicaOf[q] # n}
  /\ \E S \in SUBSET {q \in Requests : ReplicaOf[q] = n /\ answer[q] = "open"} :
       answer' = [q \in Requests |-> IF q \in S THEN "failed" ELSE answer[q]]

KNext ==
  \/ \E q \in Requests : \/ Create(q) \/ Replay(q) \/ Refuse(q)
                         \/ GiveUp(q) \/ Remove(q)
  \/ \E n \in Replicas : Crash(n)

KSpec == KInit /\ [][KNext]_keyedVars
===========================================================================
