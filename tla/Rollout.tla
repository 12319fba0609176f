------------------------------ MODULE Rollout -------------------------------
(***************************************************************************)
(* Two pods on one database, as in every rolling update: the Deployment    *)
(* asks for one replica and names no strategy, so Kubernetes starts the    *)
(* new pod before it stops the old one. Both poll, both replace the same   *)
(* observation rows, and neither looks at the database again after the    *)
(* seed (deploy/manifests/deployment.yaml:11 leaves "multi-replica         *)
(* hysteresis ownership" to "a later problem").                            *)
(*                                                                         *)
(* Each pod is a Poller. The variables of Poller are those of the first    *)
(* pod and the database; the second pod has its own copy of all of them    *)
(* but db. A pod that is down stands for the one that ended and for the    *)
(* one that is not created yet.                                            *)
(*                                                                         *)
(* The pods meet only in db, and a subject's row depends on that subject   *)
(* alone; so the namespace stays quiet here and the buckets are watched.   *)
(***************************************************************************)
EXTENDS Poller

VARIABLES pc2, rows2, atQuota2, pollOK2, inventoryOK2, payload2, answered2, pending2

first == <<pc, snapshot, locals>>
second == <<pc2, rows2, atQuota2, pollOK2, inventoryOK2, payload2, answered2, pending2>>
pods == <<first, second, db>>

Other == INSTANCE Poller WITH
  pc <- pc2, rows <- rows2, atQuota <- atQuota2, pollOK <- pollOK2,
  inventoryOK <- inventoryOK2, payload <- payload2, answered <- answered2,
  pending <- pending2

\* What ECS says while the namespace has no threshold and holds nothing.
QuietBill == {p \in Bill : p[Namespace] = 0}
QuietAnswers ==
  {a \in (SUBSET Kinds) \X [Subjects -> Limits] :
     "namespace" \in a[1] /\ a[2][Namespace] = Nil}

Pod1 ==
  \/ Start(Kinds)
  \/ BillingFailed
  \/ \E p \in QuietBill : BillingAnswered(p)
  \/ \E a \in QuietAnswers : InventoryFetched(a[1], a[2])
  \/ StoreReturns
  \/ Published
  \/ Crash

Pod2 ==
  \/ Other!Start(Kinds)
  \/ Other!BillingFailed
  \/ \E p \in QuietBill : Other!BillingAnswered(p)
  \/ \E a \in QuietAnswers : Other!InventoryFetched(a[1], a[2])
  \/ Other!StoreReturns
  \/ Other!Published
  \/ Other!Crash

PodsInit == Init /\ Other!Init

PodsNext ==
  \/ Pod1 /\ UNCHANGED second
  \/ Pod2 /\ UNCHANGED first

PodsSpec == PodsInit /\ [][PodsNext]_pods

\* As in Poller: a wait of the first pod ends, and Kubernetes restarts it.
PodsFairness == WF_pods(Pod1 /\ UNCHANGED second /\ pc # "idle" /\ pc' # "down")

PodsFairSpec == PodsSpec /\ PodsFairness

----------------------------------------------------------------------------
(***************************************************************************)
(* The pods agree that s is over its threshold: the database and whatever  *)
(* a living pod shows or is about to commit carry the alarm.               *)
(***************************************************************************)
Carries(p, shown, coming) ==
  /\ p # "down" => shown.confirmed
  /\ p \in {"persist", "publish"} => coming.confirmed

Agreed(s) ==
  /\ db[s].confirmed
  /\ Carries(pc, rows[s], pending[s])
  /\ Carries(pc2, rows2[s], pending2[s])

(***************************************************************************)
(* An alarm both pods agree on survives the overlap: polls that interleave *)
(* in any order, commits that fail, inventory outages seen by one pod only *)
(* and either pod's end or start leave it in the database and on both      *)
(* screens, until one pod gets evidence from ECS that it is over.          *)
(***************************************************************************)
AgreedAlarmSurvives ==
  [][\A s \in Subjects :
       Agreed(s) /\ ~Agreed(s)' =>
         \/ pc = "inventory" /\ pc' = "persist" /\ Evidence(s)'
         \/ pc2 = "inventory" /\ pc2' = "persist" /\ Other!Evidence(s)']_pods

(***************************************************************************)
(* While they overlap a pod may overwrite what the other one committed.    *)
(* Once the other pod stays down, ECS keeps answering and the commits work,*)
(* the database again is what the remaining pod shows, and stays so: the   *)
(* next restart finds the alarms that were on the screen.                  *)
(***************************************************************************)
CommitsWork == <>[][pc = "persist" /\ pc' = "publish" => db' = pending]_pods

OverlapHeals ==
  /\ <>[](pc2 = "down")
  /\ StaysUp
  /\ []<><<pc = "idle" /\ pc' = "inventory">>_pods
  /\ CommitsWork
  => <>[]SnapshotIsDurable
=============================================================================
