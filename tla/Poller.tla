------------------------------- MODULE Poller -------------------------------
(***************************************************************************)
(* The poller process of internal/poller/poller.go with the durable        *)
(* observation of internal/store behind it and the health endpoints of     *)
(* internal/http in front of it.                                           *)
(*                                                                         *)
(* One goroutine runs pollOnce again and again. pollOnce is cut where it   *)
(* waits for somebody else: ECS billing, ECS inventory, the store. The     *)
(* process may die at each of these places and is started again by         *)
(* Kubernetes; New then seeds the snapshot from the store. HTTP readers    *)
(* copy the snapshot under its lock, so they see the snapshot variables of *)
(* one state and their handlers are state functions below.                 *)
(*                                                                         *)
(* The namespace has a threshold, a streak and an alarm like every bucket  *)
(* and pollOnce treats it by the same rules: both are subjects. Where the  *)
(* code differs (own inventory endpoint, own table, always billed, at-quota*)
(* flag recomputed by the seed) the definitions say so.                    *)
(*                                                                         *)
(* Left out here: notification thresholds and the default block size       *)
(* (carried like the block threshold, read by nobody who decides), object  *)
(* and multipart counters, times, derived activity.                        *)
(***************************************************************************)
EXTENDS Quota

CONSTANTS
  Buckets,      \* bucket names ECS may bill
  Namespace,    \* the configured namespace
  Sizes,        \* used bytes ECS may report
  Thresholds,   \* block_size values ECS may report (positive only)
  StreakBound,  \* bound: streaks from here on are identified
  Faults        \* what may go wrong, a subset of FaultKinds

FaultKinds == {"billing", "inventory", "persist", "seed", "crash"}

ASSUME PollerAssumption ==
  /\ Namespace \notin Buckets
  /\ Sizes \subseteq Nat /\ Sizes # {}
  /\ Thresholds \subseteq Nat \ {0}
  /\ StreakBound \in Nat /\ StreakBound >= 2
  /\ Faults \subseteq FaultKinds

Subjects == Buckets \cup {Namespace}
Limits == Thresholds \cup {Nil}

\* Buckets and the namespace each have an inventory endpoint and a table.
Kinds == {"buckets", "namespace"}
Kind(s) == IF s = Namespace THEN "namespace" ELSE "buckets"

\* The observation of a subject: a StateRow, a NamespaceState, or the part of
\* the snapshot that is carried from poll to poll. known and limit are the
\* ObservedLimit of the block threshold.
Row == [present : BOOLEAN, used : Sizes \cup {0}, streak : 0..StreakBound,
        confirmed : BOOLEAN, known : BOOLEAN, limit : Limits]

\* A subject without an observation: a map lookup gives Go's zero value.
NoRow == [present |-> FALSE, used |-> 0, streak |-> 0, confirmed |-> FALSE,
          known |-> FALSE, limit |-> Nil]

NoRows == [s \in Subjects |-> NoRow]
NotBilled == [s \in Subjects |-> Nil]

VARIABLES
  pc,           \* where the process is: "down", or the step pollOnce is at
  db,           \* durable rows, one per subject
  rows,         \* snapshot: the rows readers see
  atQuota,      \* snapshot: the AtQuota flags
  pollOK,       \* snapshot: PollOK
  inventoryOK,  \* snapshot: InventoryOK
  payload,      \* local to pollOnce: billed bytes, Nil if not in the answer
  answered,     \* local to pollOnce: the inventory endpoints that answered
  pending       \* local to pollOnce: the rows it computed

snapshot == <<rows, atQuota, pollOK, inventoryOK>>
locals == <<payload, answered, pending>>
vars == <<pc, db, snapshot, locals>>

TypeOK ==
  /\ pc \in {"down", "idle", "inventory", "persist", "publish"}
  /\ db \in [Subjects -> Row]
  /\ rows \in [Subjects -> Row]
  /\ atQuota \in [Subjects -> BOOLEAN]
  /\ pollOK \in BOOLEAN
  /\ inventoryOK \in BOOLEAN
  /\ payload \in [Subjects -> Sizes \cup {Nil}]
  /\ answered \in SUBSET Kinds
  /\ pending \in [Subjects -> Row]

----------------------------------------------------------------------------
\* MUTANT: the alarm is judged against the cached threshold, not the new one.
ObservedStale(s, prev, used, ok, fetched) ==
  IF used = Nil THEN NoRow
  ELSE LET known == ok \/ prev.known
           limit == IF ok THEN fetched ELSE prev.limit
           next  == Advance(prev, ok, known, IF prev.known THEN prev.limit ELSE limit, used)
       IN  [present |-> TRUE, used |-> used, confirmed |-> next.confirmed,
            streak |-> IF next.streak > StreakBound THEN StreakBound ELSE next.streak,
            known |-> known, limit |-> limit]

(***************************************************************************)
(* What one successful billing answer makes of a subject. ok says that the *)
(* subject's inventory endpoint answered; fetched is the threshold it gave *)
(* (Nil: explicitly unset, or the bucket is not in the answer). If it did  *)
(* not answer, the previous observation's threshold stands in.             *)
(***************************************************************************)
Observed(s, prev, used, ok, fetched) ==
  IF used = Nil THEN NoRow
  ELSE LET known == ok \/ prev.known
           limit == IF ok THEN fetched ELSE prev.limit
           next  == Advance(prev, ok, known, limit, used)
       IN  [present |-> TRUE, used |-> used, confirmed |-> next.confirmed,
            streak |-> IF next.streak > StreakBound THEN StreakBound ELSE next.streak,
            known |-> known, limit |-> limit]

\* Rows written before migration 004 carry an alarm but no threshold; the
\* namespace table did not exist yet.
LegacyRow ==
  {NoRow} \cup
  {[present |-> TRUE, used |-> u, streak |-> n, confirmed |-> n >= 2,
    known |-> FALSE, limit |-> Nil] : u \in Sizes, n \in 0..StreakBound}

Init ==
  /\ pc = "down"
  /\ db \in {d \in [Subjects -> LegacyRow] : d[Namespace] = NoRow}
  /\ rows = NoRows
  /\ atQuota = [s \in Subjects |-> FALSE]
  /\ pollOK = FALSE
  /\ inventoryOK = FALSE
  /\ payload = NotBilled
  /\ answered = {}
  /\ pending = NoRows

Forget ==  \* pollOnce returns: its locals are gone
  /\ payload' = NotBilled
  /\ answered' = {}
  /\ pending' = NoRows

----------------------------------------------------------------------------
\* MUTANT: the seed restores the observation but not the alarm.
SeededQuiet(s, read) ==
  IF Kind(s) \in read
  THEN [db[s] EXCEPT !.streak = 0, !.confirmed = FALSE]
  ELSE NoRow

Seeded(s, read) == IF Kind(s) \in read THEN db[s] ELSE NoRow

\* MUTANT: a process that has seeded a snapshot counts as ready.
StartReady(read) ==
  /\ pc = "down"
  /\ read = Kinds \/ "seed" \in Faults
  /\ rows' = [s \in Subjects |-> Seeded(s, read)]
  /\ atQuota' = [s \in Subjects |->
       s = Namespace /\ AtQuota(rows'[s].limit, rows'[s].used)]
  /\ pollOK' = (read = Kinds)
  /\ inventoryOK' = FALSE
  /\ pc' = "idle"
  /\ UNCHANGED <<db, locals>>

(***************************************************************************)
(* main.go opens the store, migrates and calls New. A table that cannot be *)
(* read is only logged: read is the set of tables that could. The at-quota *)
(* flag is recomputed for the namespace and left FALSE for buckets.        *)
(***************************************************************************)
Start(read) ==
  /\ pc = "down"
  /\ read = Kinds \/ "seed" \in Faults
  /\ rows' = [s \in Subjects |-> Seeded(s, read)]
  /\ atQuota' = [s \in Subjects |->
       s = Namespace /\ AtQuota(rows'[s].limit, rows'[s].used)]
  /\ pollOK' = FALSE
  /\ inventoryOK' = FALSE
  /\ pc' = "idle"
  /\ UNCHANGED <<db, locals>>

\* The namespace is always billed; a bucket may be missing from the answer.
Bill ==
  {p \in [Subjects -> Sizes \cup {Nil}] : p[Namespace] # Nil}

BillingAnswered(p) ==
  /\ pc = "idle"
  /\ payload' = p
  /\ pc' = "inventory"
  /\ UNCHANGED <<db, snapshot, answered, pending>>

\* MUTANT: a failed billing poll starts from an empty observation.
BillingFailedWipes ==
  /\ pc = "idle"
  /\ "billing" \in Faults
  /\ pollOK' = FALSE
  /\ rows' = NoRows
  /\ UNCHANGED <<pc, db, atQuota, inventoryOK, locals>>

BillingFailed ==
  /\ pc = "idle"
  /\ "billing" \in Faults
  /\ pollOK' = FALSE
  /\ UNCHANGED <<pc, db, rows, atQuota, inventoryOK, locals>>

(***************************************************************************)
(* fetchInventory and the loop after it. carried() copies the snapshot     *)
(* before the wait; the snapshot has no other writer, so that copy is the  *)
(* snapshot itself.                                                        *)
(***************************************************************************)
InventoryFetched(ok, fetched) ==
  /\ pc = "inventory"
  /\ ok = Kinds \/ "inventory" \in Faults
  /\ answered' = ok
  /\ pending' = [s \in Subjects |->
       Observed(s, rows[s], payload[s], Kind(s) \in ok, fetched[s])]
  /\ pc' = "persist"
  /\ UNCHANGED <<db, snapshot, payload>>

\* MUTANT: rows are upserted, but those of vanished buckets are not deleted.
ReplacedUpsertOnly ==
  /\ pc = "persist"
  /\ db' = [s \in Subjects |-> IF pending[s].present THEN pending[s] ELSE db[s]]
  /\ pc' = "publish"
  /\ UNCHANGED <<snapshot, locals>>

\* ReplaceObservation commits: the complete observation, or nothing.
Replaced ==
  /\ pc = "persist"
  /\ db' = pending
  /\ pc' = "publish"
  /\ UNCHANGED <<snapshot, locals>>

\* ReplaceObservation fails: rolled back, logged, and the poll goes on.
ReplaceFailed ==
  /\ pc = "persist"
  /\ "persist" \in Faults
  /\ pc' = "publish"
  /\ UNCHANGED <<db, snapshot, locals>>

\* MUTANT: an alarm that is already shown is never taken back.
PublishedLatched ==
  /\ pc = "publish"
  /\ rows' = [s \in Subjects |->
       [pending[s] EXCEPT !.confirmed = @ \/ rows[s].confirmed]]
  /\ atQuota' = [s \in Subjects |-> AtQuota(pending[s].limit, pending[s].used)]
  /\ pollOK' = TRUE
  /\ inventoryOK' = (answered = Kinds)
  /\ pc' = "idle"
  /\ Forget
  /\ UNCHANGED db

Published ==
  /\ pc = "publish"
  /\ rows' = pending
  /\ atQuota' = [s \in Subjects |-> AtQuota(pending[s].limit, pending[s].used)]
  /\ pollOK' = TRUE
  /\ inventoryOK' = (answered = Kinds)
  /\ pc' = "idle"
  /\ Forget
  /\ UNCHANGED db

\* The process dies, in a crash or at the end of run(): only the store is left.
Crash ==
  /\ pc # "down"
  /\ "crash" \in Faults
  /\ pc' = "down"
  /\ rows' = NoRows
  /\ atQuota' = [s \in Subjects |-> FALSE]
  /\ pollOK' = FALSE
  /\ inventoryOK' = FALSE
  /\ Forget
  /\ UNCHANGED db

BillingReturns == BillingFailed \/ \E p \in Bill : BillingAnswered(p)
InventoryReturns ==
  \E ok \in SUBSET Kinds, fetched \in [Subjects -> Limits] : InventoryFetched(ok, fetched)
StoreReturns == Replaced \/ ReplaceFailed
Restart == \E read \in SUBSET Kinds : Start(read)

Next ==
  \/ Restart
  \/ BillingReturns
  \/ InventoryReturns
  \/ StoreReturns
  \/ Published
  \/ Crash

Spec == Init /\ [][Next]_vars

\* Kubernetes restarts a dead container, and every call of a running poll has
\* a deadline, so each wait after the billing answer ends one way or the other.
\* Nothing is assumed of billing itself: it may fail for ever.
Fairness ==
  /\ WF_vars(Restart)
  /\ WF_vars(InventoryReturns)
  /\ WF_vars(StoreReturns)
  /\ WF_vars(Published)

FairSpec == Spec /\ Fairness

----------------------------------------------------------------------------
(***************************************************************************)
(* HTTP readers: the status of each health endpoint in a state.            *)
(***************************************************************************)
HandleReady == IF pollOK THEN 200 ELSE 503

HandleQuotaAll == IF \E s \in Subjects : rows[s].confirmed THEN 503 ELSE 200

HandleQuotaBucket(b) ==
  IF ~rows[b].present THEN 404 ELSE IF rows[b].confirmed THEN 503 ELSE 200

----------------------------------------------------------------------------
(***************************************************************************)
(* Every copy of an alarm (durable, shown, in flight) is confirmed exactly *)
(* when its streak has reached two, and never against a threshold that ECS *)
(* reported as unset. The rows of seedFromState, Advance and the upsert    *)
(* must agree on it for a restart or a fallback not to change an alarm.    *)
(***************************************************************************)
Sound(r) ==
  /\ r.confirmed <=> r.streak >= 2
  /\ r.confirmed /\ r.known => r.limit # Nil

AlarmsAreSound ==
  \A s \in Subjects : Sound(db[s]) /\ Sound(rows[s]) /\ Sound(pending[s])

(***************************************************************************)
(* If the store and the seed do not fail, the snapshot is the durable      *)
(* observation at every moment somebody could pull the plug, except that   *)
(* between the commit and the publish the store is one poll ahead, by      *)
(* exactly the rows that are about to be shown (poller.go:120-121 and      *)
(* :451-499).                                                              *)
(***************************************************************************)
SnapshotIsDurable ==
  /\ pc \in {"idle", "inventory", "persist"} => rows = db
  /\ pc = "publish" => pending = db

(***************************************************************************)
(* The sample in flight shows that the alarm of s is over: ECS itself said *)
(* so, or no longer bills the bucket.                                      *)
(***************************************************************************)
Evidence(s) ==
  \/ ~pending[s].present
  \/ Kind(s) \in answered /\ ~AtQuota(pending[s].limit, pending[s].used)

(***************************************************************************)
(* An alarm that readers see goes away only when a poll publishes evidence *)
(* against it, or with the process: no failure of billing, of an inventory *)
(* endpoint or of the store silences it (quota.go:26-33).                  *)
(***************************************************************************)
OnlyEvidenceSilences ==
  [][\A s \in Subjects :
       rows[s].confirmed /\ ~rows'[s].confirmed =>
         pc' = "down" \/ (pc = "publish" /\ Evidence(s))]_vars

(***************************************************************************)
(* A durable alarm is cleared only by a poll with evidence against it,     *)
(* whatever restarts lie between raising and clearing: "a restart does not *)
(* forget a confirmed over-quota alarm" (poller.go:120-121).               *)
(***************************************************************************)
OnlyEvidenceClears ==
  [][\A s \in Subjects :
       db[s].confirmed /\ ~db'[s].confirmed => pc = "persist" /\ Evidence(s)]_vars

(***************************************************************************)
(* While the shown observation comes from a poll whose inventory answered, *)
(* what the readers see is consistent: an alarm is a subject at its        *)
(* threshold right now, and a subject at its threshold has begun to count. *)
(***************************************************************************)
FreshAlarmIsAtQuota ==
  inventoryOK =>
    \A s \in Subjects :
      /\ rows[s].confirmed => atQuota[s]
      /\ atQuota[s] => rows[s].streak >= 1

(***************************************************************************)
(* A ready instance shows at-quota flags that belong to the rows they      *)
(* stand in ("used >= quota: ECS rejects further writes", poller.go:46).   *)
(* The seed leaves the flag of every bucket FALSE, also next to an alarm;  *)
(* no sequence of restarts and failures may present that as ready.         *)
(***************************************************************************)
ReadyShowsTrueFlags ==
  HandleReady = 200 =>
    \A s \in Subjects : atQuota[s] = AtQuota(rows[s].limit, rows[s].used)

----------------------------------------------------------------------------
(***************************************************************************)
(* The durable rows implement QuotaAlarm: no interleaving of polls,        *)
(* failures of ECS, crashes and restarts raises an alarm after fewer than  *)
(* two samples, loses one, or judges a sample twice.                       *)
(***************************************************************************)
Level(r) == IF r.confirmed THEN "alarm" ELSE IF r.streak > 0 THEN "suspect" ELSE "clear"

Verdict(used, r, ok) ==
  IF used = Nil THEN "gone"
  ELSE IF ~r.known THEN "unknown"
  ELSE IF AtQuota(r.limit, used) THEN "over"
  ELSE IF ok THEN "under" ELSE "unproven"

VerdictOn(s) ==
  IF pc = "persist" THEN Verdict(payload[s], pending[s], Kind(s) \in answered) ELSE "none"

Promise == INSTANCE QuotaAlarm WITH
  level <- [s \in Subjects |-> Level(db[s])],
  verdict <- [s \in Subjects |-> VerdictOn(s)]

KeepsPromise == Promise!Spec

----------------------------------------------------------------------------
(***************************************************************************)
(* Liveness. What ECS and the operator must do is the hypothesis of each   *)
(* property; that the process then does its part follows from Fairness.    *)
(***************************************************************************)
KeepsAnswering == []<><<\E p \in Bill : BillingAnswered(p)>>_vars

StaysUp == <>[](pc # "down")

\* From some poll on, every sample shows s at its threshold.
StaysOver(s) ==
  <>[][pc' = "persist" => AtQuota(pending'[s].limit, pending'[s].used)]_vars

\* From some poll on, ECS answers for s and says it is below its threshold.
StaysUnder(s) ==
  <>[][pc' = "persist" => /\ Kind(s) \in answered'
                          /\ ~AtQuota(pending'[s].limit, pending'[s].used)]_vars

\* A subject that stays over its threshold is paged in the end, and for good.
OverIsPaged ==
  \A s \in Subjects :
    KeepsAnswering /\ StaysUp /\ StaysOver(s) =>
      <>[](HandleQuotaAll = 503 /\ (s \in Buckets => HandleQuotaBucket(s) = 503))

\* An alarm whose cause is gone for good is cleared in the end, for good.
RecoveryIsSeen ==
  \A s \in Subjects :
    KeepsAnswering /\ StaysUp /\ StaysUnder(s) => <>[](~rows[s].confirmed)
=============================================================================
