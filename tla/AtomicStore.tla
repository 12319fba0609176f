---------------------------- MODULE AtomicStore -----------------------------
(***************************************************************************)
(* What internal/store/store.go promises its callers, without tables,      *)
(* transactions or connections: each call takes effect at one moment       *)
(* between its begin and its return, or not at all.                        *)
(***************************************************************************)
EXTENDS Integers, Sequences, FiniteSets

CONSTANTS
  None,        \* no row, no call, no threshold
  Clients,     \* goroutines that use the store
  Namespaces,  \* namespaces with rows in the tables
  Buckets,     \* bucket names
  Bytes,       \* threshold values
  Observations,\* arguments of ReplaceObservation
  Deltas       \* arguments of RecordActivity: sequences of buckets

\* ObservedLimit: unknown, known to be off, or known with a value.
Limit ==
  {l \in [known : BOOLEAN, bytes : Bytes \cup {None}] : l.known \/ l.bytes = None}

StateRow == [namespace : Namespaces, bucket : Buckets, block : Limit]

Observation == [namespace : Namespaces, rows : Seq(StateRow), state : Limit]

Calls ==
  [kind : {"replace"}, arg : Observations] \cup [kind : {"record"}, arg : Deltas]
    \cup [kind : {"prune", "states", "spaces", "hours"}, arg : {None}]

VARIABLES
  store,    \* what the store holds
  calls     \* per client: the call in progress, None if there is none

vars == <<store, calls>>

Init ==
  /\ store \in [buckets : [Namespaces -> [Buckets -> Limit \cup {None}]],
               spaces : [Namespaces -> Limit \cup {None}],
               samples : [Buckets -> Nat]]
  /\ calls = [c \in Clients |-> None]

----------------------------------------------------------------------------
\* Two rows for one bucket: the later one counts.
LastRow(rows, b) ==
  LET at == {i \in DOMAIN rows : rows[i].bucket = b}
  IN  IF at = {} THEN None
      ELSE rows[CHOOSE i \in at : \A j \in at : j <= i].block

(***************************************************************************)
(* "atomically replaces one namespace's bucket rows with obs.Buckets       *)
(* (deleting buckets absent from that complete snapshot) and upserts the   *)
(* namespace observation. Other namespaces are untouched."                 *)
(***************************************************************************)
AfterReplace(obs) ==
  [store EXCEPT
     !.buckets[obs.namespace] = [b \in Buckets |-> LastRow(obs.rows, b)],
     !.spaces[obs.namespace] = obs.state]

HowOften(deltas, b) == Cardinality({i \in DOMAIN deltas : deltas[i] = b})

\* One more sample per delta; "recording never touches bucket state".
AfterRecord(deltas) ==
  [store EXCEPT !.samples = [b \in Buckets |-> @[b] + HowOften(deltas, b)]]

Effect(call) ==
  CASE call.kind = "replace" -> AfterReplace(call.arg)
    [] call.kind = "record" -> AfterRecord(call.arg)
    [] call.kind = "prune" -> [store EXCEPT !.samples = [b \in Buckets |-> 0]]
    [] OTHER -> store

Answer(call) ==
  CASE call.kind = "states" -> store.buckets
    [] call.kind = "spaces" -> store.spaces
    [] call.kind = "hours" -> store.samples
    [] OTHER -> None

Invoke(c, call) ==
  /\ calls[c] = None
  /\ calls' = [calls EXCEPT ![c] = [call |-> call, phase |-> "pending", answer |-> None]]
  /\ UNCHANGED store

\* The moment of the effect; the call may still end with an error.
Apply(c, phase) ==
  /\ calls[c] # None /\ calls[c].phase = "pending"
  /\ store' = Effect(calls[c].call)
  /\ calls' = [calls EXCEPT ![c].phase = phase,
       ![c].answer = IF phase = "failed" THEN None ELSE Answer(calls[c].call)]

\* An error comes without an answer and leaves open what has happened.
Fail(c) ==
  /\ calls[c] # None /\ calls[c].phase \in {"pending", "applied"}
  /\ calls' = [calls EXCEPT ![c].phase = "failed", ![c].answer = None]
  /\ UNCHANGED store

\* A call that returns without an error has taken effect.
Return(c) ==
  /\ calls[c] # None /\ calls[c].phase \in {"applied", "failed"}
  /\ calls' = [calls EXCEPT ![c] = None]
  /\ UNCHANGED store

\* The process of these clients is gone.
Vanish(gone) ==
  /\ calls' = [c \in Clients |-> IF c \in gone THEN None ELSE calls[c]]
  /\ UNCHANGED store

Next ==
  \/ \E c \in Clients : \/ \E call \in Calls : Invoke(c, call)
                        \/ \E phase \in {"applied", "failed"} : Apply(c, phase)
                        \/ Fail(c)
                        \/ Return(c)
  \/ \E gone \in SUBSET Clients : Vanish(gone)

Spec == Init /\ [][Next]_vars
=============================================================================
