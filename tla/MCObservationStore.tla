------------------------- MODULE MCObservationStore -------------------------
(***************************************************************************)
(* A few observations that between them add, drop, repeat and mix buckets  *)
(* and thresholds: unknown, off, and set.                                  *)
(***************************************************************************)
EXTENDS ObservationStore, TLC

CONSTANTS p1, p2, n1, n2, b1, b2

Unknown == [known |-> FALSE, bytes |-> None]
Off == [known |-> TRUE, bytes |-> None]
Set == [known |-> TRUE, bytes |-> 1]

Row(n, b, l) == [namespace |-> n, bucket |-> b, block |-> l]

MCObservations ==
  {[namespace |-> n1, rows |-> <<>>, state |-> Off],
   [namespace |-> n1, rows |-> <<Row(n1, b1, Unknown), Row(n1, b1, Off)>>, state |-> Unknown],
   [namespace |-> n1, rows |-> <<Row(n1, b1, Set), Row(n2, b2, Set)>>, state |-> Set]}

\* Rows of a namespace that was polled before n1 was configured.
MCExisting ==
  {[rows |-> [k \in Namespaces \X Buckets |->
                IF k = <<n2, b1>> THEN BindLimit(Set) ELSE None],
    spaces |-> n1 :> None @@ n2 :> BindLimit(Off),
    hours |-> [b \in Buckets |-> 0]]}

MCDeltas == {<<>>, <<b1, b2>>}

\* One pod serves requests while another, of a rollout, polls as well.
MCClients == {<<p1, "poller">>, <<p1, "handler">>, <<p2, "poller">>}
=============================================================================
