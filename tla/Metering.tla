------------------------------ MODULE Metering ------------------------------
(***************************************************************************)
(* From the documents ECS answers with to the sample an alarm is judged by:*)
(* ParseBilling, ParseBucketList, ParseNamespaceMeta, gibBytes and ToBytes *)
(* of internal/ecs. Usage comes in a unit of its own, thresholds in GiB,   *)
(* both in JSON or in XML as ECS likes, and quota.Advance compares the two *)
(* as int64 bytes.                                                         *)
(*                                                                         *)
(* A field of a document holds a text; a magnitude is counted in 1/Grain   *)
(* of its unit, so that fractions are numbers too. The word is short: 2^63 *)
(* is MaxInt64 + 1. A document says also whom it is about and what         *)
(* int64(f) gives on this CPU for an f that is out of range.               *)
(*                                                                         *)
(* The samples then go on as in Hysteresis.                                *)
(***************************************************************************)
EXTENDS Hysteresis

CONSTANTS
  Grain,       \* parts of one unit a magnitude may name
  GiB,         \* bytes in a GiB
  MaxInt64,    \* the largest int64
  Written,     \* numbers ECS may write, in 1/Grain
  Parts,       \* what it may write for incomplete multipart uploads
  Missing, Blank, Junk   \* no field, an empty one, one that is no number

ASSUME MeteringAssumption ==
  /\ Grain \in Nat \ {0} /\ Grain % 2 = 0
  /\ GiB \in Nat \ {0} /\ MaxInt64 \in Nat \ {0}
  /\ Sizes \cup Thresholds \subseteq 0..MaxInt64
  /\ Written \subseteq Nat
  /\ Missing \in Parts /\ \A t \in Parts : t \in Written \/ t \in {Missing, Blank, Junk}
  /\ \A t \in {Missing, Blank, Junk} : t \notin Int

\* -1 is what ECS writes for an unset threshold.
Magnitudes == Written \cup {-Grain}

Texts == Magnitudes \cup {Missing, Blank, Junk}
Units == {"B", "GiB", "PB"}  \* PB stands for the units ToBytes does not know
Formats == {"json", "xml"}

\* What the inventory endpoint gives for the subject. "absent": the list has no
\* row for the bucket or is no list at all, or the namespace document no name.
Answers == {"listed", "absent", "failed"}

\* What a poll reads, and where. A threshold has two keys, block_size or
\* notification_size (snake) and blockSize or notificationSize (camel).
Document ==
  [subject : {"bucket", "namespace"}, build : {"wraps", "saturates"},
   size : Texts, parts : Parts, unit : Units,
   answer : Answers, snake : Texts, camel : Texts]

VARIABLE latest  \* the documents of the latest poll, if they are kept

meteringVars == <<vars, latest>>

NoDocument ==
  [subject |-> "bucket", build |-> "wraps", size |-> Missing, parts |-> Missing,
   unit |-> "PB", answer |-> "failed", snake |-> Missing, camel |-> Missing]

Int64 == -(MaxInt64 + 1) .. MaxInt64

\* A threshold that is set is positive: Poller and Hysteresis assume it.
TypeOK ==
  /\ samples \in Seq([used : Int64, authoritative : BOOLEAN, known : BOOLEAN,
                      quota : (Int64 \cap (Nat \ {0})) \cup {Nil}])
  /\ alarm \in Alarm
  /\ latest \in Document

----------------------------------------------------------------------------
\* A conversion gives bytes, or fails.
Failure == [ok |-> FALSE, bytes |-> 0]

\* math.Round: halves away from zero.
Round(v) ==
  IF v >= 0 THEN (2 * v + Grain) \div (2 * Grain) ELSE -((Grain - 2 * v) \div (2 * Grain))

\* int64(f): the one float that passes ToBytes and does not fit is 2^63.
ToInt64(f, build) ==
  IF f \in Int64 THEN f ELSE IF build = "wraps" THEN -(MaxInt64 + 1) ELSE MaxInt64

\* float64(math.MaxInt64) is 2^63.
ToBytes(n, unit, build) ==
  LET v    == n * (IF unit = "GiB" THEN GiB ELSE 1)
      edge == (MaxInt64 + 1) * Grain
  IN  IF unit = "PB" \/ v > edge \/ v < -edge THEN Failure
      ELSE [ok |-> TRUE, bytes |-> ToInt64(Round(v), build)]

\* MUTANT: thresholds are read in the unit of the billing rows.
GibBytesAsBytes(text, build) ==
  IF text \notin Magnitudes \/ text <= 0 THEN Nil
  ELSE LET b == ToBytes(text, "B", build)
       IN  IF ~b.ok \/ b.bytes <= 0 THEN Nil ELSE b.bytes

\* MUTANT: what ToBytes makes of a positive magnitude is taken for positive.
GibBytesUnchecked(text, build) ==
  IF text \notin Magnitudes \/ text <= 0 THEN Nil
  ELSE LET b == ToBytes(text, "GiB", build)
       IN  IF ~b.ok THEN Nil ELSE b.bytes

\* gibBytes of a text that is read as a number, or as none.
GibBytes(text, build) ==
  IF text \notin Magnitudes \/ text <= 0 THEN Nil
  ELSE LET b == ToBytes(text, "GiB", build)
       IN  IF ~b.ok \/ b.bytes <= 0 THEN Nil ELSE b.bytes

\* numField: the first key with a number, be it the -1 of an unset threshold.
\* No key, an empty text and one that is no number go on to the next.
FirstNumber(d) == IF d.snake \in Magnitudes THEN d.snake ELSE d.camel

JSONThreshold(d) == GibBytes(FirstNumber(d), d.build)

\* MUTANT: the XML namespace is read like the XML bucket list.
XMLThresholdSnakeOnly(d) == GibBytes(d.snake, d.build)

\* XML: the bucket list knows one key only; the namespace takes the camel key
\* unless it sets no threshold.
XMLThreshold(d) ==
  LET camel == GibBytes(d.camel, d.build)
  IN  IF d.subject = "namespace" /\ camel # Nil THEN camel ELSE GibBytes(d.snake, d.build)

\* Did the inventory endpoint answer with something the parser accepts? A
\* bucket list that cannot be recognised is an empty list.
Authoritative(d) ==
  d.answer # "failed" /\ ~(d.subject = "namespace" /\ d.answer = "absent")

Limit(d, format) ==
  IF d.answer # "listed" THEN Nil
  ELSE IF format = "json" THEN JSONThreshold(d) ELSE XMLThreshold(d)

\* A billing number: a missing one is 0; an empty one is 0 in XML and makes
\* the JSON page an error.
Readable(text, format) ==
  text \in Magnitudes \cup {Missing} \cup (IF format = "xml" THEN {Blank} ELSE {})

NumberOf(text) == IF text \in Magnitudes THEN text ELSE 0

\* Go's int64 addition.
Sum64(a, b) == ((a + b + MaxInt64 + 1) % (2 * (MaxInt64 + 1))) - (MaxInt64 + 1)

\* MUTANT: multipart uploads are added in bytes, whatever the unit.
UsedPartsInBytes(d, format) ==
  LET size  == ToBytes(NumberOf(d.size), d.unit, d.build)
      parts == ToBytes(NumberOf(d.parts), "B", d.build)
  IN  IF ~Readable(d.size, format) \/ ~Readable(d.parts, format) \/ ~size.ok \/ ~parts.ok
      THEN Failure
      ELSE [ok |-> TRUE, bytes |-> Sum64(size.bytes, parts.bytes)]

\* UsedBytes of a bucket row; the namespace total has no multipart field.
Used(d, format) ==
  LET size  == ToBytes(NumberOf(d.size), d.unit, d.build)
      parts == ToBytes(NumberOf(d.parts), d.unit, d.build)
  IN  IF ~Readable(d.size, format) \/ ~Readable(d.parts, format) \/ ~size.ok \/ ~parts.ok
      THEN Failure
      ELSE [ok |-> TRUE, bytes |-> Sum64(size.bytes, parts.bytes)]

----------------------------------------------------------------------------
MeteringInit == Init /\ latest = NoDocument

SampleOf(d, billing, inventory) ==
  [used |-> Used(d, billing).bytes, authoritative |-> Authoritative(d),
   known |-> Authoritative(d), quota |-> Limit(d, inventory)]

\* A page the parser rejects ends the poll without a sample.
Polled(d, billing, inventory) ==
  /\ d.subject = "namespace" => d.parts = Missing
  /\ d.answer # "listed" => d.snake = Missing /\ d.camel = Missing
  /\ Used(d, billing).ok
  /\ Poll(SampleOf(d, billing, inventory))
  /\ latest' = d

\* Bound: the first poll reads documents of every form. The parsers keep
\* nothing from one poll to the next, so the later polls need not.
FirstPoll ==
  /\ samples = <<>>
  /\ \E d \in Document, billing, inventory \in Formats : Polled(d, billing, inventory)

LaterPoll ==
  /\ samples # <<>>
  /\ Next
  /\ latest' = NoDocument

MeteringNext == FirstPoll \/ LaterPoll

MeteringSpec == MeteringInit /\ [][MeteringNext]_meteringVars

----------------------------------------------------------------------------
\* A number under one key at most, and for a bucket under block_size.
PlainSpelling(d) ==
  d.camel \in Magnitudes => d.subject = "namespace" /\ d.snake \notin Magnitudes

(***************************************************************************)
(* It does not matter which format ECS answers in: a document both parsers *)
(* accept gives the same usage and, if its threshold is plainly spelled,   *)
(* the same threshold, though one reader looks at two keys, one at one and *)
(* one at two in the other order (inventory.go:213-216, 322, 387, 455).    *)
(* Without the condition it is false of the code: the bucket list in XML    *)
(* has no blockSize, although the comment at inventory.go:213-216 has it   *)
(* accepted, and a namespace with two keys may be read by the other one.   *)
(***************************************************************************)
FormatsAgree ==
  LET accepted == {f \in Formats : Used(latest, f).ok}
  IN  /\ \A f, g \in accepted : Used(latest, f) = Used(latest, g)
      /\ PlainSpelling(latest) => \A f, g \in Formats : Limit(latest, f) = Limit(latest, g)

\* The published values, exactly, in 1/Grain of a byte.
Exact(text, unit) == NumberOf(text) * (IF unit = "GiB" THEN GiB ELSE 1)

Whole(v) == v % Grain = 0 /\ v \in 0 .. MaxInt64 * Grain

(***************************************************************************)
(* Whatever units ECS uses, the sample is over its threshold exactly when  *)
(* what ECS published is ("so quota math against billing bytes is apples-  *)
(* to-apples", inventory.go:24): usage counts unfinished uploads, and a    *)
(* threshold that is not positive is none. For whole bytes that an int64   *)
(* can hold and thresholds plainly spelled.                                *)
(***************************************************************************)
OverAsPublished ==
  LET size  == Exact(latest.size, latest.unit)
      parts == Exact(latest.parts, latest.unit)
      limit == IF latest.answer = "listed" THEN Exact(FirstNumber(latest), "GiB") ELSE 0
  IN  /\ latest # NoDocument /\ Authoritative(latest) /\ PlainSpelling(latest)
      /\ Whole(size) /\ Whole(parts) /\ Whole(size + parts)
      /\ limit > 0 => Whole(limit)
      => (Over(samples[1]) <=> limit > 0 /\ size + parts >= limit)
=============================================================================
