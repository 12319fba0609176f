----------------------------- MODULE QuotaAlarm -----------------------------
(***************************************************************************)
(* What the extension promises about alarms, without a process, a store, a *)
(* cache or a counter: every subject has an alarm level, samples are       *)
(* judged one at a time, and a level moves only by the rules of After.     *)
(* There is no restart here: a process that implements this specification  *)
(* may die whenever it likes, and nobody can tell from the alarms.         *)
(*                                                                         *)
(* It abstracts quota.Advance (internal/quota/quota.go:34-43) and the      *)
(* life of a state row from pollOnce through ReplaceObservation to New.    *)
(***************************************************************************)
CONSTANT Subjects

VARIABLES
  level,   \* the alarm level of each subject
  verdict  \* the sample about to be judged: what it shows of each subject

vars == <<level, verdict>>

\* suspect: one sample at the threshold, and a second would confirm.
Levels == {"clear", "suspect", "alarm"}

Verdicts ==
  { "over",      \* used bytes are at or above the threshold
    "under",     \* below it, or it is unset, by ECS's own answer
    "unproven",  \* below it or unset, but it is only remembered
    "unknown",   \* no threshold was ever seen
    "gone" }     \* the subject is not in the billing answer

Undecided == [s \in Subjects |-> "none"]

\* Two samples raise an alarm, evidence clears it; what proves nothing leaves
\* an alarm alone, and a sample without a threshold leaves every level alone.
After(l, v) ==
  IF v = "over" THEN IF l = "clear" THEN "suspect" ELSE "alarm"
  ELSE IF v = "unknown" \/ (v = "unproven" /\ l = "alarm") THEN l
  ELSE "clear"

Init ==
  /\ level \in [Subjects -> Levels]
  /\ verdict = Undecided

Gather ==
  /\ verdict = Undecided
  /\ verdict' \in [Subjects -> Verdicts]
  /\ UNCHANGED level

Judge ==
  /\ verdict # Undecided
  /\ level' = [s \in Subjects |-> After(level[s], verdict[s])]
  /\ verdict' = Undecided

Discard ==  \* the sample is lost with the process that gathered it
  /\ verdict # Undecided
  /\ verdict' = Undecided
  /\ UNCHANGED level

Next == Gather \/ Judge \/ Discard

Spec == Init /\ [][Next]_vars
=============================================================================
