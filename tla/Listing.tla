------------------------------ MODULE Listing -------------------------------
(***************************************************************************)
(* ListBuckets of internal/ops and the two surfaces that call it: a REST   *)
(* route of internal/http and a tool of internal/mcp. A request is         *)
(* authorised as Identity says and then answered from one copy of the      *)
(* snapshot; the pod keeps nothing between requests, and what a poll       *)
(* publishes in the meantime cannot be seen in an answer.                  *)
(*                                                                         *)
(* Names are numbers in the order of the names; percentages and rates are  *)
(* numbers in their order; a prefix is the set of names that begin with it.*)
(***************************************************************************)
EXTENDS Identity, Sequences, FiniteSets, Functions

CONSTANTS
  Nil,           \* no threshold, or no baseline to derive activity from
  Names,         \* bucket names
  Snapshots,     \* contents the snapshot may have: sets of buckets
  MaxListLimit,  \* ops.MaxListLimit
  DefaultLimit,  \* the limit an MCP call gets that names none
  LimitArgs      \* limits callers may ask for, Nil if they name none

\* Bound: lists are asked for before time passes, and not directly after
\* another request; they do not depend on either.
ListTime == 1

SortKeys == {"name", "used", "objects", "used_percent", "activity"}

Surfaces == {"rest", "mcp"}

\* A bucket on the wire, as far as a list selects and orders by it. rate is
\* objects per hour, which may be negative.
Bucket == [name : Names, used : Nat, objects : Nat, percent : Nat \cup {Nil},
           rate : Int \cup {Nil}, atQuota : BOOLEAN, hot : BOOLEAN]

ASSUME ListingAssumption ==
  /\ Nil \notin Int
  /\ \A name \in Names : name \in Nat
  /\ \A shown \in Snapshots :
       /\ IsFiniteSet(shown)
       /\ \A b \in shown : b \in Bucket
       /\ \A a, b \in shown : a.name = b.name => a = b
  /\ MaxListLimit \in Nat \ {0}
  /\ DefaultLimit \in 1..MaxListLimit
  /\ \A n \in LimitArgs : n \in Int \/ n = Nil

VARIABLES
  buckets,   \* the buckets of the snapshot
  list       \* the list of the latest step, if it answered one

listingVars == <<identityVars, buckets, list>>

\* What a caller may select and order by.
Options ==
  [sort : SortKeys, prefix : {Names} \cup {{n} : n \in Names}, atQuotaOnly : BOOLEAN,
   hotOnly : BOOLEAN]

AnyOption == CHOOSE o \in Options : TRUE

NoList == [asked |-> AnyOption, cap |-> 0, total |-> 0, truncated |-> FALSE, page |-> <<>>]

----------------------------------------------------------------------------
AbsRate(b) == IF b.rate = Nil THEN Nil ELSE IF b.rate < 0 THEN -b.rate ELSE b.rate

\* What a sort key compares; by name, all buckets tie.
Value(sort, b) ==
  CASE sort = "name" -> 0
    [] sort = "used" -> b.used
    [] sort = "objects" -> b.objects
    [] sort = "used_percent" -> b.percent
    [] sort = "activity" -> AbsRate(b)

\* MUTANT: an unknown value is compared as zero.
FirstAsZero(sort, a, b) ==
  LET v == IF Value(sort, a) = Nil THEN 0 ELSE Value(sort, a)
      w == IF Value(sort, b) = Nil THEN 0 ELSE Value(sort, b)
  IN  v > w \/ (v = w /\ a.name < b.name)

\* The biggest first, unknown values last, ties by name.
First(sort, a, b) ==
  LET v == Value(sort, a)
      w == Value(sort, b)
  IN  \/ v # Nil /\ w = Nil
      \/ v # Nil /\ w # Nil /\ v > w
      \/ v = w /\ a.name < b.name

Matches(o) ==
  {b \in buckets :
     /\ b.name \in o.prefix
     /\ o.atQuotaOnly => b.atQuota
     /\ o.hotOnly => b.rate # Nil /\ b.hot}

\* ListBuckets clamps a limit it is not given, or that is out of bounds.
Cap(limit) == IF limit <= 0 \/ limit > MaxListLimit THEN MaxListLimit ELSE limit

Before(o, b) == {a \in Matches(o) : First(o.sort, a, b)}

\* The matches, each after those that come before it.
Ordered(o) ==
  [i \in 1..Cardinality(Matches(o)) |->
     CHOOSE b \in Matches(o) : Cardinality(Before(o, b)) = i - 1]

Page(all, cap) == SubSeq(all, 1, IF cap < Len(all) THEN cap ELSE Len(all))

\* MUTANT: the total is counted after the cut.
ListBucketsCountsLate(o, limit) ==
  LET page == Page(Ordered(o), Cap(limit))
  IN  [asked |-> o, cap |-> Cap(limit), total |-> Len(page),
       truncated |-> Len(page) > Cap(limit), page |-> page]

ListBuckets(o, limit) ==
  LET all == Ordered(o)
  IN  [asked |-> o, cap |-> Cap(limit), total |-> Len(all),
       truncated |-> Len(all) > Cap(limit), page |-> Page(all, Cap(limit))]

\* Both surfaces refuse a limit out of bounds. REST leaves a missing one to
\* ListBuckets, MCP puts in its default.
LimitAccepted(n) == n \in {Nil} \cup 1..MaxListLimit

LimitOf(surface, n) == IF n # Nil THEN n ELSE IF surface = "mcp" THEN DefaultLimit ELSE 0

----------------------------------------------------------------------------
Init == IdentityInit /\ buckets \in Snapshots /\ list = NoList

\* Everything but an answer with a list.
OtherStep == IdentityNext /\ list' = NoList /\ UNCHANGED buckets

Listed(surface, o, n) ==
  /\ now = ListTime
  /\ answer = NoAnswer /\ list = NoList
  /\ \E r \in Requests : IF surface = "mcp" THEN ToolRegistered(r) ELSE Status(r) = 200
  /\ LimitAccepted(n)
  /\ list' = ListBuckets(o, LimitOf(surface, n))
  /\ answer' = NoAnswer
  /\ UNCHANGED <<config, now, offset, granted, lastGranted, header, buckets>>

Next ==
  \/ OtherStep
  \/ \E surface \in Surfaces, o \in Options, n \in LimitArgs : Listed(surface, o, n)

Spec == Init /\ [][Next]_listingVars

----------------------------------------------------------------------------
\* m has more of what the list is sorted by than l, or has any at all, or
\* comes first by name where names are what it is sorted by.
Outranks(sort, m, l) ==
  IF sort = "name" THEN m.name < l.name
  ELSE /\ Value(sort, m) # Nil
       /\ Value(sort, l) = Nil \/ Value(sort, m) > Value(sort, l)

(***************************************************************************)
(* A caller can rely on what is not in a list ("check total/truncated      *)
(* before concluding a bucket is absent", mcp.go): without the truncation  *)
(* mark every match is listed, and with it the page is full and nothing    *)
(* left out outranks what is in, whichever values are unknown.             *)
(***************************************************************************)
AbsenceIsReal ==
  list # NoList =>
    LET matches == Matches(list.asked)
        listed  == Range(list.page)
        omitted == matches \ listed
    IN  /\ listed \subseteq matches
        /\ list.total = Cardinality(matches)
        /\ list.truncated <=> omitted # {}
        /\ list.truncated => Cardinality(listed) = list.cap
        /\ \A m \in omitted, l \in listed : ~Outranks(list.asked.sort, m, l)
=============================================================================
