-------------------------- MODULE EcsClientProofs --------------------------
(***************************************************************************)
(* Proofs about EcsClient for every set of tokens and of markers and every *)
(* bound on the pages: pagination fetches no page twice, and one trouble   *)
(* is always survived.                                                     *)
(***************************************************************************)
EXTENDS EcsClient, FiniteSetTheorems, TLAPS

USE ClientAssumption

\* What the two results have in common: where things are.
Places ==
  /\ pc \in {"idle", "stopped", "token", "login", "store", "read", "request"}
  /\ token \in Tokens \cup {None}
  /\ using \in Tokens \cup {None}
  /\ outgoing \in Tokens \cup {None}
  /\ sessions \subseteq Tokens
  /\ attempt \in {0, 1} /\ suffix \in BOOLEAN
  /\ page401 \in Nat /\ page406 \in Nat /\ ended \in Nat

\* The markers a call has been given are as many as its pages.
Paged == IsFiniteSet(seen) /\ PagesAreDistinct

\* A retry or a suffix is there only for a refusal of this page.
Excused ==
  /\ attempt = 1 => page401 + page406 >= 1
  /\ suffix => page406 >= 1
  /\ page401 <= attempt

\* The token the goroutine holds is the cached one, unless Logout, which the
\* main goroutine begins after it has cancelled the context, took that away.
Held ==
  /\ pc \in {"store", "read", "request"} => using # None
  /\ pc \in {"read", "request"} => token = using \/ token = None
  /\ pc = "read" /\ token = None => Cancelled

\* The token the page's next request will carry, or carries.
Carried == IF pc \in {"store", "read", "request"} THEN using
           ELSE IF pc = "token" THEN token ELSE None

\* Every refusal of this page has its ended session, and if the token the
\* page carries is dead there is one session more.
Paid ==
  /\ page401 <= ended
  /\ Carried \notin sessions \cup {None} => page401 + 1 <= ended

\* Why the latest call failed was no single trouble.
Survived ==
  /\ lost.page401 \in Nat /\ lost.page406 \in Nat /\ lost.ended \in Nat
  /\ lost.page401 <= lost.ended
  /\ OneRefusalIsSurvived

\* The inductive invariant.
IInv == Places /\ Paged /\ Excused /\ Held /\ Paid /\ Survived

----------------------------------------------------------------------------
(***************************************************************************)
(* A page that begins, and a call that ends.                               *)
(***************************************************************************)
\* The state of the goroutine when a call begins or a poll is over.
FreshPage ==
  /\ page' = 0 /\ seen' = {} /\ using' = None
  /\ pc' \in {"idle", "token"}
  /\ NewPage

\* However a call ends, the next one begins, or the poll is over.
LEMMA CallEndsFresh ==
  ASSUME NEW result, CallEnds(result)
  PROVE  FreshPage
BY DEF CallEnds, FirstOf, FreshPage

\* A fresh page has nothing to answer for but a cached token that is dead.
LEMMA FreshPageGood ==
  ASSUME FreshPage, Places, outgoing' = outgoing,
         token' \in Tokens \cup {None}, sessions' \subseteq Tokens,
         sessions \subseteq sessions'
  PROVE  Places' /\ Paged' /\ Excused' /\ Held' /\ Paid'
<1>1. Places'
  BY DEF FreshPage, NewPage, Places
<1>2. Paged'
  BY FS_EmptySet DEF FreshPage, Paged, PagesAreDistinct
<1>3. Excused' /\ Held'
  BY DEF FreshPage, NewPage, Excused, Held
<1>4. Paid'
  <2>1. page401' = 0 /\ ended' \in {0, 1} /\ (token' \notin sessions \cup {None} => ended' = 1)
    BY DEF FreshPage, NewPage
  <2>2. Carried' \in {token', None}
    BY DEF FreshPage, Carried
  <2> QED BY <2>1, <2>2 DEF Paid
<1> QED BY <1>1, <1>2, <1>3, <1>4

\* A call that fails for trouble that was neither single nor unpaid.
LEMMA CallFailsGood ==
  ASSUME NEW hard \in BOOLEAN, NEW n401 \in Nat, NEW n406 \in Nat,
         CallFails(hard, n401, n406), Places, outgoing' = outgoing,
         token' \in Tokens \cup {None}, sessions' \subseteq Tokens,
         sessions \subseteq sessions', n401 <= ended, ~hard => n401 + n406 >= 2
  PROVE  IInv'
<1>1. Places' /\ Paged' /\ Excused' /\ Held' /\ Paid'
  BY CallEndsFresh, FreshPageGood DEF CallFails
<1>2. Survived'
  BY DEF CallFails, Places, Survived, OneRefusalIsSurvived
<1> QED BY <1>1, <1>2 DEF IInv

\* A request is sent with a token that is held, or the call fails.
LEMMA SendGood ==
  ASSUME IInv, NEW where \in {"request", "login"}, NEW tok \in Tokens \cup {None},
         Send(where, tok), UNCHANGED <<token, old, sessions, main, outgoing>>,
         ~Cancelled /\ where = "request" =>
           tok = token /\ tok # None /\ (tok \notin sessions => page401 + 1 <= ended)
  PROVE  IInv'
<1>1. CASE Cancelled /\ CallFails(TRUE, page401, page406)
  BY <1>1, CallFailsGood DEF IInv, Places, Paid
<1>2. CASE ~Cancelled /\ pc' = where /\ using' = tok
           /\ UNCHANGED <<call, outcome, pagination, attempt, suffix, history>>
  <2>1. Places' /\ Paged' /\ Excused' /\ Survived'
    BY <1>2 DEF IInv, Places, Paged, PagesAreDistinct, Excused, Survived,
                OneRefusalIsSurvived, pagination, history
  <2>2. Held' /\ Paid'
    BY <1>2 DEF IInv, Places, Held, Paid, Carried, history
  <2> QED BY <2>1, <2>2 DEF IInv
<1> QED BY <1>1, <1>2 DEF Send

\* A page that was refused is tried once more, or its call is given up.
LEMMA RetryGood ==
  ASSUME IInv, NEW n401 \in Nat, NEW n406 \in Nat, Retry(n401, n406),
         outgoing' = outgoing, sessions' = sessions, main' = main,
         token' \in Tokens \cup {None}, suffix' \in BOOLEAN,
         n401 + n406 = page401 + page406 + 1, n406 >= page406,
         n401 >= page401, n401 <= ended,
         attempt = 0 /\ suffix' => n406 >= 1,
         token' \in sessions \cup {None}
  PROVE  IInv'
<1>1. CASE /\ attempt = 0 /\ attempt' = 1
           /\ page401' = n401 /\ page406' = n406
           /\ pc' = "token"
           /\ UNCHANGED <<call, outcome, pagination, using, ended, lost>>
  <2>1. Places' /\ Paged' /\ Survived'
    BY <1>1 DEF IInv, Places, Paged, PagesAreDistinct, Survived,
                OneRefusalIsSurvived, pagination
  <2>2. Excused'
    BY <1>1 DEF IInv, Places, Excused
  <2>3. Held' /\ Paid'
    BY <1>1 DEF IInv, Held, Paid, Carried
  <2> QED BY <2>1, <2>2, <2>3 DEF IInv
<1>2. CASE attempt = 1 /\ CallFails(FALSE, n401, n406)
  <2>1. n401 + n406 >= 2
    BY <1>2 DEF IInv, Places, Excused
  <2> QED BY <1>2, <2>1, CallFailsGood DEF IInv, Places
<1> QED BY <1>1, <1>2 DEF Retry

----------------------------------------------------------------------------
(***************************************************************************)
(* The invariant holds at first and is kept by every step.                 *)
(***************************************************************************)
LEMMA InitGood == Init => IInv
<1> SUFFICES ASSUME Init PROVE IInv
  OBVIOUS
<1>1. Paged
  BY FS_EmptySet DEF Init, Paged, PagesAreDistinct
<1>2. Places
  BY DEF Init, Places
<1>3. Held /\ Paid
  BY DEF Init, Held, Paid, Carried
<1>4. Excused
  BY DEF Init, Excused
<1>5. Survived
  <2>1. lost.hard /\ lost.page401 = 0 /\ lost.page406 = 0 /\ lost.ended = 0
    BY DEF Init, NotLost
  <2> QED BY <2>1 DEF Survived, OneRefusalIsSurvived
<1> QED BY <1>1, <1>2, <1>3, <1>4, <1>5 DEF IInv

\* The steps that leave the page, its refusals and its excuses alone.
LEMMA SamePage ==
  ASSUME IInv, UNCHANGED <<pagination, attempt, suffix, page401, page406, lost>>
  PROVE  Paged' /\ Excused' /\ Survived'
BY DEF IInv, Paged, PagesAreDistinct, Excused, Survived, OneRefusalIsSurvived, pagination

\* A session that ends under a page is paid for.
LEMMA EndSessionPaid ==
  ASSUME IInv, NEW t, EndSession(t),
         UNCHANGED <<token, pc, using, page401>>
  PROVE  Paid' /\ sessions' \subseteq Tokens /\ ended' \in Nat
<1>1. /\ sessions' = sessions \ {t}
      /\ ended' = IF t \in sessions \cap {token, using} /\ ended < 2 THEN ended + 1 ELSE ended
  BY DEF EndSession
<1>2. /\ page401 \in Nat /\ ended \in Nat /\ page401 <= 1 /\ page401 <= ended
      /\ Carried \notin sessions \cup {None} => page401 + 1 <= ended
      /\ Carried' = Carried /\ Carried \in {token, using, None}
  BY DEF IInv, Places, Excused, Paid, Carried
<1>3. Carried \in sessions /\ Carried \notin sessions' => t \in sessions \cap {token, using}
  BY <1>1, <1>2 DEF IInv, Places
<1>4. ended' \in Nat /\ ended <= ended'
  BY <1>1, <1>2
<1>5. t \in sessions \cap {token, using} => page401 + 1 <= ended'
  BY <1>1, <1>2
<1>6. Paid'
  BY <1>2, <1>3, <1>4, <1>5 DEF Paid
<1> QED BY <1>1, <1>4, <1>6 DEF IInv, Places

\* The end of the process keeps the invariant.
LEMMA LogoutGood == IInv /\ Logout => IInv'
<1> SUFFICES ASSUME IInv, Logout PROVE IInv'
  OBVIOUS
<1>1. CASE LogoutBegins
  BY <1>1, SamePage DEF LogoutBegins, IInv, Places, Held, Paid, Carried, Cancelled,
                        pagination, history
<1>2. ASSUME NEW done \in BOOLEAN, NEW cleared \in BOOLEAN, LogoutAnswered(done, cleared)
      PROVE  IInv'
  <2>1. Paged' /\ Excused' /\ Survived'
    BY <1>2, SamePage DEF LogoutAnswered
  <2>2. Held'
    BY <1>2 DEF LogoutAnswered, IInv, Held, Cancelled
  <2>3. Paid' /\ sessions' \subseteq Tokens /\ ended' \in Nat
    <3>1. CASE done
      BY <1>2, <3>1, EndSessionPaid DEF LogoutAnswered
    <3>2. CASE ~done
      BY <1>2, <3>2 DEF LogoutAnswered, IInv, Places, Paid, Carried
    <3> QED BY <3>1, <3>2
  <2>4. Places'
    BY <1>2, <2>3 DEF LogoutAnswered, IInv, Places
  <2> QED BY <2>1, <2>2, <2>3, <2>4 DEF IInv
<1>3. CASE LogoutClears
  <2>1. Paged' /\ Excused' /\ Survived' /\ Places'
    BY <1>3, SamePage DEF LogoutClears, IInv, Places, history
  <2>2. Held' /\ Paid'
    BY <1>3 DEF LogoutClears, IInv, Held, Paid, Carried, Cancelled, history
  <2> QED BY <2>1, <2>2 DEF IInv
<1> QED BY <1>1, <1>2, <1>3 DEF Logout

\* Token and Login keep it.
LEMMA TokenGood ==
  IInv /\ (TokenCached \/ TokenMissing \/ Login \/ LoginStored \/ LoginRead) => IInv'
<1> SUFFICES ASSUME IInv,
                    TokenCached \/ TokenMissing \/ Login \/ LoginStored \/ LoginRead
             PROVE  IInv'
  OBVIOUS
<1>1. CASE TokenCached
  <2>1. token \notin sessions => page401 + 1 <= ended
    BY <1>1 DEF TokenCached, IInv, Paid, Carried
  <2> QED BY <1>1, <2>1, SendGood DEF TokenCached, IInv, Places
<1>2. CASE TokenMissing
  BY <1>2, SendGood DEF TokenMissing
<1>3. ASSUME NEW t \in Tokens, LoginAnswered(t)
      PROVE  IInv'
  <2>1. Paged' /\ Excused' /\ Survived'
    BY <1>3, SamePage DEF LoginAnswered, history
  <2>2. Places'
    BY <1>3 DEF LoginAnswered, IInv, Places, history
  <2>3. Held' /\ Paid'
    BY <1>3 DEF LoginAnswered, IInv, Held, Paid, Carried, history
  <2> QED BY <2>1, <2>2, <2>3 DEF IInv
<1>4. ASSUME NEW opened \in SUBSET Tokens, LoginFailed(opened)
      PROVE  IInv'
  <2>1. /\ outgoing' = outgoing /\ token' = token
        /\ sessions' \subseteq Tokens /\ sessions \subseteq sessions'
    BY <1>4 DEF LoginFailed, IInv, Places
  <2> QED BY <1>4, <2>1, CallFailsGood DEF LoginFailed, IInv, Places, Paid
<1>5. CASE LoginStored
  <2>1. Paged' /\ Excused' /\ Survived'
    BY <1>5, SamePage DEF LoginStored, history
  <2>2. Places' /\ Held' /\ Paid'
    BY <1>5 DEF LoginStored, IInv, Places, Held, Paid, Carried, history
  <2> QED BY <2>1, <2>2 DEF IInv
<1>6. CASE LoginRead
  <2>1. ~Cancelled => token # None /\ token = using
    BY <1>6 DEF LoginRead, IInv, Held
  <2>2. token \notin sessions \cup {None} => page401 + 1 <= ended
    BY <1>6 DEF LoginRead, IInv, Held, Paid, Carried
  <2> QED BY <1>6, <2>1, <2>2, SendGood DEF LoginRead, IInv, Places
<1> QED BY <1>1, <1>2, <1>3, <1>4, <1>5, <1>6 DEF Login

\* What the goroutine makes of an answer keeps it.
LEMMA AnswerGood == IInv /\ Answer => IInv'
<1> SUFFICES ASSUME IInv, Answer PROVE IInv'
  OBVIOUS
<1>1. CASE Unauthorized
  <2>1. page401 + 1 <= ended
    BY <1>1 DEF Unauthorized, IInv, Held, Paid, Carried
  <2>2. suffix' \in BOOLEAN /\ (attempt = 0 /\ suffix' => page406 >= 1)
    <3>1. suffix' = IF attempt = 0 THEN suffix ELSE FALSE
      BY <1>1 DEF Unauthorized
    <3>2. suffix \in BOOLEAN /\ (suffix => page406 >= 1)
      BY DEF IInv, Places, Excused
    <3>3. CASE attempt = 0
      <4>1. suffix' = suffix
        BY <3>1, <3>3
      <4> QED BY <3>2, <4>1, Zenon
    <3>4. CASE attempt # 0
      <4>1. suffix' = FALSE
        BY <3>1, <3>4
      <4> QED BY <3>4, <4>1, Zenon
    <3> QED BY <3>3, <3>4
  <2>3. /\ Retry(page401 + 1, page406)
        /\ outgoing' = outgoing /\ sessions' = sessions /\ main' = main
        /\ token' = None
    BY <1>1 DEF Unauthorized
  <2>4. page401 \in Nat /\ page406 \in Nat
    BY DEF IInv, Places
  <2>5. /\ page401 + 1 \in Nat /\ page401 + 1 >= page401 /\ page406 >= page406
        /\ (page401 + 1) + page406 = page401 + page406 + 1
    BY <2>4
  <2> QED BY <2>1, <2>2, <2>3, <2>4, <2>5, RetryGood, Zenon
<1>2. CASE NotAcceptable
  <2>1. CASE /\ call = "billing" /\ ~suffix
             /\ suffix' = (attempt = 0)
             /\ Retry(page401, page406 + 1)
    <3>1. token \in sessions \cup {None}
      BY <1>2 DEF NotAcceptable, IInv, Held
    <3> QED BY <1>2, <2>1, <3>1, RetryGood DEF NotAcceptable, IInv, Places, Paid
  <2>2. CASE /\ call # "billing" \/ suffix
             /\ CallFails(call # "billing", page401, page406 + 1)
    <3>1. ~(call # "billing") => page401 + (page406 + 1) >= 2
      <4>1. ~(call # "billing") => page406 >= 1
        BY <2>2, Zenon DEF IInv, Excused
      <4> QED BY <4>1 DEF IInv, Places
    <3>2. /\ outgoing' = outgoing /\ token' \in Tokens \cup {None}
          /\ sessions' \subseteq Tokens /\ sessions \subseteq sessions' /\ Places
          /\ page401 \in Nat /\ page406 + 1 \in Nat /\ page401 <= ended
      <4>1. UNCHANGED <<token, sessions, outgoing>>
        BY <1>2 DEF NotAcceptable
      <4> QED BY <4>1 DEF IInv, Places, Paid
    <3>3. CASE call = "billing"
      <4>1. CallFails(FALSE, page401, page406 + 1)
        BY <2>2, <3>3
      <4> QED BY <3>1, <3>2, <3>3, <4>1, CallFailsGood
    <3>4. CASE call # "billing"
      <4>1. CallFails(TRUE, page401, page406 + 1)
        BY <2>2, <3>4
      <4> QED BY <3>2, <4>1, CallFailsGood
    <3> QED BY <3>3, <3>4
  <2> QED BY <1>2, <2>1, <2>2 DEF NotAcceptable
<1>3. CASE RequestFailed
  BY <1>3, CallFailsGood DEF RequestFailed, IInv, Places, Paid
<1>4. ASSUME NEW next \in Markers \cup {FirstPage}, PageAnswered(next)
      PROVE  IInv'
  <2>1. UNCHANGED <<token, old, sessions, main, outgoing>>
    BY <1>4 DEF PageAnswered
  <2>2. CASE CallEnds("ok") /\ UNCHANGED lost
    <3>1. Places' /\ Paged' /\ Excused' /\ Held' /\ Paid'
      BY <2>1, <2>2, CallEndsFresh, FreshPageGood DEF IInv, Places
    <3>2. Survived'
      BY <2>2 DEF IInv, Survived, OneRefusalIsSurvived
    <3> QED BY <3>1, <3>2 DEF IInv
  <2>3. CASE /\ next \notin seen
             /\ page' = page + 1 /\ marker' = next /\ seen' = seen \cup {next}
             /\ NewPage
             /\ pc' = "token"
             /\ UNCHANGED <<call, outcome, using, lost>>
    <3>1. Paged'
      BY <2>3, FS_AddElement DEF IInv, Paged, PagesAreDistinct
    <3>2. Places' /\ Held'
      BY <2>1, <2>3 DEF NewPage, IInv, Places, Held
    <3>3. Excused'
      BY <2>3 DEF NewPage, Excused
    <3>4. Paid'
      BY <2>1, <2>3 DEF NewPage, Paid, Carried
    <3>5. Survived'
      BY <2>3 DEF IInv, Survived, OneRefusalIsSurvived
    <3> QED BY <3>1, <3>2, <3>3, <3>4, <3>5 DEF IInv
  <2>4. CASE CallFails(TRUE, page401, page406)
    BY <2>1, <2>4, CallFailsGood DEF IInv, Places, Paid
  <2> QED BY <1>4, <2>2, <2>3, <2>4 DEF PageAnswered
<1> QED BY <1>1, <1>2, <1>3, <1>4 DEF Answer

\* Every step keeps it.
LEMMA StepGood == IInv /\ [Next]_vars => IInv'
<1> SUFFICES ASSUME IInv, [Next]_vars PROVE IInv'
  OBVIOUS
<1>1. CASE Begin
  <2>1. Places' /\ Paged' /\ Excused' /\ Held' /\ Paid'
    <3>1. FreshPage
      BY <1>1 DEF Begin, FirstOf, FreshPage
    <3> QED BY <1>1, <3>1, FreshPageGood DEF Begin, IInv, Places
  <2>2. Survived'
    BY <1>1 DEF Begin, NotLost, Survived, OneRefusalIsSurvived
  <2> QED BY <2>1, <2>2 DEF IInv
<1>2. CASE Stop \/ Signal \/ Ages
  <2>1. UNCHANGED <<token, sessions, pagination, attempt, suffix, using, outgoing, history>>
    BY <1>2 DEF Stop, Signal, Ages
  <2>2. Paged' /\ Excused' /\ Survived'
    BY <2>1, SamePage DEF history
  <2>3. pc' = pc \/ (pc = "idle" /\ pc' = "stopped")
    BY <1>2 DEF Stop, Signal, Ages
  <2>4. Cancelled => Cancelled'
    BY <1>2 DEF Stop, Signal, Ages, Cancelled
  <2>5. Places' /\ Held' /\ Paid'
    BY <2>1, <2>3, <2>4 DEF IInv, Places, Held, Paid, Carried, history
  <2> QED BY <2>2, <2>5 DEF IInv
<1>3. CASE Poll
  BY <1>3, TokenGood, AnswerGood DEF Poll
<1>4. CASE Logout
  BY <1>4, LogoutGood
<1>5. ASSUME NEW t \in Tokens, SessionEnds(t)
      PROVE  IInv'
  <2>1. Paged' /\ Excused' /\ Survived'
    BY <1>5, SamePage DEF SessionEnds
  <2>2. Paid' /\ sessions' \subseteq Tokens /\ ended' \in Nat
    BY <1>5, EndSessionPaid DEF SessionEnds
  <2>3. Places' /\ Held'
    BY <1>5, <2>2 DEF SessionEnds, IInv, Places, Held, Cancelled
  <2> QED BY <2>1, <2>2, <2>3 DEF IInv
<1>6. CASE UNCHANGED vars
  <2>1. Paged' /\ Excused' /\ Survived'
    BY <1>6, SamePage DEF vars, history
  <2>2. Places' /\ Held' /\ Paid'
    BY <1>6 DEF vars, history, IInv, Places, Held, Paid, Carried, Cancelled
  <2> QED BY <2>1, <2>2 DEF IInv
<1> QED BY <1>1, <1>2, <1>3, <1>4, <1>5, <1>6 DEF Next

\* The inductive invariant holds in every behaviour of the client.
THEOREM InvariantHolds == Spec => []IInv
BY InitGood, StepGood, PTL DEF Spec

----------------------------------------------------------------------------
(***************************************************************************)
(* fetchBilling, ListBuckets: whatever markers ECS returns, a call fetches *)
(* no page twice.                                                          *)
(***************************************************************************)
THEOREM PagesStayDistinct == Spec => []PagesAreDistinct
<1>1. IInv => PagesAreDistinct
  BY DEF IInv, Paged
<1> QED BY <1>1, InvariantHolds, PTL

(***************************************************************************)
(* fetchBillingPage: a call given up "after retry" was refused twice on    *)
(* one page.                                                               *)
(***************************************************************************)
THEOREM RefusalSurvived == Spec => []OneRefusalIsSurvived
<1>1. IInv => OneRefusalIsSurvived
  BY DEF IInv, Survived
<1> QED BY <1>1, InvariantHolds, PTL

(***************************************************************************)
(* Token, Login, Logout: a page refused twice for its token has seen two   *)
(* sessions end, so a retry never carries the token that was refused.      *)
(***************************************************************************)
THEOREM ExpirySurvived == Spec => []OneExpiryIsSurvived
<1>1. IInv => OneExpiryIsSurvived
  BY DEF IInv, Survived, OneExpiryIsSurvived
<1> QED BY <1>1, InvariantHolds, PTL

----------------------------------------------------------------------------
(***************************************************************************)
(* A poll runs out of steps.                                               *)
(***************************************************************************)
RunInv ==
  /\ pc \in {"idle", "stopped", "token", "login", "store", "read", "request"}
  /\ call \in Calls
  /\ page \in 0..MaxPages - 1
  /\ attempt \in {0, 1}

PagesLeft(c, p) ==
  (IF c = "billing" THEN MaxPages + MaxPages ELSE IF c = "buckets" THEN MaxPages ELSE 0)
    + (MaxPages - 1 - p)

RequestLeft(at) ==
  IF at = "token" THEN 5 ELSE IF at = "login" THEN 4 ELSE IF at = "store" THEN 3
  ELSE IF at = "read" THEN 2 ELSE 1

Left(c, p, a, at) ==
  IF at \in {"idle", "stopped"} THEN 0
  ELSE 10 * PagesLeft(c, p) + 5 * (1 - a) + RequestLeft(at)

LEMMA CallsTimesPages == 0 * MaxPages = 0 /\ 1 * MaxPages = MaxPages /\ 2 * MaxPages = MaxPages + MaxPages
OBVIOUS

LEMMA StepsLeftIs ==
  /\ RunInv => StepsLeft = Left(call, page, attempt, pc)
  /\ RunInv' => StepsLeft' = Left(call', page', attempt', pc')
BY CallsTimesPages DEF RunInv, Calls, StepsLeft, Left, PagesLeft, RequestLeft

LEMMA PagesLeftFacts ==
  ASSUME NEW c \in Calls, NEW p \in 0..MaxPages - 1
  PROVE  /\ PagesLeft(c, p) \in Nat
         /\ p + 1 < MaxPages => PagesLeft(c, p + 1) + 1 = PagesLeft(c, p)
         /\ c = "billing" => PagesLeft("buckets", 0) + 1 <= PagesLeft(c, p)
         /\ c = "buckets" => PagesLeft("namespace", 0) + 1 <= PagesLeft(c, p)
         /\ PagesLeft(c, p) < 3 * MaxPages
BY DEF PagesLeft, Calls

\* A call that ends leaves the pages of the calls after it, if any.
LEMMA CallEndsShorter ==
  ASSUME RunInv, pc \notin {"idle", "stopped"}, NEW result, CallEnds(result)
  PROVE  RunInv' /\ StepsLeft' < StepsLeft
<1>1. RunInv'
  BY DEF RunInv, CallEnds, FirstOf, NewPage, Calls
<1>2. /\ StepsLeft = 10 * PagesLeft(call, page) + 5 * (1 - attempt) + RequestLeft(pc)
      /\ StepsLeft' = Left(call', page', attempt', pc')
  BY <1>1, StepsLeftIs DEF Left
<1>3. PagesLeft(call, page) \in Nat /\ attempt \in {0, 1} /\ RequestLeft(pc) \in 1..5
  BY PagesLeftFacts DEF RunInv, RequestLeft
<1>4. CASE pc' = "idle"
  BY <1>1, <1>2, <1>3, <1>4 DEF Left
<1>5. CASE pc' # "idle"
  <2>1. /\ pc' = "token" /\ page' = 0 /\ attempt' = 0
        /\ \/ call = "billing" /\ call' = "buckets"
           \/ call = "buckets" /\ call' = "namespace"
    BY <1>5 DEF CallEnds, FirstOf, NewPage
  <2>2. StepsLeft' = 10 * PagesLeft(call', 0) + 10
    <3>1. PagesLeft(call', 0) \in Nat
      BY <1>1, <2>1, PagesLeftFacts DEF RunInv
    <3> QED BY <1>2, <2>1, <3>1 DEF Left, RequestLeft
  <2>3. PagesLeft(call', 0) \in Nat /\ PagesLeft(call', 0) + 1 <= PagesLeft(call, page)
    BY <1>1, <2>1, PagesLeftFacts DEF RunInv
  <2> QED BY <1>1, <1>2, <1>3, <2>2, <2>3
<1> QED BY <1>4, <1>5

\* A step within a page.
LEMMA SamePageShorter ==
  ASSUME RunInv, pc \notin {"idle", "stopped"}, call' = call, page' = page,
         NEW at \in {"token", "login", "store", "read", "request"}, pc' = at,
         \/ attempt' = attempt /\ RequestLeft(at) < RequestLeft(pc)
         \/ attempt = 0 /\ attempt' = 1 /\ pc = "request"
  PROVE  RunInv' /\ StepsLeft' < StepsLeft
<1>1. RunInv'
  BY DEF RunInv
<1>2. /\ StepsLeft = 10 * PagesLeft(call, page) + 5 * (1 - attempt) + RequestLeft(pc)
      /\ StepsLeft' = 10 * PagesLeft(call, page) + 5 * (1 - attempt') + RequestLeft(at)
  BY <1>1, StepsLeftIs DEF Left
<1>3. /\ PagesLeft(call, page) \in Nat /\ attempt \in {0, 1} /\ attempt' \in {0, 1}
      /\ RequestLeft(pc) \in 1..5 /\ RequestLeft(at) \in 1..5
      /\ pc = "request" => RequestLeft(pc) = 1
  BY <1>1, PagesLeftFacts DEF RunInv, RequestLeft
<1>4. CASE attempt' = attempt /\ RequestLeft(at) < RequestLeft(pc)
  BY <1>1, <1>2, <1>3, <1>4
<1>5. CASE attempt = 0 /\ attempt' = 1 /\ pc = "request"
  BY <1>1, <1>2, <1>3, <1>5
<1> QED BY <1>4, <1>5

LEMMA SendShorter ==
  ASSUME RunInv, NEW where \in {"login", "request"}, NEW tok, Send(where, tok),
         \/ pc = "token"
         \/ pc = "read" /\ where = "request"
  PROVE  RunInv' /\ StepsLeft' < StepsLeft
<1>1. CASE Cancelled
  BY <1>1, CallEndsShorter DEF Send, CallFails
<1>2. CASE ~Cancelled
  <2>1. pc' = where /\ call' = call /\ page' = page /\ attempt' = attempt
    BY <1>2 DEF Send, pagination
  <2>2. RequestLeft(where) < RequestLeft(pc)
    BY DEF RequestLeft
  <2> QED BY <2>1, <2>2, SamePageShorter
<1> QED BY <1>1, <1>2

LEMMA RetryShorter ==
  ASSUME RunInv, pc = "request", NEW n401, NEW n406, Retry(n401, n406)
  PROVE  RunInv' /\ StepsLeft' < StepsLeft
<1>1. CASE attempt = 0
  <2>1. attempt' = 1 /\ pc' = "token" /\ call' = call /\ page' = page
    BY <1>1 DEF Retry, pagination
  <2> QED BY <1>1, <2>1, SamePageShorter
<1>2. CASE attempt = 1
  BY <1>2, CallEndsShorter DEF Retry, CallFails
<1> QED BY <1>1, <1>2 DEF RunInv

LEMMA PageShorter ==
  ASSUME RunInv, NEW next, PageAnswered(next)
  PROVE  RunInv' /\ StepsLeft' < StepsLeft
<1>1. pc = "request"
  BY DEF PageAnswered
<1>2. CASE \E result : CallEnds(result)
  BY <1>1, <1>2, CallEndsShorter
<1>3. CASE /\ page + 1 < MaxPages /\ page' = page + 1 /\ NewPage /\ pc' = "token"
           /\ call' = call
  <2>1. RunInv'
    BY <1>3 DEF RunInv, NewPage
  <2>2. attempt' = 0 /\ page \in 0..MaxPages - 1 /\ call \in Calls /\ attempt \in {0, 1}
    BY <1>3 DEF NewPage, RunInv
  <2>3. /\ StepsLeft = 10 * PagesLeft(call, page) + 5 * (1 - attempt) + 1
        /\ StepsLeft' = 10 * PagesLeft(call, page + 1) + 5 * (1 - 0) + 5
    BY <1>1, <1>3, <2>1, <2>2, StepsLeftIs DEF Left, RequestLeft
  <2>4. /\ PagesLeft(call, page) \in Nat
        /\ PagesLeft(call, page + 1) + 1 = PagesLeft(call, page)
    BY <1>3, <2>2, PagesLeftFacts
  <2>5. PagesLeft(call, page + 1) \in Nat
    <3>1. page + 1 \in 0..MaxPages - 1
      BY <1>3, <2>2
    <3> QED BY <2>2, <3>1, PagesLeftFacts
  <2> QED BY <2>1, <2>2, <2>3, <2>4, <2>5
<1> QED BY <1>2, <1>3 DEF PageAnswered, CallFails

LEMMA PollShorter == RunInv /\ Poll => RunInv' /\ StepsLeft' < StepsLeft
<1> SUFFICES ASSUME RunInv, Poll PROVE RunInv' /\ StepsLeft' < StepsLeft
  OBVIOUS
<1>1. CASE TokenCached \/ TokenMissing \/ LoginRead
  BY <1>1, SendShorter DEF TokenCached, TokenMissing, LoginRead
<1>2. ASSUME NEW t \in Tokens, LoginAnswered(t)
      PROVE  RunInv' /\ StepsLeft' < StepsLeft
  <2>1. pc = "login" /\ pc' = "store" /\ call' = call /\ page' = page /\ attempt' = attempt
    BY <1>2 DEF LoginAnswered, pagination
  <2>2. RequestLeft("store") < RequestLeft("login")
    BY DEF RequestLeft
  <2> QED BY <2>1, <2>2, SamePageShorter
<1>3. ASSUME NEW opened, LoginFailed(opened)
      PROVE  RunInv' /\ StepsLeft' < StepsLeft
  BY <1>3, CallEndsShorter DEF LoginFailed, CallFails
<1>4. CASE LoginStored
  <2>1. pc = "store" /\ pc' = "read" /\ call' = call /\ page' = page /\ attempt' = attempt
    BY <1>4 DEF LoginStored, pagination
  <2>2. RequestLeft("read") < RequestLeft("store")
    BY DEF RequestLeft
  <2> QED BY <2>1, <2>2, SamePageShorter
<1>5. CASE Unauthorized
  BY <1>5, RetryShorter DEF Unauthorized
<1>6. CASE NotAcceptable
  BY <1>6, RetryShorter, CallEndsShorter DEF NotAcceptable, CallFails
<1>7. CASE RequestFailed
  BY <1>7, CallEndsShorter DEF RequestFailed, CallFails
<1>8. ASSUME NEW next \in Markers \cup {FirstPage}, PageAnswered(next)
      PROVE  RunInv' /\ StepsLeft' < StepsLeft
  BY <1>8, PageShorter
<1> QED BY <1>1, <1>2, <1>3, <1>4, <1>5, <1>6, <1>7, <1>8 DEF Poll, Login, Answer

\* What is not a step of the poll leaves it where it is, or begins it.
LEMMA OthersKeep ==
  ASSUME RunInv, [Next]_vars, ~Poll
  PROVE  RunInv' /\ (pc = "idle" \/ StepsLeft' = StepsLeft)
<1>1. CASE Begin
  BY <1>1 DEF Begin, FirstOf, NewPage, RunInv, Calls
<1>2. CASE Stop
  BY <1>2 DEF Stop, pagination, RunInv
<1>3. CASE /\ pc' = pc /\ call' = call /\ page' = page /\ attempt' = attempt
  BY <1>3 DEF RunInv, StepsLeft
<1>4. Signal \/ Logout \/ Ages \/ (\E t \in Tokens : SessionEnds(t)) \/ UNCHANGED vars =>
        /\ pc' = pc /\ call' = call /\ page' = page /\ attempt' = attempt
  BY DEF Signal, Logout, LogoutBegins, LogoutAnswered, LogoutClears, Ages, SessionEnds,
         pagination, vars
<1> QED BY <1>1, <1>2, <1>3, <1>4 DEF Next

\* Every step of a poll brings it nearer to its end, for every maxBillingPages and
\* every set of markers, and nothing that the main goroutine or ECS does meanwhile
\* takes it back. A poll has at most 10 steps to each page of its three calls, so
\* no loop of billing.go, inventory.go and login.go is endless.
THEOREM PollStepsAreBounded ==
  Spec => /\ PollRunsOut
          /\ [](StepsLeft \in 0..30 * MaxPages)
<1> DEFINE Down == IF Poll THEN StepsLeft' < StepsLeft ELSE pc = "idle" \/ StepsLeft' = StepsLeft
<1>1. Init => RunInv
  BY DEF Init, RunInv, Calls
<1>2. RunInv /\ [Next]_vars => RunInv' /\ Down
  BY PollShorter, OthersKeep
<1>3. RunInv => StepsLeft \in 0..30 * MaxPages
  <2> SUFFICES ASSUME RunInv PROVE StepsLeft \in 0..30 * MaxPages
    OBVIOUS
  <2>1. /\ PagesLeft(call, page) \in Nat /\ PagesLeft(call, page) < 3 * MaxPages
        /\ attempt \in {0, 1} /\ RequestLeft(pc) \in 1..5
    BY PagesLeftFacts DEF RunInv, RequestLeft
  <2> QED BY <2>1, StepsLeftIs DEF Left
<1>4. PollRunsOut <=> [][Down]_vars
  BY DEF PollRunsOut
<1> HIDE DEF Down
<1> QED BY <1>1, <1>2, <1>3, <1>4, PTL DEF Spec
=============================================================================
