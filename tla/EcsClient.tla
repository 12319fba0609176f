----------------------------- MODULE EcsClient ------------------------------
(***************************************************************************)
(* The ECS management client of internal/ecs as pollOnce uses it, and the  *)
(* end of the process in main.go that uses it at the same time.            *)
(*                                                                         *)
(* The poller goroutine makes three calls in a poll: billing, and if it    *)
(* succeeds the bucket list and the namespace. A call fetches pages, a     *)
(* page is one request and at most one retry, and a request carries the    *)
(* cached token, after a login if there is none. The main goroutine        *)
(* cancels the context on a signal and then logs the cached token out,     *)
(* without waiting for the poller. The token is all they share; it is read *)
(* and written under a mutex, one access per step below.                   *)
(*                                                                         *)
(* ECS is external: it gives out sessions, may end one at any time, and    *)
(* answers a request by what its session is worth.                         *)
(***************************************************************************)
EXTENDS Naturals, FiniteSets

CONSTANTS
  None,      \* no token
  Tokens,    \* tokens ECS may give out; a dead one may be given out again
  Markers,   \* pagination markers ECS may return
  MaxPages,  \* maxBillingPages and maxInventoryPages (100 in the code)
  FirstPage  \* the empty marker

ASSUME ClientAssumption ==
  /\ None \notin Tokens /\ FirstPage \notin Markers
  /\ MaxPages \in Nat \ {0}

Calls == {"billing", "buckets", "namespace"}

VARIABLES
  token,     \* Client.token: the cached token
  old,       \* is the cached token older than tokenMaxAge
  sessions,  \* ECS: the tokens it accepts
  pc,        \* where the poller goroutine is
  call,      \* the call it is making
  outcome,   \* how each call of the latest poll ended
  page,      \* pages this call has
  marker,    \* marker of the page being fetched
  seen,      \* markers this call was given
  attempt,   \* retries of this page
  suffix,    \* useJSONSuffix
  using,     \* the token the goroutine holds
  main,      \* where the main goroutine is
  outgoing,  \* the token Logout holds
  \* History variables: no guard reads them.
  page401,   \* how often this page was refused for its token
  page406,   \* how often for its format
  ended,     \* sessions that ended under this page, at most 2
  lost       \* why the latest call failed

pagination == <<page, marker, seen>>
history == <<page401, page406, ended, lost>>
vars == <<token, old, sessions, pc, call, outcome, pagination, attempt, suffix,
          using, main, outgoing, history>>

NotLost == [call |-> "none", hard |-> TRUE, page401 |-> 0, page406 |-> 0, ended |-> 0]

Cancelled == main # "serve"

Init ==
  /\ token = None /\ old = FALSE /\ sessions = {}
  /\ pc = "idle" /\ call = "billing"
  /\ outcome = [c \in Calls |-> "none"]
  /\ page = 0 /\ marker = FirstPage /\ seen = {}
  /\ attempt = 0 /\ suffix = FALSE /\ using = None
  /\ main = "serve" /\ outgoing = None
  /\ page401 = 0 /\ page406 = 0 /\ ended = 0 /\ lost = NotLost

----------------------------------------------------------------------------
(***************************************************************************)
(* Pages and calls.                                                        *)
(***************************************************************************)
\* A session of the cached token that is dead when a page begins counts as
\* ended under it.
NewPage ==
  /\ attempt' = 0
  /\ suffix' = FALSE
  /\ page401' = 0
  /\ page406' = 0
  /\ ended' = IF token' \notin sessions \cup {None} THEN 1 ELSE 0

FirstOf(c) ==
  /\ call' = c
  /\ page' = 0 /\ marker' = FirstPage /\ seen' = {}
  /\ using' = None
  /\ NewPage

\* A billing error ends the poll, an inventory error only its call.
CallEnds(result) ==
  /\ outcome' = [outcome EXCEPT ![call] = result]
  /\ \/ /\ call = "billing" /\ result = "ok"
        /\ FirstOf("buckets") /\ pc' = "token"
     \/ /\ call = "buckets"
        /\ FirstOf("namespace") /\ pc' = "token"
     \/ /\ call = "namespace" \/ (call = "billing" /\ result = "failed")
        /\ FirstOf("billing") /\ pc' = "idle"

CallFails(hard, n401, n406) ==
  /\ CallEnds("failed")
  /\ lost' = [call |-> call, hard |-> hard, page401 |-> n401, page406 |-> n406,
              ended |-> ended]

Begin ==
  /\ pc = "idle"
  /\ UNCHANGED <<token, old, sessions, main, outgoing>>
  /\ outcome' = [c \in Calls |-> "none"]
  /\ lost' = NotLost
  /\ FirstOf("billing")
  /\ pc' = "token"

Stop ==  \* Run returns
  /\ pc = "idle"
  /\ Cancelled
  /\ pc' = "stopped"
  /\ UNCHANGED <<token, old, sessions, call, outcome, pagination, attempt, suffix,
                 using, main, outgoing, history>>

\* A request under a cancelled context fails at once.
Send(where, tok) ==
  \/ /\ ~Cancelled
     /\ pc' = where
     /\ using' = tok
     /\ UNCHANGED <<call, outcome, pagination, attempt, suffix, history>>
  \/ /\ Cancelled
     /\ CallFails(TRUE, page401, page406)

----------------------------------------------------------------------------
(***************************************************************************)
(* Token and Login.                                                        *)
(***************************************************************************)
TokenCached ==
  /\ pc = "token"
  /\ UNCHANGED <<token, old, sessions, main, outgoing>>
  /\ token # None /\ ~old
  /\ Send("request", token)

TokenMissing ==
  /\ pc = "token"
  /\ UNCHANGED <<token, old, sessions, main, outgoing>>
  /\ token = None \/ old
  /\ Send("login", None)

Fresh(t) == t \notin sessions \cup {token, outgoing}

LoginAnswered(t) ==
  /\ pc = "login"
  /\ Fresh(t)
  /\ sessions' = sessions \cup {t}
  /\ using' = t
  /\ pc' = "store"
  /\ UNCHANGED <<token, old, call, outcome, pagination, attempt, suffix, main, outgoing,
                 history>>

\* No answer, or a bad one; ECS may have opened the session all the same.
LoginFailed(opened) ==
  /\ pc = "login"
  /\ UNCHANGED <<token, old, main, outgoing>>
  /\ \A t \in opened : Fresh(t)
  /\ sessions' = sessions \cup opened
  /\ CallFails(TRUE, page401, page406)

LoginStored ==
  /\ pc = "store"
  /\ token' = using
  /\ old' = FALSE
  /\ pc' = "read"
  /\ UNCHANGED <<sessions, call, outcome, pagination, attempt, suffix, using, main,
                 outgoing, history>>

\* Token() takes the mutex again to read what Login has stored.
LoginRead ==
  /\ pc = "read"
  /\ UNCHANGED <<token, old, sessions, main, outgoing>>
  /\ Send("request", token)

----------------------------------------------------------------------------
(***************************************************************************)
(* fetchBillingPage, fetchBucketPage, NamespaceMetaInfo: what they make of *)
(* an answer.                                                              *)
(***************************************************************************)
\* MUTANT: no retry at all.
RetryNever(n401, n406) ==
  /\ CallFails(FALSE, n401, n406)

\* MUTANT: the retries are not counted.
RetryForever(n401, n406) ==
  /\ attempt' = 1
  /\ pc' = "token"
  /\ UNCHANGED <<call, outcome, pagination, using, history>>

Retry(n401, n406) ==
  \/ /\ attempt = 0
     /\ attempt' = 1
     /\ page401' = n401 /\ page406' = n406
     /\ pc' = "token"
     /\ UNCHANGED <<call, outcome, pagination, using, ended, lost>>
  \/ /\ attempt = 1
     /\ CallFails(FALSE, n401, n406)

\* MUTANT: the rejected token stays in the cache.
UnauthorizedKeepsToken ==
  /\ pc = "request"
  /\ UNCHANGED <<token, old, sessions, main, outgoing>>
  /\ using \notin sessions
  /\ suffix' = IF attempt = 0 THEN suffix ELSE FALSE
  /\ Retry(page401 + 1, page406)

\* 401, or a redirect to /login: forget the token and try once more.
Unauthorized ==
  /\ pc = "request"
  /\ using \notin sessions
  /\ token' = None
  /\ suffix' = IF attempt = 0 THEN suffix ELSE FALSE
  /\ Retry(page401 + 1, page406)
  /\ UNCHANGED <<old, sessions, main, outgoing>>

\* 406 or HTML: billing tries once more with the .json suffix.
NotAcceptable ==
  /\ pc = "request"
  /\ UNCHANGED <<token, old, sessions, main, outgoing>>
  /\ using \in sessions
  /\ \/ /\ call = "billing" /\ ~suffix
        /\ suffix' = (attempt = 0)
        /\ Retry(page401, page406 + 1)
     \/ /\ call # "billing" \/ suffix
        /\ CallFails(call # "billing", page401, page406 + 1)

\* Any other status, a network error, a timeout, a body that does not parse.
RequestFailed ==
  /\ pc = "request"
  /\ UNCHANGED <<token, old, sessions, main, outgoing>>
  /\ CallFails(TRUE, page401, page406)

\* MUTANT: only the latest marker of a call is remembered.
PageAnsweredForgetful(next) ==
  /\ pc = "request"
  /\ UNCHANGED <<token, old, sessions, main, outgoing>>
  /\ using \in sessions
  /\ \/ /\ next = FirstPage \/ next = marker \/ call = "namespace"
        /\ CallEnds("ok")
        /\ UNCHANGED lost
     \/ /\ next # FirstPage /\ next # marker /\ call # "namespace"
        /\ page + 1 < MaxPages
        /\ page' = page + 1 /\ marker' = next /\ seen' = {next}
        /\ NewPage
        /\ pc' = "token"
        /\ UNCHANGED <<call, outcome, using, lost>>
     \/ /\ next # FirstPage /\ next # marker /\ call # "namespace"
        /\ page + 1 = MaxPages
        /\ CallFails(TRUE, page401, page406)

(***************************************************************************)
(* One page. It is the last one if it has no marker or one that was seen   *)
(* before; too many pages are an error. The namespace call has one page.   *)
(***************************************************************************)
PageAnswered(next) ==
  /\ pc = "request"
  /\ UNCHANGED <<token, old, sessions, main, outgoing>>
  /\ using \in sessions
  /\ \/ /\ next = FirstPage \/ next \in seen \/ call = "namespace"
        /\ CallEnds("ok")
        /\ UNCHANGED lost
     \/ /\ next # FirstPage /\ next \notin seen /\ call # "namespace"
        /\ page + 1 < MaxPages
        /\ page' = page + 1 /\ marker' = next /\ seen' = seen \cup {next}
        /\ NewPage
        /\ pc' = "token"
        /\ UNCHANGED <<call, outcome, using, lost>>
     \/ /\ next # FirstPage /\ next \notin seen /\ call # "namespace"
        /\ page + 1 = MaxPages
        /\ CallFails(TRUE, page401, page406)

----------------------------------------------------------------------------
(***************************************************************************)
(* main.go and Logout.                                                     *)
(***************************************************************************)
Signal ==
  /\ main = "serve"
  /\ main' = "cancelled"
  /\ UNCHANGED <<token, old, sessions, pc, call, outcome, pagination, attempt, suffix,
                 using, outgoing, history>>

EndSession(t) ==
  /\ sessions' = sessions \ {t}
  /\ ended' = IF t \in sessions \cap {token, using} /\ ended < 2 THEN ended + 1 ELSE ended

\* After the HTTP server is down: Logout reads the token.
LogoutBegins ==
  /\ main = "cancelled"
  /\ outgoing' = token
  /\ main' = IF token = None THEN "exit" ELSE "logout"
  /\ UNCHANGED <<token, old, sessions, pc, call, outcome, pagination, attempt, suffix,
                 using, history>>

\* The request: ECS ends the session, refuses (cleared says so: the token is
\* forgotten all the same), or does not answer, and nothing more happens.
LogoutAnswered(done, cleared) ==
  /\ main = "logout"
  /\ IF done THEN EndSession(outgoing) ELSE UNCHANGED <<sessions, ended>>
  /\ main' = IF cleared THEN "clear" ELSE "exit"
  /\ UNCHANGED <<token, old, pc, call, outcome, pagination, attempt, suffix, using,
                 outgoing, page401, page406, lost>>

LogoutClears ==
  /\ main = "clear"
  /\ token' = None
  /\ main' = "exit"
  /\ UNCHANGED <<old, sessions, pc, call, outcome, pagination, attempt, suffix, using,
                 outgoing, history>>

\* tokenMaxAge passes.
Ages ==
  /\ token # None /\ ~old
  /\ old' = TRUE
  /\ UNCHANGED <<token, sessions, pc, call, outcome, pagination, attempt, suffix, using,
                 main, outgoing, history>>

\* External: ECS ends a session, at its age or earlier.
SessionEnds(t) ==
  /\ t \in sessions
  /\ EndSession(t)
  /\ UNCHANGED <<token, old, pc, call, outcome, pagination, attempt, suffix, using,
                 main, outgoing, page401, page406, lost>>

Login ==
  \/ \E t \in Tokens : LoginAnswered(t)
  \/ LoginFailed({})
  \/ \E t \in Tokens : LoginFailed({t})

Answer ==
  \/ Unauthorized
  \/ NotAcceptable
  \/ RequestFailed
  \/ \E next \in Markers \cup {FirstPage} : PageAnswered(next)

Logout == LogoutBegins \/ (\E done, cleared \in BOOLEAN : LogoutAnswered(done, cleared)) \/ LogoutClears

Poll == TokenCached \/ TokenMissing \/ Login \/ LoginStored \/ LoginRead \/ Answer

Next ==
  \/ Begin
  \/ Stop
  \/ Poll
  \/ Signal
  \/ Logout
  \/ Ages
  \/ \E t \in Tokens : SessionEnds(t)

Spec == Init /\ [][Next]_vars

\* Requests have a deadline (http.Client.Timeout), so each one ends.
FairSpec == Spec /\ WF_vars(Poll)

----------------------------------------------------------------------------
(***************************************************************************)
(* Pagination never fetches a page twice, however ECS repeats its markers: *)
(* the pages of a call are as many as the markers it was given.            *)
(***************************************************************************)
PagesAreDistinct == page = Cardinality(seen)

(***************************************************************************)
(* One transient refusal of a page never costs the call: a call that gives *)
(* up "after retry" was refused twice on one page, whatever happened on    *)
(* the pages before.                                                       *)
(***************************************************************************)
OneRefusalIsSurvived == ~lost.hard => lost.page401 + lost.page406 >= 2

(***************************************************************************)
(* The end of one session never costs a poll: if a page was refused twice  *)
(* for its token, two sessions have ended, so the retry did carry a new    *)
(* token (billing.go:66-73).                                               *)
(***************************************************************************)
OneExpiryIsSurvived == lost.page401 >= 2 => lost.ended >= 2

(***************************************************************************)
(* fetchBillingPage handles "token refresh (401 or redirect-to-/login      *)
(* exactly once) and the .json suffix fallback (on 406 or HTML responses,  *)
(* exactly once)" (billing.go:50-52): a page is given up only if the same  *)
(* trouble comes back.                                                     *)
(***************************************************************************)
EachTroubleHasItsRetry ==
  ~lost.hard => lost.page401 >= 2 \/ lost.page406 >= 2

\* How many steps the goroutine has left in a poll, at most: a page is two
\* requests, a request five steps.
StepsLeft ==
  LET callsToCome == CASE call = "billing" -> 2 [] call = "buckets" -> 1 [] OTHER -> 0
      pagesToCome == callsToCome * MaxPages + (MaxPages - 1 - page)
      ofRequest == CASE pc = "token" -> 5 [] pc = "login" -> 4 [] pc = "store" -> 3
                     [] pc = "read" -> 2 [] OTHER -> 1
  IN  IF pc \in {"idle", "stopped"} THEN 0
      ELSE 10 * pagesToCome + 5 * (1 - attempt) + ofRequest

(***************************************************************************)
(* A poll comes nearer to its end with every step it takes, and nothing    *)
(* that happens meanwhile takes it back: not a marker that comes again, a  *)
(* token that ends during its retry, a login that fails, a logout or the   *)
(* signal. It sends at most two requests for each page of its three calls. *)
(***************************************************************************)
PollRunsOut ==
  [][IF Poll THEN StepsLeft' < StepsLeft ELSE pc = "idle" \/ StepsLeft' = StepsLeft]_vars

(***************************************************************************)
(* Every poll ends, whatever markers ECS returns and whatever sessions it  *)
(* ends: no retry or pagination loop goes on for ever.                     *)
(***************************************************************************)
PollEnds == pc = "token" ~> pc \in {"idle", "stopped"}
=============================================================================
