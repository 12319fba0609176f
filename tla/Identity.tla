------------------------------ MODULE Identity ------------------------------
(***************************************************************************)
(* Who may call /api/v1 and /mcp: Verify of internal/identity and          *)
(* callerAuth of internal/http.                                            *)
(*                                                                         *)
(* Phoenix owns users and grants. Its gateway signs a short-lived token    *)
(* for each request it forwards; this extension checks the token against   *)
(* its own clock and holds no state about callers. So an answer reflects a *)
(* grant of the past: the request may be slow, the header may be sent      *)
(* again, the grant may be gone, and the two clocks differ.                *)
(*                                                                         *)
(* The gateway is outside this repository: it is modelled as what Verify   *)
(* and the README expect of it. Everything Verify compares with fixed      *)
(* values (three segments, alg, signature, iss, aud, sub, presence of iat  *)
(* and exp) is one field, sound: the gateway's tokens have it.             *)
(***************************************************************************)
EXTENDS Integers

CONSTANTS
  MaxLifetime,  \* bound on exp - iat, in ticks
  Leeway,       \* tolerated clock skew, in ticks
  Skew,         \* how far the pod's clock may be from the gateway's
  Lifetimes,    \* lifetimes the gateway may give its tokens
  MaxTime       \* bound: the last tick

\* The leeway is there to absorb the skew (identity.go:51-52).
ASSUME IdentityAssumption ==
  /\ MaxLifetime \in Nat \ {0} /\ Leeway \in Nat /\ MaxTime \in Nat
  /\ Skew \in Nat /\ Skew <= Leeway
  /\ Lifetimes \subseteq Nat \ {0} /\ Lifetimes # {}

\* Claims of a token. Which user it names does not matter here.
Token == [sound : BOOLEAN, iat : Int, exp : Int, read : BOOLEAN]

\* A header nobody has signed for this extension.
Unsound == [sound |-> FALSE, iat |-> 0, exp |-> 0, read |-> FALSE]

\* Who callerAuth made of the request, and the status.
NoAnswer == [via |-> "none", status |-> 0]
Vias == {"none", "identity", "token", "open"}

VARIABLES
  config,       \* is PHOENIX_IDENTITY_SECRET set, is UI_TOKEN set
  now,          \* the gateway's clock
  offset,       \* the pod's clock minus the gateway's
  granted,      \* Phoenix: may the caller read through this extension now
  lastGranted,  \* history: the latest tick at which it might
  header,       \* the token most recently signed for the caller
  answer        \* the answer of the latest step, if it was a request

identityVars == <<config, now, offset, granted, lastGranted, header, answer>>

TypeOK ==
  /\ config \in [secret : BOOLEAN, uiToken : BOOLEAN]
  /\ now \in 1..(MaxTime + 1)
  /\ offset \in -Skew..Skew
  /\ granted \in BOOLEAN
  /\ lastGranted \in 0..now
  /\ header \in Token
  /\ answer \in [via : Vias, status : {0, 200, 401, 403}]

----------------------------------------------------------------------------
\* MUTANT: a token may live as long as it says.
VerifiedLongLived(t) ==
  /\ t.sound
  /\ now + offset <= t.exp + Leeway
  /\ t.iat <= now + offset + Leeway

\* MUTANT: the leeway covers late tokens only.
VerifiedNotEarly(t) ==
  /\ t.sound
  /\ t.exp - t.iat <= MaxLifetime
  /\ now + offset <= t.exp + Leeway
  /\ t.iat <= now + offset

\* Verify: the pod compares with its own clock.
Verified(t) ==
  /\ t.sound
  /\ t.exp - t.iat <= MaxLifetime
  /\ now + offset <= t.exp + Leeway
  /\ t.iat <= now + offset + Leeway

\* A request carries a header or not, and the right UI token (Bearer or
\* session cookie) or not.
Requests == [present : BOOLEAN, token : {header, Unsound}, credential : BOOLEAN]

\* callerAuth: the principal of a request; via "none" is 401. A header is
\* never ignored, not even when no secret is configured.
Principal(r) ==
  IF r.present
    THEN [via |-> IF config.secret /\ Verified(r.token) THEN "identity" ELSE "none",
          read |-> r.token.read]
  ELSE IF config.uiToken
    THEN [via |-> IF r.credential THEN "token" ELSE "none", read |-> r.credential]
  ELSE IF ~config.secret THEN [via |-> "open", read |-> TRUE]
  ELSE [via |-> "none", read |-> FALSE]

\* The REST routes ask for the scope read before the handler runs.
Status(r) ==
  IF Principal(r).via = "none" THEN 401 ELSE IF Principal(r).read THEN 200 ELSE 403

\* MCP asks callerAuth for any caller, and registers for the request the
\* tools its scopes allow: a call of another tool is an unknown tool.
ToolRegistered(r) == Principal(r).via # "none" /\ Principal(r).read

----------------------------------------------------------------------------
IdentityInit ==
  /\ config \in [secret : BOOLEAN, uiToken : BOOLEAN]
  /\ now = 1
  /\ offset \in -Skew..Skew
  /\ granted \in BOOLEAN
  /\ lastGranted = IF granted THEN now ELSE 0
  /\ header = Unsound
  /\ answer = NoAnswer

\* Time passes; the pod's clock drifts or is adjusted, within the skew.
Tick ==
  /\ now <= MaxTime
  /\ now' = now + 1
  /\ offset' \in -Skew..Skew
  /\ lastGranted' = IF granted THEN now' ELSE lastGranted
  /\ answer' = NoAnswer
  /\ UNCHANGED <<config, granted, header>>

\* An administrator gives or takes the grant.
GrantChanged ==
  /\ granted' = ~granted
  /\ lastGranted' = now
  /\ answer' = NoAnswer
  /\ UNCHANGED <<config, now, offset, header>>

\* The gateway forwards a request and signs what the caller may do now.
GatewaySigned(lifetime) ==
  /\ header' = [sound |-> TRUE, iat |-> now, exp |-> now + lifetime, read |-> granted]
  /\ answer' = NoAnswer
  /\ UNCHANGED <<config, now, offset, granted, lastGranted>>

\* A request reaches the pod: straight away, late, or for the second time.
Called(r) ==
  /\ answer' = [via |-> Principal(r).via, status |-> Status(r)]
  /\ UNCHANGED <<config, now, offset, granted, lastGranted, header>>

IdentityNext ==
  \/ Tick
  \/ GrantChanged
  \/ \E lifetime \in Lifetimes : GatewaySigned(lifetime)
  \/ \E r \in Requests : Called(r)

IdentitySpec == IdentityInit /\ [][IdentityNext]_identityVars

----------------------------------------------------------------------------
(***************************************************************************)
(* Taking a grant takes effect: whoever is served on a token had the grant *)
(* at most one lifetime, one leeway and the skew ago, however long the     *)
(* gateway made its tokens live and whenever the header arrives (identity. *)
(* go:23-25, "a short replay window rather than a credential").            *)
(***************************************************************************)
RevocationTakesEffect ==
  answer.via = "identity" /\ answer.status = 200 =>
    now - lastGranted <= MaxLifetime + Leeway + Skew

(***************************************************************************)
(* A caller with a token that the gateway's own clock calls valid is not   *)
(* refused because the pod's clock is ahead or behind (README.md, "30 s of *)
(* clock skew is tolerated").                                              *)
(***************************************************************************)
FreshIsServed ==
  /\ config.secret /\ header.sound /\ header.read
  /\ header.exp - header.iat <= MaxLifetime
  /\ now <= header.exp
  => \A r \in Requests : r.present /\ r.token = header => Status(r) = 200
=============================================================================
