------------------------------ MODULE TokenRefresh ------------------------------
(***************************************************************************)
(* The session tokens of examples/token-refresh-claims.  The service keeps *)
(* no state: what it has granted is in the signed tokens its clients hold. *)
(* A request verifies its token at one reading of the clock and composes   *)
(* the new one at another.                                                 *)
(***************************************************************************)
EXTENDS Integers, FiniteSets

CONSTANTS
    Requests,         \* concurrent requests
    Sessions,         \* session ids, a bound on sessions
    SessionRequests,  \* bodies of POST /sessions: [role, scopes, ttl]
    AccessTTL,        \* defaultAccessTTL
    RefreshTTL,       \* defaultRefreshTTL
    MaxDelay,         \* clock units that may pass while a request is in flight
    MaxTime           \* bound on the clock

VARIABLES
    pc,       \* request -> where it stands
    work,     \* request -> what it is about to compose, and the pieces it has composed
    outcome,  \* request -> the answer
    tokens,   \* the tokens clients have been given
    started,  \* session -> [at, ttl] of its IssueSession, at = MaxTime + 1 before
    now,      \* the service's clock
    delay     \* request -> clock units that have passed since it began to compose

vars == <<pc, work, outcome, tokens, started, now, delay>>

RefreshAssumption ==
    /\ AccessTTL \in Nat \ {0} /\ RefreshTTL \in Nat \ {0}
    /\ MaxDelay \in Nat /\ MaxTime \in Nat
    /\ \A q \in SessionRequests : q.ttl \in Int

Nothing == [use |-> "none", role |-> "none", scopes |-> {}, session |-> 0, exp |-> 0]

\* Compose: what the two kinds of tokens claim.
AccessToken(role, scopes, session, exp) ==
    [use |-> "access", role |-> role, scopes |-> scopes, session |-> session, exp |-> exp]
RefreshToken(session, exp) ==
    [use |-> "refresh", role |-> "none", scopes |-> {}, session |-> session, exp |-> exp]

TypeOK ==
    /\ pc \in [Requests -> {"idle", "refresh", "reissue", "reply"}]
    /\ \A r \in Requests : outcome[r] \in {"none", "ok", "missing_token", "invalid_token",
                                           "expired_token", "invalid_claims",
                                           "invalid_request", "internal_error"}
    /\ \A t \in tokens : t.use \in {"access", "refresh"} /\ t.session \in Sessions
    /\ now \in 0 .. MaxTime
    /\ delay \in [Requests -> 0 .. MaxDelay]

Init ==
    /\ pc = [r \in Requests |-> "idle"]
    /\ work = [r \in Requests |-> Nothing]
    /\ outcome = [r \in Requests |-> "none"]
    /\ tokens = {}
    /\ started = [s \in Sessions |-> [at |-> MaxTime + 1, ttl |-> 0]]
    /\ now = 0
    /\ delay = [r \in Requests |-> 0]

Started(s) == started[s].at <= MaxTime
Composing == {r \in Requests : pc[r] \in {"refresh", "reissue"}}
Goto(r, label) == pc' = [pc EXCEPT ![r] = label]
Answer(r, code) == outcome' = [outcome EXCEPT ![r] = code] /\ Goto(r, "reply")

\* Time passes; no request takes longer than MaxDelay.
Tick ==
    /\ now < MaxTime
    /\ \A r \in Composing : delay[r] < MaxDelay
    /\ now' = now + 1
    /\ delay' = [r \in Requests |-> IF r \in Composing THEN delay[r] + 1 ELSE 0]
    /\ UNCHANGED <<pc, work, outcome, tokens, started>>

--------------------------------------------------------------------------------
validateSessionRequest(q) == q.role # "none" /\ q.scopes # {} /\ q.ttl > 0

\* IssueSession takes a session id and composes the access token ...
IssueSession(r, q, s) ==
    /\ pc[r] = "idle"
    /\ IF validateSessionRequest(q)
       THEN /\ ~Started(s)
            /\ started' = [started EXCEPT ![s] = [at |-> now, ttl |-> q.ttl]]
            /\ work' = [work EXCEPT ![r] = AccessToken(q.role, q.scopes, s, now + q.ttl)]
            /\ Goto(r, "refresh")
            /\ UNCHANGED outcome
       ELSE Answer(r, "invalid_request") /\ UNCHANGED <<started, work>>
    /\ UNCHANGED <<tokens, now, delay>>

\* ... then the refresh token, and hands out both.
ComposeRefresh(r) ==
    /\ pc[r] = "refresh"
    /\ tokens' = tokens \union {work[r], RefreshToken(work[r].session, now + RefreshTTL)}
    /\ Answer(r, "ok")
    /\ UNCHANGED <<work, started, now, delay>>

\* The id generator fails: nothing is handed out.
NextIDFails(r) ==
    /\ pc[r] \in {"refresh", "reissue"}
    /\ Answer(r, "internal_error")
    /\ UNCHANGED <<work, tokens, started, now, delay>>

\* parseToken, with expiration required.
parseToken(t) == now < t.exp

MeetsAccessContract(t) == t.use = "access" /\ t.role = "customer" /\ "profile:read" \in t.scopes
\* Mutant: an access token may be refreshed.
MeetsAnyContract(t) == t.use \in {"access", "refresh"}

MeetsRefreshContract(t) == t.use = "refresh"

\* ValidateAccess of a token some client was given.
ValidateAccess(r, t) ==
    /\ pc[r] = "idle"
    /\ work' = [work EXCEPT ![r] = t]
    /\ Answer(r, IF ~parseToken(t) THEN "expired_token"
                 ELSE IF MeetsAccessContract(t) THEN "ok" ELSE "invalid_claims")
    /\ UNCHANGED <<tokens, started, now, delay>>

\* RefreshAccess of such a token: it is verified, and the new one composed later.
RefreshAccess(r, t) ==
    /\ pc[r] = "idle"
    /\ IF ~parseToken(t) THEN Answer(r, "expired_token")
       ELSE IF MeetsRefreshContract(t) THEN Goto(r, "reissue") /\ UNCHANGED outcome
       ELSE Answer(r, "invalid_claims")
    /\ work' = [work EXCEPT ![r] = t]
    /\ UNCHANGED <<tokens, started, now, delay>>

\* Mutant: the new token names no session.
ReissueWithoutSession(r) ==
    /\ pc[r] = "reissue"
    /\ tokens' = tokens \union {AccessToken("customer", {"profile:read"}, 0, now + AccessTTL)}
    /\ Answer(r, "ok")
    /\ UNCHANGED <<work, started, now, delay>>

\* issueAccessToken for a refresh: the role and the scope are the service's own.
Reissue(r) ==
    /\ pc[r] = "reissue"
    /\ tokens' = tokens \union
          {AccessToken("customer", {"profile:read"}, work[r].session, now + AccessTTL)}
    /\ Answer(r, "ok")
    /\ UNCHANGED <<work, started, now, delay>>

\* No token, one that this service has not signed, or no id for a session.
Refused(r, code) ==
    /\ pc[r] = "idle"
    /\ Answer(r, code)
    /\ UNCHANGED <<work, tokens, started, now, delay>>

Reply(r) ==
    /\ pc[r] = "reply"
    /\ Goto(r, "idle")
    /\ outcome' = [outcome EXCEPT ![r] = "none"]
    /\ work' = [work EXCEPT ![r] = Nothing]
    /\ delay' = [delay EXCEPT ![r] = 0]
    /\ UNCHANGED <<tokens, started, now>>

Next ==
    \/ Tick
    \/ \E r \in Requests, q \in SessionRequests, s \in Sessions : IssueSession(r, q, s)
    \/ \E r \in Requests, t \in tokens : ValidateAccess(r, t) \/ RefreshAccess(r, t)
    \/ \E r \in Requests, code \in {"missing_token", "invalid_token", "invalid_request", "internal_error"} :
          Refused(r, code)
    \/ \E r \in Requests : ComposeRefresh(r) \/ NextIDFails(r) \/ Reissue(r) \/ Reply(r)

Spec == Init /\ [][Next]_vars

--------------------------------------------------------------------------------
\* When the last token of session s can run out: its first access token, or one that a
\* refresh composed, both the issue and the refresh having been as slow as they may.
EndsInTime(t) ==
    \/ t.exp <= started[t.session].at + started[t.session].ttl
    \/ t.exp < started[t.session].at + RefreshTTL + AccessTTL + 2 * MaxDelay

\* RefreshAccess: no sequence of refreshes keeps a session alive beyond the lifetime of
\* its one refresh token and one access token after it; every token a client holds is
\* of a session that was issued.
SessionsEnd ==
    \A t \in tokens :
        /\ Started(t.session)
        /\ EndsInTime(t)
        /\ t.use = "refresh" => t.exp <= started[t.session].at + RefreshTTL + MaxDelay

================================================================================
