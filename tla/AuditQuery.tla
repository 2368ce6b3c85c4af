------------------------------- MODULE AuditQuery -------------------------------
(***************************************************************************)
(* The audit history API of examples/gin-audit-query-api.  The history is  *)
(* seeded before the server starts.  A client walks through a search page  *)
(* by page: it sends the same request again with the boundary of `next` in *)
(* place of its own, and repeats a request that timed out.                 *)
(***************************************************************************)
EXTENDS Integers, Sequences, SequencesExt

CONSTANTS
    Requests,      \* clients, each with one request at a time
    Bounds,        \* [from, to, after, before] filters clients ask for, 0 for none
    Limits,        \* limits clients ask for
    DefaultLimit,  \* ServiceConfig.DefaultLimit
    MaximumLimit   \* ServiceConfig.MaximumLimit

AuditAssumption == 0 < DefaultLimit /\ DefaultLimit <= MaximumLimit /\ MaximumLimit <= 100

VARIABLES
    pc,       \* client -> where its request stands
    call,     \* client -> the request
    expired,  \* client -> "no", "timeout" or, when the client has left, "gone"
    seen,     \* client -> the request its walk began with, the revisions of earlier pages,
              \* those of this page and the boundary of the next one, 0 for none
    outcome   \* client -> the answer

vars == <<pc, call, expired, seen, outcome>>

NoCall == [op |-> "none", aggregate |-> "none", from |-> 0, to |-> 0, after |-> 0, before |-> 0,
           newest |-> FALSE, limit |-> 0]
NoPage == [asked |-> NoCall, walked |-> <<>>, page |-> <<>>, next |-> 0]

TypeOK ==
    /\ pc \in [Requests -> {"idle", "service", "find", "found", "reply"}]
    /\ expired \in [Requests -> {"no", "timeout", "gone"}]
    /\ \A r \in Requests : seen[r].walked \in Seq(Nat) /\ seen[r].page \in Seq(Nat)
    /\ outcome \in [Requests -> {"none", "ok", "invalid_request", "invalid_audit_query",
          "audit_entry_not_found", "request_timeout", "request_too_large",
          "unsupported_media_type", "unsupported_content_encoding", "internal_error"}]

Init ==
    /\ pc = [r \in Requests |-> "idle"]
    /\ call = [r \in Requests |-> NoCall]
    /\ expired = [r \in Requests |-> "no"]
    /\ seen = [r \in Requests |-> NoPage]
    /\ outcome = [r \in Requests |-> "none"]

\* SeedRepository: order -> revision -> minute at which the entry was recorded.
SeedRepository ==
    [o \in {"order-1001", "order-2001", "unknown"} |->
        CASE o = "order-1001" -> <<1, 2, 3, 4>>
          [] o = "order-2001" -> <<11, 12>>
          [] OTHER            -> <<>>]

Goto(r, label) == pc' = [pc EXCEPT ![r] = label]
Answer(r, code) == outcome' = [outcome EXCEPT ![r] = code] /\ Goto(r, "reply")

--------------------------------------------------------------------------------
\* audit.Query: the revisions that match the filters, and the first of them in the order
\* and within the limit asked for.  A zero filter is none.
Matches(c) ==
    {v \in DOMAIN SeedRepository[c.aggregate] :
        LET at == SeedRepository[c.aggregate][v]
        IN /\ c.from = 0 \/ c.from <= v
           /\ c.to = 0 \/ v <= c.to
           /\ c.after = 0 \/ c.after <= at
           /\ c.before = 0 \/ at <= c.before}
Ordered(c) == SetToSortSeq(Matches(c), LAMBDA v, w : IF c.newest THEN v > w ELSE v < w)
FirstOf(s, n) == SubSeq(s, 1, IF Len(s) < n THEN Len(s) ELSE n)

\* audit.Query.Validate refuses inverted bounds.
ValidQuery(c) ==
    /\ c.from = 0 \/ c.to = 0 \/ c.from <= c.to
    /\ c.after = 0 \/ c.before = 0 \/ c.after <= c.before

normalizeAggregate(c) == c.aggregate # "invalid"
SearchLimit(c) == IF c.limit = 0 THEN DefaultLimit ELSE c.limit

\* search and detail decode their request; decodeJSON refuses a body before the service
\* is asked, detail a revision that is not a positive number.
BodyFaults == {"request_too_large", "unsupported_media_type", "unsupported_content_encoding",
               "invalid_request", "internal_error"}

decodeJSON(r, fault) ==
    /\ pc[r] = "idle"
    /\ fault \in BodyFaults
    /\ Answer(r, fault)
    /\ UNCHANGED <<call, expired, seen>>

search(r, c) ==
    /\ pc[r] = "idle"
    /\ call' = [call EXCEPT ![r] = c]
    /\ seen' = [seen EXCEPT ![r].asked = c]
    /\ Goto(r, "service")
    /\ UNCHANGED <<expired, outcome>>

detail(r, c) ==
    /\ pc[r] = "idle"
    /\ call' = [call EXCEPT ![r] = c]
    /\ IF c.from = 0
       THEN Answer(r, "invalid_audit_query")
       ELSE Goto(r, "service") /\ UNCHANGED outcome
    /\ UNCHANGED <<expired, seen>>

\* RequestTimeout passes, or the client leaves.
Expire(r, how) ==
    /\ pc[r] \in {"service", "find", "found"}
    /\ expired[r] # how /\ expired[r] # "gone"
    /\ expired' = [expired EXCEPT ![r] = how]
    /\ UNCHANGED <<pc, call, seen, outcome>>

\* Service.Search and Service.Get up to the read: an expired context, then the aggregate,
\* the limit and the query.  mapServiceError names each refusal.
Refusal(c) ==
    IF ~normalizeAggregate(c) THEN "invalid_request"
    ELSE IF c.op = "search" /\ (SearchLimit(c) < 0 \/ SearchLimit(c) > MaximumLimit)
    THEN "invalid_audit_query"
    ELSE IF ~ValidQuery(c) THEN "invalid_audit_query"
    ELSE "none"

Ask(r) ==
    /\ pc[r] = "service" /\ expired[r] = "no"
    /\ IF Refusal(call[r]) # "none"
       THEN Answer(r, Refusal(call[r]))
       ELSE Goto(r, "find") /\ UNCHANGED outcome
    /\ UNCHANGED <<call, expired, seen>>

\* Service.Search: one entry more than the limit is read; the first one left out is the
\* boundary of the next page.
SearchPage(c) ==
    LET found == FirstOf(Ordered(c), SearchLimit(c) + 1)
    IN [page |-> FirstOf(found, SearchLimit(c)),
        next |-> IF Len(found) <= SearchLimit(c) THEN 0 ELSE found[SearchLimit(c) + 1]]

Search(r) ==
    /\ pc[r] = "find" /\ expired[r] = "no" /\ call[r].op = "search"
    /\ seen' = [seen EXCEPT ![r].page = SearchPage(call[r]).page,
                            ![r].next = SearchPage(call[r]).next]
    /\ Goto(r, "found")
    /\ UNCHANGED <<call, expired, outcome>>

\* Service.Get: the query is for one revision.
Get(r) ==
    /\ pc[r] = "find" /\ expired[r] = "no" /\ call[r].op = "get"
    /\ IF Matches(call[r]) = {}
       THEN Answer(r, "audit_entry_not_found") /\ UNCHANGED seen
       ELSE seen' = [seen EXCEPT ![r].page = Ordered(call[r])] /\ Goto(r, "found")
            /\ UNCHANGED outcome
    /\ UNCHANGED <<call, expired>>

\* respondServiceError and stopAfterService: whether the service failed on its context or
\* succeeded after it, a timeout is answered as such and a client that left gets nothing.
stopAfterService(r) ==
    /\ pc[r] \in {"service", "find", "found"}
    /\ \/ /\ expired[r] = "timeout"
          /\ Answer(r, "request_timeout")
          /\ seen' = [seen EXCEPT ![r].page = <<>>, ![r].next = 0]
          /\ UNCHANGED <<call, expired>>
       \/ /\ expired[r] = "gone"
          /\ Goto(r, "idle")
          /\ call' = [call EXCEPT ![r] = NoCall]
          /\ expired' = [expired EXCEPT ![r] = "no"]
          /\ seen' = [seen EXCEPT ![r] = NoPage]
          /\ UNCHANGED outcome

respond(r) ==
    /\ pc[r] = "found" /\ expired[r] = "no"
    /\ Answer(r, "ok")
    /\ UNCHANGED <<call, expired, seen>>

\* The client's next request of the same walk: `next` takes the place of the bound it
\* continues, a request that timed out is repeated as it was.
NextPage(c, next) == IF c.newest THEN [c EXCEPT !.to = next] ELSE [c EXCEPT !.from = next]

Follow(r) ==
    /\ pc[r] = "reply" /\ call[r].op = "search"
    /\ \/ /\ outcome[r] = "ok" /\ seen[r].next # 0
          /\ call' = [call EXCEPT ![r] = NextPage(call[r], seen[r].next)]
       \/ outcome[r] = "request_timeout" /\ UNCHANGED call
    /\ seen' = [seen EXCEPT ![r] = [@ EXCEPT !.walked = @ \o seen[r].page,
                                              !.page = <<>>, !.next = 0]]
    /\ outcome' = [outcome EXCEPT ![r] = "none"]
    /\ expired' = [expired EXCEPT ![r] = "no"]
    /\ Goto(r, "service")

\* The client is done with the walk.
Leave(r) ==
    /\ pc[r] = "reply"
    /\ Goto(r, "idle")
    /\ call' = [call EXCEPT ![r] = NoCall]
    /\ expired' = [expired EXCEPT ![r] = "no"]
    /\ seen' = [seen EXCEPT ![r] = NoPage]
    /\ outcome' = [outcome EXCEPT ![r] = "none"]

Searches ==
    {[op |-> "search", aggregate |-> a, from |-> b.from, to |-> b.to, after |-> b.after,
      before |-> b.before, newest |-> n, limit |-> l] :
        a \in {"order-1001", "order-2001", "unknown", "invalid"}, b \in Bounds,
        n \in BOOLEAN, l \in Limits}
Details ==
    {[NoCall EXCEPT !.op = "get", !.aggregate = a, !.from = v, !.to = v] :
        a \in {"order-1001", "unknown", "invalid"}, v \in 0 .. 5}

Advance(r) ==
    \/ Ask(r)
    \/ Search(r)
    \/ Get(r)
    \/ stopAfterService(r)
    \/ respond(r)
    \/ Follow(r)
    \/ Leave(r)

Next ==
    \/ \E r \in Requests, f \in BodyFaults : decodeJSON(r, f)
    \/ \E r \in Requests, c \in Searches : search(r, c)
    \/ \E r \in Requests, c \in Details : detail(r, c)
    \/ \E r \in Requests, how \in {"timeout", "gone"} : Expire(r, how)
    \/ \E r \in Requests : Advance(r)

Spec == Init /\ [][Next]_vars

--------------------------------------------------------------------------------
\* Search and NextPage: the pages of a walk together are what the filters of its first
\* request match, in the order asked for, with no entry twice and none left out when the
\* last page is answered; no page exceeds the limit, and a continuation is never
\* refused.  Get answers with the one revision it was asked for, or says rightly that
\* there is none.
WalksAreComplete ==
    \A r \in Requests :
        LET c == call[r]
            got == seen[r].walked \o seen[r].page
        IN /\ c.op = "search" /\ got # <<>> => IsPrefix(got, Ordered(seen[r].asked))
           /\ pc[r] = "reply" /\ outcome[r] = "ok" /\ c.op = "search" =>
                 /\ Len(seen[r].page) <= MaximumLimit
                 /\ seen[r].next = 0 => got = Ordered(seen[r].asked)
           /\ seen[r].walked # <<>> => outcome[r] # "invalid_audit_query"
           /\ pc[r] = "reply" /\ c.op = "get" =>
                 /\ outcome[r] = "ok" => got = <<c.from>>
                 /\ outcome[r] = "audit_entry_not_found" =>
                       c.from \notin DOMAIN SeedRepository[c.aggregate]

================================================================================
