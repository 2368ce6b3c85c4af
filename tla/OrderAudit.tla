------------------------------- MODULE OrderAudit -------------------------------
(***************************************************************************)
(* The audit side of the audited order workflow                            *)
(* (examples/audited-order-workflow-outbox): clients page through the      *)
(* history of an order, or ask for one revision, behind the semaphore that *)
(* all routes share, while commands commit further revisions.  How a       *)
(* revision comes to be is the subject of OrderWorkflow, whose invariant   *)
(* TablesAgree says that they are numbered without gap; the clocks that    *)
(* stamp them need not agree.                                              *)
(***************************************************************************)
EXTENDS Integers, Sequences, SequencesExt

CONSTANTS
    Requests,           \* clients, each with one request at a time
    Calls,              \* [op, body, aggregate, from, to, after, before, limit] requests; a
                        \* filter of 0 is none
    RecordedAt,         \* the times at which the revisions of the order are recorded
    MaximumConcurrent   \* HTTPConfig.MaximumConcurrent

AuditAssumption ==
    /\ MaximumConcurrent \in Nat \ {0}
    /\ \A i \in DOMAIN RecordedAt : RecordedAt[i] > 0
    /\ \A c \in Calls :
          /\ c = [op |-> c.op, body |-> c.body, aggregate |-> c.aggregate, from |-> c.from,
                  to |-> c.to, after |-> c.after, before |-> c.before, limit |-> c.limit]
          /\ {c.from, c.to, c.after, c.before, c.limit} \subseteq Int

VARIABLES
    pc,       \* client -> where its request stands
    call,     \* client -> the request
    expired,  \* client -> its context: "no", "timeout" or, when the client has left, "gone"
    seen,     \* client -> what its walk began with, the revisions of earlier pages, those
              \* of this page and next_from_revision, 0 for none
    outcome,  \* client -> the answer
    history,  \* the number of committed revisions
    slots     \* how much of the semaphore is taken

vars == <<pc, call, expired, seen, outcome, history, slots>>

NoCall == [op |-> "none", body |-> "ok", aggregate |-> "none", from |-> 0, to |-> 0, after |-> 0,
           before |-> 0, limit |-> 0]
NoWalk == [asked |-> NoCall, since |-> 0, walked |-> <<>>, page |-> <<>>, next |-> 0]

TypeOK ==
    /\ pc \in [Requests -> {"idle", "decode", "find", "found", "reply"}]
    /\ expired \in [Requests -> {"no", "timeout", "gone"}]
    /\ \A r \in Requests : seen[r].walked \in Seq(1 .. history) /\ seen[r].page \in Seq(1 .. history)
    /\ outcome \in [Requests -> {"none", "ok", "gone", "request_timeout", "invalid_request",
          "invalid_audit_query", "audit_entry_not_found", "request_too_large",
          "unsupported_media_type", "unsupported_content_encoding", "internal_error",
          "too_many_requests"}]
    /\ history \in 0 .. Len(RecordedAt)
    /\ slots \in 0 .. MaximumConcurrent

Init ==
    /\ pc = [r \in Requests |-> "idle"]
    /\ call = [r \in Requests |-> NoCall]
    /\ expired = [r \in Requests |-> "no"]
    /\ seen = [r \in Requests |-> NoWalk]
    /\ outcome = [r \in Requests |-> "none"]
    /\ history = 0
    /\ slots = 0

Goto(r, label) == pc' = [pc EXCEPT ![r] = label]

\* The request is answered and leaves the semaphore, also when its handler panics.
Answer(r, code) ==
    /\ outcome' = [outcome EXCEPT ![r] = code]
    /\ expired' = [expired EXCEPT ![r] = "no"]
    /\ slots' = slots - 1
    /\ Goto(r, "reply")

\* Another command commits its entry.
Insert ==
    /\ history < Len(RecordedAt)
    /\ history' = history + 1
    /\ UNCHANGED <<pc, call, expired, seen, outcome, slots>>

\* limitConcurrency: a request that finds the semaphore full is refused at once.
LimitConcurrency(r) ==
    IF slots = MaximumConcurrent
    THEN /\ outcome' = [outcome EXCEPT ![r] = "too_many_requests"]
         /\ Goto(r, "reply")
         /\ UNCHANGED slots
    ELSE slots' = slots + 1 /\ Goto(r, "decode") /\ UNCHANGED outcome

Arrive(r, c) ==
    /\ pc[r] = "idle"
    /\ call' = [call EXCEPT ![r] = c]
    /\ seen' = [seen EXCEPT ![r] = [NoWalk EXCEPT !.asked = c, !.since = history]]
    /\ LimitConcurrency(r)
    /\ UNCHANGED <<expired, history>>

\* The client leaves at any moment; OperationTimeout starts behind the checks.
Expire(r) ==
    /\ expired[r] = "no"
    /\ \/ pc[r] \in {"decode", "find", "found"} /\ expired' = [expired EXCEPT ![r] = "gone"]
       \/ pc[r] \in {"find", "found"} /\ expired' = [expired EXCEPT ![r] = "timeout"]
    /\ UNCHANGED <<pc, call, seen, outcome, history, slots>>

\* decodeJSON and respondDecodeError: how a body is refused.
DecodeFault(body) ==
    CASE body = "type"     -> "unsupported_media_type"
      [] body = "encoding" -> "unsupported_content_encoding"
      [] body = "large"    -> "request_too_large"
      [] body = "broken"   -> "internal_error"
      [] body = "syntax"   -> "invalid_request"
      [] OTHER             -> "none"

\* A blank identifier is no aggregate; a number below 0 stands for one that is given but
\* not positive, which both parsers refuse.
validateAggregate(c) == c.aggregate # "blank"
parseOptionalPositiveInt64(n) == n >= 0
parseRequiredPositiveInt64(n) == n > 0

\* The checks of searchHistory and historyDetail.
ValidQuery(c) ==
    /\ validateAggregate(c)
    /\ c.op = "detail" => parseRequiredPositiveInt64(c.from)
    /\ c.op = "search" =>
          /\ parseOptionalPositiveInt64(c.from) /\ parseOptionalPositiveInt64(c.to)
          /\ c.from = 0 \/ c.to = 0 \/ c.from <= c.to
          /\ parseRequiredPositiveInt64(c.limit) /\ c.limit <= 100
          /\ c.after = 0 \/ c.before = 0 \/ c.after <= c.before

DecodeJSON(r) ==
    /\ pc[r] = "decode"
    /\ LET fault == DecodeFault(call[r].body)
       IN IF fault # "none" THEN Answer(r, fault)
          ELSE IF ~ValidQuery(call[r]) THEN Answer(r, "invalid_audit_query")
          ELSE Goto(r, "find") /\ UNCHANGED <<expired, outcome, slots>>
    /\ UNCHANGED <<call, seen, history>>

\* buildHistoryFindQuery: the revisions that meet the filters, in order, up to the limit.
Matches(c, upTo) ==
    {v \in 1 .. upTo :
        /\ c.aggregate = "order"
        /\ c.from = 0 \/ c.from <= v
        /\ c.to = 0 \/ v <= c.to
        /\ c.after = 0 \/ c.after <= RecordedAt[v]
        /\ c.before = 0 \/ RecordedAt[v] <= c.before}
Sorted(revisions) ==
    [k \in 1 .. Cardinality(revisions) |->
        CHOOSE v \in revisions : Cardinality({w \in revisions : w < v}) = k - 1]
Rows(c) ==
    LET all == Sorted(Matches(c, history))
    IN SubSeq(all, 1, IF Len(all) < c.limit THEN Len(all) ELSE c.limit)

\* respondServiceError of a context that has ended.
ContextError(r) == IF expired[r] = "gone" THEN "gone" ELSE "request_timeout"

\* What the handlers ask for: of a page one row more than its limit.
Query(c) ==
    IF c.op = "detail" THEN [c EXCEPT !.to = c.from, !.limit = 1] ELSE [c EXCEPT !.limit = @ + 1]

\* HistoryStore.Find: one statement.
Find(r) ==
    /\ pc[r] = "find"
    /\ IF expired[r] # "no"
       THEN Answer(r, ContextError(r)) /\ UNCHANGED seen
       ELSE /\ seen' = [seen EXCEPT ![r].page = Rows(Query(call[r]))]
            /\ Goto(r, "found")
            /\ UNCHANGED <<expired, outcome, slots>>
    /\ UNCHANGED <<call, history>>

\* The store fails, or the handler panics and recoverPanic answers.
Fails(r) ==
    /\ pc[r] \in {"decode", "find", "found"}
    /\ Answer(r, "internal_error")
    /\ UNCHANGED <<call, seen, history>>

\* The last row of a full page is not shown but names where the next one begins.
NextPage(rows, limit) ==
    IF Len(rows) > limit THEN [page |-> SubSeq(rows, 1, limit), next |-> rows[limit + 1]]
    ELSE [page |-> rows, next |-> 0]

\* searchHistory and historyDetail behind the query.
Respond(r) ==
    /\ pc[r] = "found"
    /\ LET c == call[r]
           cut == NextPage(seen[r].page, c.limit)
       IN IF expired[r] # "no" THEN Answer(r, ContextError(r)) /\ UNCHANGED seen
          ELSE IF c.op = "search"
          THEN /\ seen' = [seen EXCEPT ![r].page = cut.page, ![r].next = cut.next]
               /\ Answer(r, "ok")
          ELSE /\ Answer(r, IF seen[r].page = <<>> THEN "audit_entry_not_found" ELSE "ok")
               /\ UNCHANGED seen
    /\ UNCHANGED <<call, history>>

\* The client asks for the next page, or again when it got no answer to this one.
Follow(r) ==
    /\ pc[r] = "reply"
    /\ \/ /\ outcome[r] = "ok" /\ seen[r].next > 0
          /\ call' = [call EXCEPT ![r].from = seen[r].next]
          /\ seen' = [seen EXCEPT ![r].walked = @ \o seen[r].page, ![r].page = <<>>, ![r].next = 0]
       \/ /\ outcome[r] \in {"request_timeout", "too_many_requests"}
          /\ seen' = [seen EXCEPT ![r].page = <<>>, ![r].next = 0]
          /\ UNCHANGED call
    /\ LimitConcurrency(r)
    /\ UNCHANGED <<expired, history>>

\* The client is content, or gives up.
Leave(r) ==
    /\ pc[r] = "reply"
    /\ Goto(r, "idle")
    /\ call' = [call EXCEPT ![r] = NoCall]
    /\ seen' = [seen EXCEPT ![r] = NoWalk]
    /\ outcome' = [outcome EXCEPT ![r] = "none"]
    /\ UNCHANGED <<expired, history, slots>>

Advance(r) ==
    \/ DecodeJSON(r)
    \/ Find(r)
    \/ Fails(r)
    \/ Respond(r)
    \/ Follow(r)
    \/ Leave(r)
    \/ Expire(r)

Next ==
    \/ Insert
    \/ \E r \in Requests, c \in Calls : Arrive(r, c)
    \/ \E r \in Requests : Advance(r)

--------------------------------------------------------------------------------
\* The slots that are taken are those of the requests that run, whatever way they end.
SlotsAreReturned == slots = Cardinality({r \in Requests : pc[r] \in {"decode", "find", "found"}})

\* A client that follows next_from_revision to the end has seen, in order and once each,
\* every revision it asked for that was there when it began, and none it did not ask for,
\* although commands commit between its pages and it repeats some of them.
WalksAreComplete ==
    \A r \in Requests :
        pc[r] = "reply" /\ call[r].op = "search" /\ outcome[r] = "ok" =>
            LET shown == seen[r].walked \o seen[r].page
            IN /\ \A i \in 1 .. Len(shown) - 1 : shown[i] < shown[i + 1]
               /\ ToSet(shown) \subseteq Matches(seen[r].asked, history)
               /\ seen[r].next = 0 => Matches(seen[r].asked, seen[r].since) \subseteq ToSet(shown)

================================================================================
