---------------------------- MODULE ModerationService ----------------------------
(***************************************************************************)
(* The moderation store of examples/gin-content-moderation-workflow: a     *)
(* request creates a record, reads one or searches the accepted ones page  *)
(* by page.  The text processors run without the lock; only the final      *)
(* store, a lookup and the snapshot of a search hold it.  Content is       *)
(* abstracted to what the detector, the dictionary and the tokenizers say  *)
(* of it.                                                                  *)
(***************************************************************************)
EXTENDS Integers, FiniteSets, SequencesExt

CONSTANTS
    Requests,        \* concurrent HTTP requests
    IDs,             \* content ids, ordered as the strings are
    MaximumRecords,  \* ServiceConfig.MaximumRecords
    MaximumResults,  \* ServiceConfig.MaximumSearchResults
    DefaultLimit,    \* defaultSearchLimit
    Submissions,     \* [id, content, metadata] of create requests
    Searches         \* [terms, filter, limit, after] of first search requests

Languages == {"english", "korean", "japanese", "chinese", "other", "unknown"}
Contents ==
    [blank : BOOLEAN, short : BOOLEAN, detected : Languages, confident : BOOLEAN,
     mixed : BOOLEAN, kana : BOOLEAN, flagged : BOOLEAN, terms : SUBSET STRING]

ModerationAssumption ==
    /\ IDs \subseteq Nat \ {0}
    /\ MaximumRecords \in Nat \ {0}
    /\ DefaultLimit \in Nat \ {0} /\ MaximumResults \in Nat /\ DefaultLimit <= MaximumResults
    /\ \A s \in Submissions : s.id \in IDs /\ s.content \in Contents
    /\ \A s \in Searches :
          /\ DOMAIN s = {"terms", "filter", "limit", "after"}
          /\ s.limit \in Int /\ s.after \in IDs \union {0}

VARIABLES
    pc,         \* request -> where it stands
    call,       \* request -> the call it makes
    ended,      \* request -> "no", "deadline" or "cancelled": its context
    draft,      \* request -> the record Create has prepared
    snapshot,   \* request -> the ids Search has copied under the lock
    result,     \* request -> what the service returned
    outcome,    \* request -> the answer
    base,       \* request -> ghost: ids that matched when the client asked for its first page
    collected,  \* request -> ghost: ids the client has been shown, page after page
    records     \* Service.records

requestVars == <<pc, call, ended, draft, snapshot, result, outcome, base, collected>>
vars == <<requestVars, records>>

NoCall == [op |-> "none"]
NoDraft == [outcome |-> "none"]
NoResult == [code |-> "none", hits |-> <<>>, truncated |-> FALSE]
Codes == {"none", "ok", "context", "invalid_request", "duplicate_content_id", "record_not_found",
          "store_capacity_reached", "internal_error"}

TypeOK ==
    /\ pc \in [Requests -> {"idle", "create", "route", "moderate", "terms", "commit", "get",
                            "search", "snapshot", "scan", "respond", "answered"}]
    /\ ended \in [Requests -> {"no", "deadline", "cancelled"}]
    /\ snapshot \in [Requests -> SUBSET IDs]
    /\ \A r \in Requests : result[r].code \in Codes /\ result[r].hits \in Seq(IDs)
    /\ outcome \in [Requests -> Codes \union {"request_timeout", "request_canceled"}]
    /\ base \in [Requests -> SUBSET IDs]
    /\ collected \in [Requests -> Seq(IDs)]
    /\ DOMAIN records \subseteq IDs
    /\ Cardinality(DOMAIN records) <= MaximumRecords
    /\ \A i \in DOMAIN records : records[i].outcome \in {"allowed", "masked", "manual-review"}

Init ==
    /\ pc = [r \in Requests |-> "idle"]
    /\ call = [r \in Requests |-> NoCall]
    /\ ended = [r \in Requests |-> "no"]
    /\ draft = [r \in Requests |-> NoDraft]
    /\ snapshot = [r \in Requests |-> {}]
    /\ result = [r \in Requests |-> NoResult]
    /\ outcome = [r \in Requests |-> "none"]
    /\ base = [r \in Requests |-> {}]
    /\ collected = [r \in Requests |-> <<>>]
    /\ records = [i \in {} |-> NoDraft]

Goto(r, label) == pc' = [pc EXCEPT ![r] = label]

\* The service returns to the handler.
Return(r, code, hits, truncated) ==
    /\ result' = [result EXCEPT ![r] = [code |-> code, hits |-> hits, truncated |-> truncated]]
    /\ Goto(r, "respond")
    /\ UNCHANGED <<call, ended, outcome, base, collected>>

\* It returns an error; the local variables are gone.
Fail(r, code) ==
    /\ Return(r, code, <<>>, FALSE)
    /\ draft' = [draft EXCEPT ![r] = NoDraft]
    /\ snapshot' = [snapshot EXCEPT ![r] = {}]
    /\ UNCHANGED records

Continue(r, label) ==
    /\ Goto(r, label)
    /\ UNCHANGED <<call, ended, result, outcome, base, collected, records>>

--------------------------------------------------------------------------------
\* ReviewReasons of detectAndRoute; any reason sends the content to manual review.
ReviewReasons(c) ==
    {reason \in {"text_too_short", "language_unknown", "low_confidence", "mixed_language",
                 "ambiguous_cjk_script", "unsupported_language"} :
        \/ reason = "text_too_short" /\ c.short
        \/ reason = "language_unknown" /\ c.detected = "unknown"
        \/ reason = "low_confidence" /\ c.detected # "unknown" /\ ~c.confident
        \/ reason = "mixed_language" /\ c.mixed
        \/ reason = "ambiguous_cjk_script" /\ c.detected = "japanese" /\ ~c.kana
        \/ reason = "unsupported_language" /\ c.detected \in {"chinese", "other"}}

\* metadataMatches: a missing key reads as the empty string.
MetadataMatches(metadata, filter) ==
    \A k \in DOMAIN filter : filter[k] = IF k \in DOMAIN metadata THEN metadata[k] ELSE ""

\* The test of the scan, without the cursor.
Matches(record, s) ==
    /\ record.outcome \in {"allowed", "masked"}
    /\ MetadataMatches(record.metadata, s.filter)
    /\ s.terms \subseteq record.terms

--------------------------------------------------------------------------------
\* POST /moderation/records, GET /moderation/records/{id} and POST .../search have been
\* decoded; a body that does not decode never reaches the service.
ArriveCreate(r, s) ==
    /\ pc[r] = "idle"
    /\ call' = [call EXCEPT ![r] = [op |-> "create", id |-> s.id, content |-> s.content,
                                    metadata |-> s.metadata]]
    /\ Goto(r, "create")
    /\ UNCHANGED <<ended, draft, snapshot, result, outcome, base, collected, records>>

ArriveGet(r, i) ==
    /\ pc[r] = "idle"
    /\ call' = [call EXCEPT ![r] = [op |-> "get", id |-> i]]
    /\ Goto(r, "get")
    /\ UNCHANGED <<ended, draft, snapshot, result, outcome, base, collected, records>>

ArriveSearch(r, s) ==
    /\ pc[r] = "idle"
    /\ call' = [call EXCEPT ![r] = [op |-> "search", search |-> s]]
    /\ base' = [base EXCEPT ![r] = {i \in DOMAIN records : i > s.after /\ Matches(records[i], s)}]
    /\ Goto(r, "search")
    /\ UNCHANGED <<ended, draft, snapshot, result, outcome, collected, records>>

\* The request timeout passes or the client goes away.
ContextEnds(r, why) ==
    /\ pc[r] \notin {"idle", "answered"}
    /\ ended[r] = "no"
    /\ ended' = [ended EXCEPT ![r] = why]
    /\ UNCHANGED <<pc, call, draft, snapshot, result, outcome, base, collected, records>>

\* The ctx.Err() checks in front of every step; the one of the scan comes first.
CheckContext(r) ==
    /\ pc[r] \notin {"idle", "respond", "answered"}
    /\ ended[r] # "no"
    /\ Fail(r, "context")

\* A detector, the dictionary or a tokenizer reports an error.
WorkflowFails(r) ==
    /\ pc[r] \in {"route", "moderate", "terms", "search"}
    /\ ended[r] = "no"
    /\ Fail(r, "internal_error")

--------------------------------------------------------------------------------
\* validateCreateRequest.
ValidateCreate(r) ==
    /\ pc[r] = "create"
    /\ ended[r] = "no"
    /\ IF call[r].content.blank
       THEN Fail(r, "invalid_request")
       ELSE Continue(r, "route") /\ UNCHANGED <<draft, snapshot>>

\* detectAndRoute: the record is prepared for manual review and stays so if there is a
\* reason.
DetectAndRoute(r) ==
    /\ pc[r] = "route"
    /\ ended[r] = "no"
    /\ draft' = [draft EXCEPT ![r] = [outcome |-> "manual-review", metadata |-> call[r].metadata,
                                      terms |-> {}, content |-> call[r].content]]
    /\ Continue(r, IF ReviewReasons(call[r].content) = {} THEN "moderate" ELSE "commit")
    /\ UNCHANGED snapshot

\* dictionary.Process.
Moderate(r) ==
    /\ pc[r] = "moderate"
    /\ ended[r] = "no"
    /\ draft' = [draft EXCEPT ![r].outcome =
                    IF call[r].content.flagged THEN "masked" ELSE "allowed"]
    /\ Continue(r, "terms")
    /\ UNCHANGED snapshot

\* prepareJapaneseTerms or prepareSimpleTerms.
PrepareTerms(r) ==
    /\ pc[r] = "terms"
    /\ ended[r] = "no"
    /\ draft' = [draft EXCEPT ![r].terms = call[r].content.terms]
    /\ Continue(r, "commit")
    /\ UNCHANGED snapshot

\* Mutant: the capacity is only checked for ids that exist.
CommitUnbounded(r) ==
    /\ pc[r] = "commit"
    /\ ended[r] = "no"
    /\ IF call[r].id \in DOMAIN records
       THEN Fail(r, "duplicate_content_id")
       ELSE /\ records' = [i \in DOMAIN records \union {call[r].id} |->
                             IF i = call[r].id THEN draft[r] ELSE records[i]]
            /\ Return(r, "ok", <<>>, FALSE)
            /\ UNCHANGED <<draft, snapshot>>

\* The section of Create under the lock: duplicate, then capacity, then the store.
CommitRecord(r) ==
    /\ pc[r] = "commit"
    /\ ended[r] = "no"
    /\ IF call[r].id \in DOMAIN records
       THEN Fail(r, "duplicate_content_id")
       ELSE IF Cardinality(DOMAIN records) >= MaximumRecords
       THEN Fail(r, "store_capacity_reached")
       ELSE /\ records' = [i \in DOMAIN records \union {call[r].id} |->
                             IF i = call[r].id THEN draft[r] ELSE records[i]]
            /\ Return(r, "ok", <<>>, FALSE)
            /\ UNCHANGED <<draft, snapshot>>

\* Service.Get.
Get(r) ==
    /\ pc[r] = "get"
    /\ ended[r] = "no"
    /\ IF call[r].id \in DOMAIN records
       THEN Return(r, "ok", <<>>, FALSE) /\ UNCHANGED <<draft, snapshot, records>>
       ELSE Fail(r, "record_not_found")

\* The limit of a search: without one, the default.
LimitOf(s) == IF s.limit = 0 THEN DefaultLimit ELSE s.limit

\* validateSearchRequest and the terms of the query.
ValidateSearch(r) ==
    /\ pc[r] = "search"
    /\ ended[r] = "no"
    /\ IF LimitOf(call[r].search) \notin 1 .. MaximumResults \/ call[r].search.terms = {}
       THEN Fail(r, "invalid_request")
       ELSE Continue(r, "snapshot") /\ UNCHANGED <<draft, snapshot>>

\* The records are copied under the read lock.
TakeSnapshot(r) ==
    /\ pc[r] = "snapshot"
    /\ ended[r] = "no"
    /\ snapshot' = [snapshot EXCEPT ![r] = DOMAIN records]
    /\ Continue(r, "scan")
    /\ UNCHANGED draft

\* The hits in the order of their ids: before an id come the ids that are smaller.
Sorted(ids) ==
    [k \in 1 .. Cardinality(ids) |->
        CHOOSE i \in ids : Cardinality({j \in ids : j < i}) = k - 1]

\* Mutant: the cursor is inclusive.
ScanFromCursor(r) ==
    /\ pc[r] = "scan"
    /\ ended[r] = "no"
    /\ LET s == call[r].search
           hits == Sorted({i \in snapshot[r] : i >= s.after /\ Matches(records[i], s)})
           limit == LimitOf(s)
       IN Return(r, "ok", SubSeq(hits, 1, IF Len(hits) > limit THEN limit ELSE Len(hits)),
                 Len(hits) > limit)
    /\ snapshot' = [snapshot EXCEPT ![r] = {}]
    /\ UNCHANGED <<draft, records>>

\* Filter, sort and cut; records never change once they are stored, so the copied
\* pointers still show what was stored.
Scan(r) ==
    /\ pc[r] = "scan"
    /\ ended[r] = "no"
    /\ LET s == call[r].search
           hits == Sorted({i \in snapshot[r] : i > s.after /\ Matches(records[i], s)})
           limit == LimitOf(s)
       IN Return(r, "ok", SubSeq(hits, 1, IF Len(hits) > limit THEN limit ELSE Len(hits)),
                 Len(hits) > limit)
    /\ snapshot' = [snapshot EXCEPT ![r] = {}]
    /\ UNCHANGED <<draft, records>>

--------------------------------------------------------------------------------
\* The public answer: a client that left gets none, a deadline that passed before the
\* answer turns success into a timeout, other errors keep their code.
Answer(r) ==
    IF ended[r] = "cancelled" THEN "request_canceled"
    ELSE IF ended[r] = "deadline" /\ result[r].code \in {"ok", "context"} THEN "request_timeout"
    ELSE result[r].code

\* respondWorkflowError, stopAfterWorkflow and respond.
Respond(r) ==
    /\ pc[r] = "respond"
    /\ outcome' = [outcome EXCEPT ![r] = Answer(r)]
    /\ IF call[r].op = "search" /\ Answer(r) = "ok"
       THEN collected' = [collected EXCEPT ![r] = @ \o result[r].hits] /\ UNCHANGED result
       ELSE result' = [result EXCEPT ![r] = NoResult] /\ UNCHANGED collected
    /\ ended' = [ended EXCEPT ![r] = "no"]
    /\ Goto(r, "answered")
    /\ UNCHANGED <<call, draft, snapshot, base, records>>

\* The client follows next_after_content_id.
NextPage(r) ==
    /\ pc[r] = "answered"
    /\ call[r].op = "search" /\ outcome[r] = "ok" /\ result[r].truncated
    /\ call' = [call EXCEPT ![r].search.after = Last(result[r].hits)]
    /\ Goto(r, "search")
    /\ result' = [result EXCEPT ![r] = NoResult]
    /\ outcome' = [outcome EXCEPT ![r] = "none"]
    /\ UNCHANGED <<ended, draft, snapshot, base, collected, records>>

\* The client is done.
Leave(r) ==
    /\ pc[r] = "answered"
    /\ Goto(r, "idle")
    /\ call' = [call EXCEPT ![r] = NoCall]
    /\ draft' = [draft EXCEPT ![r] = NoDraft]
    /\ result' = [result EXCEPT ![r] = NoResult]
    /\ outcome' = [outcome EXCEPT ![r] = "none"]
    /\ base' = [base EXCEPT ![r] = {}]
    /\ collected' = [collected EXCEPT ![r] = <<>>]
    /\ UNCHANGED <<ended, snapshot, records>>

Advance(r) ==
    \/ CheckContext(r)
    \/ WorkflowFails(r)
    \/ ValidateCreate(r)
    \/ DetectAndRoute(r)
    \/ Moderate(r)
    \/ PrepareTerms(r)
    \/ CommitRecord(r)
    \/ Get(r)
    \/ ValidateSearch(r)
    \/ TakeSnapshot(r)
    \/ Scan(r)
    \/ Respond(r)
    \/ NextPage(r)
    \/ Leave(r)

Next ==
    \/ \E r \in Requests, s \in Submissions : ArriveCreate(r, s)
    \/ \E r \in Requests, i \in IDs : ArriveGet(r, i)
    \/ \E r \in Requests, s \in Searches : ArriveSearch(r, s)
    \/ \E r \in Requests, why \in {"deadline", "cancelled"} : ContextEnds(r, why)
    \/ \E r \in Requests : Advance(r)

Spec == Init /\ [][Next]_vars

--------------------------------------------------------------------------------
Shown(r) == {collected[r][k] : k \in DOMAIN collected[r]}

\* "Use next_after_content_id as the next exclusive cursor" (README): a client that
\* follows the cursor is shown every record that matched when it began, each record
\* once and in order, and nothing that waits for manual review, whatever is created
\* between its pages.
PagesAreComplete ==
    \A r \in Requests :
        /\ \A j, k \in DOMAIN collected[r] : j < k => collected[r][j] < collected[r][k]
        /\ \A i \in Shown(r) :
              Matches(records[i], call[r].search) /\ ReviewReasons(records[i].content) = {}
        /\ collected[r] # <<>> => \A i \in base[r] : i <= Last(collected[r]) => i \in Shown(r)
        /\ (pc[r] = "answered" /\ call[r].op = "search" /\ outcome[r] = "ok" /\ ~result[r].truncated)
              => base[r] \subseteq Shown(r)

\* An answer is true of the store and stays true: an acknowledged record is the stored
\* one, a conflict names a stored id, the store is full when it says so, and a record
\* once routed to manual review carries no searchable term.
AnswersHold ==
    /\ \A r \in Requests : pc[r] = "answered" =>
        /\ (outcome[r] = "ok" /\ call[r].op = "create")
              => call[r].id \in DOMAIN records /\ records[call[r].id] = draft[r]
        /\ outcome[r] = "duplicate_content_id" => call[r].id \in DOMAIN records
        /\ outcome[r] = "store_capacity_reached" => Cardinality(DOMAIN records) = MaximumRecords
    /\ \A i \in DOMAIN records :
          records[i].outcome = "manual-review" <=> ReviewReasons(records[i].content) # {}

================================================================================
