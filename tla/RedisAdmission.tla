----------------------------- MODULE RedisAdmission -----------------------------
(***************************************************************************)
(* The instances of examples/shared-redis-bloom-admission.  They share one *)
(* Bloom filter in Redis; an admission puts an event into it, learns       *)
(* whether a bit changed, and then reads three statistics one by one.      *)
(***************************************************************************)
EXTENDS Naturals, Sequences, FiniteSets

CONSTANTS
    Requests,   \* concurrent HTTP requests
    Instances,  \* processes with the same namespace
    Configured, \* instance -> the filter size it is configured with, 0 for the default
    Default,    \* the default filter size
    Events,     \* event ids
    Bits        \* event -> the bits it hashes to

AdmissionAssumption ==
    /\ Default \in Nat \ {0}
    /\ \A i \in Instances : Configured[i] \in Nat
    /\ \A e \in Events : IsFiniteSet(Bits[e]) /\ Bits[e] # {}

VARIABLES
    pc,       \* request -> where it stands
    call,     \* request -> [op, instance, event]
    seen,     \* request -> [changed, reads]: what Put said and the bit counts read since
    outcome,  \* request -> the answer
    service,  \* instance -> "down", "up" or "refused"
    meta,     \* the filter size stored in Redis, 0 before the first instance
    filter,   \* the bits set in Redis
    admitted  \* event -> answers that admitted it

requestVars == <<pc, call, seen, outcome>>
vars == <<requestVars, service, meta, filter, admitted>>

NoCall == [op |-> "none", instance |-> "none", event |-> "none"]
NoReads == [changed |-> FALSE, reads |-> <<>>]

TypeOK ==
    /\ pc \in [Requests -> {"idle", "put", "stats", "reply"}]
    /\ \A r \in Requests : seen[r].changed \in BOOLEAN /\ seen[r].reads \in Seq(Nat)
    /\ outcome \in [Requests -> {"none", "admit", "probably_seen", "ok", "invalid_request",
                                 "filter_unavailable"}]
    /\ service \in [Instances -> {"down", "up", "refused"}]
    /\ meta \in Nat
    /\ filter \subseteq UNION {Bits[e] : e \in Events}

Init ==
    /\ pc = [r \in Requests |-> "idle"]
    /\ call = [r \in Requests |-> NoCall]
    /\ seen = [r \in Requests |-> NoReads]
    /\ outcome = [r \in Requests |-> "none"]
    /\ service = [i \in Instances |-> "down"]
    /\ meta = 0
    /\ filter = {}
    /\ admitted = [e \in Events |-> 0]

Goto(r, label) == pc' = [pc EXCEPT ![r] = label]
Answer(r, code) == outcome' = [outcome EXCEPT ![r] = code] /\ Goto(r, "reply")

--------------------------------------------------------------------------------
bloomConfig(i) == IF Configured[i] = 0 THEN Default ELSE Configured[i]

\* redisbloom.NewStringBloomFilter stores the configuration of the first instance and
\* refuses every other one.
NewStringBloomFilter(size) == meta \in {0, size}

NewService(i) ==
    /\ service[i] = "down"
    /\ IF NewStringBloomFilter(bloomConfig(i))
       THEN meta' = bloomConfig(i) /\ service' = [service EXCEPT ![i] = "up"]
       ELSE service' = [service EXCEPT ![i] = "refused"] /\ UNCHANGED meta
    /\ UNCHANGED <<requestVars, filter, admitted>>

\* An instance stops and may come back; requests that outlive its shutdown timeout, or its
\* death, are lost.
Stop(i) ==
    LET lost == {r \in Requests : call[r].instance = i} IN
    /\ service[i] = "up"
    /\ service' = [service EXCEPT ![i] = "down"]
    /\ pc' = [r \in Requests |-> IF r \in lost THEN "idle" ELSE pc[r]]
    /\ call' = [r \in Requests |-> IF r \in lost THEN NoCall ELSE call[r]]
    /\ seen' = [r \in Requests |-> IF r \in lost THEN NoReads ELSE seen[r]]
    /\ outcome' = [r \in Requests |-> IF r \in lost THEN "none" ELSE outcome[r]]
    /\ UNCHANGED <<meta, filter, admitted>>

\* The routes: a body without an event id is refused, GET /filters/current only reads.
Arrive(r, c) ==
    /\ pc[r] = "idle"
    /\ service[c.instance] = "up"
    /\ call' = [call EXCEPT ![r] = c]
    /\ \/ c.op = "admit" /\ c.event = "none" /\ Answer(r, "invalid_request")
       \/ c.op = "admit" /\ c.event # "none" /\ Goto(r, "put") /\ UNCHANGED outcome
       \/ c.op = "stats" /\ Goto(r, "stats") /\ UNCHANGED outcome
    /\ UNCHANGED <<seen, service, meta, filter, admitted>>

\* filter.Put sets the bits of an event and says whether one of them was clear.
Changes(e) == ~(Bits[e] \subseteq filter)
TakesEffect(e) == filter' = filter \union Bits[e]

Put(r) ==
    /\ pc[r] = "put"
    /\ seen' = [seen EXCEPT ![r].changed = Changes(call[r].event)]
    /\ TakesEffect(call[r].event)
    /\ Goto(r, "stats")
    /\ UNCHANGED <<call, outcome, service, meta, admitted>>

\* Stats: BitCount, ApproximateElementCount and ExpectedFPP each read the bits again.
Stats(r) ==
    /\ pc[r] = "stats" /\ Len(seen[r].reads) < 3
    /\ seen' = [seen EXCEPT ![r].reads = Append(@, Cardinality(filter))]
    /\ UNCHANGED <<pc, call, outcome, service, meta, filter, admitted>>

\* Redis does not answer; a Put on its way may have taken effect.
RedisFails(r) ==
    /\ \/ pc[r] = "put" /\ TakesEffect(call[r].event)
       \/ pc[r] \in {"put", "stats"} /\ UNCHANGED filter
    /\ Len(seen[r].reads) < 3
    /\ Answer(r, "filter_unavailable")
    /\ UNCHANGED <<call, seen, service, meta, admitted>>

Decision(r) ==
    IF call[r].op = "stats" THEN "ok"
    ELSE IF seen[r].changed THEN "admit" ELSE "probably_seen"

Admit(r) ==
    /\ pc[r] = "stats" /\ Len(seen[r].reads) = 3
    /\ admitted' = IF Decision(r) = "admit"
                   THEN [admitted EXCEPT ![call[r].event] = @ + 1] ELSE admitted
    /\ Answer(r, Decision(r))
    /\ UNCHANGED <<call, seen, service, meta, filter>>

Reply(r) ==
    /\ pc[r] = "reply"
    /\ Goto(r, "idle")
    /\ call' = [call EXCEPT ![r] = NoCall]
    /\ seen' = [seen EXCEPT ![r] = NoReads]
    /\ outcome' = [outcome EXCEPT ![r] = "none"]
    /\ UNCHANGED <<service, meta, filter, admitted>>

Calls ==
    [op : {"admit"}, instance : Instances, event : Events \union {"none"}]
        \union [op : {"stats"}, instance : Instances, event : {"none"}]

Next ==
    \/ \E i \in Instances : NewService(i) \/ Stop(i)
    \/ \E r \in Requests, c \in Calls : Arrive(r, c)
    \/ \E r \in Requests : Put(r) \/ Stats(r) \/ RedisFails(r) \/ Admit(r) \/ Reply(r)

Spec == Init /\ [][Next]_vars

--------------------------------------------------------------------------------
\* Put and DecisionAdmit: over all instances, restarts, concurrent requests and lost
\* answers an event is admitted at most once.
AdmittedOnce == \A e \in Events : admitted[e] <= 1

\* Stats: the three numbers of a response were read in this order, so they never
\* decrease, and those of an admission count the event's own bits.
StatsInclude ==
    \A r \in Requests : LET s == seen[r].reads IN
        /\ \A i, j \in DOMAIN s : i < j => s[i] <= s[j]
        /\ call[r].op = "admit" /\ s # <<>> => s[1] >= Cardinality(Bits[call[r].event])

\* NewService: the instances that serve agree on the filter's configuration.
ServingAgree ==
    \A i, j \in Instances :
        service[i] = "up" /\ service[j] = "up" => bloomConfig(i) = bloomConfig(j)

================================================================================
