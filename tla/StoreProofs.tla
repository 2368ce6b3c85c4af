------------------------------ MODULE StoreProofs ------------------------------
(***************************************************************************)
(* Proofs about the programs of MCStorePrograms, for any requests: those   *)
(* that grant something once (the shared admission filter, the checkout    *)
(* guard and the session tokens, for every hash function, lifetime and     *)
(* delay) and those that keep one thing in two places (the catalog, the    *)
(* outbox command, the order history, the order aggregate, the semaphore   *)
(* of the audit queries and the rotated keys), and what the statistics of  *)
(* the filter, the pages of the audit routes and the CRUD API answer.      *)
(***************************************************************************)
EXTENDS Integers, Sequences, FiniteSets, FiniteSetTheorems, WellFoundedInduction, TLAPS

CONSTANTS
    Requests,
    Instances, Configured, Default, Events, EventBits,
    Keys, KeyBits, TokenRequests, Checkouts, MaxTokens, GuardTime,
    Sessions, SessionRequests, AccessTTL, RefreshTTL, MaxDelay, RefreshTime,
    SKUs, PageSize, MaxVersion,
    Identities, MaxAttempts, MaxMessages,
    Orders, Commands, Nobody,
    OrderIDs, OrderLines, Price, Quantities, Edited, MaxEvents,
    AuditCalls, RecordedAt, MaximumConcurrent,
    Nodes, NodeID, TTLs, MaxTTL, Capacity, KeyTTL, MaxKeys, MaxRestarts, JwtTokens, JwtTime,
    CrudIDs, CrudLimit

VARIABLES
    pc, call, outcome, seen, service, meta, filter, admitted, created,
    tokens, now, work, started, delay,
    expired, table, log,
    id, claim, sent, rows, records, stream, printed,
    lock, orders, used, history,
    draft, total, mine, view, header, items, events,
    keys, next, boots, wrote

Redis == INSTANCE RedisAdmission WITH Bits <- EventBits
Guard == INSTANCE CheckoutGuard WITH Bits <- KeyBits, MaxTime <- GuardTime
Refresh == INSTANCE TokenRefresh WITH MaxTime <- RefreshTime
Catalog == INSTANCE CatalogRepository
Command == INSTANCE OutboxCommand WITH Processes <- Requests
History == INSTANCE OrderHistory
Order == INSTANCE SqlOrderService WITH Orders <- OrderIDs, Lines <- OrderLines
Audit == INSTANCE OrderAudit WITH Calls <- AuditCalls, slots <- lock
Jwt == INSTANCE DistributedJwt WITH MaxTokens <- JwtTokens, MaxTime <- JwtTime
Crud == INSTANCE OrdersCrud WITH IDs <- CrudIDs, Limit <- CrudLimit

--------------------------------------------------------------------------------
(* The admission filter in Redis.                                            *)

RedisTypes ==
    /\ pc \in [Requests -> {"idle", "put", "stats", "reply"}]
    /\ call \in [Requests -> Redis!Calls \union {Redis!NoCall}]
    /\ seen = [r \in Requests |-> [changed |-> seen[r].changed, reads |-> seen[r].reads]]
    /\ service \in [Instances -> {"down", "up", "refused"}]
    /\ meta \in Nat
    /\ admitted \in [Events -> Nat]

\* A request that has set a bit of event e and will answer "admit".
Admits(r, e) ==
    /\ pc[r] = "stats"
    /\ call[r].op = "admit" /\ call[r].event = e
    /\ seen[r].changed = TRUE

\* Where a request with an event stands.
RedisCallsFit ==
    /\ \A r \in Requests : pc[r] = "put" => call[r].op = "admit" /\ call[r].event \in Events
    /\ \A r \in Requests : pc[r] = "stats" => call[r].op \in {"admit", "stats"}
    /\ \A r \in Requests : pc[r] = "stats" /\ call[r].op = "admit" => call[r].event \in Events

\* An event that was admitted, or is about to be, has its bits in the filter; only
\* one request is about to admit it, and none once it is admitted.
AdmissionsAreCovered ==
    /\ \A e \in Events : admitted[e] <= 1
    /\ \A e \in Events : admitted[e] = 1 => EventBits[e] \subseteq filter
    /\ \A r \in Requests, e \in Events : Admits(r, e) =>
          EventBits[e] \subseteq filter /\ admitted[e] = 0
    /\ \A r, q \in Requests, e \in Events : Admits(r, e) /\ Admits(q, e) => r = q

\* The instances that serve have found their own configuration in Redis.
ServingMatch ==
    \A i \in Instances : service[i] = "up" => meta = Redis!bloomConfig(i)

RedisInv == RedisTypes /\ RedisCallsFit /\ AdmissionsAreCovered /\ ServingMatch

LEMMA RedisBegins == Redis!AdmissionAssumption /\ Redis!Init => RedisInv
BY DEF Redis!AdmissionAssumption, Redis!Init, Redis!NoCall, Redis!NoReads, Redis!Calls, RedisInv,
       RedisTypes, RedisCallsFit, AdmissionsAreCovered, Admits, ServingMatch

\* One step per action; RedisTypes first, then what a request's place in the code says.
LEMMA RedisTypesStep ==
    ASSUME Redis!AdmissionAssumption, RedisInv, [Redis!Next]_(Redis!vars)
    PROVE  RedisTypes' /\ RedisCallsFit'
<1> USE DEF RedisInv, RedisTypes, RedisCallsFit
<1>1. ASSUME NEW i \in Instances, Redis!NewService(i)
      PROVE  RedisTypes' /\ RedisCallsFit'
  BY <1>1 DEF Redis!NewService, Redis!AdmissionAssumption, Redis!bloomConfig, Redis!requestVars
<1>2. ASSUME NEW i \in Instances, Redis!Stop(i)
      PROVE  RedisTypes' /\ RedisCallsFit'
  BY <1>2 DEF Redis!Stop, Redis!NoCall, Redis!NoReads
<1>3. ASSUME NEW r \in Requests, NEW c \in Redis!Calls, Redis!Arrive(r, c)
      PROVE  RedisTypes' /\ RedisCallsFit'
  BY <1>3, ZenonT(60) DEF Redis!Arrive, Redis!Calls, Redis!Answer, Redis!Goto
<1>4. ASSUME NEW r \in Requests, Redis!Put(r)
      PROVE  RedisTypes' /\ RedisCallsFit'
  BY <1>4 DEF Redis!Put, Redis!Goto
<1>5. ASSUME NEW r \in Requests, Redis!Stats(r)
      PROVE  RedisTypes' /\ RedisCallsFit'
  <2>1. PICK reads : seen' = [seen EXCEPT ![r].reads = reads]
    BY <1>5 DEF Redis!Stats
  <2> QED
    BY <1>5, <2>1, ZenonT(60) DEF Redis!Stats
<1>6. ASSUME NEW r \in Requests, Redis!RedisFails(r)
      PROVE  RedisTypes' /\ RedisCallsFit'
  BY <1>6 DEF Redis!RedisFails, Redis!Answer, Redis!Goto
<1>7. ASSUME NEW r \in Requests, Redis!Admit(r)
      PROVE  RedisTypes' /\ RedisCallsFit'
  BY <1>7 DEF Redis!Admit, Redis!Decision, Redis!Answer, Redis!Goto
<1>8. ASSUME NEW r \in Requests, Redis!Reply(r)
      PROVE  RedisTypes' /\ RedisCallsFit'
  BY <1>8 DEF Redis!Reply, Redis!Goto, Redis!NoCall, Redis!NoReads
<1>9. CASE UNCHANGED Redis!vars
  BY <1>9 DEF Redis!vars, Redis!requestVars
<1> QED
  BY <1>1, <1>2, <1>3, <1>4, <1>5, <1>6, <1>7, <1>8, <1>9 DEF Redis!Next

LEMMA RedisServingStep ==
    ASSUME Redis!AdmissionAssumption, RedisInv, [Redis!Next]_(Redis!vars)
    PROVE  ServingMatch'
<1> USE DEF RedisInv, RedisTypes, ServingMatch
<1>1. ASSUME NEW i \in Instances, Redis!NewService(i)
      PROVE  ServingMatch'
  BY <1>1 DEF Redis!NewService, Redis!AdmissionAssumption, Redis!bloomConfig,
              Redis!NewStringBloomFilter
<1>2. ASSUME NEW i \in Instances, Redis!Stop(i)
      PROVE  ServingMatch'
  BY <1>2 DEF Redis!Stop, Redis!bloomConfig
<1>3. CASE UNCHANGED <<service, meta>>
  BY <1>3 DEF Redis!bloomConfig
<1> QED
  BY <1>1, <1>2, <1>3
  DEF Redis!Next, Redis!Arrive, Redis!Put, Redis!Stats, Redis!RedisFails, Redis!Admit, Redis!Reply,
      Redis!vars, Redis!requestVars

\* The filter only grows, and a request that is about to admit is not disturbed by others.
LEMMA RedisAdmissionStep ==
    ASSUME Redis!AdmissionAssumption, RedisInv, [Redis!Next]_(Redis!vars)
    PROVE  AdmissionsAreCovered'
<1> USE DEF RedisInv, RedisTypes, RedisCallsFit, AdmissionsAreCovered, Admits
<1>1. CASE \E i \in Instances : Redis!NewService(i)
  BY <1>1 DEF Redis!NewService, Redis!requestVars
<1>2. ASSUME NEW i \in Instances, Redis!Stop(i)
      PROVE  AdmissionsAreCovered'
  BY <1>2 DEF Redis!Stop, Redis!NoCall, Redis!NoReads
<1>3. ASSUME NEW r \in Requests, NEW c \in Redis!Calls, Redis!Arrive(r, c)
      PROVE  AdmissionsAreCovered'
  BY <1>3 DEF Redis!Arrive, Redis!Calls, Redis!Answer, Redis!Goto
<1>4. ASSUME NEW r \in Requests, Redis!Put(r)
      PROVE  AdmissionsAreCovered'
  <2>1. PICK e : e = call[r].event
    OBVIOUS
  <2>2. PICK changed : seen' = [seen EXCEPT ![r].changed = changed] /\ changed = Redis!Changes(e)
    BY <1>4, <2>1 DEF Redis!Put
  <2>3. changed = TRUE => ~(EventBits[e] \subseteq filter)
    BY <2>2, Zenon DEF Redis!Changes
  <2>4. seen' = [seen EXCEPT ![r].changed = changed]
    BY <2>2
  <2>5. e \in Events /\ filter' = filter \union EventBits[e]
    BY <1>4, <2>1 DEF Redis!Put, Redis!TakesEffect
  <2>6. seen'[r].changed = changed /\ \A q \in Requests \ {r} : seen'[q].changed = seen[q].changed
    BY <2>4
  <2>7. pc' = [pc EXCEPT ![r] = "stats"] /\ call' = call /\ admitted' = admitted
    BY <1>4 DEF Redis!Put, Redis!Goto
  <2>8. \A q \in Requests \ {r}, x \in Events : Admits(q, x)' => Admits(q, x)
    BY <2>6, <2>7
  <2>9. \A x \in Events : Admits(r, x)' => x = e /\ ~(EventBits[e] \subseteq filter)
    BY <2>1, <2>3, <2>6, <2>7
  <2> HIDE DEF Admits
  <2>10. \A x \in Events : admitted'[x] <= 1
    BY <2>7
  <2>11. \A x \in Events : EventBits[x] \subseteq filter => EventBits[x] \subseteq filter'
    BY <2>5
  <2>12. \A x \in Events : Admits(r, x)' => EventBits[x] \subseteq filter' /\ admitted[x] = 0
    BY <2>5, <2>9
  <2>13. \A q \in Requests, x \in Events : Admits(q, x)' => EventBits[x] \subseteq filter' /\ admitted'[x] = 0
    BY <2>7, <2>8, <2>11, <2>12
  <2>14. \A p, q \in Requests, x \in Events : Admits(p, x)' /\ Admits(q, x)' => p = q
    BY <2>8, <2>9
  <2> QED
    BY <2>7, <2>10, <2>11, <2>13, <2>14
<1>5. ASSUME NEW r \in Requests, Redis!Stats(r)
      PROVE  AdmissionsAreCovered'
  <2>1. PICK reads : seen' = [seen EXCEPT ![r].reads = reads]
    BY <1>5 DEF Redis!Stats
  <2> QED
    BY <1>5, <2>1 DEF Redis!Stats
<1>6. ASSUME NEW r \in Requests, Redis!RedisFails(r)
      PROVE  AdmissionsAreCovered'
  BY <1>6 DEF Redis!RedisFails, Redis!Answer, Redis!Goto, Redis!TakesEffect
<1>7. ASSUME NEW r \in Requests, Redis!Admit(r)
      PROVE  AdmissionsAreCovered'
  BY <1>7 DEF Redis!Admit, Redis!Decision, Redis!Answer, Redis!Goto
<1>8. ASSUME NEW r \in Requests, Redis!Reply(r)
      PROVE  AdmissionsAreCovered'
  BY <1>8 DEF Redis!Reply, Redis!Goto, Redis!NoCall, Redis!NoReads
<1>9. CASE UNCHANGED Redis!vars
  BY <1>9 DEF Redis!vars, Redis!requestVars
<1> QED
  BY <1>1, <1>2, <1>3, <1>4, <1>5, <1>6, <1>7, <1>8, <1>9 DEF Redis!Next

LEMMA RedisStep ==
    Redis!AdmissionAssumption /\ RedisInv /\ [Redis!Next]_(Redis!vars) => RedisInv'
BY RedisTypesStep, RedisServingStep, RedisAdmissionStep DEF RedisInv

\* For any requests, instances and hash function, over restarts, concurrent requests
\* and lost answers, an event is admitted at most once (Put, DecisionAdmit).
THEOREM EventsAreAdmittedOnce == Redis!AdmissionAssumption /\ Redis!Spec => []Redis!AdmittedOnce
<1> SUFFICES ASSUME Redis!AdmissionAssumption
             PROVE  Redis!Spec => []Redis!AdmittedOnce
  OBVIOUS
<1>1. Redis!Init => RedisInv
  BY RedisBegins
<1>2. RedisInv /\ [Redis!Next]_(Redis!vars) => RedisInv'
  BY RedisStep
<1>3. RedisInv => Redis!AdmittedOnce
  BY DEF RedisInv, AdmissionsAreCovered, Redis!AdmittedOnce
<1> QED
  BY <1>1, <1>2, <1>3, PTL DEF Redis!Spec

\* For any configurations, the instances that serve at the same time agree on the size of
\* the filter (NewService, NewStringBloomFilter).
THEOREM ServersAgree == Redis!AdmissionAssumption /\ Redis!Spec => []Redis!ServingAgree
<1> SUFFICES ASSUME Redis!AdmissionAssumption
             PROVE  Redis!Spec => []Redis!ServingAgree
  OBVIOUS
<1>1. Redis!Init => RedisInv
  BY RedisBegins
<1>2. RedisInv /\ [Redis!Next]_(Redis!vars) => RedisInv'
  BY RedisStep
<1>3. RedisInv => Redis!ServingAgree
  BY DEF RedisInv, ServingMatch, Redis!ServingAgree
<1> QED
  BY <1>1, <1>2, <1>3, PTL DEF Redis!Spec

\* The bit counts s that a request with call c has read when it stands at `place` and the
\* filter holds F.
ReadsFit(place, c, s, F) ==
    /\ s \in Seq(Nat)
    /\ \A i, j \in DOMAIN s : i < j => s[i] <= s[j]
    /\ \A i \in DOMAIN s : s[i] <= Cardinality(F)
    /\ place \in {"idle", "put"} => s = <<>>
    /\ place = "stats" /\ c.op = "admit" => EventBits[c.event] \subseteq F
    /\ c.op = "admit" /\ s # <<>> => s[1] >= Cardinality(EventBits[c.event])

StatsInv ==
    /\ RedisInv
    /\ IsFiniteSet(filter)
    /\ \A r \in Requests : ReadsFit(pc[r], call[r], seen[r].reads, filter)

LEMMA RedisSizes ==
    \A S : Redis!Cardinality(S) = Cardinality(S) /\ (Redis!IsFiniteSet(S) <=> IsFiniteSet(S))
BY Zenon DEF Redis!Cardinality, Cardinality, Redis!IsFiniteSet, IsFiniteSet

LEMMA ReadsGrow ==
    ASSUME NEW place, NEW c, NEW s, NEW F, NEW G, ReadsFit(place, c, s, F), F \subseteq G,
           IsFiniteSet(G)
    PROVE  ReadsFit(place, c, s, G)
<1>1. Cardinality(F) \in Nat /\ Cardinality(G) \in Nat /\ Cardinality(F) <= Cardinality(G)
  BY FS_Subset, FS_CardinalityType
<1> QED
  BY <1>1 DEF ReadsFit

LEMMA ReadsBegin ==
    ASSUME NEW place, NEW c, NEW F, place = "stats" /\ c.op = "admit" => EventBits[c.event] \subseteq F
    PROVE  ReadsFit(place, c, <<>>, F)
BY DEF ReadsFit

LEMMA ReadsNext ==
    ASSUME NEW c, NEW s, NEW F, ReadsFit("stats", c, s, F), IsFiniteSet(F)
    PROVE  ReadsFit("stats", c, Append(s, Cardinality(F)), F)
<1> DEFINE n == Cardinality(F)
           t == Append(s, n)
<1>1. n \in Nat /\ s \in Seq(Nat)
  BY FS_CardinalityType DEF ReadsFit
<1>2. /\ t \in Seq(Nat) /\ DOMAIN t = 1 .. Len(s) + 1 /\ t # <<>>
      /\ t[Len(s) + 1] = n /\ \A i \in DOMAIN s : t[i] = s[i]
      /\ DOMAIN s = 1 .. Len(s) /\ Len(s) \in Nat
  BY <1>1
<1>3. c.op = "admit" => t[1] >= Cardinality(EventBits[c.event])
  <2>1. CASE s = <<>>
    <3>1. t[1] = n
      BY <1>1, <1>2, <2>1
    <3>2. c.op = "admit" => Cardinality(EventBits[c.event]) <= n /\ Cardinality(EventBits[c.event]) \in Nat
      BY FS_Subset, FS_CardinalityType DEF ReadsFit
    <3> QED
      BY <1>1, <3>1, <3>2
  <2>2. CASE s # <<>>
    BY <1>1, <1>2, <2>2 DEF ReadsFit
  <2> QED
    BY <2>1, <2>2
<1>4. \A i \in DOMAIN t : t[i] <= n /\ t[i] \in Nat
  BY <1>1, <1>2 DEF ReadsFit
<1>5. \A i, j \in DOMAIN t : i < j => t[i] <= t[j]
  <2> SUFFICES ASSUME NEW i \in DOMAIN t, NEW j \in DOMAIN t, i < j
               PROVE  t[i] <= t[j]
    OBVIOUS
  <2>1. i \in DOMAIN s
    BY <1>1, <1>2
  <2>2. CASE j = Len(s) + 1
    BY <1>2, <1>4, <2>2
  <2>3. CASE j \in DOMAIN s
    <3>1. s[i] <= s[j]
      BY <2>1, <2>3 DEF ReadsFit
    <3> QED
      BY <1>2, <2>1, <2>3, <3>1
  <2> QED
    BY <1>2, <2>2, <2>3
<1> HIDE DEF t
<1> QED
  BY <1>2, <1>3, <1>4, <1>5 DEF ReadsFit

LEMMA ReadsEnd ==
    ASSUME NEW place, NEW c, NEW s, NEW F, ReadsFit(place, c, s, F)
    PROVE  ReadsFit("reply", c, s, F)
BY DEF ReadsFit

LEMMA StatsBegins == Redis!AdmissionAssumption /\ Redis!Init => StatsInv
<1> SUFFICES ASSUME Redis!AdmissionAssumption, Redis!Init
             PROVE  StatsInv
  OBVIOUS
<1>1. \A r \in Requests : pc[r] = "idle" /\ seen[r].reads = <<>>
  BY DEF Redis!Init, Redis!NoReads
<1>2. \A r \in Requests : ReadsFit(pc[r], call[r], seen[r].reads, filter)
  BY <1>1, ReadsBegin, Zenon
<1> QED
  BY <1>2, RedisBegins, FS_EmptySet DEF StatsInv, Redis!Init

\* The bits of an event join the filter.
LEMMA FilterGrows ==
    ASSUME Redis!AdmissionAssumption, StatsInv, NEW e \in Events,
           \/ Redis!TakesEffect(e)
           \/ UNCHANGED filter
    PROVE  IsFiniteSet(filter') /\ filter \subseteq filter'
<1>1. IsFiniteSet(EventBits[e])
  BY RedisSizes DEF Redis!AdmissionAssumption
<1> QED
  BY <1>1, FS_Union DEF Redis!TakesEffect, StatsInv

LEMMA StatsStep ==
    ASSUME Redis!AdmissionAssumption, StatsInv, [Redis!Next]_(Redis!vars)
    PROVE  StatsInv'
<1> USE DEF StatsInv
<1>0. RedisInv' /\ RedisTypes /\ RedisTypes' /\ RedisCallsFit
  BY RedisStep DEF RedisInv
<1> DEFINE Good == IsFiniteSet(filter') /\
                   \A q \in Requests : ReadsFit(pc'[q], call'[q], seen'[q].reads, filter')
<1>1. CASE UNCHANGED <<pc, call, seen, filter>>
  BY <1>1, <1>0
<1>2. ASSUME NEW i \in Instances, Redis!Stop(i)
      PROVE  Good
  <2>1. filter' = filter
    BY <1>2 DEF Redis!Stop
  <2>2. ASSUME NEW q \in Requests
        PROVE  ReadsFit(pc'[q], call'[q], seen'[q].reads, filter)
    <3>1. CASE pc'[q] = pc[q] /\ call'[q] = call[q] /\ seen'[q] = seen[q]
      BY <3>1
    <3>2. CASE pc'[q] = "idle" /\ seen'[q] = Redis!NoReads
      <4>1. seen'[q].reads = <<>>
        BY <3>2 DEF Redis!NoReads
      <4> QED
        BY <3>2, <4>1, ReadsBegin, Zenon
    <3> QED
      BY <1>2, <3>1, <3>2 DEF Redis!Stop
  <2> QED
    BY <2>1, <2>2
<1>3. ASSUME NEW r \in Requests, NEW c \in Redis!Calls, Redis!Arrive(r, c)
      PROVE  Good
  <2>1. UNCHANGED <<filter, seen>> /\ call' = [call EXCEPT ![r] = c] /\ seen[r].reads = <<>>
    BY <1>3 DEF Redis!Arrive, ReadsFit
  <2>2. /\ \A q \in Requests \ {r} : pc'[q] = pc[q] /\ call'[q] = call[q]
        /\ call'[r] = c /\ ~(pc'[r] = "stats" /\ c.op = "admit")
    BY <1>3, <1>0 DEF Redis!Arrive, Redis!Answer, Redis!Goto, RedisTypes
  <2>3. ReadsFit(pc'[r], c, <<>>, filter)
    BY <2>2, ReadsBegin, Zenon
  <2> QED
    BY <2>1, <2>2, <2>3
<1>4. ASSUME NEW r \in Requests, Redis!Put(r)
      PROVE  Good
  <2>1. call[r].event \in Events /\ Redis!TakesEffect(call[r].event) /\ pc[r] = "put" /\ call' = call
        /\ pc' = [pc EXCEPT ![r] = "stats"]
    BY <1>4, <1>0 DEF Redis!Put, RedisCallsFit, Redis!Goto
  <2>2. IsFiniteSet(filter') /\ filter \subseteq filter' /\ EventBits[call[r].event] \subseteq filter'
    BY <2>1, FilterGrows DEF Redis!TakesEffect
  <2>3. PICK changed : seen' = [seen EXCEPT ![r].changed = changed]
    BY <1>4 DEF Redis!Put
  <2>4. \A q \in Requests : seen'[q].reads = seen[q].reads
    BY <2>3, <1>0 DEF RedisTypes
  <2>5. \A q \in Requests \ {r} : ReadsFit(pc'[q], call'[q], seen'[q].reads, filter')
    <3> TAKE q \in Requests \ {r}
    <3>1. pc'[q] = pc[q]
      BY <2>1, <1>0 DEF RedisTypes
    <3> QED
      BY <3>1, <2>1, <2>2, <2>4, ReadsGrow, Zenon
  <2>6. ReadsFit(pc'[r], call'[r], seen'[r].reads, filter')
    <3>1. seen[r].reads = <<>>
      BY <2>1 DEF ReadsFit
    <3> QED
      BY <3>1, <2>1, <2>2, <2>4, ReadsBegin, Zenon
  <2> QED
    BY <2>2, <2>5, <2>6
<1>5. ASSUME NEW r \in Requests, Redis!Stats(r)
      PROVE  Good
  <2>1. UNCHANGED <<pc, call, filter>> /\ pc[r] = "stats"
    BY <1>5 DEF Redis!Stats
  <2>2. PICK reads : /\ seen' = [seen EXCEPT ![r].reads = reads]
                     /\ reads = Append(seen[r].reads, Redis!Cardinality(filter))
    BY <1>5 DEF Redis!Stats
  <2>3. reads = Append(seen[r].reads, Cardinality(filter))
    BY <2>2, RedisSizes
  <2>4. seen'[r].reads = reads /\ \A q \in Requests \ {r} : seen'[q].reads = seen[q].reads
    BY <2>2, <1>0 DEF RedisTypes
  <2>5. ReadsFit("stats", call[r], reads, filter)
    BY <2>1, <2>3, ReadsNext
  <2> QED
    BY <2>1, <2>4, <2>5
<1>6. ASSUME NEW r \in Requests, Redis!RedisFails(r)
      PROVE  Good
  <2>1. UNCHANGED <<call, seen>> /\ pc' = [pc EXCEPT ![r] = "reply"]
    BY <1>6 DEF Redis!RedisFails, Redis!Answer, Redis!Goto
  <2>2. IsFiniteSet(filter') /\ filter \subseteq filter'
    BY <1>6, <1>0, FilterGrows DEF Redis!RedisFails, RedisCallsFit
  <2>3. \A q \in Requests : ReadsFit(pc[q], call[q], seen[q].reads, filter')
    BY <2>2, ReadsGrow
  <2>4. \A q \in Requests : pc'[q] = "reply" \/ pc'[q] = pc[q]
    BY <2>1, <1>0 DEF RedisTypes
  <2> QED
    BY <2>1, <2>2, <2>3, <2>4, ReadsEnd, Zenon
<1>7. ASSUME NEW r \in Requests, Redis!Admit(r)
      PROVE  Good
  <2>1. UNCHANGED <<call, seen, filter>> /\ pc' = [pc EXCEPT ![r] = "reply"]
    BY <1>7 DEF Redis!Admit, Redis!Answer, Redis!Goto
  <2>2. \A q \in Requests : pc'[q] = "reply" \/ pc'[q] = pc[q]
    BY <2>1, <1>0 DEF RedisTypes
  <2> QED
    BY <2>1, <2>2, ReadsEnd, Zenon
<1>8. ASSUME NEW r \in Requests, Redis!Reply(r)
      PROVE  Good
  <2>1. /\ filter' = filter /\ pc' = [pc EXCEPT ![r] = "idle"]
        /\ call' = [call EXCEPT ![r] = Redis!NoCall] /\ seen' = [seen EXCEPT ![r] = Redis!NoReads]
    BY <1>8 DEF Redis!Reply, Redis!Goto
  <2>2. pc'[r] = "idle" /\ seen'[r].reads = <<>>
    BY <2>1, <1>0 DEF RedisTypes, Redis!NoReads
  <2>3. \A q \in Requests \ {r} : pc'[q] = pc[q] /\ call'[q] = call[q] /\ seen'[q] = seen[q]
    BY <2>1, <1>0 DEF RedisTypes
  <2>4. ReadsFit(pc'[r], call'[r], seen'[r].reads, filter)
    BY <2>2, ReadsBegin, Zenon
  <2> QED
    BY <2>1, <2>3, <2>4
<1>9. ASSUME NEW i \in Instances, Redis!NewService(i)
      PROVE  UNCHANGED <<pc, call, seen, filter>>
  BY <1>9 DEF Redis!NewService, Redis!requestVars
<1>10. CASE UNCHANGED Redis!vars
  BY <1>10, <1>1 DEF Redis!vars, Redis!requestVars
<1> QED
  BY <1>0, <1>1, <1>2, <1>3, <1>4, <1>5, <1>6, <1>7, <1>8, <1>9, <1>10 DEF Redis!Next

LEMMA StatsShow ==
    ASSUME StatsInv
    PROVE  Redis!StatsInclude
<1> SUFFICES ASSUME NEW r \in Requests
             PROVE  LET s == seen[r].reads IN
                    /\ \A i, j \in DOMAIN s : i < j => s[i] <= s[j]
                    /\ call[r].op = "admit" /\ s # <<>> =>
                          s[1] >= Cardinality(EventBits[call[r].event])
  BY RedisSizes DEF Redis!StatsInclude
<1> QED
  BY DEF StatsInv, ReadsFit

\* For any requests, instances and hash function, while other requests set bits between the
\* reads and instances stop: the three numbers of a response never decrease, and those of an
\* admission count the event's own bits (Put, Stats).
THEOREM StatsCountOwnBits == Redis!AdmissionAssumption /\ Redis!Spec => []Redis!StatsInclude
<1> SUFFICES ASSUME Redis!AdmissionAssumption
             PROVE  Redis!Spec => []Redis!StatsInclude
  OBVIOUS
<1>1. Redis!Init => StatsInv
  BY StatsBegins
<1>2. StatsInv /\ [Redis!Next]_(Redis!vars) => StatsInv'
  BY StatsStep
<1>3. StatsInv => Redis!StatsInclude
  BY StatsShow
<1> QED
  BY <1>1, <1>2, <1>3, PTL DEF Redis!Spec

--------------------------------------------------------------------------------
(* The checkout guard.                                                       *)

LEMMA LeastIndex ==
    ASSUME NEW S, S \subseteq Nat, S # {}
    PROVE  Guard!Min(S) \in S
<1> DEFINE Less == OpToRel(<, Nat)
<1>1. IsWellFoundedOn(Less, Nat)
  BY NatLessThanWellFounded
<1>2. \A x, y \in Nat : x < y => <<x, y>> \in Less
  BY DEF OpToRel
<1> HIDE DEF Less
<1>3. PICK x \in S : \A y \in S : ~(<<y, x>> \in Less)
  BY <1>1, WFMin
<1>4. \A y \in S : ~(y < x)
  BY <1>2, <1>3, Zenon
<1>5. \A y \in S : x <= y
  BY <1>4
<1> QED
  BY <1>3, <1>5 DEF Guard!Min

\* The first fault of a list of faults is one of them, or "none".
LEMMA FirstFaultIsFault ==
    ASSUME NEW faults, DOMAIN faults \subseteq Nat
    PROVE  \/ Guard!FirstFault(faults) = "none" /\ \A i \in DOMAIN faults : faults[i] = "none"
           \/ \E i \in DOMAIN faults : Guard!FirstFault(faults) = faults[i] /\ faults[i] # "none"
<1> DEFINE real == {i \in DOMAIN faults : faults[i] # "none"}
<1>1. CASE real = {}
  BY <1>1 DEF Guard!FirstFault
<1>2. CASE real # {}
  <2>1. Guard!Min(real) \in real
    BY <1>2, LeastIndex
  <2> QED
    BY <1>2, <2>1 DEF Guard!FirstFault
<1> QED
  BY <1>1, <1>2

\* What a checkout is refused for before the filter; one without a key always is.
LEMMA RefusalKinds ==
    ASSUME Guard!GuardAssumption, NEW c \in Checkouts
    PROVE  /\ Guard!Refusal(c) \in {"none", "invalid_request", "invalid_money", "rule_denied"}
           /\ Guard!Refusal(c) = "none" => c.key \in Keys
<1> DEFINE lineFaults == [i \in DOMAIN c.lines |-> Guard!LineFault(c.lines[i], c.currency)]
           priceFaults == [i \in DOMAIN c.lines |-> Guard!PriceFault(c.lines[i])]
           normal == Guard!normalizeCheckoutRequest(c)
           price == IF normal # "none" THEN "none" ELSE Guard!FirstFault(priceFaults)
<1>1. DOMAIN c.lines \subseteq Nat
  BY DEF Guard!GuardAssumption
<1>2. Guard!FirstFault(lineFaults) \in {"none", "invalid_request", "invalid_money"}
  BY <1>1, FirstFaultIsFault DEF Guard!LineFault
<1>3. Guard!FirstFault(priceFaults) \in {"none", "rule_denied", "invalid_money"}
  BY <1>1, FirstFaultIsFault DEF Guard!PriceFault
<1>4. normal \in {"none", "invalid_request", "invalid_money"}
  BY <1>2 DEF Guard!normalizeCheckoutRequest
<1>5. normal = "none" => c.key \in Keys
  BY DEF Guard!normalizeCheckoutRequest, Guard!GuardAssumption
<1>6. Guard!Refusal(c) = Guard!FirstFault(<<normal, price>>)
  BY DEF Guard!Refusal
<1>7. price \in {"none", "rule_denied", "invalid_money"}
  BY <1>3
<1> HIDE DEF normal, price
<1>8. DOMAIN <<normal, price>> = {1, 2} /\ <<normal, price>>[1] = normal /\ <<normal, price>>[2] = price
  OBVIOUS
<1> QED
  BY <1>4, <1>5, <1>6, <1>7, <1>8, FirstFaultIsFault

IssuedTokens ==
    [role : {t.role : t \in TokenRequests}, scopes : {t.scopes : t \in TokenRequests}, exp : Int]

GuardTypes ==
    /\ pc \in [Requests -> {"idle", "admit", "requestID", "orderID", "reply"}]
    /\ call \in [Requests -> Checkouts \union {Guard!NoCheckout}]
    /\ outcome = [r \in Requests |-> outcome[r]]
    /\ admitted \subseteq Keys
    /\ created \in [Keys -> Nat]
    /\ tokens \in Seq(IssuedTokens)
    /\ now \in Nat

\* A request behind the admission, with key k.
Holds(r, k) == pc[r] \in {"requestID", "orderID"} /\ call[r].key = k

GuardCallsFit ==
    /\ \A r \in Requests : pc[r] \in {"admit", "requestID", "orderID"} => call[r].key \in Keys
    /\ \A r \in Requests : pc[r] # "reply" => outcome[r].code = "none"

\* A key that was answered 201, or that a request holds, is admitted; one request holds
\* it, and none once it was answered.
KeysAreHeldOnce ==
    /\ \A k \in Keys : created[k] <= 1
    /\ \A k \in Keys : created[k] = 1 => k \in admitted
    /\ \A r \in Requests, k \in Keys : Holds(r, k) => k \in admitted /\ created[k] = 0
    /\ \A r, q \in Requests, k \in Keys : Holds(r, k) /\ Holds(q, k) => r = q

FilterIsAdmitted == filter = UNION {KeyBits[k] : k \in admitted}

DuplicatesFit ==
    \A r \in Requests : outcome[r].code = "duplicate_submission" => KeyBits[call[r].key] \subseteq filter

GuardInv == GuardTypes /\ GuardCallsFit /\ KeysAreHeldOnce /\ FilterIsAdmitted /\ DuplicatesFit

LEMMA GuardBegins == Guard!GuardAssumption /\ Guard!Init => GuardInv
BY DEF Guard!GuardAssumption, Guard!Init, Guard!Quote, GuardInv, GuardTypes, GuardCallsFit,
       KeysAreHeldOnce, Holds, FilterIsAdmitted, DuplicatesFit

\* The steps before the admission change neither keys nor filter; an answer other than
\* "duplicate" needs no justification.
LEMMA GuardEarlyStep ==
    ASSUME Guard!GuardAssumption, GuardInv,
           NEW r \in Requests, NEW c \in Checkouts,
           \/ \E n \in DOMAIN tokens : Guard!GuardCheckout(r, c, n)
           \/ \E code \in {"missing_token", "invalid_token"} : Guard!Unauthorized(r, c, code)
    PROVE  GuardInv'
<1> USE DEF GuardInv, GuardTypes, GuardCallsFit
<1>1. /\ pc[r] = "idle"
      /\ call' = [call EXCEPT ![r] = c]
      /\ UNCHANGED <<tokens, now, filter, admitted, created>>
  BY DEF Guard!GuardCheckout, Guard!Unauthorized
<1>2. Guard!Refusal(c) # "duplicate_submission" /\ (Guard!Refusal(c) = "none" => c.key \in Keys)
  BY RefusalKinds
<1> DEFINE Goes == /\ pc' = [pc EXCEPT ![r] = "admit"]
                   /\ outcome' = outcome
                   /\ Guard!Refusal(c) = "none"
           Ends(code) == /\ pc' = [pc EXCEPT ![r] = "reply"]
                         /\ outcome' = [outcome EXCEPT ![r] = Guard!Quote(code, 0)]
<1>3. Goes \/ \E code : code # "duplicate_submission" /\ Ends(code)
  <2>1. CASE \E code \in {"missing_token", "invalid_token"} : Guard!Unauthorized(r, c, code)
    BY <2>1 DEF Guard!Unauthorized, Guard!Answer, Guard!Goto
  <2>2. ASSUME NEW n \in DOMAIN tokens, Guard!GuardCheckout(r, c, n)
        PROVE  Goes \/ Ends("expired_token") \/ Ends("invalid_claims") \/ Ends(Guard!Refusal(c))
    <3>1. tokens[n] \in IssuedTokens
      OBVIOUS
    <3>2. now \in Int /\ tokens[n].exp \in Int
      BY <3>1 DEF IssuedTokens
    <3> QED
      BY <1>2, <2>2, <3>2 DEF Guard!GuardCheckout, Guard!Answer, Guard!Goto
  <2> QED
    BY <1>2, <2>1, <2>2
<1>4. KeysAreHeldOnce' /\ FilterIsAdmitted'
  BY <1>1, <1>3 DEF KeysAreHeldOnce, Holds, FilterIsAdmitted
<1>5. GuardTypes' /\ GuardCallsFit'
  BY <1>1, <1>2, <1>3 DEF Guard!Quote
<1>6. DuplicatesFit'
  BY <1>1, <1>3 DEF DuplicatesFit, Guard!Quote
<1> QED
  BY <1>4, <1>5, <1>6

\* admit: a key whose bits are not all set was never admitted.
LEMMA GuardAdmitStep ==
    ASSUME Guard!GuardAssumption, GuardInv, NEW r \in Requests, Guard!admit(r)
    PROVE  GuardInv'
<1> USE DEF GuardInv, GuardTypes, GuardCallsFit
<1>1. PICK k \in Keys : k = call[r].key
  BY DEF Guard!admit
<1>2. CASE KeyBits[k] \subseteq filter
  <2>1. /\ UNCHANGED <<call, tokens, now, filter, admitted, created>>
        /\ pc' = [pc EXCEPT ![r] = "reply"]
        /\ outcome' = [outcome EXCEPT ![r] = Guard!Quote("duplicate_submission", 0)]
    BY <1>1, <1>2 DEF Guard!admit, Guard!MightContain, Guard!Answer, Guard!Goto
  <2>2. KeysAreHeldOnce' /\ FilterIsAdmitted'
    BY <2>1 DEF KeysAreHeldOnce, Holds, FilterIsAdmitted
  <2>3. GuardTypes' /\ GuardCallsFit'
    BY <2>1 DEF Guard!Quote
  <2>4. DuplicatesFit'
    BY <1>1, <1>2, <2>1 DEF DuplicatesFit
  <2> QED
    BY <2>2, <2>3, <2>4
<1>3. CASE ~(KeyBits[k] \subseteq filter)
  <2>1. /\ UNCHANGED <<call, tokens, now, created, outcome>>
        /\ pc[r] = "admit" /\ pc' = [pc EXCEPT ![r] = "requestID"]
        /\ filter' = filter \union KeyBits[k]
        /\ admitted' = admitted \union {k}
    BY <1>1, <1>3 DEF Guard!admit, Guard!MightContain, Guard!Goto
  <2>2. k \notin admitted
    BY <1>3 DEF FilterIsAdmitted
  <2>3. FilterIsAdmitted'
    BY <2>1 DEF FilterIsAdmitted
  <2>4. GuardTypes' /\ GuardCallsFit' /\ DuplicatesFit'
    BY <2>1 DEF DuplicatesFit
  <2>5. \A q \in Requests, x \in Keys : Holds(q, x)' => Holds(q, x) \/ (q = r /\ x = k)
    BY <1>1, <2>1 DEF Holds
  <2>6. created[k] = 0 /\ \A q \in Requests : ~Holds(q, k)
    BY <2>2 DEF KeysAreHeldOnce
  <2>7. KeysAreHeldOnce'
    BY <2>1, <2>5, <2>6 DEF KeysAreHeldOnce
  <2> QED
    BY <2>3, <2>4, <2>7
<1> QED
  BY <1>2, <1>3

LEMMA GuardNextIDStep ==
    ASSUME Guard!GuardAssumption, GuardInv, NEW r \in Requests, Guard!nextID(r)
    PROVE  GuardInv'
<1> USE DEF GuardInv, GuardTypes, GuardCallsFit
<1>1. PICK k \in Keys : k = call[r].key
  BY DEF Guard!nextID
<1>2. UNCHANGED <<call, tokens, now, filter, admitted>> /\ Holds(r, k)
  BY <1>1 DEF Guard!nextID, Holds
<1>3. CASE /\ pc' = [pc EXCEPT ![r] = "orderID"]
           /\ UNCHANGED <<outcome, created>>
  BY <1>2, <1>3 DEF KeysAreHeldOnce, Holds, FilterIsAdmitted, DuplicatesFit
<1>4. ASSUME pc' = [pc EXCEPT ![r] = "reply"],
             created' = created \/ created' = [created EXCEPT ![k] = @ + 1],
             NEW code \in {"created", "checkout_error"}, NEW amount,
             outcome' = [outcome EXCEPT ![r] = Guard!Quote(code, amount)]
      PROVE  GuardInv'
  <2>1. outcome' = [q \in Requests |-> IF q = r THEN Guard!Quote(code, amount) ELSE outcome[q]]
    BY <1>4
  <2>2. GuardTypes'
    <3>1. created' \in [Keys -> Nat]
      BY <1>4
    <3> QED
      BY <1>2, <1>4, <2>1, <3>1
  <2>3. \A q \in Requests : outcome'[q].code = IF q = r THEN code ELSE outcome[q].code
    BY <2>1 DEF Guard!Quote
  <2>4. GuardCallsFit' /\ FilterIsAdmitted' /\ DuplicatesFit'
    BY <1>2, <1>4, <2>3 DEF FilterIsAdmitted, DuplicatesFit
  <2>5. \A q \in Requests, x \in Keys : Holds(q, x)' => Holds(q, x) /\ q # r
    BY <1>2, <1>4 DEF Holds
  <2>6. created[k] = 0 /\ k \in admitted /\ \A q \in Requests \ {r} : ~Holds(q, k)
    BY <1>2 DEF KeysAreHeldOnce
  <2>7. KeysAreHeldOnce'
    BY <1>2, <1>4, <2>5, <2>6 DEF KeysAreHeldOnce
  <2> QED
    BY <2>2, <2>4, <2>7
<1> QED
  BY <1>1, <1>3, <1>4 DEF Guard!nextID, Guard!Answer, Guard!Goto

\* One step per action.
LEMMA GuardStep ==
    Guard!GuardAssumption /\ GuardInv /\ [Guard!Next]_(Guard!vars) => GuardInv'
<1> SUFFICES ASSUME Guard!GuardAssumption, GuardInv, [Guard!Next]_(Guard!vars)
             PROVE  GuardInv'
  OBVIOUS
<1>1. ASSUME NEW t \in TokenRequests, Guard!IssueToken(t)
      PROVE  GuardInv'
  <2>1. [role |-> t.role, scopes |-> t.scopes, exp |-> now + t.ttl] \in IssuedTokens
    BY DEF GuardInv, GuardTypes, IssuedTokens, Guard!GuardAssumption
  <2> QED
    BY <1>1, <2>1 DEF Guard!IssueToken, GuardInv, GuardTypes, GuardCallsFit, KeysAreHeldOnce, Holds,
                      FilterIsAdmitted, DuplicatesFit
<1>2. CASE Guard!Tick
  BY <1>2 DEF Guard!Tick, GuardInv, GuardTypes, GuardCallsFit, KeysAreHeldOnce, Holds,
              FilterIsAdmitted, DuplicatesFit
<1>3. ASSUME NEW r \in Requests, NEW c \in Checkouts,
             \/ \E n \in DOMAIN tokens : Guard!GuardCheckout(r, c, n)
             \/ \E code \in {"missing_token", "invalid_token"} : Guard!Unauthorized(r, c, code)
      PROVE  GuardInv'
  BY <1>3, GuardEarlyStep
<1>4. ASSUME NEW r \in Requests, Guard!admit(r) \/ Guard!nextID(r)
      PROVE  GuardInv'
  BY <1>4, GuardAdmitStep, GuardNextIDStep
<1>5. ASSUME NEW r \in Requests, Guard!Reply(r)
      PROVE  GuardInv'
  BY <1>5 DEF Guard!Reply, Guard!Goto, Guard!Quote, GuardInv, GuardTypes, GuardCallsFit,
              KeysAreHeldOnce, Holds, FilterIsAdmitted, DuplicatesFit
<1>6. CASE UNCHANGED Guard!vars
  BY <1>6 DEF Guard!vars, GuardInv, GuardTypes, GuardCallsFit, KeysAreHeldOnce, Holds,
              FilterIsAdmitted, DuplicatesFit
<1> QED
  BY <1>1, <1>2, <1>3, <1>4, <1>5, <1>6 DEF Guard!Next

LEMMA GuardBounds == GuardInv => Guard!AtMostOnce /\ Guard!DuplicateIsJustified
BY DEF GuardInv, GuardTypes, KeysAreHeldOnce, FilterIsAdmitted, DuplicatesFit, Guard!AtMostOnce,
       Guard!DuplicateIsJustified

\* For any requests, keys and hash function, a checkout is created at most once per
\* key, after its admission, and a checkout is called a duplicate only for the bits of
\* keys that were admitted (admit, GuardCheckout).
THEOREM CheckoutsAreCreatedOnce ==
    Guard!GuardAssumption /\ Guard!Spec => [](Guard!AtMostOnce /\ Guard!DuplicateIsJustified)
<1> SUFFICES ASSUME Guard!GuardAssumption
             PROVE  Guard!Spec => [](Guard!AtMostOnce /\ Guard!DuplicateIsJustified)
  OBVIOUS
<1>1. Guard!Init => GuardInv
  BY GuardBegins
<1>2. GuardInv /\ [Guard!Next]_(Guard!vars) => GuardInv'
  BY GuardStep
<1> QED
  BY <1>1, <1>2, GuardBounds, PTL DEF Guard!Spec

--------------------------------------------------------------------------------
(* The session tokens.                                                       *)

RefreshTypes ==
    /\ pc \in [Requests -> {"idle", "refresh", "reissue", "reply"}]
    /\ work = [r \in Requests |-> work[r]]
    /\ started \in [Sessions -> [at : Nat, ttl : Int]]
    /\ now \in 0 .. RefreshTime
    /\ delay \in [Requests -> 0 .. MaxDelay]
    /\ \A r \in Requests : pc[r] = "idle" => delay[r] = 0

\* A token of a session that was issued, which does not outlive it.
OfSession(t) ==
    /\ t.exp \in Int
    /\ t.session \in Sessions
    /\ Refresh!Started(t.session)
    /\ Refresh!EndsInTime(t)
    /\ t.use = "refresh" => t.exp <= started[t.session].at + RefreshTTL + MaxDelay

TokensEnd == \A t \in tokens : OfSession(t)

\* What a request in flight is about to hand out: the refresh token is composed within
\* delay[r] of the session's start, a new access token within delay[r] of a moment at
\* which the refresh token was still valid.
InFlight ==
    /\ \A r \in Requests : pc[r] = "refresh" =>
          /\ OfSession(work[r])
          /\ work[r].use = "access"
          /\ now = started[work[r].session].at + delay[r]
    /\ \A r \in Requests : pc[r] = "reissue" =>
          /\ OfSession(work[r])
          /\ work[r].use = "refresh"
          /\ now < work[r].exp + delay[r]

RefreshInv == RefreshTypes /\ TokensEnd /\ InFlight

LEMMA RefreshBegins == Refresh!RefreshAssumption /\ Refresh!Init => RefreshInv
BY DEF Refresh!RefreshAssumption, Refresh!Init, RefreshInv, RefreshTypes, TokensEnd, InFlight

\* A token stays inside its session when another session starts.
LEMMA OfSessionStays ==
    ASSUME RefreshTypes, NEW t, OfSession(t), NEW s \in Sessions, ~Refresh!Started(s), NEW ttl,
           started' = [started EXCEPT ![s] = [at |-> now, ttl |-> ttl]]
    PROVE  OfSession(t)' /\ started'[t.session] = started[t.session]
BY DEF RefreshTypes, OfSession, Refresh!Started, Refresh!EndsInTime

LEMMA OfSessionKept ==
    ASSUME UNCHANGED started, NEW t, OfSession(t)
    PROVE  OfSession(t)'
BY DEF OfSession, Refresh!Started, Refresh!EndsInTime

\* The sessions stand, and so does every request in flight but r.
LEMMA RefreshOthers ==
    ASSUME RefreshInv, NEW r \in Requests, UNCHANGED <<started, now, delay>>,
           \A q \in Requests \ {r} : pc'[q] = pc[q] /\ work'[q] = work[q],
           pc'[r] \in {"idle", "reply"}
    PROVE  InFlight'
<1> SUFFICES ASSUME NEW q \in Requests, pc'[q] \in {"refresh", "reissue"}
             PROVE  /\ pc'[q] = "refresh" =>
                          /\ OfSession(work[q])'
                          /\ work'[q].use = "access"
                          /\ now' = started'[work'[q].session].at + delay'[q]
                    /\ pc'[q] = "reissue" =>
                          /\ OfSession(work[q])'
                          /\ work'[q].use = "refresh"
                          /\ now' < work'[q].exp + delay'[q]
  BY DEF InFlight
<1>1. q # r /\ pc'[q] = pc[q] /\ work'[q] = work[q]
  OBVIOUS
<1>2. PICK t : t = work[q]
  OBVIOUS
<1>3. OfSession(t)
  BY <1>1, <1>2 DEF RefreshInv, InFlight
<1>4. OfSession(t)'
  BY <1>3, OfSessionKept
<1>5. OfSession(work[q])'
  BY <1>1, <1>2, <1>4 DEF OfSession, Refresh!Started, Refresh!EndsInTime
<1> QED
  BY <1>1, <1>5 DEF RefreshInv, InFlight

LEMMA RefreshTick ==
    ASSUME Refresh!RefreshAssumption, RefreshInv, Refresh!Tick
    PROVE  RefreshInv'
<1> USE DEF RefreshInv, RefreshTypes
<1>1. RefreshTypes'
  BY DEF Refresh!Tick, Refresh!Composing, Refresh!RefreshAssumption
<1>2. UNCHANGED <<pc, work, tokens, started>> /\ now' = now + 1
  BY DEF Refresh!Tick
<1>3. \A t : OfSession(t) => OfSession(t)'
  BY <1>2, OfSessionKept
<1>4. TokensEnd'
  BY <1>2, <1>3 DEF TokensEnd
<1>5. \A r \in Requests : pc[r] \in {"refresh", "reissue"} => delay'[r] = delay[r] + 1
  BY DEF Refresh!Tick, Refresh!Composing
<1>6. \A r \in Requests : OfSession(work[r]) => OfSession(work[r])'
  BY <1>2 DEF OfSession, Refresh!Started, Refresh!EndsInTime
<1>7. InFlight'
  <2>1. SUFFICES ASSUME NEW r \in Requests
        PROVE  /\ pc[r] = "refresh" =>
                  /\ OfSession(work[r])'
                  /\ work[r].use = "access"
                  /\ now + 1 = started[work[r].session].at + delay'[r]
               /\ pc[r] = "reissue" =>
                  /\ OfSession(work[r])'
                  /\ work[r].use = "refresh"
                  /\ now + 1 < work[r].exp + delay'[r]
    BY <1>2 DEF InFlight
  <2>2. CASE pc[r] = "refresh"
    <3>1. started[work[r].session].at \in Int /\ delay[r] \in Int /\ now \in Int
      BY <2>2 DEF InFlight, OfSession, Refresh!RefreshAssumption
    <3>2. now = started[work[r].session].at + delay[r] /\ delay'[r] = delay[r] + 1
      BY <1>5, <2>2 DEF InFlight
    <3>3. now + 1 = started[work[r].session].at + delay'[r]
      BY <3>1, <3>2
    <3> QED
      BY <1>6, <2>2, <3>3 DEF InFlight
  <2>3. CASE pc[r] = "reissue"
    <3>1. work[r].exp \in Int
      BY <2>3 DEF InFlight, OfSession
    <3> QED
      BY <1>5, <1>6, <2>3, <3>1 DEF InFlight
  <2> QED
    BY <2>2, <2>3
<1> QED
  BY <1>1, <1>4, <1>7

LEMMA RefreshIssue ==
    ASSUME Refresh!RefreshAssumption, RefreshInv, NEW r \in Requests, NEW q \in SessionRequests,
           NEW s \in Sessions, Refresh!IssueSession(r, q, s)
    PROVE  RefreshInv'
<1> USE DEF RefreshInv, RefreshTypes
<1>1. CASE ~Refresh!validateSessionRequest(q)
  <2>1. UNCHANGED <<tokens, now, delay, started, work>> /\ pc' = [pc EXCEPT ![r] = "reply"]
    BY <1>1 DEF Refresh!IssueSession, Refresh!Answer, Refresh!Goto
  <2>2. RefreshTypes' /\ pc'[r] = "reply"
    BY <2>1
  <2>3. TokensEnd'
    BY <2>1, OfSessionKept DEF TokensEnd
  <2>4. InFlight'
    BY <2>1, <2>2, RefreshOthers
  <2> QED
    BY <2>2, <2>3, <2>4
<1>2. CASE Refresh!validateSessionRequest(q)
  <2>1. PICK token : token = Refresh!AccessToken(q.role, q.scopes, s, now + q.ttl)
    OBVIOUS
  <2>2. /\ pc[r] = "idle" /\ ~Refresh!Started(s)
        /\ started' = [started EXCEPT ![s] = [at |-> now, ttl |-> q.ttl]]
        /\ work' = [work EXCEPT ![r] = token]
        /\ pc' = [pc EXCEPT ![r] = "refresh"]
        /\ UNCHANGED <<tokens, now, delay>>
    BY <1>2, <2>1 DEF Refresh!IssueSession, Refresh!Goto
  <2>3. q.ttl \in Int /\ now \in Int /\ now <= RefreshTime /\ RefreshTime \in Int
    BY DEF Refresh!RefreshAssumption
  <2>4. RefreshTypes'
    <3>1. [at |-> now, ttl |-> q.ttl] \in [at : Nat, ttl : Int]
      BY <2>3
    <3>2. started' \in [Sessions -> [at : Nat, ttl : Int]]
      BY <2>2, <3>1
    <3> QED
      BY <2>2, <3>2
  <2>5. TokensEnd'
    BY <2>2, OfSessionStays DEF TokensEnd
  <2>6. token.exp = now + q.ttl /\ token.session = s /\ token.use = "access"
    BY <2>1 DEF Refresh!AccessToken
  <2>7. started'[s].at = now /\ started'[s].ttl = q.ttl
    BY <2>2
  <2>8. OfSession(token)'
    BY <2>3, <2>6, <2>7 DEF OfSession, Refresh!Started, Refresh!EndsInTime
  <2>9. work'[r] = token /\ pc'[r] = "refresh" /\ delay'[r] = 0
    BY <2>2
  <2>10. OfSession(work[r])'
    BY <2>8, <2>9 DEF OfSession, Refresh!Started, Refresh!EndsInTime
  <2>11. ASSUME NEW p \in Requests \ {r}, pc[p] \in {"refresh", "reissue"}
         PROVE  OfSession(work[p])' /\ started'[work[p].session] = started[work[p].session]
    <3>1. PICK t : t = work[p] /\ OfSession(t)
      BY <2>11 DEF InFlight
    <3>2. OfSession(t)' /\ started'[t.session] = started[t.session]
      BY <2>2, <3>1, OfSessionStays
    <3>3. work'[p] = t
      BY <2>2, <3>1
    <3> QED
      BY <3>1, <3>2, <3>3 DEF OfSession, Refresh!Started, Refresh!EndsInTime
  <2>12. \A p \in Requests \ {r} : pc'[p] = pc[p] /\ work'[p] = work[p] /\ delay'[p] = delay[p]
    BY <2>2
  <2>13. InFlight'
    BY <2>2, <2>3, <2>6, <2>7, <2>9, <2>10, <2>11, <2>12 DEF InFlight
  <2> QED
    BY <2>4, <2>5, <2>13
<1> QED
  BY <1>1, <1>2

\* ComposeRefresh hands out an access token of the session and its refresh token.
LEMMA RefreshCompose ==
    ASSUME Refresh!RefreshAssumption, RefreshInv, NEW r \in Requests, Refresh!ComposeRefresh(r)
    PROVE  RefreshInv'
<1> USE DEF RefreshInv, RefreshTypes
<1>1. PICK t : t = work[r]
  OBVIOUS
<1>2. PICK u : u = Refresh!RefreshToken(t.session, now + RefreshTTL)
  OBVIOUS
<1>3. /\ pc[r] = "refresh" /\ pc' = [pc EXCEPT ![r] = "reply"]
      /\ tokens' = tokens \union {t, u}
      /\ UNCHANGED <<work, started, now, delay>>
  BY <1>1, <1>2 DEF Refresh!ComposeRefresh, Refresh!Answer, Refresh!Goto
<1>4. OfSession(t) /\ now = started[t.session].at + delay[r]
  BY <1>1, <1>3 DEF InFlight
<1>5. /\ AccessTTL \in Nat \ {0} /\ RefreshTTL \in Nat \ {0} /\ MaxDelay \in Nat
      /\ delay[r] \in Int /\ delay[r] <= MaxDelay /\ now \in Int
  BY DEF Refresh!RefreshAssumption
<1>6. t.session \in Sessions /\ Refresh!Started(t.session) /\ started[t.session].at \in Int
  BY <1>4 DEF OfSession
<1>7. u.use = "refresh" /\ u.session = t.session /\ u.exp = now + RefreshTTL
  BY <1>2 DEF Refresh!RefreshToken
<1>8. OfSession(u)
  BY <1>4, <1>5, <1>6, <1>7 DEF OfSession, Refresh!EndsInTime
<1>9. TokensEnd'
  BY <1>3, <1>4, <1>8, OfSessionKept DEF TokensEnd
<1>10. RefreshTypes' /\ pc'[r] = "reply"
  BY <1>3
<1>11. InFlight'
  BY <1>3, <1>10, RefreshOthers
<1> QED
  BY <1>9, <1>10, <1>11

\* Reissue hands out an access token that ends in time, since the refresh token was still
\* valid when it was verified.
LEMMA RefreshReissue ==
    ASSUME Refresh!RefreshAssumption, RefreshInv, NEW r \in Requests, Refresh!Reissue(r)
    PROVE  RefreshInv'
<1> USE DEF RefreshInv, RefreshTypes
<1>1. PICK t : t = work[r]
  OBVIOUS
<1>2. PICK u : u = Refresh!AccessToken("customer", {"profile:read"}, t.session, now + AccessTTL)
  OBVIOUS
<1>3. /\ pc[r] = "reissue" /\ pc' = [pc EXCEPT ![r] = "reply"]
      /\ tokens' = tokens \union {u}
      /\ UNCHANGED <<work, started, now, delay>>
  BY <1>1, <1>2 DEF Refresh!Reissue, Refresh!Answer, Refresh!Goto
<1>4. OfSession(t) /\ t.use = "refresh" /\ now < t.exp + delay[r]
  BY <1>1, <1>3 DEF InFlight
<1>5. /\ AccessTTL \in Nat \ {0} /\ RefreshTTL \in Nat \ {0} /\ MaxDelay \in Nat
      /\ delay[r] \in Int /\ delay[r] <= MaxDelay /\ now \in Int
  BY DEF Refresh!RefreshAssumption
<1>6. /\ t.session \in Sessions /\ Refresh!Started(t.session) /\ started[t.session].at \in Int
      /\ t.exp \in Int /\ t.exp <= started[t.session].at + RefreshTTL + MaxDelay
  BY <1>4 DEF OfSession
<1>7. u.use = "access" /\ u.session = t.session /\ u.exp = now + AccessTTL
  BY <1>2 DEF Refresh!AccessToken
<1>8. OfSession(u)
  BY <1>4, <1>5, <1>6, <1>7 DEF OfSession, Refresh!EndsInTime
<1>9. TokensEnd'
  BY <1>3, <1>8, OfSessionKept DEF TokensEnd
<1>10. RefreshTypes' /\ pc'[r] = "reply"
  BY <1>3
<1>11. InFlight'
  BY <1>3, <1>10, RefreshOthers
<1> QED
  BY <1>9, <1>10, <1>11

\* RefreshAccess verifies a token at a moment at which it has not expired.
LEMMA RefreshVerify ==
    ASSUME Refresh!RefreshAssumption, RefreshInv, NEW r \in Requests, NEW t \in tokens,
           Refresh!RefreshAccess(r, t)
    PROVE  RefreshInv'
<1> USE DEF RefreshInv, RefreshTypes
<1>1. /\ pc[r] = "idle"
      /\ work' = [work EXCEPT ![r] = t]
      /\ UNCHANGED <<tokens, started, now, delay>>
  BY DEF Refresh!RefreshAccess
<1>2. \/ pc' = [pc EXCEPT ![r] = "reply"]
      \/ pc' = [pc EXCEPT ![r] = "reissue"] /\ now < t.exp /\ t.use = "refresh"
  BY DEF Refresh!RefreshAccess, Refresh!Answer, Refresh!Goto, Refresh!parseToken,
         Refresh!MeetsRefreshContract
<1>3. RefreshTypes'
  BY <1>1, <1>2
<1>4. TokensEnd'
  BY <1>1, OfSessionKept DEF TokensEnd
<1>5. \A q \in Requests \ {r} : pc'[q] = pc[q] /\ work'[q] = work[q]
  BY <1>1, <1>2
<1>6. CASE pc' = [pc EXCEPT ![r] = "reply"]
  <2>1. pc'[r] = "reply"
    BY <1>6
  <2>2. InFlight'
    BY <1>1, <1>5, <2>1, RefreshOthers
  <2> QED
    BY <1>3, <1>4, <2>2
<1>7. CASE pc' = [pc EXCEPT ![r] = "reissue"] /\ now < t.exp /\ t.use = "refresh"
  <2>1. pc'[r] = "reissue" /\ work'[r] = t /\ delay'[r] = 0
    BY <1>1, <1>7
  <2>2. OfSession(t) /\ t.exp \in Int
    BY DEF TokensEnd, OfSession
  <2>3. OfSession(work[r])'
    BY <1>1, <2>1, <2>2 DEF OfSession, Refresh!Started, Refresh!EndsInTime
  <2>4. now' < work'[r].exp + delay'[r]
    BY <1>1, <1>7, <2>1, <2>2
  <2>5. \A q \in Requests \ {r} : OfSession(work[q]) => OfSession(work[q])'
    BY <1>1, <1>5 DEF OfSession, Refresh!Started, Refresh!EndsInTime
  <2>6. InFlight'
    BY <1>1, <1>5, <1>7, <2>1, <2>3, <2>4, <2>5 DEF InFlight
  <2> QED
    BY <1>3, <1>4, <2>6
<1> QED
  BY <1>2, <1>6, <1>7

\* One step per action; those that only answer leave tokens and sessions alone.
LEMMA RefreshStep ==
    Refresh!RefreshAssumption /\ RefreshInv /\ [Refresh!Next]_(Refresh!vars) => RefreshInv'
<1> SUFFICES ASSUME Refresh!RefreshAssumption, RefreshInv, [Refresh!Next]_(Refresh!vars)
             PROVE  RefreshInv'
  OBVIOUS
<1>1. ASSUME NEW r \in Requests, pc'[r] \in {"idle", "reply"},
             UNCHANGED <<tokens, started, now>>,
             pc' = [pc EXCEPT ![r] = pc'[r]],
             \/ delay' = delay /\ pc'[r] = "reply"
             \/ delay' = [delay EXCEPT ![r] = 0],
             \E w : work' = [work EXCEPT ![r] = w]
      PROVE  RefreshInv'
  <2>1. RefreshTypes'
    BY <1>1 DEF RefreshInv, RefreshTypes, Refresh!RefreshAssumption
  <2>2. TokensEnd'
    BY <1>1, OfSessionKept DEF RefreshInv, TokensEnd
  <2>3. \A q \in Requests \ {r} : pc'[q] = pc[q] /\ work'[q] = work[q] /\ delay'[q] = delay[q]
    BY <1>1 DEF RefreshInv, RefreshTypes
  <2>4. \A q \in Requests \ {r} : OfSession(work[q]) => OfSession(work[q])'
    BY <1>1, <2>3 DEF OfSession, Refresh!Started, Refresh!EndsInTime
  <2>5. InFlight'
    BY <1>1, <2>3, <2>4 DEF RefreshInv, InFlight
  <2> QED
    BY <2>1, <2>2, <2>5 DEF RefreshInv
<1>2. ASSUME NEW r \in Requests, NEW t \in tokens, Refresh!ValidateAccess(r, t)
      PROVE  RefreshInv'
  BY <1>1, <1>2 DEF Refresh!ValidateAccess, Refresh!Answer, Refresh!Goto, RefreshInv, RefreshTypes
<1>fails. ASSUME NEW r \in Requests, NEW code, Refresh!Answer(r, code),
                 UNCHANGED <<work, tokens, started, now, delay>>
          PROVE  RefreshInv'
  <2>1. /\ pc' = [pc EXCEPT ![r] = "reply"] /\ work' = [work EXCEPT ![r] = work[r]]
        /\ delay' = delay /\ UNCHANGED <<tokens, started, now>>
    BY <1>fails DEF Refresh!Answer, Refresh!Goto, RefreshInv, RefreshTypes
  <2>2. pc'[r] = "reply" /\ pc' = [pc EXCEPT ![r] = pc'[r]]
    BY <2>1 DEF RefreshInv, RefreshTypes
  <2> QED
    BY <1>1, <2>1, <2>2
<1>3. ASSUME NEW r \in Requests, NEW code, Refresh!Refused(r, code)
      PROVE  RefreshInv'
  BY <1>3, <1>fails DEF Refresh!Refused
<1>4. ASSUME NEW r \in Requests, Refresh!NextIDFails(r)
      PROVE  RefreshInv'
  BY <1>4, <1>fails DEF Refresh!NextIDFails
<1>5. ASSUME NEW r \in Requests, Refresh!Reply(r)
      PROVE  RefreshInv'
  BY <1>1, <1>5 DEF Refresh!Reply, Refresh!Goto, RefreshInv, RefreshTypes
<1>6. CASE UNCHANGED Refresh!vars
  <2>1. UNCHANGED <<pc, work, tokens, started, now, delay>>
    BY <1>6 DEF Refresh!vars
  <2>2. \A t : OfSession(t) => OfSession(t)'
    BY <2>1, OfSessionKept
  <2>3. \A q \in Requests : OfSession(work[q]) => OfSession(work[q])'
    BY <2>1 DEF OfSession, Refresh!Started, Refresh!EndsInTime
  <2> QED
    BY <2>1, <2>2, <2>3 DEF RefreshInv, RefreshTypes, TokensEnd, InFlight
<1> QED
  BY <1>2, <1>3, <1>4, <1>5, <1>6, RefreshTick, RefreshIssue, RefreshCompose, RefreshReissue,
     RefreshVerify
  DEF Refresh!Next

LEMMA RefreshBounds == RefreshInv => Refresh!SessionsEnd
BY DEF RefreshInv, TokensEnd, OfSession, Refresh!SessionsEnd

\* For any lifetimes, delays and number of requests, no sequence of refreshes keeps a
\* session alive beyond its refresh token and one access token after it
\* (IssueSession, RefreshAccess).
THEOREM SessionsComeToAnEnd == Refresh!RefreshAssumption /\ Refresh!Spec => []Refresh!SessionsEnd
<1> SUFFICES ASSUME Refresh!RefreshAssumption
             PROVE  Refresh!Spec => []Refresh!SessionsEnd
  OBVIOUS
<1>1. Refresh!Init => RefreshInv
  BY RefreshBegins
<1>2. RefreshInv /\ [Refresh!Next]_(Refresh!vars) => RefreshInv'
  BY RefreshStep
<1> QED
  BY <1>1, <1>2, RefreshBounds, PTL DEF Refresh!Spec

--------------------------------------------------------------------------------
(* The catalog items in DynamoDB.                                            *)

CatalogTypes ==
    /\ pc \in [Requests -> {"idle", "call", "reply"}]
    /\ DOMAIN call = Requests
    /\ DOMAIN seen = Requests
    /\ DOMAIN outcome = Requests
    /\ DOMAIN table = SKUs
    /\ log \in [SKUs -> Seq(Requests)]

\* A request on its way has a call that was validated and no answer yet.
CatalogCallsFit ==
    \A r \in Requests :
        /\ pc[r] = "call" =>
              call[r] \in Catalog!Calls(r) /\ Catalog!validateItem(call[r]) /\ outcome[r] = "none"
        /\ pc[r] = "idle" => outcome[r] = "none"

\* An item has one version for every name it was given, and the last of them.
VersionsAreLogged ==
    \A k \in SKUs :
        /\ table[k].version = Len(log[k])
        /\ log[k] # <<>> => table[k].name = log[k][Len(log[k])]

\* The answer of a write names a version in the log, and so does every item of a query.
WriteIsLogged(r) ==
    call[r].op \in {"create", "update"} =>
        /\ call[r].sku \in SKUs
        /\ call[r].expected \in Nat
        /\ call[r].expected + 1 <= Len(log[call[r].sku])
        /\ log[call[r].sku][call[r].expected + 1] = r

ItemsAreLogged(r) ==
    \A item \in seen[r] :
        /\ item.sku \in SKUs
        /\ item.version \in 1 .. Len(log[item.sku])
        /\ log[item.sku][item.version] = item.name

AnswersAreLogged ==
    \A r \in Requests : outcome[r] = "ok" => WriteIsLogged(r) /\ ItemsAreLogged(r)

CatalogInv == CatalogTypes /\ CatalogCallsFit /\ VersionsAreLogged /\ AnswersAreLogged

LEMMA CatalogBegins == Catalog!CatalogAssumption /\ Catalog!Init => CatalogInv
BY DEF Catalog!Init, Catalog!NoCall, Catalog!NoItem, CatalogInv, CatalogTypes, CatalogCallsFit,
       VersionsAreLogged, AnswersAreLogged, WriteIsLogged, ItemsAreLogged

\* What a conditional write leaves of the log, and what it adds.
LogGrows ==
    \A k \in SKUs : /\ Len(log[k]) <= Len(log'[k])
                    /\ \A i \in 1 .. Len(log[k]) : log'[k][i] = log[k][i]

LEMMA CatalogWrite ==
    ASSUME Catalog!CatalogAssumption, CatalogInv, NEW r \in Requests, NEW c \in Catalog!Calls(r),
           Catalog!validateItem(c), c.op \in {"create", "update"},
           Catalog!ConditionHolds(c), Catalog!Store(c)
    PROVE  /\ DOMAIN table' = SKUs /\ log' \in [SKUs -> Seq(Requests)]
           /\ VersionsAreLogged' /\ LogGrows
           /\ c.sku \in SKUs /\ c.expected \in Nat /\ c.name = r
           /\ c.expected + 1 = Len(log'[c.sku])
           /\ log'[c.sku][c.expected + 1] = r
<1> USE DEF CatalogInv, CatalogTypes, VersionsAreLogged
<1>1. c.sku \in SKUs /\ c.expected \in Nat /\ c.name = r /\ (c.op = "create" => c.expected = 0)
  BY DEF Catalog!Calls, Catalog!validateItem, Catalog!CatalogAssumption
<1>2. PICK k \in SKUs : k = c.sku
  BY <1>1
<1>3. /\ log' = [log EXCEPT ![k] = Append(@, r)]
      /\ table' = [table EXCEPT ![k] = [name |-> r, version |-> c.expected + 1]]
  BY <1>1, <1>2 DEF Catalog!Store, Catalog!encodeItem
<1>4. log[k] \in Seq(Requests) /\ Len(log[k]) \in Nat /\ table[k].version = Len(log[k])
  BY <1>2
<1>5. c.expected = Len(log[k])
  BY <1>1, <1>2, <1>4 DEF Catalog!ConditionHolds, Catalog!Exists
<1>6. /\ Append(log[k], r) \in Seq(Requests)
      /\ Len(Append(log[k], r)) = Len(log[k]) + 1
      /\ Append(log[k], r)[Len(log[k]) + 1] = r
      /\ \A i \in 1 .. Len(log[k]) : Append(log[k], r)[i] = log[k][i]
  BY <1>4
<1>7. PICK s : s = Append(log[k], r)
  OBVIOUS
<1>8. log'[k] = s /\ (\A j \in SKUs : j # k => log'[j] = log[j]) /\ log' \in [SKUs -> Seq(Requests)]
  BY <1>3, <1>6, <1>7
<1>9. /\ table'[k].version = Len(log[k]) + 1 /\ table'[k].name = r /\ DOMAIN table' = SKUs
      /\ \A j \in SKUs : j # k => table'[j] = table[j]
  BY <1>3, <1>5
<1>10. VersionsAreLogged'
  <2> SUFFICES ASSUME NEW j \in SKUs
               PROVE  /\ table'[j].version = Len(log'[j])
                      /\ log'[j] # <<>> => table'[j].name = log'[j][Len(log'[j])]
    OBVIOUS
  <2> QED
    BY <1>6, <1>7, <1>8, <1>9
<1>11. LogGrows
  <2> SUFFICES ASSUME NEW j \in SKUs
               PROVE  /\ Len(log[j]) <= Len(log'[j])
                      /\ \A i \in 1 .. Len(log[j]) : log'[j][i] = log[j][i]
    BY DEF LogGrows
  <2>1. CASE j = k
    BY <2>1, <1>4, <1>6, <1>7, <1>8
  <2>2. CASE j # k
    BY <2>2, <1>8
  <2> QED
    BY <2>1, <2>2
<1> QED
  BY <1>1, <1>2, <1>5, <1>6, <1>7, <1>8, <1>9, <1>10, <1>11

\* What was said about the log stays true of a longer one.
LEMMA LoggedStays ==
    ASSUME CatalogInv, LogGrows, NEW q \in Requests, outcome[q] = "ok",
           call'[q] = call[q], seen'[q] = seen[q]
    PROVE  WriteIsLogged(q)' /\ ItemsAreLogged(q)'
<1> USE DEF CatalogInv, CatalogTypes, AnswersAreLogged, LogGrows
<1>1. WriteIsLogged(q) /\ ItemsAreLogged(q) /\ \A k \in SKUs : Len(log[k]) \in Nat
  OBVIOUS
<1>2. WriteIsLogged(q)'
  <2> SUFFICES ASSUME call[q].op \in {"create", "update"}
               PROVE  /\ call[q].sku \in SKUs
                      /\ call[q].expected \in Nat
                      /\ call[q].expected + 1 <= Len(log'[call[q].sku])
                      /\ log'[call[q].sku][call[q].expected + 1] = q
    BY DEF WriteIsLogged
  <2>1. PICK k \in SKUs, n \in Nat : k = call[q].sku /\ n = call[q].expected
    BY <1>1 DEF WriteIsLogged
  <2>2. n + 1 \in 1 .. Len(log[k]) /\ log[k][n + 1] = q
    BY <1>1, <2>1 DEF WriteIsLogged
  <2>3. Len(log[k]) <= Len(log'[k]) /\ log'[k][n + 1] = log[k][n + 1] /\ Len(log'[k]) >= n + 1
    BY <1>1, <2>2
  <2> QED
    BY <2>1, <2>2, <2>3
<1>3. ItemsAreLogged(q)'
  <2> SUFFICES ASSUME NEW item \in seen[q]
               PROVE  /\ item.sku \in SKUs
                      /\ item.version \in 1 .. Len(log'[item.sku])
                      /\ log'[item.sku][item.version] = item.name
    BY DEF ItemsAreLogged
  <2>1. PICK k \in SKUs : k = item.sku
    BY <1>1 DEF ItemsAreLogged
  <2>2. item.version \in 1 .. Len(log[k]) /\ log[k][item.version] = item.name
    BY <1>1, <2>1 DEF ItemsAreLogged
  <2> QED
    BY <1>1, <2>1, <2>2
<1> QED
  BY <1>2, <1>3

\* An answer to r, with a log that has grown at most.
LEMMA CatalogAnswer ==
    ASSUME CatalogInv, NEW r \in Requests, NEW code, NEW found, code # "none",
           UNCHANGED call, pc' = [pc EXCEPT ![r] = "reply"],
           outcome' = [outcome EXCEPT ![r] = code], seen' = [seen EXCEPT ![r] = found],
           DOMAIN table' = SKUs, log' \in [SKUs -> Seq(Requests)], VersionsAreLogged', LogGrows,
           code = "ok" => WriteIsLogged(r)' /\ ItemsAreLogged(r)'
    PROVE  CatalogInv'
<1>1. CatalogTypes' /\ CatalogCallsFit'
  BY DEF CatalogInv, CatalogTypes, CatalogCallsFit
<1>2. AnswersAreLogged'
  <2> SUFFICES ASSUME NEW q \in Requests, outcome'[q] = "ok"
               PROVE  WriteIsLogged(q)' /\ ItemsAreLogged(q)'
    BY DEF AnswersAreLogged
  <2>1. CASE q = r
    BY <2>1 DEF CatalogInv, CatalogTypes
  <2>2. CASE q # r
    <3>1. outcome[q] = "ok" /\ call'[q] = call[q] /\ seen'[q] = seen[q]
      BY <2>2 DEF CatalogInv, CatalogTypes
    <3> QED
      BY <3>1, LoggedStays
  <2> QED
    BY <2>1, <2>2
<1> QED
  BY <1>1, <1>2 DEF CatalogInv

LEMMA SameLog ==
    ASSUME CatalogInv, UNCHANGED <<table, log>>
    PROVE  /\ DOMAIN table' = SKUs /\ log' \in [SKUs -> Seq(Requests)]
           /\ VersionsAreLogged' /\ LogGrows
BY DEF CatalogInv, CatalogTypes, VersionsAreLogged, LogGrows

LEMMA CatalogWriteStep ==
    ASSUME Catalog!CatalogAssumption, CatalogInv, NEW r \in Requests,
           Catalog!CreateIfAbsent(r) \/ Catalog!UpdateName(r)
    PROVE  CatalogInv'
<1>1. PICK c : c = call[r]
  OBVIOUS
<1>2. /\ c \in Catalog!Calls(r) /\ Catalog!validateItem(c) /\ c.op \in {"create", "update"}
      /\ UNCHANGED call
  BY <1>1 DEF CatalogInv, CatalogCallsFit, Catalog!CreateIfAbsent, Catalog!UpdateName
<1>3. CASE Catalog!ConditionHolds(c)
  <2>1. PICK found : /\ \A item \in found : /\ item.sku = c.sku /\ item.name = c.name
                                            /\ item.version = c.expected + 1
                     /\ Catalog!Store(c) /\ Catalog!Answer(r, "ok", found)
    <3>1. CASE Catalog!CreateIfAbsent(r)
      <4> WITNESS {}
      <4> QED
        BY <1>1, <1>3, <3>1 DEF Catalog!CreateIfAbsent
    <3>2. CASE Catalog!UpdateName(r)
      <4> WITNESS {[sku |-> c.sku, name |-> c.name, version |-> c.expected + 1]}
      <4> QED
        BY <1>1, <1>3, <3>2 DEF Catalog!UpdateName
    <3> QED
      BY <3>1, <3>2
  <2>2. /\ DOMAIN table' = SKUs /\ log' \in [SKUs -> Seq(Requests)]
        /\ VersionsAreLogged' /\ LogGrows
        /\ c.sku \in SKUs /\ c.expected \in Nat /\ c.name = r
        /\ c.expected + 1 = Len(log'[c.sku])
        /\ log'[c.sku][c.expected + 1] = r
    BY <1>2, <1>3, <2>1, CatalogWrite
  <2>3. /\ pc' = [pc EXCEPT ![r] = "reply"] /\ outcome' = [outcome EXCEPT ![r] = "ok"]
        /\ seen' = [seen EXCEPT ![r] = found]
    BY <2>1 DEF Catalog!Answer, Catalog!Goto
  <2>4. WriteIsLogged(r)'
    BY <1>1, <1>2, <2>2 DEF WriteIsLogged
  <2>5. ItemsAreLogged(r)'
    BY <2>1, <2>2, <2>3 DEF ItemsAreLogged, CatalogInv, CatalogTypes
  <2> QED
    BY <1>2, <2>2, <2>3, <2>4, <2>5, CatalogAnswer
<1>4. CASE ~Catalog!ConditionHolds(c)
  <2>1. Catalog!Answer(r, "conditional_conflict", {}) /\ UNCHANGED <<table, log>>
    BY <1>1, <1>4 DEF Catalog!CreateIfAbsent, Catalog!UpdateName
  <2>2. /\ pc' = [pc EXCEPT ![r] = "reply"]
        /\ outcome' = [outcome EXCEPT ![r] = "conditional_conflict"]
        /\ seen' = [seen EXCEPT ![r] = {}]
    BY <2>1 DEF Catalog!Answer, Catalog!Goto
  <2> QED
    BY <1>2, <2>1, <2>2, SameLog, CatalogAnswer
<1> QED
  BY <1>3, <1>4

LEMMA CatalogFails ==
    ASSUME Catalog!CatalogAssumption, CatalogInv, NEW r \in Requests, Catalog!CallFails(r)
    PROVE  CatalogInv'
<1>1. PICK code : code \in {"context_error", "client_error"} /\ Catalog!Answer(r, code, {})
  BY DEF Catalog!CallFails
<1>2. /\ pc' = [pc EXCEPT ![r] = "reply"] /\ outcome' = [outcome EXCEPT ![r] = code]
      /\ seen' = [seen EXCEPT ![r] = {}] /\ UNCHANGED call
  BY <1>1 DEF Catalog!Answer, Catalog!Goto, Catalog!CallFails
<1>3. /\ DOMAIN table' = SKUs /\ log' \in [SKUs -> Seq(Requests)]
      /\ VersionsAreLogged' /\ LogGrows
  <2>1. CASE UNCHANGED <<table, log>>
    BY <2>1, SameLog
  <2>2. CASE /\ call[r].op \in {"create", "update"} /\ Catalog!ConditionHolds(call[r])
             /\ Catalog!Store(call[r])
    BY <2>2, CatalogWrite DEF CatalogInv, CatalogCallsFit, Catalog!CallFails
  <2> QED
    BY <2>1, <2>2 DEF Catalog!CallFails
<1> QED
  BY <1>1, <1>2, <1>3, CatalogAnswer

LEMMA CatalogQuery ==
    ASSUME CatalogInv, NEW r \in Requests, Catalog!QueryTenant(r)
    PROVE  CatalogInv'
<1>1. PICK found : found = {Catalog!decodeItem(k) : k \in Catalog!FirstPage}
  OBVIOUS
<1>2. /\ pc' = [pc EXCEPT ![r] = "reply"] /\ outcome' = [outcome EXCEPT ![r] = "ok"]
      /\ seen' = [seen EXCEPT ![r] = found] /\ UNCHANGED <<call, table, log>>
      /\ call[r].op = "query"
  BY <1>1 DEF Catalog!QueryTenant, Catalog!Answer, Catalog!Goto
<1>3. WriteIsLogged(r)'
  BY <1>2 DEF WriteIsLogged
<1>4. ItemsAreLogged(r)'
  <2> SUFFICES ASSUME NEW item \in found
               PROVE  /\ item.sku \in SKUs
                      /\ item.version \in 1 .. Len(log[item.sku])
                      /\ log[item.sku][item.version] = item.name
    BY <1>2 DEF ItemsAreLogged, CatalogInv, CatalogTypes
  <2>1. PICK k \in SKUs : table[k].version > 0 /\ item = Catalog!decodeItem(k)
    BY <1>1 DEF Catalog!FirstPage, Catalog!Exists
  <2>2. /\ item.sku = k /\ item.version = table[k].version /\ item.name = table[k].name
        /\ Len(log[k]) \in Nat /\ table[k].version = Len(log[k])
    BY <2>1 DEF Catalog!decodeItem, CatalogInv, CatalogTypes, VersionsAreLogged
  <2>3. log[k] # <<>>
    BY <2>1, <2>2
  <2> QED
    BY <2>1, <2>2, <2>3 DEF CatalogInv, VersionsAreLogged
<1> QED
  BY <1>2, <1>3, <1>4, SameLog, CatalogAnswer

LEMMA CatalogStep ==
    Catalog!CatalogAssumption /\ CatalogInv /\ [Catalog!Next]_(Catalog!vars) => CatalogInv'
<1> SUFFICES ASSUME Catalog!CatalogAssumption, CatalogInv, [Catalog!Next]_(Catalog!vars)
             PROVE  CatalogInv'
  OBVIOUS
<1>1. ASSUME NEW r \in Requests, NEW c \in Catalog!Calls(r), Catalog!Arrive(r, c)
      PROVE  CatalogInv'
  <2>1. /\ pc[r] = "idle" /\ call' = [call EXCEPT ![r] = c] /\ UNCHANGED <<table, log>>
    BY <1>1 DEF Catalog!Arrive
  <2>2. \/ Catalog!validateItem(c) /\ pc' = [pc EXCEPT ![r] = "call"] /\ UNCHANGED <<seen, outcome>>
        \/ /\ pc' = [pc EXCEPT ![r] = "reply"] /\ outcome' = [outcome EXCEPT ![r] = "invalid_item"]
           /\ seen' = [seen EXCEPT ![r] = {}]
    BY <1>1 DEF Catalog!Arrive, Catalog!Answer, Catalog!Goto
  <2>3. CatalogTypes' /\ CatalogCallsFit' /\ VersionsAreLogged'
    BY <2>1, <2>2 DEF CatalogInv, CatalogTypes, CatalogCallsFit, VersionsAreLogged
  <2>4. ASSUME NEW q \in Requests, outcome'[q] = "ok"
        PROVE  WriteIsLogged(q)' /\ ItemsAreLogged(q)'
    <3>1. q # r /\ outcome[q] = "ok" /\ call'[q] = call[q] /\ seen'[q] = seen[q]
      BY <2>1, <2>2, <2>4 DEF CatalogInv, CatalogTypes, CatalogCallsFit
    <3> QED
      BY <2>1, <3>1, SameLog, LoggedStays
  <2> QED
    BY <2>3, <2>4 DEF CatalogInv, AnswersAreLogged
<1>2. ASSUME NEW r \in Requests, Catalog!Reply(r)
      PROVE  CatalogInv'
  <2>1. /\ pc' = [pc EXCEPT ![r] = "idle"] /\ call' = [call EXCEPT ![r] = Catalog!NoCall]
        /\ seen' = [seen EXCEPT ![r] = {}] /\ outcome' = [outcome EXCEPT ![r] = "none"]
        /\ UNCHANGED <<table, log>>
    BY <1>2 DEF Catalog!Reply, Catalog!Goto
  <2>2. CatalogTypes' /\ CatalogCallsFit' /\ VersionsAreLogged'
    BY <2>1 DEF CatalogInv, CatalogTypes, CatalogCallsFit, VersionsAreLogged
  <2>3. ASSUME NEW q \in Requests, outcome'[q] = "ok"
        PROVE  WriteIsLogged(q)' /\ ItemsAreLogged(q)'
    <3>1. q # r /\ outcome[q] = "ok" /\ call'[q] = call[q] /\ seen'[q] = seen[q]
      BY <2>1, <2>3 DEF CatalogInv, CatalogTypes
    <3> QED
      BY <2>1, <3>1, SameLog, LoggedStays
  <2> QED
    BY <2>2, <2>3 DEF CatalogInv, AnswersAreLogged
<1>3. ASSUME UNCHANGED <<pc, call, seen, outcome, table, log>>
      PROVE  CatalogInv'
  BY <1>3 DEF CatalogInv, CatalogTypes, CatalogCallsFit, VersionsAreLogged, AnswersAreLogged,
     WriteIsLogged, ItemsAreLogged
<1>4. CASE UNCHANGED Catalog!vars
  BY <1>3, <1>4 DEF Catalog!vars, Catalog!requestVars
<1>5. ASSUME NEW r \in Requests, Catalog!Expire(r)
      PROVE  CatalogInv'
  BY <1>3, <1>5 DEF Catalog!Expire
<1> QED
  BY <1>1, <1>2, <1>4, <1>5, CatalogWriteStep, CatalogFails, CatalogQuery DEF Catalog!Next

LEMMA CatalogHolds == CatalogInv => Catalog!NoLostRename /\ Catalog!QueryShowsStored
BY DEF CatalogInv, CatalogTypes, VersionsAreLogged, AnswersAreLogged, WriteIsLogged, ItemsAreLogged,
       Catalog!NoLostRename, Catalog!QueryShowsStored

\* For any callers and items, whatever overlaps and whatever answer is lost: every write
\* that took effect is one version of its item, a caller told of success wrote the
\* version after the one it expected, and a query shows items as they were stored
\* (CreateIfAbsent, UpdateName, QueryTenant).
THEOREM RenamesAreNotLost ==
    Catalog!CatalogAssumption /\ Catalog!Spec =>
        [](Catalog!NoLostRename /\ Catalog!QueryShowsStored)
<1> SUFFICES ASSUME Catalog!CatalogAssumption
             PROVE  Catalog!Spec => [](Catalog!NoLostRename /\ Catalog!QueryShowsStored)
  OBVIOUS
<1>1. Catalog!Init => CatalogInv
  BY CatalogBegins
<1>2. CatalogInv /\ [Catalog!Next]_(Catalog!vars) => CatalogInv'
  BY CatalogStep
<1> QED
  BY <1>1, <1>2, CatalogHolds, PTL DEF Catalog!Spec

--------------------------------------------------------------------------------
(* The transactional outbox command.                                         *)

CommandTypes ==
    /\ pc \in [Requests -> {"down", "order", "event", "commit", "claim", "publish", "store",
                            "verify", "print"}]
    /\ DOMAIN id = Requests
    /\ DOMAIN claim = Requests
    /\ sent \in [Requests -> BOOLEAN]
    /\ rows \subseteq Identities
    /\ stream \in Seq(Command!Commands)

RecordsAreTyped ==
    \A c \in DOMAIN records :
        /\ c \in Command!Commands
        /\ records[c] = [status |-> records[c].status, attempts |-> records[c].attempts]

Inserting(p) == pc[p] \in {"event", "commit"}
Placed(p) == pc[p] \in {"claim", "publish", "store", "verify", "print"}

\* What a process knows at each place of execute: a key it has inserted and not
\* committed is free, an order it goes on with is committed, and a message it was told
\* of is in the stream.
ProcessKnows(p) ==
    /\ pc[p] # "down" => id[p] \in Identities
    /\ Inserting(p) => \A i \in rows : i.order # id[p].order
    /\ pc[p] = "commit" => id[p].command \notin DOMAIN records
    /\ Placed(p) => id[p] \in rows
    /\ pc[p] \in {"publish", "store"} => claim[p] \in DOMAIN records
    /\ pc[p] \notin {"store", "verify", "print"} => sent[p] = FALSE
    /\ pc[p] = "store" /\ sent[p] = TRUE => claim[p] \in Command!InStream
    /\ pc[p] = "print" => id[p].command \in Command!InStream

\* No two open transactions hold the same order id or the same event id.
InsertsDiffer ==
    \A p, q \in Requests : p # q /\ Inserting(p) /\ Inserting(q) =>
        /\ id[p].order # id[q].order
        /\ pc[p] = "commit" /\ pc[q] = "commit" => id[p].command # id[q].command

CommandInv ==
    /\ CommandTypes
    /\ RecordsAreTyped
    /\ \A p \in Requests : ProcessKnows(p)
    /\ InsertsDiffer
    /\ Command!OrdersHaveRecords
    /\ Command!PrintedIsPublished

LEMMA CommandBegins == Command!CommandAssumption /\ Command!Init => CommandInv
BY DEF Command!Init, CommandInv, CommandTypes, RecordsAreTyped, ProcessKnows, Inserting, Placed,
       InsertsDiffer, Command!OrdersHaveRecords, Command!PrintedIsPublished, Command!InStream

\* A process that ends, or goes on, without a change of the tables and the stream.
LEMMA CommandStops ==
    ASSUME CommandInv, NEW p \in Requests, Command!Stop(p),
           UNCHANGED <<rows, records, stream, printed>>
    PROVE  CommandInv'
<1>1. CommandTypes' /\ RecordsAreTyped'
  BY DEF CommandInv, CommandTypes, RecordsAreTyped, Command!Stop, Command!Goto
<1>2. /\ pc'[p] = "down" /\ sent'[p] = FALSE
      /\ \A q \in Requests : q # p =>
            pc'[q] = pc[q] /\ id'[q] = id[q] /\ claim'[q] = claim[q] /\ sent'[q] = sent[q]
  BY DEF CommandInv, CommandTypes, Command!Stop, Command!Goto
<1>3. ASSUME NEW q \in Requests
      PROVE  ProcessKnows(q)'
  <2>1. CASE q = p
    BY <1>2, <2>1 DEF ProcessKnows, Inserting, Placed
  <2>2. CASE q # p
    BY <1>2, <2>2 DEF CommandInv, ProcessKnows, Inserting, Placed, Command!InStream
  <2> QED
    BY <2>1, <2>2
<1>4. InsertsDiffer'
  BY <1>2 DEF CommandInv, InsertsDiffer, Inserting
<1>5. Command!OrdersHaveRecords' /\ Command!PrintedIsPublished'
  BY DEF CommandInv, Command!OrdersHaveRecords, Command!PrintedIsPublished, Command!InStream
<1> QED
  BY <1>1, <1>3, <1>4, <1>5 DEF CommandInv

LEMMA CommandGoes ==
    ASSUME CommandInv, NEW p \in Requests, NEW label,
           label \in {"order", "event", "commit", "claim", "print"},
           pc' = [pc EXCEPT ![p] = label], UNCHANGED <<claim, sent>>,
           \A q \in Requests : q # p => id'[q] = id[q],
           DOMAIN id' = Requests, sent[p] = FALSE \/ label = "print",
           UNCHANGED <<rows, records, stream, printed>>,
           id'[p] \in Identities,
           label \in {"event", "commit"} => \A i \in rows : i.order # id'[p].order,
           label = "commit" => id'[p].command \notin DOMAIN records,
           label \in {"claim", "print"} => id'[p] \in rows,
           label = "print" => id'[p].command \in Command!InStream,
           label \in {"event", "commit"} => \A q \in Requests : q # p /\ Inserting(q) =>
               id[q].order # id'[p].order /\ (label = "commit" /\ pc[q] = "commit" =>
                   id[q].command # id'[p].command)
    PROVE  CommandInv'
<1>1. CommandTypes' /\ RecordsAreTyped'
  BY DEF CommandInv, CommandTypes, RecordsAreTyped
<1>2. pc'[p] = label /\ \A q \in Requests : q # p => pc'[q] = pc[q]
  BY DEF CommandInv, CommandTypes
<1>3. ASSUME NEW q \in Requests
      PROVE  ProcessKnows(q)'
  <2>1. CASE q = p
    BY <1>2, <2>1 DEF ProcessKnows, Inserting, Placed, Command!InStream
  <2>2. CASE q # p
    BY <1>2, <2>2 DEF CommandInv, ProcessKnows, Inserting, Placed, Command!InStream
  <2> QED
    BY <2>1, <2>2
<1>4. InsertsDiffer'
  BY <1>2 DEF CommandInv, InsertsDiffer, Inserting
<1>5. Command!OrdersHaveRecords' /\ Command!PrintedIsPublished'
  BY DEF CommandInv, Command!OrdersHaveRecords, Command!PrintedIsPublished, Command!InStream
<1> QED
  BY <1>1, <1>3, <1>4, <1>5 DEF CommandInv

LEMMA CommandPlaces ==
    ASSUME CommandInv, NEW p \in Requests,
           Command!InsertOrder(p) \/ Command!Enqueue(p) \/ Command!Verify(p)
    PROVE  CommandInv'
<1>1. CASE Command!Stop(p)
  BY <1>1, CommandStops DEF Command!InsertOrder, Command!Enqueue, Command!Verify
<1>2. ASSUME ~Command!Stop(p), Command!InsertOrder(p)
      PROVE  CommandInv'
  <2>1. /\ pc[p] = "order" /\ pc' = [pc EXCEPT ![p] = "event"]
        /\ UNCHANGED <<id, claim, sent, rows, records, stream, printed>>
        /\ \A q \in Requests \ {p} : id[q].order = id[p].order => ~Inserting(q)
        /\ \A i \in rows : i.order # id[p].order
    BY <1>2 DEF Command!InsertOrder, Command!Goto, Inserting
  <2>2. id[p] \in Identities /\ sent[p] = FALSE /\ DOMAIN id = Requests
    BY <2>1 DEF CommandInv, CommandTypes, ProcessKnows
  <2> QED
    BY <2>1, <2>2, CommandGoes
<1>3. ASSUME ~Command!Stop(p), Command!Enqueue(p)
      PROVE  CommandInv'
  <2>1. /\ pc[p] = "event" /\ pc' = [pc EXCEPT ![p] = "commit"]
        /\ UNCHANGED <<id, claim, sent, rows, records, stream, printed>>
        /\ \A q \in Requests \ {p} : id[q].command = id[p].command => pc[q] # "commit"
        /\ id[p].command \notin DOMAIN records
    BY <1>3 DEF Command!Enqueue, Command!Goto
  <2>2. /\ id[p] \in Identities /\ sent[p] = FALSE /\ DOMAIN id = Requests
        /\ \A i \in rows : i.order # id[p].order
        /\ \A q \in Requests : q # p /\ Inserting(q) => id[q].order # id[p].order
    BY <2>1 DEF CommandInv, CommandTypes, ProcessKnows, InsertsDiffer, Inserting
  <2> QED
    BY <2>1, <2>2, CommandGoes
<1>4. ASSUME ~Command!Stop(p), Command!Verify(p)
      PROVE  CommandInv'
  <2>1. /\ pc[p] = "verify" /\ pc' = [pc EXCEPT ![p] = "print"]
        /\ UNCHANGED <<id, claim, sent, rows, records, stream, printed>>
        /\ stream # <<>> /\ stream[Len(stream)] = id[p].command
    BY <1>4 DEF Command!Verify, Command!Goto
  <2>2. id[p] \in Identities /\ id[p] \in rows /\ DOMAIN id = Requests
    BY <2>1 DEF CommandInv, CommandTypes, ProcessKnows, Placed
  <2>3. id[p].command \in Command!InStream
    BY <2>1 DEF CommandInv, CommandTypes, Command!InStream
  <2> QED
    BY <2>1, <2>2, <2>3, CommandGoes
<1> QED
  BY <1>1, <1>2, <1>3, <1>4

LEMMA CommandCommits ==
    ASSUME CommandInv, NEW p \in Requests, Command!Commit(p)
    PROVE  CommandInv'
<1>1. PICK i \in Identities, c \in Command!Commands : i = id[p] /\ c = i.command
  BY DEF CommandInv, ProcessKnows, Command!Commit, Command!Commands
<1>2. PICK fresh : fresh = [status |-> "pending", attempts |-> 0]
  OBVIOUS
<1>3. /\ pc[p] = "commit" /\ rows' = rows \union {i} /\ UNCHANGED <<stream, printed>>
      /\ records' = [d \in DOMAIN records \union {c} |-> IF d = c THEN fresh ELSE records[d]]
  BY <1>1, <1>2 DEF Command!Commit
<1>4. /\ sent[p] = FALSE /\ c \notin DOMAIN records
      /\ sent' \in [Requests -> BOOLEAN] /\ sent'[p] = FALSE
      /\ \A q \in Requests : q # p => sent'[q] = sent[q]
      /\ \A j \in rows : j.order # i.order
      /\ \A j \in rows : j.command \in DOMAIN records
  <2>1. /\ sent[p] = FALSE /\ c \notin DOMAIN records
        /\ \A j \in rows : j.order # i.order
        /\ \A j \in rows : j.command \in DOMAIN records
    BY <1>1, <1>3 DEF CommandInv, ProcessKnows, Inserting, Command!OrdersHaveRecords
  <2>2. CASE UNCHANGED sent
    BY <2>1, <2>2 DEF CommandInv, CommandTypes
  <2>3. CASE sent' = [sent EXCEPT ![p] = FALSE]
    BY <2>1, <2>3 DEF CommandInv, CommandTypes
  <2> QED
    BY <2>1, <2>2, <2>3 DEF Command!Commit, Command!Stop
<1>5. /\ \/ pc'[p] = "claim" /\ id'[p] = i
         \/ pc'[p] = "down"
      /\ \A q \in Requests : q # p => pc'[q] = pc[q] /\ id'[q] = id[q] /\ claim'[q] = claim[q]
      /\ DOMAIN id' = Requests /\ DOMAIN claim' = Requests
      /\ pc' \in [Requests -> {"down", "order", "event", "commit", "claim", "publish", "store",
                               "verify", "print"}]
  BY <1>1 DEF Command!Commit, Command!Stop, Command!Goto, CommandInv, CommandTypes
<1>6. CommandTypes'
  BY <1>3, <1>4, <1>5 DEF CommandInv, CommandTypes
<1>7. RecordsAreTyped' /\ DOMAIN records' = DOMAIN records \union {c}
  <2>1. DOMAIN records' = DOMAIN records \union {c}
    BY <1>3
  <2>2. ASSUME NEW d \in DOMAIN records'
        PROVE  /\ d \in Command!Commands
               /\ records'[d] = [status |-> records'[d].status, attempts |-> records'[d].attempts]
    <3>1. CASE d = c
      BY <1>2, <1>3, <3>1
    <3>2. CASE d # c
      BY <1>3, <3>2 DEF CommandInv, RecordsAreTyped
    <3> QED
      BY <3>1, <3>2
  <2> QED
    BY <2>1, <2>2 DEF RecordsAreTyped
<1>8. ASSUME NEW q \in Requests
      PROVE  ProcessKnows(q)'
  <2>1. CASE q = p
    BY <1>3, <1>4, <1>5, <2>1 DEF ProcessKnows, Inserting, Placed
  <2>2. CASE q # p
    <3>1. Inserting(q) => id[q].order # i.order /\ (pc[q] = "commit" => id[q].command # c)
      BY <1>1, <1>3, <2>2 DEF CommandInv, InsertsDiffer, Inserting
    <3> QED
      BY <1>3, <1>4, <1>5, <1>7, <2>2, <3>1
         DEF CommandInv, ProcessKnows, Inserting, Placed, Command!InStream
  <2> QED
    BY <2>1, <2>2
<1>9. InsertsDiffer'
  BY <1>5 DEF CommandInv, InsertsDiffer, Inserting
<1>10. Command!OrdersHaveRecords'
  <2>1. {j.command : j \in rows'} = DOMAIN records'
    BY <1>1, <1>3, <1>7 DEF CommandInv, Command!OrdersHaveRecords
  <2>2. \A j, k \in rows' : (j.order = k.order \/ j.command = k.command) => j = k
    BY <1>1, <1>3, <1>4 DEF CommandInv, Command!OrdersHaveRecords
  <2>3. Command!InStream' \subseteq DOMAIN records'
    BY <1>3, <1>7 DEF CommandInv, Command!OrdersHaveRecords, Command!InStream
  <2>4. \A d \in DOMAIN records' : records'[d].status = "published" => d \in Command!InStream'
    BY <1>2, <1>3 DEF CommandInv, Command!OrdersHaveRecords, Command!InStream
  <2> QED
    BY <2>1, <2>2, <2>3, <2>4 DEF Command!OrdersHaveRecords
<1>11. Command!PrintedIsPublished'
  BY <1>3 DEF CommandInv, Command!PrintedIsPublished, Command!InStream
<1> QED
  BY <1>6, <1>7, <1>8, <1>9, <1>10, <1>11 DEF CommandInv

LEMMA CommandClaims ==
    ASSUME CommandInv, NEW p \in Requests, NEW c \in Command!Commands, Command!Claim(p, c)
    PROVE  CommandInv'
<1>1. /\ pc[p] = "claim" /\ c \in DOMAIN records
      /\ UNCHANGED <<id, sent, rows, stream, printed>>
      /\ pc' = [pc EXCEPT ![p] = "publish"] /\ claim' = [claim EXCEPT ![p] = c]
  BY DEF Command!Claim, Command!Goto
<1>2. PICK n : records' = [records EXCEPT ![c] = [status |-> "claimed", attempts |-> n]]
  BY DEF Command!Claim
<1>3. /\ DOMAIN records' = DOMAIN records
      /\ records'[c] = [status |-> "claimed", attempts |-> n]
      /\ \A d \in DOMAIN records : d # c => records'[d] = records[d]
  BY <1>1, <1>2
<1>4. CommandTypes'
  BY <1>1 DEF CommandInv, CommandTypes
<1>5. RecordsAreTyped'
  <2> SUFFICES ASSUME NEW d \in DOMAIN records
               PROVE  /\ d \in Command!Commands
                      /\ records'[d] = [status |-> records'[d].status,
                                        attempts |-> records'[d].attempts]
    BY <1>3 DEF RecordsAreTyped
  <2>1. CASE d = c
    BY <1>3, <2>1
  <2>2. CASE d # c
    BY <1>3, <2>2 DEF CommandInv, RecordsAreTyped
  <2> QED
    BY <2>1, <2>2
<1>6. ASSUME NEW q \in Requests
      PROVE  ProcessKnows(q)'
  BY <1>1, <1>3 DEF CommandInv, CommandTypes, ProcessKnows, Inserting, Placed, Command!InStream
<1>7. InsertsDiffer'
  BY <1>1 DEF CommandInv, CommandTypes, InsertsDiffer, Inserting
<1>8. Command!OrdersHaveRecords' /\ Command!PrintedIsPublished'
  BY <1>1, <1>3 DEF CommandInv, Command!OrdersHaveRecords, Command!PrintedIsPublished,
     Command!InStream
<1> QED
  BY <1>4, <1>5, <1>6, <1>7, <1>8 DEF CommandInv

LEMMA CommandPublishes ==
    ASSUME CommandInv, NEW p \in Requests, Command!Publish(p)
    PROVE  CommandInv'
<1>1. /\ pc[p] = "publish" /\ UNCHANGED <<id, claim, rows, records, printed>>
      /\ pc' = [pc EXCEPT ![p] = "store"]
  BY DEF Command!Publish, Command!Goto
<1>2. /\ claim[p] \in DOMAIN records /\ claim[p] \in Command!Commands /\ sent[p] = FALSE
      /\ stream \in Seq(Command!Commands)
  BY <1>1 DEF CommandInv, CommandTypes, ProcessKnows, RecordsAreTyped
<1>3. /\ stream' \in Seq(Command!Commands)
      /\ Command!InStream \subseteq Command!InStream'
      /\ Command!InStream' \subseteq Command!InStream \union {claim[p]}
      /\ stream' = Append(stream, claim[p]) => claim[p] \in Command!InStream'
  <2>1. CASE stream' = Append(stream, claim[p])
    <3>1. PICK c \in Command!Commands : c = claim[p]
      BY <1>2
    <3>2. /\ stream' \in Seq(Command!Commands) /\ Len(stream') = Len(stream) + 1
          /\ stream'[Len(stream) + 1] = c /\ Len(stream) \in Nat
          /\ \A k \in 1 .. Len(stream) : stream'[k] = stream[k]
          /\ DOMAIN stream = 1 .. Len(stream) /\ DOMAIN stream' = 1 .. Len(stream) + 1
      BY <1>2, <2>1, <3>1
    <3> HIDE <2>1
    <3> QED
      BY <3>1, <3>2 DEF Command!InStream
  <2>2. CASE UNCHANGED stream
    <3>1. stream' # Append(stream, claim[p])
      BY <1>2, <2>2
    <3> QED
      BY <1>2, <2>2, <3>1 DEF Command!InStream
  <2> QED
    BY <2>1, <2>2 DEF Command!Publish
<1>4. /\ sent' \in [Requests -> BOOLEAN]
      /\ \A q \in Requests : q # p => sent'[q] = sent[q]
      /\ sent'[p] = TRUE => stream' = Append(stream, claim[p])
  BY <1>2 DEF Command!Publish, CommandInv, CommandTypes
<1>5. CommandTypes' /\ RecordsAreTyped'
  BY <1>1, <1>3, <1>4 DEF CommandInv, CommandTypes, RecordsAreTyped
<1>6. ASSUME NEW q \in Requests
      PROVE  ProcessKnows(q)'
  <2>1. CASE q = p
    BY <1>1, <1>2, <1>3, <1>4, <2>1
       DEF CommandInv, CommandTypes, ProcessKnows, Inserting, Placed
  <2>2. CASE q # p
    BY <1>1, <1>3, <1>4, <2>2 DEF CommandInv, CommandTypes, ProcessKnows, Inserting, Placed
  <2> QED
    BY <2>1, <2>2
<1>7. InsertsDiffer'
  BY <1>1 DEF CommandInv, CommandTypes, InsertsDiffer, Inserting
<1>8. Command!OrdersHaveRecords' /\ Command!PrintedIsPublished'
  BY <1>1, <1>2, <1>3 DEF CommandInv, Command!OrdersHaveRecords, Command!PrintedIsPublished
<1> QED
  BY <1>5, <1>6, <1>7, <1>8 DEF CommandInv

\* The relay stores "published" only with the publisher's word for it.
LEMMA CommandStores ==
    ASSUME CommandInv, NEW p \in Requests, Command!StoreResult(p)
    PROVE  CommandInv'
<1>1. PICK c \in DOMAIN records : c = claim[p]
  BY DEF CommandInv, ProcessKnows, Command!StoreResult
<1>2. PICK status : /\ records' = [records EXCEPT ![c].status = status]
                    /\ status = "published" => sent[p] = TRUE
  <2>1. sent[p] \in BOOLEAN
    BY DEF CommandInv, CommandTypes
  <2>2. CASE sent[p] = TRUE
    BY <1>1, <2>2 DEF Command!StoreResult
  <2>3. CASE sent[p] = FALSE
    <3>1. PICK s : s = IF records[c].attempts < MaxAttempts THEN "pending" ELSE "dead_letter"
      OBVIOUS
    <3>2. s # "published"
      BY <3>1
    <3>3. records' = [records EXCEPT ![c].status = s]
      BY <1>1, <2>3, <3>1 DEF Command!StoreResult
    <3> QED
      BY <3>2, <3>3
  <2> QED
    BY <2>1, <2>2, <2>3
<1>3. /\ pc[p] = "store" /\ UNCHANGED <<rows, stream, printed>>
      /\ status = "published" => c \in Command!InStream
  BY <1>1, <1>2 DEF CommandInv, ProcessKnows, Command!StoreResult
<1>4. /\ DOMAIN records' = DOMAIN records
      /\ records'[c] = [status |-> status, attempts |-> records[c].attempts]
      /\ \A d \in DOMAIN records : d # c => records'[d] = records[d]
  <2>1. records[c] = [status |-> records[c].status, attempts |-> records[c].attempts]
    BY DEF CommandInv, RecordsAreTyped
  <2> QED
    BY <1>2, <2>1
<1>5. /\ pc' \in [Requests -> {"down", "order", "event", "commit", "claim", "publish", "store",
                               "verify", "print"}]
      /\ DOMAIN id' = Requests /\ DOMAIN claim' = Requests /\ sent' \in [Requests -> BOOLEAN]
      /\ \A q \in Requests : q # p =>
            pc'[q] = pc[q] /\ id'[q] = id[q] /\ claim'[q] = claim[q] /\ sent'[q] = sent[q]
      /\ \/ pc'[p] = "verify" /\ id'[p] = id[p]
         \/ pc'[p] = "down" /\ sent'[p] = FALSE
  <2>1. sent[p] \in BOOLEAN
    BY DEF CommandInv, CommandTypes
  <2>2. CASE sent[p] = TRUE
    BY <1>1, <2>2 DEF Command!StoreResult, Command!Goto, CommandInv, CommandTypes
  <2>3. CASE sent[p] = FALSE
    <3>1. Command!Stop(p)
      BY <2>3 DEF Command!StoreResult
    <3> QED
      BY <3>1 DEF Command!Stop, Command!Goto, CommandInv, CommandTypes
  <2> QED
    BY <2>1, <2>2, <2>3
<1>6. CommandTypes'
  BY <1>3, <1>5 DEF CommandInv, CommandTypes
<1>7. RecordsAreTyped'
  <2> SUFFICES ASSUME NEW d \in DOMAIN records
               PROVE  /\ d \in Command!Commands
                      /\ records'[d] = [status |-> records'[d].status,
                                        attempts |-> records'[d].attempts]
    BY <1>4 DEF RecordsAreTyped
  <2>1. d \in Command!Commands
    BY DEF CommandInv, RecordsAreTyped
  <2>2. CASE d = c
    BY <1>4, <2>1, <2>2
  <2>3. CASE d # c
    BY <1>4, <2>3 DEF CommandInv, RecordsAreTyped
  <2> QED
    BY <2>2, <2>3
<1>8. ASSUME NEW q \in Requests
      PROVE  ProcessKnows(q)'
  <2>1. CASE q = p
    BY <1>3, <1>5, <2>1 DEF CommandInv, ProcessKnows, Inserting, Placed
  <2>2. CASE q # p
    BY <1>3, <1>4, <1>5, <2>2 DEF CommandInv, ProcessKnows, Inserting, Placed, Command!InStream
  <2> QED
    BY <2>1, <2>2
<1>9. InsertsDiffer'
  BY <1>5 DEF CommandInv, InsertsDiffer, Inserting
<1>10. Command!OrdersHaveRecords' /\ Command!PrintedIsPublished'
  BY <1>3, <1>4 DEF CommandInv, Command!OrdersHaveRecords, Command!PrintedIsPublished,
     Command!InStream
<1> QED
  BY <1>6, <1>7, <1>8, <1>9, <1>10 DEF CommandInv

LEMMA CommandPrints ==
    ASSUME CommandInv, NEW p \in Requests, Command!PrintResult(p)
    PROVE  CommandInv'
<1>1. PICK i : i = id[p]
  OBVIOUS
<1>2. /\ i \in rows /\ i.command \in Command!InStream
      /\ printed' = printed \union {i} /\ UNCHANGED <<rows, records, stream>>
      /\ Command!Stop(p)
  BY <1>1 DEF CommandInv, ProcessKnows, Placed, Command!PrintResult
<1>3. CommandTypes' /\ RecordsAreTyped'
  BY <1>2 DEF CommandInv, CommandTypes, RecordsAreTyped, Command!Stop, Command!Goto
<1>4. /\ pc'[p] = "down" /\ sent'[p] = FALSE
      /\ \A q \in Requests : q # p =>
            pc'[q] = pc[q] /\ id'[q] = id[q] /\ claim'[q] = claim[q] /\ sent'[q] = sent[q]
  BY <1>2 DEF CommandInv, CommandTypes, Command!Stop, Command!Goto
<1>5. ASSUME NEW q \in Requests
      PROVE  ProcessKnows(q)'
  <2>1. CASE q = p
    BY <1>4, <2>1 DEF ProcessKnows, Inserting, Placed
  <2>2. CASE q # p
    BY <1>2, <1>4, <2>2 DEF CommandInv, ProcessKnows, Inserting, Placed, Command!InStream
  <2> QED
    BY <2>1, <2>2
<1>6. InsertsDiffer'
  BY <1>4 DEF CommandInv, InsertsDiffer, Inserting
<1>7. Command!OrdersHaveRecords' /\ Command!PrintedIsPublished'
  BY <1>2 DEF CommandInv, Command!OrdersHaveRecords, Command!PrintedIsPublished, Command!InStream
<1> QED
  BY <1>3, <1>5, <1>6, <1>7 DEF CommandInv

LEMMA CommandStep ==
    CommandInv /\ [Command!Next]_(Command!vars) => CommandInv'
<1> SUFFICES ASSUME CommandInv, [Command!Next]_(Command!vars)
             PROVE  CommandInv'
  OBVIOUS
<1>1. ASSUME NEW p \in Requests, NEW i \in Identities, Command!Start(p, i)
      PROVE  CommandInv'
  <2>1. /\ pc[p] = "down" /\ id' = [id EXCEPT ![p] = i] /\ pc' = [pc EXCEPT ![p] = "order"]
        /\ UNCHANGED <<claim, sent, rows, records, stream, printed>>
    BY <1>1 DEF Command!Start, Command!Goto
  <2>2. /\ sent[p] = FALSE /\ id'[p] = i /\ DOMAIN id' = Requests
        /\ \A q \in Requests : q # p => id'[q] = id[q]
    BY <2>1 DEF CommandInv, CommandTypes, ProcessKnows
  <2> QED
    BY <2>1, <2>2, CommandGoes
<1>2. ASSUME NEW p \in Requests, Command!Interrupted(p) \/ Command!NothingToClaim(p)
      PROVE  CommandInv'
  BY <1>2, CommandStops DEF Command!Interrupted, Command!NothingToClaim
<1>3. CASE UNCHANGED Command!vars
  BY <1>3 DEF Command!vars, Command!procVars, CommandInv, CommandTypes, RecordsAreTyped,
     ProcessKnows, Inserting, Placed, InsertsDiffer, Command!OrdersHaveRecords,
     Command!PrintedIsPublished, Command!InStream
<1> QED
  BY <1>1, <1>2, <1>3, CommandPlaces, CommandCommits, CommandClaims, CommandPublishes,
     CommandStores, CommandPrints
  DEF Command!Next, Command!Advance

\* For any processes and identities, over identity conflicts, ambiguous commits and
\* publishes, kills and takeovers of claims: orders and outbox records pair up one to
\* one, and a printed result stands for a committed order whose own event is in the
\* stream (Place, execute).
THEOREM OutboxIsTransactional ==
    Command!CommandAssumption /\ Command!Spec =>
        [](Command!OrdersHaveRecords /\ Command!PrintedIsPublished)
<1> SUFFICES ASSUME Command!CommandAssumption
             PROVE  Command!Spec => [](Command!OrdersHaveRecords /\ Command!PrintedIsPublished)
  OBVIOUS
<1>1. Command!Init => CommandInv
  BY CommandBegins
<1>2. CommandInv /\ [Command!Next]_(Command!vars) => CommandInv'
  BY CommandStep
<1>3. CommandInv => Command!OrdersHaveRecords /\ Command!PrintedIsPublished
  BY DEF CommandInv
<1> QED
  BY <1>1, <1>2, <1>3, PTL DEF Command!Spec

--------------------------------------------------------------------------------
(* The order history: an audit repository and the service's own map.         *)

Blank == ""   \* the status before an order exists
Entries == [command : Commands, before : History!Statuses \union {Blank}, after : History!Statuses]
Snapshots == [status : History!Statuses \union {Blank}, revision : Nat]

HistoryTypes ==
    /\ pc \in [Requests -> {"idle", "apply", "lock", "append", "commit", "read", "reply"}]
    /\ DOMAIN call = Requests /\ DOMAIN outcome = Requests
    /\ seen \in [Requests -> Snapshots]
    /\ orders \in [Orders -> Snapshots]
    /\ history \in [Orders -> Seq(Entries)]

\* Where a command or a query stands.
CallFits(r) ==
    /\ pc[r] \in {"apply", "lock", "append", "commit"} =>
          call[r].op \in History!Writes /\ call[r].order \in Orders /\ call[r].command \in Commands
    /\ pc[r] = "read" => call[r].op \notin History!Writes /\ call[r].order \in Orders

\* Service.mu: what follows the checks of apply has one command at a time.
MutexIsHeld == \A r \in Requests : pc[r] \in {"append", "commit"} => lock = r

\* A command that passed its checks is new; one that was appended is the newest entry.
CommandStands(r) ==
    LET o == call[r].order IN
    /\ pc[r] = "append" => call[r].command \notin used
    /\ pc[r] = "commit" =>
          /\ Len(history[o]) = orders[o].revision + 1
          /\ history[o][Len(history[o])].after = History!Targets[call[r].op]
          /\ history[o][Len(history[o])].command = call[r].command

\* Without a command between its append and its commit, the map shows the newest entry.
Settled(o) == \A r \in Requests : ~(pc[r] = "commit" /\ call[r].order = o)
MapFollows(o) ==
    Settled(o) =>
        /\ Len(history[o]) = orders[o].revision
        /\ IF orders[o].revision = 0 THEN orders[o].status = Blank
           ELSE history[o][Len(history[o])].after = orders[o].status

EntriesLink(o) ==
    \A i \in 2 .. Len(history[o]) : history[o][i].before = history[o][i - 1].after

\* A recorded command is in the used map, or the one that is being committed.
CommandsAreKnown ==
    \A o \in Orders : \A i \in DOMAIN history[o] :
        \/ history[o][i].command \in used
        \/ \E r \in Requests : pc[r] = "commit" /\ call[r].command = history[o][i].command

AnswerIsRecorded(r) ==
    pc[r] = "reply" =>
        /\ seen[r].revision > 0 =>
              /\ call[r].order \in Orders
              /\ seen[r].revision <= Len(history[call[r].order])
              /\ history[call[r].order][seen[r].revision].after = seen[r].status
        /\ outcome[r] = "ok" /\ call[r].op \in History!Writes =>
              /\ seen[r].revision > 0
              /\ history[call[r].order][seen[r].revision].command = call[r].command

HistoryInv ==
    /\ HistoryTypes /\ MutexIsHeld /\ CommandsAreKnown /\ History!CommandsAreUnique
    /\ \A r \in Requests : CallFits(r) /\ CommandStands(r) /\ AnswerIsRecorded(r)
    /\ \A o \in Orders : MapFollows(o) /\ EntriesLink(o)

LEMMA TargetsAreStatuses ==
    /\ History!Writes = {"create", "confirm", "ship", "cancel"}
    /\ \A op \in History!Writes : History!Targets[op] \in History!Statuses
<1>1. History!Writes = {"create", "confirm", "ship", "cancel"}
  BY DEF History!Writes, History!Targets
<1> QED
  BY <1>1 DEF History!Targets, History!Statuses

LEMMA NothingKnown ==
    /\ History!NoOrder = [status |-> Blank, revision |-> 0]
    /\ History!NoOrder \in Snapshots /\ History!NoOrder.revision = 0
<1>1. History!NoOrder = [status |-> Blank, revision |-> 0]
  BY Zenon DEF History!NoOrder, Blank
<1> QED
  BY <1>1 DEF Snapshots

LEMMA HistoryBegins == History!Init => HistoryInv
<1> SUFFICES ASSUME History!Init
             PROVE  HistoryInv
  OBVIOUS
<1>1. HistoryTypes /\ MutexIsHeld
  BY NothingKnown DEF History!Init, HistoryTypes, MutexIsHeld
<1>2. \A r \in Requests : CallFits(r) /\ CommandStands(r) /\ AnswerIsRecorded(r)
  BY DEF History!Init, CallFits, CommandStands, AnswerIsRecorded
<1>3. \A o \in Orders : history[o] = <<>> /\ orders[o] = [status |-> Blank, revision |-> 0]
  BY NothingKnown DEF History!Init
<1>4. CommandsAreKnown /\ History!CommandsAreUnique
  BY <1>3 DEF CommandsAreKnown, History!CommandsAreUnique
<1>5. \A o \in Orders : MapFollows(o) /\ EntriesLink(o)
  BY <1>3 DEF MapFollows, EntriesLink
<1> QED
  BY <1>1, <1>2, <1>4, <1>5 DEF HistoryInv

\* A request that is not in the mutex changes its own place only.
LEMMA HistoryGoes ==
    ASSUME History!HistoryAssumption, HistoryInv, NEW r \in Requests,
           UNCHANGED <<orders, used, history>>,
           pc[r] # "commit", pc'[r] # "commit",
           pc' \in [Requests -> {"idle", "apply", "lock", "append", "commit", "read", "reply"}],
           DOMAIN call' = Requests, DOMAIN outcome' = Requests, seen' \in [Requests -> Snapshots],
           \A q \in Requests : q # r =>
               /\ pc'[q] = pc[q] /\ call'[q] = call[q]
               /\ outcome'[q] = outcome[q] /\ seen'[q] = seen[q],
           CallFits(r)', CommandStands(r)', AnswerIsRecorded(r)', MutexIsHeld'
    PROVE  HistoryInv'
<1>1. HistoryTypes'
  BY DEF HistoryInv, HistoryTypes
<1>2. ASSUME NEW q \in Requests
      PROVE  (CallFits(q) /\ CommandStands(q) /\ AnswerIsRecorded(q))'
  BY DEF HistoryInv, CallFits, CommandStands, AnswerIsRecorded
<1>3. \A o \in Orders : Settled(o)' <=> Settled(o)
  BY DEF Settled
<1>4. ASSUME NEW o \in Orders
      PROVE  MapFollows(o)' /\ EntriesLink(o)'
  <2>1. MapFollows(o) /\ EntriesLink(o) /\ (Settled(o)' <=> Settled(o))
    BY <1>3 DEF HistoryInv
  <2>2. MapFollows(o)'
    BY <2>1 DEF MapFollows
  <2>3. EntriesLink(o)'
    BY <2>1 DEF EntriesLink
  <2> QED
    BY <2>2, <2>3
<1>5. CommandsAreKnown' /\ History!CommandsAreUnique'
  BY DEF HistoryInv, CommandsAreKnown, History!CommandsAreUnique
<1> QED
  BY <1>1, <1>2, <1>4, <1>5 DEF HistoryInv

\* An answer that tells of nothing, or of what the repository holds.
LEMMA HistoryAnswers ==
    ASSUME History!HistoryAssumption, HistoryInv, NEW r \in Requests, NEW code, NEW order \in Snapshots,
           History!Answer(r, code, order), UNCHANGED <<orders, used, history>>,
           DOMAIN call' = Requests, \A q \in Requests : q # r => call'[q] = call[q],
           pc[r] # "commit", lock' = lock \/ (lock' = Nobody /\ lock = r),
           order.revision > 0 =>
              /\ call'[r].order \in Orders
              /\ order.revision <= Len(history[call'[r].order])
              /\ history[call'[r].order][order.revision].after = order.status,
           code = "ok" => call'[r].op \notin History!Writes
    PROVE  HistoryInv'
<1>1. /\ pc' = [pc EXCEPT ![r] = "reply"] /\ outcome' = [outcome EXCEPT ![r] = code]
      /\ seen' = [seen EXCEPT ![r] = order]
  BY DEF History!Answer, History!Goto
<1>2. /\ pc'[r] = "reply" /\ outcome'[r] = code /\ seen'[r] = order
      /\ pc' \in [Requests -> {"idle", "apply", "lock", "append", "commit", "read", "reply"}]
      /\ DOMAIN outcome' = Requests /\ seen' \in [Requests -> Snapshots]
      /\ \A q \in Requests : q # r =>
            pc'[q] = pc[q] /\ outcome'[q] = outcome[q] /\ seen'[q] = seen[q]
  BY <1>1 DEF HistoryInv, HistoryTypes
<1>3. CallFits(r)' /\ CommandStands(r)' /\ AnswerIsRecorded(r)'
  BY <1>2 DEF CallFits, CommandStands, AnswerIsRecorded
<1>4. MutexIsHeld'
  BY <1>2 DEF HistoryInv, MutexIsHeld, History!HistoryAssumption
<1> QED
  BY <1>2, <1>3, <1>4, HistoryGoes

LEMMA HistoryMoves ==
    ASSUME History!HistoryAssumption, HistoryInv, NEW r \in Requests,
           \/ \E c \in History!Calls : History!Arrive(r, c)
           \/ History!Enter(r) \/ History!Lock(r) \/ History!Reply(r)
    PROVE  HistoryInv'
<1>0. History!NoOrder \in Snapshots /\ History!NoOrder.revision = 0
  BY NothingKnown
<1>1. ASSUME NEW c \in History!Calls, History!Arrive(r, c)
      PROVE  HistoryInv'
  <2>1. /\ pc[r] = "idle" /\ call' = [call EXCEPT ![r] = c]
        /\ UNCHANGED <<expired, lock, orders, used, history>>
    BY <1>1 DEF History!Arrive
  <2>2. /\ DOMAIN call' = Requests /\ call'[r] = c
        /\ \A q \in Requests : q # r => call'[q] = call[q]
    BY <2>1 DEF HistoryInv, HistoryTypes
  <2>3. CASE c.order = "invalid"
    <3>1. PICK code : code # "ok" /\ History!Answer(r, code, History!NoOrder)
      BY <1>1, <2>3 DEF History!Arrive, History!Fail
    <3> QED
      BY <1>0, <2>1, <2>2, <3>1, HistoryAnswers
  <2>4. CASE c.order # "invalid"
    <3>1. /\ c.order \in Orders
          /\ c.op \in History!Writes => c.command \in Commands
      BY <2>4, TargetsAreStatuses DEF History!Calls
    <3>2. /\ UNCHANGED <<seen, outcome>>
          /\ pc' = [pc EXCEPT ![r] = IF c.op \in History!Writes THEN "apply" ELSE "read"]
      BY <1>1, <2>4 DEF History!Arrive, History!Goto
    <3>3. /\ pc'[r] = (IF c.op \in History!Writes THEN "apply" ELSE "read")
          /\ pc' \in [Requests -> {"idle", "apply", "lock", "append", "commit", "read", "reply"}]
          /\ \A q \in Requests : q # r => pc'[q] = pc[q]
      BY <3>2 DEF HistoryInv, HistoryTypes
    <3>4. CallFits(r)' /\ CommandStands(r)' /\ AnswerIsRecorded(r)'
      BY <2>2, <3>1, <3>3 DEF CallFits, CommandStands, AnswerIsRecorded
    <3>5. MutexIsHeld'
      BY <2>1, <3>3 DEF HistoryInv, MutexIsHeld
    <3> QED
      BY <2>1, <2>2, <3>2, <3>3, <3>4, <3>5, HistoryGoes DEF HistoryInv, HistoryTypes
  <2> QED
    BY <2>3, <2>4
<1>2. ASSUME History!Enter(r)
      PROVE  HistoryInv'
  <2>1. /\ pc[r] = "apply" /\ UNCHANGED <<call, lock, orders, used, history>>
        /\ DOMAIN call' = Requests
    BY <1>2 DEF History!Enter, HistoryInv, HistoryTypes
  <2>2. CASE History!Answer(r, "context_error", History!NoOrder)
    BY <1>0, <2>1, <2>2, HistoryAnswers
  <2>3. CASE pc' = [pc EXCEPT ![r] = "lock"] /\ UNCHANGED <<seen, outcome>>
    <3>1. /\ pc'[r] = "lock"
          /\ pc' \in [Requests -> {"idle", "apply", "lock", "append", "commit", "read", "reply"}]
          /\ \A q \in Requests : q # r => pc'[q] = pc[q]
      BY <2>3 DEF HistoryInv, HistoryTypes
    <3>2. CallFits(r)' /\ CommandStands(r)' /\ AnswerIsRecorded(r)' /\ MutexIsHeld'
      BY <2>1, <3>1 DEF HistoryInv, CallFits, CommandStands, AnswerIsRecorded, MutexIsHeld
    <3> QED
      BY <2>1, <2>3, <3>1, <3>2, HistoryGoes DEF HistoryInv, HistoryTypes
  <2> QED
    BY <1>2, <2>2, <2>3 DEF History!Enter, History!Fail, History!Goto
<1>3. ASSUME History!Lock(r)
      PROVE  HistoryInv'
  <2>1. /\ pc[r] = "lock" /\ lock = Nobody /\ UNCHANGED <<call, orders, used, history>>
        /\ DOMAIN call' = Requests
    BY <1>3 DEF History!Lock, HistoryInv, HistoryTypes
  <2>2. CASE History!CommandFault(r) # "none"
    <3>1. History!CommandFault(r) # "ok"
      BY DEF History!CommandFault, History!TransitionFault
    <3>2. History!Answer(r, History!CommandFault(r), History!NoOrder) /\ UNCHANGED lock
      BY <1>3, <2>2 DEF History!Lock, History!Fail
    <3> QED
      BY <1>0, <2>1, <3>1, <3>2, HistoryAnswers
  <2>3. CASE History!CommandFault(r) = "none"
    <3>1. lock' = r /\ pc' = [pc EXCEPT ![r] = "append"] /\ UNCHANGED <<seen, outcome>>
      BY <1>3, <2>3 DEF History!Lock, History!Goto
    <3>2. call[r].command \notin used
      BY <2>3 DEF History!CommandFault
    <3>3. /\ pc'[r] = "append"
          /\ pc' \in [Requests -> {"idle", "apply", "lock", "append", "commit", "read", "reply"}]
          /\ \A q \in Requests : q # r => pc'[q] = pc[q]
      BY <3>1 DEF HistoryInv, HistoryTypes
    <3>4. CallFits(r)' /\ CommandStands(r)' /\ AnswerIsRecorded(r)'
      BY <2>1, <3>2, <3>3 DEF HistoryInv, CallFits, CommandStands, AnswerIsRecorded
    <3>5. MutexIsHeld'
      BY <2>1, <3>1, <3>3 DEF HistoryInv, MutexIsHeld, History!HistoryAssumption
    <3> QED
      BY <2>1, <3>1, <3>3, <3>4, <3>5, HistoryGoes DEF HistoryInv, HistoryTypes
  <2> QED
    BY <2>2, <2>3
<1>4. ASSUME History!Reply(r)
      PROVE  HistoryInv'
  <2>1. /\ pc[r] = "reply" /\ UNCHANGED <<lock, orders, used, history>>
        /\ pc' = [pc EXCEPT ![r] = "idle"] /\ call' = [call EXCEPT ![r] = History!NoCall]
        /\ seen' = [seen EXCEPT ![r] = History!NoOrder]
        /\ outcome' = [outcome EXCEPT ![r] = "none"]
    BY <1>4 DEF History!Reply, History!Goto
  <2>2. /\ pc'[r] = "idle" /\ DOMAIN call' = Requests /\ DOMAIN outcome' = Requests
        /\ seen' \in [Requests -> Snapshots]
        /\ pc' \in [Requests -> {"idle", "apply", "lock", "append", "commit", "read", "reply"}]
        /\ \A q \in Requests : q # r =>
               /\ pc'[q] = pc[q] /\ call'[q] = call[q]
               /\ outcome'[q] = outcome[q] /\ seen'[q] = seen[q]
    BY <1>0, <2>1 DEF HistoryInv, HistoryTypes
  <2>3. CallFits(r)' /\ CommandStands(r)' /\ AnswerIsRecorded(r)' /\ MutexIsHeld'
    BY <2>1, <2>2 DEF HistoryInv, CallFits, CommandStands, AnswerIsRecorded, MutexIsHeld
  <2> QED
    BY <2>1, <2>2, <2>3, HistoryGoes
<1> QED
  BY <1>1, <1>2, <1>3, <1>4

\* Current waits for the mutex, so that what it reads is settled; History and Find read
\* the repository itself.
LEMMA HistoryReads ==
    ASSUME History!HistoryAssumption, HistoryInv, NEW r \in Requests,
           History!Current(r) \/ History!History(r)
    PROVE  HistoryInv'
<1>1. /\ pc[r] = "read" /\ UNCHANGED <<call, lock, orders, used, history>>
      /\ DOMAIN call' = Requests
  BY DEF History!Current, History!History, HistoryInv, HistoryTypes
<1>2. PICK o \in Orders : o = call[r].order /\ call[r].op \notin History!Writes
  BY <1>1 DEF HistoryInv, CallFits
<1>3. history[o] \in Seq(Entries) /\ orders[o] \in Snapshots
  BY DEF HistoryInv, HistoryTypes
<1>4. CASE History!Current(r)
  <2>1. lock = Nobody
    BY <1>4 DEF History!Current
  <2>2. MapFollows(o) /\ Settled(o)
    BY <2>1 DEF HistoryInv, MutexIsHeld, Settled, History!HistoryAssumption
  <2>3. PICK code : History!Answer(r, code, orders[o])
    BY <1>2, <1>4 DEF History!Current
  <2>4. orders[o].revision > 0 =>
           /\ orders[o].revision <= Len(history[o])
           /\ history[o][orders[o].revision].after = orders[o].status
    BY <1>3, <2>2 DEF MapFollows, Snapshots
  <2> QED
    BY <1>1, <1>2, <1>3, <2>3, <2>4, HistoryAnswers
<1>5. CASE History!History(r)
  <2>1. CASE History!Answer(r, "context_error", History!NoOrder)
    BY <1>1, <2>1, NothingKnown, HistoryAnswers
  <2>2. ASSUME NEW code, History!Answer(r, code, History!Recorded(o))
        PROVE  HistoryInv'
    <3>1. PICK known \in Snapshots : /\ known = History!Recorded(o)
                                     /\ known.revision > 0 =>
                                           /\ known.revision <= Len(history[o])
                                           /\ history[o][known.revision].after = known.status
      <4>1. CASE history[o] = <<>>
        BY <4>1, NothingKnown DEF History!Recorded
      <4>2. CASE history[o] # <<>>
        <5>1. Len(history[o]) \in Nat /\ Len(history[o]) > 0
          BY <1>3, <4>2
        <5>2. history[o][Len(history[o])] \in Entries
          BY <1>3, <5>1
        <5>3. History!Recorded(o) = [status |-> history[o][Len(history[o])].after,
                                     revision |-> Len(history[o])]
          BY <4>2 DEF History!Recorded, History!Last
        <5> QED
          BY <5>1, <5>2, <5>3 DEF Entries, Snapshots
      <4> QED
        BY <4>1, <4>2
    <3> QED
      BY <1>1, <1>2, <2>2, <3>1, HistoryAnswers
  <2> QED
    BY <1>2, <1>5, <2>1, <2>2 DEF History!History, History!Fail
<1> QED
  BY <1>4, <1>5

LEMMA HistoryAppends ==
    ASSUME History!HistoryAssumption, HistoryInv, NEW r \in Requests, History!AppendEntry(r)
    PROVE  HistoryInv'
<1>1. /\ pc[r] = "append" /\ lock = r /\ UNCHANGED <<call, orders, used>>
      /\ DOMAIN call' = Requests
      /\ \A q \in Requests : q # r => pc[q] \notin {"append", "commit"}
  BY DEF History!AppendEntry, HistoryInv, HistoryTypes, MutexIsHeld
<1>2. CASE History!Answer(r, "context_error", History!NoOrder) /\ lock' = Nobody /\ UNCHANGED history
  BY <1>1, <1>2, NothingKnown, HistoryAnswers
<1>3. ASSUME history' = [history EXCEPT ![call[r].order] = Append(@,
                 History!newEntry(call[r].command, orders[call[r].order].status,
                                  History!Updated(r).status))],
             History!Goto(r, "commit"), UNCHANGED <<seen, outcome, lock>>
      PROVE  HistoryInv'
  <2>1. PICK o \in Orders : o = call[r].order
    BY <1>1 DEF HistoryInv, CallFits
  <2>2. PICK e \in Entries :
           /\ e = History!newEntry(call[r].command, orders[o].status, History!Updated(r).status)
           /\ e.command = call[r].command /\ e.before = orders[o].status
           /\ e.after = History!Targets[call[r].op]
    <3>1. /\ orders[o].status \in History!Statuses \union {Blank}
          /\ call[r].command \in Commands /\ call[r].op \in History!Writes
      BY <1>1 DEF HistoryInv, HistoryTypes, Snapshots, CallFits
    <3>2. PICK after \in History!Statuses : after = History!Targets[call[r].op]
      BY <3>1, TargetsAreStatuses
    <3>3. History!Updated(r).status = after
      BY <3>2 DEF History!Updated
    <3>4. History!newEntry(call[r].command, orders[o].status, History!Updated(r).status)
             = [command |-> call[r].command, before |-> orders[o].status, after |-> after]
      BY <3>3 DEF History!newEntry
    <3> QED
      BY <3>1, <3>2, <3>4 DEF Entries
  <2>3. PICK n \in Nat : n = Len(history[o])
    BY DEF HistoryInv, HistoryTypes
  <2>4. /\ history' \in [Orders -> Seq(Entries)]
        /\ history'[o] = Append(history[o], e)
        /\ \A p \in Orders : p # o => history'[p] = history[p]
    BY <1>3, <2>1, <2>2 DEF HistoryInv, HistoryTypes
  <2>5. /\ Len(history'[o]) = n + 1 /\ history'[o][n + 1] = e
        /\ \A i \in 1 .. n : history'[o][i] = history[o][i]
        /\ DOMAIN history[o] = 1 .. n /\ DOMAIN history'[o] = 1 .. n + 1
    <3>1. history[o] \in Seq(Entries)
      BY DEF HistoryInv, HistoryTypes
    <3> QED
      BY <2>2, <2>3, <2>4, <3>1
  <2>6. /\ pc'[r] = "commit" /\ \A q \in Requests : q # r => pc'[q] = pc[q]
        /\ pc' \in [Requests -> {"idle", "apply", "lock", "append", "commit", "read", "reply"}]
    BY <1>3 DEF History!Goto, HistoryInv, HistoryTypes
  <2>7. Settled(o) /\ MapFollows(o) /\ EntriesLink(o) /\ orders[o] \in Snapshots
    BY <1>1 DEF HistoryInv, HistoryTypes, Settled
  <2>8. /\ orders[o].revision = n
        /\ n > 0 => history[o][n].after = orders[o].status
    BY <2>3, <2>7 DEF MapFollows, Snapshots
  <2> HIDE <1>3
  <2>9. HistoryTypes' /\ MutexIsHeld'
    BY <1>1, <1>3, <2>4, <2>6 DEF HistoryInv, HistoryTypes, MutexIsHeld
  <2>10. ASSUME NEW q \in Requests
         PROVE  (CallFits(q) /\ CommandStands(q) /\ AnswerIsRecorded(q))'
    <3>1. CallFits(q)'
      BY <1>1, <2>6 DEF HistoryInv, CallFits
    <3>2. CommandStands(q)'
      BY <1>1, <2>1, <2>2, <2>5, <2>6, <2>8 DEF HistoryInv, CommandStands
    <3>3. AnswerIsRecorded(q)'
      <4>1. CASE q = r
        BY <2>6, <4>1 DEF AnswerIsRecorded
      <4>2. CASE q # r
        <5>1. /\ AnswerIsRecorded(q) /\ pc'[q] = pc[q] /\ seen'[q] = seen[q] /\ outcome'[q] = outcome[q]
              /\ call'[q] = call[q] /\ seen[q].revision \in Nat
          BY <1>1, <1>3, <2>6, <4>2 DEF HistoryInv, HistoryTypes, Snapshots
        <5>2. CASE pc[q] = "reply" /\ seen[q].revision > 0 /\ call[q].order = o
          BY <2>3, <2>5, <5>1, <5>2 DEF AnswerIsRecorded
        <5>3. CASE pc[q] = "reply" /\ seen[q].revision > 0 /\ call[q].order # o
          BY <2>4, <5>1, <5>3 DEF AnswerIsRecorded
        <5>4. CASE pc[q] # "reply" \/ ~(seen[q].revision > 0)
          BY <5>1, <5>4 DEF AnswerIsRecorded
        <5> QED
          BY <5>2, <5>3, <5>4
      <4> QED
        BY <4>1, <4>2
    <3> QED
      BY <3>1, <3>2, <3>3
  <2>11. ASSUME NEW p \in Orders
         PROVE  MapFollows(p)' /\ EntriesLink(p)'
    <3>1. CASE p = o
      <4>1. MapFollows(o)'
        BY <1>1, <2>1, <2>6 DEF MapFollows, Settled
      <4>2. ASSUME NEW i \in 2 .. n + 1
            PROVE  history'[o][i].before = history'[o][i - 1].after
        <5>1. CASE i \in 2 .. n
          <6>1. i \in 1 .. n /\ i - 1 \in 1 .. n
            BY <5>1
          <6>2. history[o][i].before = history[o][i - 1].after
            BY <2>3, <2>7, <5>1 DEF EntriesLink
          <6> QED
            BY <2>5, <6>1, <6>2, Zenon
        <5>2. CASE i = n + 1
          BY <2>2, <2>5, <2>8, <5>2
        <5> QED
          BY <5>1, <5>2
      <4> QED
        BY <2>5, <3>1, <4>1, <4>2 DEF EntriesLink
    <3>2. CASE p # o
      <4>1. history'[p] = history[p] /\ MapFollows(p) /\ EntriesLink(p) /\ Settled(p)
        BY <1>1, <2>4, <3>2 DEF HistoryInv, Settled
      <4> QED
        BY <1>1, <4>1 DEF MapFollows, EntriesLink
    <3> QED
      BY <3>1, <3>2
  <2>12. \A p \in Orders : \A i \in DOMAIN history[p] : history[p][i].command \in used
    BY <1>1 DEF HistoryInv, CommandsAreKnown
  <2>13. call[r].command \notin used
    BY <1>1 DEF HistoryInv, CommandStands
  <2>14. ASSUME NEW p \in Orders, NEW i \in DOMAIN history'[p]
         PROVE  \/ p = o /\ i = n + 1 /\ history'[p][i].command = call[r].command
                \/ i \in DOMAIN history[p] /\ history'[p][i] = history[p][i]
    <3>1. CASE p # o
      BY <2>4, <3>1, Zenon
    <3>2. CASE p = o
      <4>1. i \in 1 .. n \/ i = n + 1
        BY <2>5, <3>2
      <4> QED
        BY <2>2, <2>5, <3>2, <4>1, Zenon
    <3> QED
      BY <3>1, <3>2, Zenon
  <2>15. CommandsAreKnown'
    BY <1>1, <2>6, <2>12, <2>14 DEF CommandsAreKnown
  <2>16. History!CommandsAreUnique'
    BY <2>12, <2>13, <2>14 DEF HistoryInv, History!CommandsAreUnique
  <2> QED
    BY <2>9, <2>10, <2>11, <2>15, <2>16 DEF HistoryInv
<1> QED
  BY <1>2, <1>3 DEF History!AppendEntry, History!Fail

LEMMA HistoryApplies ==
    ASSUME History!HistoryAssumption, HistoryInv, NEW r \in Requests, History!apply(r)
    PROVE  HistoryInv'
<1>1. /\ pc[r] = "commit" /\ lock = r /\ lock' = Nobody /\ UNCHANGED <<call, history>>
      /\ used' = used \union {call[r].command}
      /\ \A q \in Requests : q # r => pc[q] \notin {"append", "commit"}
  BY DEF History!apply, HistoryInv, HistoryTypes, MutexIsHeld
<1>2. PICK o \in Orders : o = call[r].order
  BY <1>1 DEF HistoryInv, CallFits
<1>3. PICK n \in Nat : n = Len(history[o])
  BY DEF HistoryInv, HistoryTypes
<1>4. PICK new \in Snapshots : /\ new = History!Updated(r)
                               /\ new.revision = n /\ n > 0
                               /\ new.status = history[o][n].after
                               /\ history[o][n].command = call[r].command
  <2>1. /\ n = orders[o].revision + 1 /\ history[o][n].after = History!Targets[call[r].op]
        /\ history[o][n].command = call[r].command
    BY <1>1, <1>2, <1>3 DEF HistoryInv, CommandStands
  <2>2. orders[o].revision \in Nat /\ call[r].op \in History!Writes
    BY <1>1 DEF HistoryInv, HistoryTypes, Snapshots, CallFits
  <2>3. PICK status \in History!Statuses : status = History!Targets[call[r].op]
    BY <2>2, TargetsAreStatuses
  <2>4. History!Updated(r) = [status |-> status, revision |-> n]
    BY <1>2, <2>1, <2>3 DEF History!Updated
  <2> QED
    BY <2>1, <2>2, <2>3, <2>4 DEF Snapshots
<1>5. /\ orders' = [orders EXCEPT ![o] = new] /\ pc' = [pc EXCEPT ![r] = "reply"]
      /\ outcome' = [outcome EXCEPT ![r] = "ok"] /\ seen' = [seen EXCEPT ![r] = new]
  BY <1>2, <1>4 DEF History!apply, History!Answer, History!Goto
<1>6. HistoryTypes' /\ MutexIsHeld'
  BY <1>1, <1>4, <1>5 DEF HistoryInv, HistoryTypes, MutexIsHeld
<1>7. ASSUME NEW q \in Requests
      PROVE  (CallFits(q) /\ CommandStands(q) /\ AnswerIsRecorded(q))'
  <2>1. CASE q = r
    BY <1>1, <1>2, <1>3, <1>4, <1>5, <2>1
       DEF HistoryInv, HistoryTypes, CallFits, CommandStands, AnswerIsRecorded
  <2>2. CASE q # r
    <3>1. /\ pc'[q] = pc[q] /\ seen'[q] = seen[q] /\ outcome'[q] = outcome[q]
          /\ pc[q] \notin {"append", "commit"}
      BY <1>1, <1>5, <2>2 DEF HistoryInv, HistoryTypes
    <3> QED
      BY <1>1, <3>1 DEF HistoryInv, CallFits, CommandStands, AnswerIsRecorded
  <2> QED
    BY <2>1, <2>2
<1>8. ASSUME NEW p \in Orders
      PROVE  MapFollows(p)' /\ EntriesLink(p)'
  <2>1. EntriesLink(p)'
    BY <1>1 DEF HistoryInv, EntriesLink
  <2>2. CASE p = o
    <3>1. orders'[o] = new
      BY <1>5 DEF HistoryInv, HistoryTypes
    <3> QED
      BY <1>1, <1>3, <1>4, <2>1, <2>2, <3>1 DEF MapFollows
  <2>3. CASE p # o
    <3>1. orders'[p] = orders[p] /\ MapFollows(p) /\ Settled(p)
      BY <1>1, <1>2, <1>5, <2>3 DEF HistoryInv, HistoryTypes, Settled
    <3> QED
      BY <1>1, <2>1, <3>1 DEF MapFollows
  <2> QED
    BY <2>1, <2>2, <2>3
<1>9. CommandsAreKnown'
  BY <1>1 DEF HistoryInv, CommandsAreKnown
<1>10. History!CommandsAreUnique'
  BY <1>1 DEF HistoryInv, History!CommandsAreUnique
<1> QED
  BY <1>6, <1>7, <1>8, <1>9, <1>10 DEF HistoryInv

LEMMA HistoryStep ==
    ASSUME History!HistoryAssumption, HistoryInv, [History!Next]_(History!vars)
    PROVE  HistoryInv'
<1>1. CASE UNCHANGED <<pc, call, seen, outcome, lock, orders, used, history>>
  <2>1. HistoryTypes' /\ MutexIsHeld'
    BY <1>1 DEF HistoryInv, HistoryTypes, MutexIsHeld
  <2>2. CommandsAreKnown' /\ History!CommandsAreUnique'
    BY <1>1 DEF HistoryInv, CommandsAreKnown, History!CommandsAreUnique
  <2>3. \A r \in Requests : (CallFits(r) /\ CommandStands(r) /\ AnswerIsRecorded(r))'
    BY <1>1 DEF HistoryInv, CallFits, CommandStands, AnswerIsRecorded
  <2>4. \A o \in Orders : (MapFollows(o) /\ EntriesLink(o))'
    BY <1>1 DEF HistoryInv, MapFollows, Settled, EntriesLink
  <2> QED
    BY <2>1, <2>2, <2>3, <2>4 DEF HistoryInv
<1>2. ASSUME NEW r \in Requests, History!Expire(r)
      PROVE  HistoryInv'
  BY <1>1, <1>2 DEF History!Expire
<1>3. CASE UNCHANGED History!vars
  BY <1>1, <1>3 DEF History!vars, History!requestVars
<1> QED
  BY <1>2, <1>3, HistoryMoves, HistoryReads, HistoryAppends, HistoryApplies
  DEF History!Next, History!Advance

LEMMA HistoryShows ==
    ASSUME HistoryInv
    PROVE  History!HistoryLeads /\ History!CommandsAreUnique /\ History!AnswersAreRecorded
<1>1. ASSUME NEW o \in Orders
      PROVE  /\ Len(history[o]) = orders[o].revision + (IF History!InFlight(o) = {} THEN 0 ELSE 1)
             /\ History!InFlight(o) = {} => History!Recorded(o) = orders[o]
             /\ \A i \in 2 .. Len(history[o]) : history[o][i].before = history[o][i - 1].after
  <2>1. /\ history[o] \in Seq(Entries) /\ orders[o] \in Snapshots
        /\ MapFollows(o) /\ EntriesLink(o)
    BY DEF HistoryInv, HistoryTypes
  <2>2. orders[o].revision \in Nat
    BY <2>1 DEF Snapshots
  <2>3. CASE History!InFlight(o) = {}
    <3>1. Settled(o)
      BY <2>3 DEF Settled, History!InFlight
    <3>2. Len(history[o]) = orders[o].revision
      BY <2>1, <3>1 DEF MapFollows
    <3>3. orders[o] = [status |-> orders[o].status, revision |-> orders[o].revision]
      BY <2>1 DEF Snapshots
    <3>4. CASE orders[o].revision = 0
      <4>1. history[o] = <<>>
        BY <2>1, <3>2, <3>4
      <4>2. orders[o].status = Blank
        BY <2>1, <3>1, <3>4 DEF MapFollows
      <4> QED
        BY <2>1, <2>2, <2>3, <3>2, <3>3, <3>4, <4>1, <4>2, NothingKnown
        DEF History!Recorded, EntriesLink
    <3>5. CASE orders[o].revision # 0
      <4>1. history[o] # <<>> /\ history[o][Len(history[o])].after = orders[o].status
        BY <2>1, <2>2, <3>1, <3>2, <3>5 DEF MapFollows
      <4> QED
        BY <2>1, <2>2, <2>3, <3>2, <3>3, <4>1 DEF History!Recorded, History!Last, EntriesLink
    <3> QED
      BY <3>4, <3>5
  <2>4. CASE History!InFlight(o) # {}
    <3>1. PICK r \in Requests : pc[r] = "commit" /\ call[r].order = o
      BY <2>4 DEF History!InFlight
    <3>2. Len(history[o]) = orders[o].revision + 1
      BY <3>1 DEF HistoryInv, CommandStands
    <3> QED
      BY <2>1, <2>4, <3>2 DEF EntriesLink
  <2> QED
    BY <2>3, <2>4
<1>2. History!AnswersAreRecorded
  BY DEF HistoryInv, AnswerIsRecorded, History!AnswersAreRecorded
<1> QED
  BY <1>1, <1>2 DEF HistoryInv, History!HistoryLeads

\* For any callers, orders and commands, with contexts that end at any moment: the
\* repository leads the service's map by at most the entry of the command inside the
\* mutex, no command id is recorded twice, and what a caller was told stays recorded
\* (apply, Current, History and Find).
THEOREM HistoryIsTrue ==
    History!HistoryAssumption /\ History!Spec =>
        [](History!HistoryLeads /\ History!CommandsAreUnique /\ History!AnswersAreRecorded)
<1> SUFFICES ASSUME History!HistoryAssumption
             PROVE  History!Spec =>
                       [](History!HistoryLeads /\ History!CommandsAreUnique /\ History!AnswersAreRecorded)
  OBVIOUS
<1>1. History!Init => HistoryInv
  BY HistoryBegins
<1>2. HistoryInv /\ [History!Next]_(History!vars) => HistoryInv'
  BY HistoryStep
<1>3. HistoryInv => History!HistoryLeads /\ History!CommandsAreUnique /\ History!AnswersAreRecorded
  BY HistoryShows
<1> QED
  BY <1>1, <1>2, <1>3, PTL DEF History!Spec

--------------------------------------------------------------------------------
(* The order aggregate: header, items and status events in three tables.     *)

OrderTypes ==
    /\ pc \in [Requests -> {"idle", "insertOrder", "insertItems", "findOrder", "findItem",
                            "updateItem", "sum", "updateTotal", "append", "commit",
                            "readOrder", "readItems", "readEvents", "reply"}]
    /\ DOMAIN call = Requests /\ DOMAIN draft = Requests /\ DOMAIN outcome = Requests
    /\ DOMAIN view = Requests
    /\ \A r \in Requests :
          view[r] = [total |-> view[r].total, items |-> view[r].items, events |-> view[r].events]
    /\ mine \in [Requests -> Nat]
    /\ DOMAIN header = OrderIDs
    /\ items \in [OrderIDs -> [OrderLines -> Nat]]
    /\ events \in [OrderIDs -> Nat]

Writing == {"insertOrder", "insertItems", "findOrder", "findItem", "updateItem", "sum",
            "updateTotal", "append", "commit"}

\* newID: no two creates, running or just answered, have the same id.
CreatesDiffer ==
    \A r, q \in Requests :
        /\ call[r].op \in {"create", "reject"} /\ call[q].op \in {"create", "reject"}
        /\ call[r].order = call[q].order
        => r = q

\* Between its validation and its commit a create has all of its rows to itself.
CreateStands(r) ==
    pc[r] \in Writing /\ call[r].op # "patch" =>
        /\ call[r].op \in {"create", "reject"}
        /\ pc[r] \in {"insertOrder", "insertItems", "append", "commit"}
        /\ pc[r] \in {"append", "commit"} => call[r].op = "create"
        /\ header[call[r].order] = Order!NoTotal
        /\ draft[r] \in [OrderLines -> Nat \ {0}]

\* An edit has found its order and its item, which nothing deletes.
EditStands(r) ==
    pc[r] \in Writing /\ call[r].op = "patch" =>
        /\ pc[r] \notin {"insertOrder", "insertItems"}
        /\ call[r].quantity \in Nat \ {0}
        /\ pc[r] # "findOrder" => header[call[r].order] # Order!NoTotal
        /\ pc[r] \notin {"findOrder", "findItem"} => call[r].line \in OrderLines

\* The items a request has written, among the ones shown.
Shows(r, shown) ==
    \/ call[r].op = "patch" /\ shown[call[r].line] = call[r].quantity
    \/ call[r].op = "create" /\ shown = draft[r]

\* What a committed request finds when it reads: its own event, and its own items unless
\* there is a later event.
OwnIsThere(r) ==
    mine[r] > 0 =>
        /\ pc[r] \in {"readOrder", "readItems", "readEvents", "reply"}
        /\ call[r].op \in {"patch", "create"}
        /\ call[r].op = "patch" => call[r].line \in OrderLines
        /\ mine[r] <= events[call[r].order]
        /\ mine[r] = events[call[r].order] => Shows(r, items[call[r].order])
        /\ pc[r] \in {"readItems", "readEvents"} => view[r].total # Order!NoTotal
        /\ pc[r] = "readEvents" /\ mine[r] = events[call[r].order] => Shows(r, view[r].items)

OwnIsShown(r) ==
    pc[r] = "reply" /\ outcome[r] = "ok" /\ mine[r] > 0 =>
        /\ view[r].events \in Nat
        /\ mine[r] <= view[r].events
        /\ mine[r] = view[r].events => Shows(r, view[r].items)
        /\ view[r].total # Order!NoTotal

RequestStands(r) ==
    /\ pc[r] # "idle" => call[r].order \in OrderIDs
    /\ pc[r] = "readItems" => call[r].op # "status"
    /\ pc[r] = "readEvents" /\ call[r].op = "status" => mine[r] = 0
    /\ CreateStands(r) /\ EditStands(r) /\ OwnIsThere(r) /\ OwnIsShown(r)

OrderInv ==
    /\ OrderTypes /\ CreatesDiffer /\ Order!AggregateIsWhole
    /\ \A r \in Requests : RequestStands(r)

LEMMA AmountsDiffer == \A cents : [cents |-> cents] # Order!NoTotal
<1> TAKE cents
<1>1. DOMAIN [cents |-> cents] = {"cents"} /\ DOMAIN [none |-> TRUE] = {"none"}
  OBVIOUS
<1>2. {"cents"} # {"none"}
  OBVIOUS
<1> QED
  BY <1>1, <1>2, Zenon DEF Order!NoTotal

LEMMA OrderBegins == Order!Init => OrderInv
<1> SUFFICES ASSUME Order!Init
             PROVE  OrderInv
  OBVIOUS
<1>1. \A r \in Requests : pc[r] = "idle" /\ mine[r] = 0 /\ call[r].op = "none"
  BY DEF Order!Init, Order!NoCall
<1>2. \A o \in OrderIDs : /\ header[o] = Order!NoTotal /\ events[o] = 0
                          /\ items[o] = Order!NoItems
  BY DEF Order!Init
<1>3. OrderTypes
  BY DEF Order!Init, Order!NoView, Order!NoItems, OrderTypes
<1>4. CreatesDiffer /\ Order!AggregateIsWhole
  BY <1>1, <1>2 DEF CreatesDiffer, Order!AggregateIsWhole
<1>5. \A r \in Requests : RequestStands(r)
  BY <1>1 DEF RequestStands, CreateStands, EditStands, OwnIsThere, OwnIsShown, Writing
<1> QED
  BY <1>3, <1>4, <1>5 DEF OrderInv

\* A step of one request that leaves the tables alone.
LEMMA OrderGoes ==
    ASSUME OrderInv, NEW r \in Requests, UNCHANGED <<header, items, events>>,
           OrderTypes', CreatesDiffer', RequestStands(r)',
           \A q \in Requests : q # r =>
               /\ pc'[q] = pc[q] /\ call'[q] = call[q] /\ draft'[q] = draft[q]
               /\ mine'[q] = mine[q] /\ view'[q] = view[q] /\ outcome'[q] = outcome[q]
    PROVE  OrderInv'
<1>1. Order!AggregateIsWhole'
  BY DEF OrderInv, Order!AggregateIsWhole
<1>2. ASSUME NEW q \in Requests, q # r
      PROVE  RequestStands(q)'
  BY <1>2 DEF OrderInv, RequestStands, CreateStands, EditStands, OwnIsThere, OwnIsShown, Shows
<1> QED
  BY <1>1, <1>2 DEF OrderInv

\* The statements that only move on to the next one.
LEMMA OrderProceeds ==
    ASSUME OrderInv, NEW r \in Requests,
           \/ Order!InsertOrder(r) \/ Order!InsertItems(r) \/ Order!FindOrder(r)
           \/ Order!FindItem(r) \/ Order!UpdateQuantity(r) \/ Order!SumOrderTotal(r)
           \/ Order!UpdateTotal(r) \/ Order!Append(r) \/ Order!Expire(r)
           \/ Order!StatementFails(r)
    PROVE  OrderInv'
<1>1. /\ UNCHANGED <<call, draft, mine, view, header, items, events>>
      /\ pc[r] # "idle"
      /\ \/ UNCHANGED <<pc, outcome>>
         \/ /\ pc[r] = "insertOrder" /\ pc' = [pc EXCEPT ![r] = "insertItems"] /\ UNCHANGED outcome
         \/ /\ pc[r] = "insertItems" /\ call[r].op # "reject"
            /\ pc' = [pc EXCEPT ![r] = "append"] /\ UNCHANGED outcome
         \/ /\ pc[r] = "findOrder" /\ header[call[r].order] # Order!NoTotal
            /\ pc' = [pc EXCEPT ![r] = "findItem"] /\ UNCHANGED outcome
         \/ /\ pc[r] = "findItem" /\ call[r].line \in OrderLines
            /\ pc' = [pc EXCEPT ![r] = "updateItem"] /\ UNCHANGED outcome
         \/ /\ pc[r] = "updateItem" /\ pc' = [pc EXCEPT ![r] = "sum"] /\ UNCHANGED outcome
         \/ /\ pc[r] = "sum" /\ pc' = [pc EXCEPT ![r] = "updateTotal"] /\ UNCHANGED outcome
         \/ /\ pc[r] = "updateTotal" /\ pc' = [pc EXCEPT ![r] = "append"] /\ UNCHANGED outcome
         \/ /\ pc[r] = "append" /\ pc' = [pc EXCEPT ![r] = "commit"] /\ UNCHANGED outcome
         \/ \E code \in {"order_rejected", "order_not_found", "item_not_found", "service_error"} :
               pc' = [pc EXCEPT ![r] = "reply"] /\ outcome' = [outcome EXCEPT ![r] = code]
  BY DEF Order!InsertOrder, Order!InsertItems, Order!FindOrder, Order!FindItem,
     Order!UpdateQuantity, Order!SumOrderTotal, Order!UpdateTotal, Order!Append, Order!Expire,
     Order!StatementFails, Order!Fail, Order!Goto, Order!tableVars
<1>2. OrderTypes' /\ CreatesDiffer'
  BY <1>1 DEF OrderInv, OrderTypes, CreatesDiffer
<1>3. RequestStands(r)'
  <2>1. RequestStands(r)
    BY DEF OrderInv
  <2> QED
    BY <1>1, <2>1 DEF OrderInv, OrderTypes, RequestStands, CreateStands, EditStands,
       OwnIsThere, OwnIsShown, Shows, Writing
<1> QED
  BY <1>1, <1>2, <1>3, OrderGoes DEF OrderInv, OrderTypes

LEMMA OrderStarts ==
    ASSUME Order!ServiceAssumption, OrderInv, NEW r \in Requests,
           \/ \E op \in {"create", "reject"}, quantity \in Quantities :
                 Order!StartCreate(r, op, quantity)
           \/ \E o \in OrderIDs, line \in Edited \union {0}, quantity \in Quantities :
                 Order!StartOther(r, "patch", o, line, quantity)
           \/ \E o \in OrderIDs, op \in {"get", "status"} : Order!StartOther(r, op, o, 0, 0)
    PROVE  OrderInv'
<1>1. pc[r] = "idle" /\ mine[r] = 0
  BY DEF Order!StartCreate, Order!StartOther, OrderInv, OrderTypes, RequestStands, OwnIsThere
<1>2. ASSUME NEW op \in {"create", "reject"}, NEW quantity \in Quantities,
             Order!StartCreate(r, op, quantity)
      PROVE  OrderInv'
  <2>1. PICK o \in OrderIDs :
           /\ Order!Fresh(o)
           /\ call' = [call EXCEPT ![r] = [op |-> op, order |-> o, line |-> 0, quantity |-> quantity]]
    BY <1>2 DEF Order!StartCreate
  <2>2. UNCHANGED <<mine, view, header, items, events>>
    BY <1>2 DEF Order!StartCreate, Order!tableVars
  <2>3. header[o] = Order!NoTotal /\ o \notin Order!Taken
    BY <2>1 DEF Order!Fresh
  <2>4. /\ call'[r] = [op |-> op, order |-> o, line |-> 0, quantity |-> quantity]
        /\ DOMAIN call' = Requests /\ \A q \in Requests : q # r => call'[q] = call[q]
    BY <2>1 DEF OrderInv, OrderTypes
  <2>5. CreatesDiffer'
    BY <2>3, <2>4 DEF OrderInv, CreatesDiffer, Order!Taken
  <2>6. CASE quantity > 0
    <3>1. /\ draft' = [draft EXCEPT ![r] = [l \in OrderLines |-> quantity]] /\ UNCHANGED outcome
          /\ pc' = [pc EXCEPT ![r] = "insertOrder"]
      BY <1>2, <2>6 DEF Order!StartCreate, Order!Valid, Order!Goto
    <3>2. /\ draft'[r] \in [OrderLines -> Nat \ {0}] /\ DOMAIN draft' = Requests
          /\ \A q \in Requests : q # r => draft'[q] = draft[q]
      <4>1. quantity \in Nat \ {0}
        BY <2>6 DEF Order!ServiceAssumption
      <4> QED
        BY <3>1, <4>1 DEF OrderInv, OrderTypes
    <3>3. OrderTypes'
      BY <2>2, <2>4, <3>1, <3>2 DEF OrderInv, OrderTypes
    <3>4. pc'[r] = "insertOrder"
      BY <3>1 DEF OrderInv, OrderTypes
    <3>5. RequestStands(r)'
      BY <1>1, <2>2, <2>3, <2>4, <3>2, <3>4
         DEF RequestStands, CreateStands, EditStands, OwnIsThere, OwnIsShown, Writing
    <3> QED
      BY <2>2, <2>4, <2>5, <3>1, <3>2, <3>3, <3>5, OrderGoes DEF OrderInv, OrderTypes
  <2>7. CASE ~(quantity > 0)
    <3>1. /\ UNCHANGED draft /\ outcome' = [outcome EXCEPT ![r] = "invalid_request"]
          /\ pc' = [pc EXCEPT ![r] = "reply"]
      BY <1>2, <2>7 DEF Order!StartCreate, Order!Valid, Order!Goto
    <3>2. OrderTypes' /\ pc'[r] = "reply"
      BY <2>2, <2>4, <3>1 DEF OrderInv, OrderTypes
    <3>3. RequestStands(r)'
      BY <1>1, <2>2, <2>4, <3>2
         DEF RequestStands, CreateStands, EditStands, OwnIsThere, OwnIsShown, Writing
    <3> QED
      BY <2>2, <2>4, <2>5, <3>1, <3>2, <3>3, OrderGoes DEF OrderInv, OrderTypes
  <2> QED
    BY <2>6, <2>7
<1>3. ASSUME NEW op \in {"patch", "get", "status"}, NEW o \in OrderIDs, NEW line,
             NEW quantity \in Nat, Order!StartOther(r, op, o, line, quantity)
      PROVE  OrderInv'
  <2>1. /\ call' = [call EXCEPT ![r] = [op |-> op, order |-> o, line |-> line, quantity |-> quantity]]
        /\ UNCHANGED <<draft, mine, view, header, items, events>>
        /\ \/ pc' = [pc EXCEPT ![r] = "reply"] /\ outcome' = [outcome EXCEPT ![r] = "invalid_request"]
           \/ /\ op = "patch" /\ quantity > 0 /\ pc' = [pc EXCEPT ![r] = "findOrder"]
              /\ UNCHANGED outcome
           \/ op # "patch" /\ pc' = [pc EXCEPT ![r] = "readOrder"] /\ UNCHANGED outcome
    BY <1>3 DEF Order!StartOther, Order!Valid, Order!Goto, Order!tableVars
  <2>2. /\ call'[r] = [op |-> op, order |-> o, line |-> line, quantity |-> quantity]
        /\ DOMAIN call' = Requests /\ \A q \in Requests : q # r => call'[q] = call[q]
    BY <2>1 DEF OrderInv, OrderTypes
  <2>3. OrderTypes' /\ CreatesDiffer'
    <3>1. OrderTypes'
      BY <2>1, <2>2 DEF OrderInv, OrderTypes
    <3>2. CreatesDiffer'
      BY <2>2 DEF OrderInv, CreatesDiffer
    <3> QED
      BY <3>1, <3>2
  <2>4. RequestStands(r)'
    BY <1>1, <2>1, <2>2 DEF OrderInv, OrderTypes, RequestStands, CreateStands, EditStands, OwnIsThere,
       OwnIsShown, Writing
  <2> QED
    BY <2>1, <2>2, <2>3, <2>4, OrderGoes DEF OrderInv, OrderTypes
<1> QED
  BY <1>2, <1>3 DEF Order!ServiceAssumption

LEMMA OrderReads ==
    ASSUME OrderInv, NEW r \in Requests,
           Order!ReadOrder(r) \/ Order!ReadItems(r) \/ Order!ReadEvents(r) \/ Order!Reply(r)
    PROVE  OrderInv'
<1>1. view[r] = [total |-> view[r].total, items |-> view[r].items, events |-> view[r].events]
  BY DEF OrderInv, OrderTypes
<1>2. RequestStands(r)
  BY DEF OrderInv
<1>3. CASE Order!ReadOrder(r)
  <2>1. /\ pc[r] = "readOrder" /\ UNCHANGED <<call, draft, mine, header, items, events>>
        /\ \/ /\ outcome' = [outcome EXCEPT ![r] = "order_not_found"] /\ UNCHANGED view
              /\ pc' = [pc EXCEPT ![r] = "reply"]
           \/ /\ header[call[r].order] # Order!NoTotal /\ UNCHANGED outcome
              /\ view' = [view EXCEPT ![r].total = header[call[r].order]]
              /\ pc' = [pc EXCEPT ![r] = IF call[r].op = "status" THEN "readEvents" ELSE "readItems"]
    BY <1>3 DEF Order!ReadOrder, Order!Fail, Order!Goto, Order!tableVars
  <2>2. OrderTypes' /\ CreatesDiffer'
    <3>1. CASE UNCHANGED view
      BY <2>1, <3>1 DEF OrderInv, OrderTypes, CreatesDiffer
    <3>2. CASE view' = [view EXCEPT ![r].total = header[call[r].order]]
      <4>1. ASSUME NEW q \in Requests
            PROVE  view'[q] = [total |-> view'[q].total, items |-> view'[q].items,
                               events |-> view'[q].events]
        BY <1>1, <3>2 DEF OrderInv, OrderTypes
      <4>2. DOMAIN view' = Requests
        BY <3>2 DEF OrderInv, OrderTypes
      <4> QED
        BY <2>1, <4>1, <4>2 DEF OrderInv, OrderTypes, CreatesDiffer
    <3> QED
      BY <2>1, <3>1, <3>2
  <2>3. RequestStands(r)'
    BY <1>1, <1>2, <2>1 DEF OrderInv, OrderTypes, RequestStands, CreateStands, EditStands, OwnIsThere,
       OwnIsShown, Shows, Writing
  <2> QED
    BY <2>1, <2>2, <2>3, OrderGoes DEF OrderInv, OrderTypes
<1>4. CASE Order!ReadItems(r)
  <2>1. /\ pc[r] = "readItems" /\ UNCHANGED <<call, draft, mine, outcome, header, items, events>>
        /\ view' = [view EXCEPT ![r].items = items[call[r].order]]
        /\ pc' = [pc EXCEPT ![r] = "readEvents"]
    BY <1>4 DEF Order!ReadItems, Order!Goto, Order!tableVars
  <2>2. OrderTypes' /\ CreatesDiffer'
    BY <1>1, <2>1 DEF OrderInv, OrderTypes, CreatesDiffer
  <2>3. RequestStands(r)'
    BY <1>1, <1>2, <2>1 DEF OrderInv, OrderTypes, RequestStands, CreateStands, EditStands, OwnIsThere,
       OwnIsShown, Shows, Writing
  <2> QED
    BY <2>1, <2>2, <2>3, OrderGoes DEF OrderInv, OrderTypes
<1>5. CASE Order!ReadEvents(r)
  <2>1. /\ pc[r] = "readEvents" /\ UNCHANGED <<call, draft, mine, header, items, events>>
        /\ view' = [view EXCEPT ![r].events = events[call[r].order]]
        /\ outcome' = [outcome EXCEPT ![r] = "ok"] /\ pc' = [pc EXCEPT ![r] = "reply"]
    BY <1>5 DEF Order!ReadEvents, Order!Goto, Order!tableVars
  <2>2. OrderTypes' /\ CreatesDiffer'
    BY <1>1, <2>1 DEF OrderInv, OrderTypes, CreatesDiffer
  <2>3. RequestStands(r)'
    BY <1>1, <1>2, <2>1 DEF OrderInv, OrderTypes, RequestStands, CreateStands, EditStands, OwnIsThere,
       OwnIsShown, Shows, Writing
  <2> QED
    BY <2>1, <2>2, <2>3, OrderGoes DEF OrderInv, OrderTypes
<1>6. CASE Order!Reply(r)
  <2>1. /\ pc' = [pc EXCEPT ![r] = "idle"] /\ call' = [call EXCEPT ![r] = Order!NoCall]
        /\ draft' = [draft EXCEPT ![r] = Order!NoItems] /\ mine' = [mine EXCEPT ![r] = 0]
        /\ view' = [view EXCEPT ![r] = Order!NoView] /\ outcome' = [outcome EXCEPT ![r] = "none"]
        /\ UNCHANGED <<header, items, events>>
    BY <1>6 DEF Order!Reply, Order!Goto, Order!tableVars
  <2>2. OrderTypes'
    BY <2>1 DEF OrderInv, OrderTypes, Order!NoView
  <2>3. CreatesDiffer'
    BY <2>1 DEF OrderInv, OrderTypes, CreatesDiffer, Order!NoCall
  <2>4. RequestStands(r)'
    BY <2>1 DEF OrderInv, OrderTypes, RequestStands, CreateStands, EditStands, OwnIsThere,
       OwnIsShown, Writing
  <2> QED
    BY <2>1, <2>2, <2>3, <2>4, OrderGoes DEF OrderInv, OrderTypes
<1> QED
  BY <1>3, <1>4, <1>5, <1>6

\* What a commit does to the tables, to itself and to everybody else.
LEMMA OrderCommits ==
    ASSUME OrderInv, NEW r \in Requests, pc[r] = "commit", Order!CommitTables(r)
    PROVE  /\ DOMAIN header' = OrderIDs /\ header'[call[r].order] # Order!NoTotal
           /\ items' \in [OrderIDs -> [OrderLines -> Nat]] /\ events' \in [OrderIDs -> Nat]
           /\ events'[call[r].order] = events[call[r].order] + 1
           /\ Shows(r, items'[call[r].order])
           /\ \A o \in OrderIDs : o # call[r].order =>
                 header'[o] = header[o] /\ items'[o] = items[o] /\ events'[o] = events[o]
           /\ Order!AggregateIsWhole'
<1>1. PICK o \in OrderIDs : o = call[r].order
  BY DEF OrderInv, RequestStands
<1>2. /\ header' = [header EXCEPT ![o] = [cents |-> total[r]]]
      /\ events' = [events EXCEPT ![o] = @ + 1]
  BY <1>1 DEF Order!CommitTables
<1>3. /\ DOMAIN header' = OrderIDs /\ header'[o] # Order!NoTotal
      /\ events' \in [OrderIDs -> Nat] /\ events'[o] = events[o] + 1 /\ events[o] \in Nat
      /\ \A p \in OrderIDs : p # o => header'[p] = header[p] /\ events'[p] = events[p]
  <2>1. header'[o] = [cents |-> total[r]]
    BY <1>2 DEF OrderInv, OrderTypes
  <2>2. header'[o] # Order!NoTotal
    BY <2>1, AmountsDiffer
  <2> QED
    BY <1>2, <2>2 DEF OrderInv, OrderTypes
<1>4. PICK new \in [OrderLines -> Nat] :
         /\ items' = [items EXCEPT ![o] = new] /\ Shows(r, new)
         /\ \A l \in OrderLines : new[l] > 0
  <2>1. CASE call[r].op = "patch"
    <3>1. /\ call[r].quantity \in Nat \ {0} /\ call[r].line \in OrderLines /\ header[o] # Order!NoTotal
      BY <1>1, <2>1 DEF OrderInv, RequestStands, EditStands, Writing
    <3>2. items[o] \in [OrderLines -> Nat] /\ \A l \in OrderLines : items[o][l] > 0
      BY <3>1 DEF OrderInv, OrderTypes, Order!AggregateIsWhole
    <3>3. PICK new : new = [items[o] EXCEPT ![call[r].line] = call[r].quantity]
      OBVIOUS
    <3>4. items' = [items EXCEPT ![o] = new]
      BY <1>1, <2>1, <3>3 DEF Order!CommitTables
    <3>5. /\ new \in [OrderLines -> Nat] /\ new[call[r].line] = call[r].quantity
          /\ \A l \in OrderLines : new[l] > 0
      BY <3>1, <3>2, <3>3
    <3> QED
      BY <2>1, <3>4, <3>5 DEF Shows
  <2>2. CASE call[r].op # "patch"
    <3>1. call[r].op = "create" /\ draft[r] \in [OrderLines -> Nat \ {0}]
      BY <2>2 DEF OrderInv, RequestStands, CreateStands, Writing
    <3>2. items' = [items EXCEPT ![o] = draft[r]]
      BY <1>1, <2>2 DEF Order!CommitTables
    <3>3. draft[r] \in [OrderLines -> Nat] /\ \A l \in OrderLines : draft[r][l] > 0
      BY <3>1
    <3> QED
      BY <3>1, <3>2, <3>3 DEF Shows
  <2> QED
    BY <2>1, <2>2
<1>5. /\ items' \in [OrderIDs -> [OrderLines -> Nat]] /\ items'[o] = new
      /\ \A p \in OrderIDs : p # o => items'[p] = items[p]
  BY <1>4 DEF OrderInv, OrderTypes
<1>6. Order!AggregateIsWhole'
  <2> SUFFICES ASSUME NEW p \in OrderIDs
               PROVE  /\ header'[p] # Order!NoTotal <=> events'[p] > 0
                      /\ header'[p] # Order!NoTotal => \A l \in OrderLines : items'[p][l] > 0
                      /\ header'[p] = Order!NoTotal => items'[p] = Order!NoItems
    BY DEF Order!AggregateIsWhole, Order!NoTotal, Order!NoItems
  <2>1. CASE p = o
    BY <1>3, <1>4, <1>5, <2>1
  <2>2. CASE p # o
    BY <1>3, <1>5, <2>2 DEF OrderInv, Order!AggregateIsWhole
  <2> QED
    BY <2>1, <2>2
<1> QED
  BY <1>1, <1>3, <1>4, <1>5, <1>6

LEMMA OrderCommitted ==
    ASSUME OrderInv, NEW r \in Requests, Order!Commit(r) \/ Order!CommitFails(r)
    PROVE  OrderInv'
<1>1. /\ pc[r] = "commit" /\ mine[r] = 0 /\ UNCHANGED <<call, draft, view>>
      /\ call[r].order \in OrderIDs
  BY DEF Order!Commit, Order!CommitFails, OrderInv, OrderTypes, RequestStands, OwnIsThere
<1>2. \/ /\ Order!CommitTables(r) /\ mine' = [mine EXCEPT ![r] = events[call[r].order] + 1]
         /\ pc' = [pc EXCEPT ![r] = "readOrder"] /\ UNCHANGED outcome
      \/ /\ Order!CommitTables(r) \/ UNCHANGED <<header, items, events>>
         /\ pc' = [pc EXCEPT ![r] = "reply"] /\ UNCHANGED mine
         /\ outcome' = [outcome EXCEPT ![r] = "service_error"]
  BY DEF Order!Commit, Order!CommitFails, Order!Goto, Order!tableVars
<1> DEFINE Kept ==
             /\ pc' \in [Requests -> {"idle", "insertOrder", "insertItems", "findOrder", "findItem",
                                      "updateItem", "sum", "updateTotal", "append", "commit",
                                      "readOrder", "readItems", "readEvents", "reply"}]
             /\ DOMAIN outcome' = Requests /\ mine' \in [Requests -> Nat]
             /\ \A q \in Requests : q # r =>
                   pc'[q] = pc[q] /\ mine'[q] = mine[q] /\ outcome'[q] = outcome[q]
<1>3. /\ Kept
      /\ \/ /\ Order!CommitTables(r) /\ pc'[r] = "readOrder"
            /\ mine'[r] = events[call[r].order] + 1
         \/ pc'[r] = "reply" /\ mine'[r] = 0
  <2>1. events[call[r].order] + 1 \in Nat
    BY <1>1 DEF OrderInv, OrderTypes
  <2>2. ASSUME NEW n \in Nat, mine' = [mine EXCEPT ![r] = n], UNCHANGED outcome,
               pc' = [pc EXCEPT ![r] = "readOrder"]
        PROVE  Kept /\ pc'[r] = "readOrder" /\ mine'[r] = n
    BY <2>2 DEF OrderInv, OrderTypes
  <2>3. ASSUME pc' = [pc EXCEPT ![r] = "reply"], UNCHANGED mine,
               outcome' = [outcome EXCEPT ![r] = "service_error"]
        PROVE  Kept /\ pc'[r] = "reply" /\ mine'[r] = 0
    BY <1>1, <2>3 DEF OrderInv, OrderTypes
  <2> QED
    BY <1>2, <2>1, <2>2, <2>3
<1>4. CreatesDiffer'
  BY <1>1 DEF OrderInv, CreatesDiffer
<1>5. CASE UNCHANGED <<header, items, events>> /\ pc'[r] = "reply" /\ mine'[r] = 0
  <2>1. OrderTypes'
    BY <1>1, <1>3, <1>5 DEF OrderInv, OrderTypes
  <2>2. RequestStands(r)'
    BY <1>1, <1>5 DEF RequestStands, CreateStands, EditStands, OwnIsThere, OwnIsShown, Writing
  <2> QED
    BY <1>1, <1>3, <1>4, <1>5, <2>1, <2>2, OrderGoes
<1>6. CASE Order!CommitTables(r)
  <2>1. PICK o \in OrderIDs : o = call[r].order
    BY <1>1
  <2>2. /\ DOMAIN header' = OrderIDs /\ header'[o] # Order!NoTotal
        /\ items' \in [OrderIDs -> [OrderLines -> Nat]] /\ events' \in [OrderIDs -> Nat]
        /\ events'[o] = events[o] + 1
        /\ Shows(r, items'[o])
        /\ \A p \in OrderIDs : p # o =>
              header'[p] = header[p] /\ items'[p] = items[p] /\ events'[p] = events[p]
        /\ Order!AggregateIsWhole'
    BY <1>1, <1>6, <2>1, OrderCommits
  <2>3. OrderTypes'
    BY <1>1, <1>3, <2>2 DEF OrderInv, OrderTypes
  <2>4. RequestStands(r)'
    <3>1. /\ call[r].op \in {"patch", "create"}
          /\ call[r].op = "patch" => call[r].line \in OrderLines
      BY <1>1 DEF OrderInv, RequestStands, CreateStands, EditStands, Writing
    <3> QED
      BY <1>1, <1>3, <2>1, <2>2, <3>1
         DEF RequestStands, CreateStands, EditStands, OwnIsThere, OwnIsShown, Shows, Writing
  <2>5. ASSUME NEW q \in Requests, q # r
        PROVE  RequestStands(q)'
    <3>1. RequestStands(q) /\ events[o] \in Nat /\ mine[q] \in Nat
      BY DEF OrderInv, OrderTypes
    <3>2. /\ pc'[q] = pc[q] /\ mine'[q] = mine[q] /\ outcome'[q] = outcome[q]
          /\ call'[q] = call[q] /\ draft'[q] = draft[q] /\ view'[q] = view[q]
      BY <1>1, <1>3, <2>5
    <3>3. CASE call[q].order # o
      <4>1. pc[q] # "idle" => /\ header'[call[q].order] = header[call[q].order]
                              /\ items'[call[q].order] = items[call[q].order]
                              /\ events'[call[q].order] = events[call[q].order]
        BY <2>2, <3>1, <3>3 DEF RequestStands
      <4> QED
        BY <3>1, <3>2, <4>1
           DEF RequestStands, CreateStands, EditStands, OwnIsThere, OwnIsShown, Shows, Writing
    <3>4. CASE call[q].order = o
      <4>1. CreateStands(q)'
        <5>1. pc[q] \in Writing => call[q].op = "patch"
          <6>1. CASE call[r].op = "patch"
            BY <1>1, <2>1, <3>1, <3>4, <6>1
               DEF OrderInv, RequestStands, EditStands, CreateStands, Writing
          <6>2. CASE call[r].op # "patch"
            BY <1>1, <2>1, <2>5, <3>1, <3>4, <6>2
               DEF OrderInv, RequestStands, CreateStands, CreatesDiffer, Writing
          <6> QED
            BY <6>1, <6>2
        <5> QED
          BY <3>2, <5>1 DEF CreateStands, Writing
      <4>2. EditStands(q)'
        BY <2>2, <3>1, <3>2, <3>4 DEF RequestStands, EditStands, Writing
      <4>3. OwnIsThere(q)' /\ OwnIsShown(q)'
        BY <2>2, <3>1, <3>2, <3>4 DEF RequestStands, OwnIsThere, OwnIsShown, Shows
      <4> QED
        BY <3>1, <3>2, <4>1, <4>2, <4>3 DEF RequestStands
    <3> QED
      BY <3>3, <3>4
  <2> QED
    BY <1>4, <2>2, <2>3, <2>4, <2>5 DEF OrderInv
<1> QED
  BY <1>2, <1>3, <1>5, <1>6

LEMMA OrderStep ==
    ASSUME Order!ServiceAssumption, OrderInv, [Order!Next]_(Order!vars)
    PROVE  OrderInv'
<1>1. CASE UNCHANGED Order!vars
  BY <1>1 DEF Order!vars, Order!requestVars, Order!tableVars, OrderInv, OrderTypes, CreatesDiffer,
     Order!AggregateIsWhole, RequestStands, CreateStands, EditStands, OwnIsThere, OwnIsShown, Shows
<1> QED
  BY <1>1, OrderStarts, OrderProceeds, OrderReads, OrderCommitted DEF Order!Next, Order!Advance

LEMMA OrderShows == OrderInv => Order!AnswerShowsOwnWrite
<1> SUFFICES ASSUME OrderInv, NEW r \in Requests,
                    pc[r] = "reply", outcome[r] = "ok", mine[r] > 0
             PROVE  /\ view[r].events >= mine[r]
                    /\ \/ view[r].events > mine[r]
                       \/ call[r].op = "patch" /\ view[r].items[call[r].line] = call[r].quantity
                       \/ call[r].op = "create" /\ view[r].items = draft[r]
                    /\ view[r].total # Order!NoTotal
  BY DEF Order!AnswerShowsOwnWrite
<1>1. /\ view[r].events \in Nat /\ mine[r] \in Nat /\ mine[r] <= view[r].events
      /\ view[r].total # Order!NoTotal
      /\ mine[r] = view[r].events => Shows(r, view[r].items)
  BY DEF OrderInv, OrderTypes, RequestStands, OwnIsShown
<1>2. CASE mine[r] = view[r].events
  BY <1>1, <1>2 DEF Shows
<1>3. CASE mine[r] # view[r].events
  BY <1>1, <1>3
<1> QED
  BY <1>2, <1>3

\* For any requests, orders, lines and prices, with clients that leave, statements that
\* fail and commits whose answer is lost: header, items and status events of an order
\* are stored together or not at all, and a successful create or edit is answered with
\* what it wrote, unless a later edit was committed (CreateOrder, UpdateItemQuantity,
\* GetOrder).
THEOREM OrderAggregateIsWhole ==
    Order!ServiceAssumption /\ Order!Spec =>
        [](Order!AggregateIsWhole /\ Order!AnswerShowsOwnWrite)
<1> SUFFICES ASSUME Order!ServiceAssumption
             PROVE  Order!Spec => [](Order!AggregateIsWhole /\ Order!AnswerShowsOwnWrite)
  OBVIOUS
<1>1. Order!Init => OrderInv
  BY OrderBegins
<1>2. OrderInv /\ [Order!Next]_(Order!vars) => OrderInv'
  BY OrderStep
<1>3. OrderInv => Order!AggregateIsWhole /\ Order!AnswerShowsOwnWrite
  BY OrderShows DEF OrderInv
<1> QED
  BY <1>1, <1>2, <1>3, PTL DEF Order!Spec

\* At most one item of an order is ever edited.  Two edits of different items do not wait
\* for each other before they sum, and the second total misses the first edit.
OneEdited == \A l, m \in OrderLines \intersect (Edited \union {0}) : l = m

Editing(r) == call[r].op = "patch" /\ pc[r] \in {"sum", "updateTotal", "append", "commit"}

\* A request knows the total its commit will store; an edit that has locked its item is
\* alone with the order.
TotalStands(r) ==
    /\ call[r].op = "patch" => call[r].line \in Edited \union {0}
    /\ pc[r] \in Writing /\ call[r].op # "patch" => total[r] = Order!Cents(draft[r])
    /\ Editing(r) =>
          \A q \in Requests : Editing(q) /\ call[q].order = call[r].order => q = r
    /\ Editing(r) /\ pc[r] # "sum" =>
          total[r] = Order!Cents([items[call[r].order] EXCEPT ![call[r].line] = call[r].quantity])

TotalInv ==
    /\ OrderInv /\ DOMAIN total = Requests /\ Order!TotalMatchesItems
    /\ \A r \in Requests : TotalStands(r)

LEMMA TotalBegins == Order!Init => TotalInv
<1> SUFFICES ASSUME Order!Init
             PROVE  TotalInv
  OBVIOUS
<1>1. \A r \in Requests : pc[r] = "idle" /\ call[r].op = "none"
  BY DEF Order!Init, Order!NoCall
<1>2. \A o \in OrderIDs : header[o] = Order!NoTotal
  BY DEF Order!Init
<1>3. OrderInv /\ DOMAIN total = Requests
  BY OrderBegins DEF Order!Init
<1> QED
  BY <1>1, <1>2, <1>3 DEF TotalInv, TotalStands, Editing, Writing, Order!TotalMatchesItems

\* A step of one request that leaves the tables alone and does not lock an item.
LEMMA TotalGoes ==
    ASSUME TotalInv, OrderInv', DOMAIN total' = Requests, NEW r \in Requests,
           UNCHANGED <<header, items>>,
           \A q \in Requests : q # r =>
               pc'[q] = pc[q] /\ call'[q] = call[q] /\ draft'[q] = draft[q] /\ total'[q] = total[q],
           Editing(r)' => Editing(r) /\ call'[r] = call[r],
           call'[r].op = "patch" => call'[r].line \in Edited \union {0},
           pc'[r] \in Writing /\ call'[r].op # "patch" => total'[r] = Order!Cents(draft'[r]),
           Editing(r)' /\ pc'[r] # "sum" =>
               total'[r] = Order!Cents([items[call[r].order] EXCEPT ![call[r].line] = call[r].quantity])
    PROVE  TotalInv'
<1>1. Order!TotalMatchesItems'
  BY DEF TotalInv, Order!TotalMatchesItems
<1>2. \A q \in Requests : Editing(q)' => Editing(q) /\ call'[q] = call[q]
  BY DEF Editing
<1>3. ASSUME NEW q \in Requests
      PROVE  TotalStands(q)'
  <2>1. TotalStands(q)
    BY DEF TotalInv
  <2>2. Editing(q)' => \A p \in Requests : Editing(p)' /\ call'[p].order = call'[q].order => p = q
    BY <1>2, <2>1 DEF TotalStands
  <2>3. CASE q = r
    BY <2>2, <2>3 DEF TotalStands
  <2>4. CASE q # r
    <3>1. /\ pc'[q] = pc[q] /\ call'[q] = call[q] /\ draft'[q] = draft[q] /\ total'[q] = total[q]
          /\ Editing(q)' <=> Editing(q)
      BY <2>4 DEF Editing
    <3> QED
      BY <2>1, <2>2, <3>1 DEF TotalStands
  <2> QED
    BY <2>3, <2>4
<1> QED
  BY <1>1, <1>3 DEF TotalInv

LEMMA TotalStarts ==
    ASSUME TotalInv, OrderInv', NEW r \in Requests,
           \/ \E op \in {"create", "reject"}, quantity \in Quantities :
                 Order!StartCreate(r, op, quantity)
           \/ \E o \in OrderIDs, line \in Edited \union {0}, quantity \in Quantities :
                 Order!StartOther(r, "patch", o, line, quantity)
           \/ \E o \in OrderIDs, op \in {"get", "status"} : Order!StartOther(r, op, o, 0, 0)
    PROVE  TotalInv'
<1>1. ASSUME NEW op \in {"create", "reject"}, NEW quantity, Order!StartCreate(r, op, quantity)
      PROVE  TotalInv'
  <2>1. PICK o : call' = [call EXCEPT ![r] = [op |-> op, order |-> o, line |-> 0, quantity |-> quantity]]
    BY <1>1 DEF Order!StartCreate
  <2>2. call'[r].op \in {"create", "reject"} /\ \A q \in Requests : q # r => call'[q] = call[q]
    BY <2>1 DEF TotalInv, OrderInv, OrderTypes
  <2>3. UNCHANGED <<header, items>>
    BY <1>1 DEF Order!StartCreate, Order!tableVars
  <2>4. CASE Order!Valid(quantity)
    <3>1. PICK lines : lines = [l \in OrderLines |-> quantity]
      OBVIOUS
    <3>2. /\ draft' = [draft EXCEPT ![r] = lines] /\ pc' = [pc EXCEPT ![r] = "insertOrder"]
          /\ total' = [total EXCEPT ![r] = Order!Cents(lines)]
      BY <1>1, <2>4, <3>1 DEF Order!StartCreate, Order!Goto
    <3>3. /\ total'[r] = Order!Cents(draft'[r]) /\ DOMAIN total' = Requests
          /\ \A q \in Requests : q # r =>
                pc'[q] = pc[q] /\ draft'[q] = draft[q] /\ total'[q] = total[q]
      BY <3>2 DEF TotalInv, OrderInv, OrderTypes
    <3> QED
      BY <2>2, <2>3, <3>3, TotalGoes DEF Editing
  <2>5. CASE ~Order!Valid(quantity)
    <3>1. UNCHANGED <<draft, total>> /\ pc' = [pc EXCEPT ![r] = "reply"]
      BY <1>1, <2>5 DEF Order!StartCreate, Order!Goto
    <3>2. pc'[r] = "reply" /\ \A q \in Requests : q # r => pc'[q] = pc[q]
      BY <3>1 DEF TotalInv, OrderInv, OrderTypes
    <3>3. DOMAIN total' = Requests
      BY <3>1 DEF TotalInv
    <3>4. ~Editing(r)' /\ pc'[r] \notin Writing
      BY <3>2 DEF Editing, Writing
    <3>5. call'[r].op # "patch"
      BY <2>2
    <3>6. \A q \in Requests : q # r =>
             pc'[q] = pc[q] /\ call'[q] = call[q] /\ draft'[q] = draft[q] /\ total'[q] = total[q]
      BY <2>2, <3>1, <3>2
    <3> QED
      BY <2>3, <3>3, <3>4, <3>5, <3>6, TotalGoes
  <2> QED
    BY <2>4, <2>5
<1>2. ASSUME NEW op \in {"patch", "get", "status"}, NEW o, NEW line \in Edited \union {0},
             NEW quantity, Order!StartOther(r, op, o, line, quantity)
      PROVE  TotalInv'
  <2>1. /\ call' = [call EXCEPT ![r] = [op |-> op, order |-> o, line |-> line, quantity |-> quantity]]
        /\ UNCHANGED <<draft, total, header, items>>
        /\ \/ pc' = [pc EXCEPT ![r] = "reply"]
           \/ op = "patch" /\ pc' = [pc EXCEPT ![r] = "findOrder"]
           \/ pc' = [pc EXCEPT ![r] = "readOrder"]
    BY <1>2 DEF Order!StartOther, Order!Goto, Order!tableVars
  <2>2. /\ call'[r].op = op /\ call'[r].line = line
        /\ \A q \in Requests : q # r => call'[q] = call[q]
    BY <2>1 DEF TotalInv, OrderInv, OrderTypes
  <2>3. /\ pc'[r] \in {"reply", "readOrder"} \/ (op = "patch" /\ pc'[r] = "findOrder")
        /\ \A q \in Requests : q # r => pc'[q] = pc[q]
    BY <2>1 DEF TotalInv, OrderInv, OrderTypes
  <2>4. DOMAIN total' = Requests
    BY <2>1 DEF TotalInv
  <2>5. /\ ~Editing(r)'
        /\ pc'[r] \in Writing => call'[r].op = "patch"
    BY <2>2, <2>3 DEF Editing, Writing
  <2>6. \A q \in Requests : q # r =>
           pc'[q] = pc[q] /\ call'[q] = call[q] /\ draft'[q] = draft[q] /\ total'[q] = total[q]
    BY <2>1, <2>2, <2>3
  <2>7. UNCHANGED <<header, items>> /\ (call'[r].op = "patch" => call'[r].line \in Edited \union {0})
    BY <2>1, <2>2
  <2> QED
    BY <2>4, <2>5, <2>6, <2>7, TotalGoes
<1> QED
  BY <1>1, <1>2

\* items.UpdateQuantity waits until nobody else edits an item of the order.
LEMMA TotalLocks ==
    ASSUME OneEdited, TotalInv, OrderInv', NEW r \in Requests, Order!UpdateQuantity(r)
    PROVE  TotalInv'
<1>1. /\ pc[r] = "updateItem" /\ pc' = [pc EXCEPT ![r] = "sum"]
      /\ UNCHANGED <<call, draft, total, header, items>>
      /\ \A q \in Requests \ {r} : ~Order!EditsItem(q, call[r].order, call[r].line)
  BY DEF Order!UpdateQuantity, Order!Goto, Order!tableVars
<1>2. pc'[r] = "sum" /\ \A q \in Requests : q # r => pc'[q] = pc[q]
  BY <1>1 DEF TotalInv, OrderInv, OrderTypes
<1>3. RequestStands(r) /\ TotalStands(r)
  BY DEF TotalInv, OrderInv
<1>4. call[r].op = "patch" /\ call[r].line \in OrderLines
  BY <1>1, <1>3 DEF RequestStands, CreateStands, EditStands, Writing
<1>5. ASSUME NEW q \in Requests, q # r, Editing(q), call[q].order = call[r].order
      PROVE  FALSE
  <2>1. RequestStands(q) /\ TotalStands(q)
    BY DEF TotalInv, OrderInv
  <2>2. call[q].line \in OrderLines /\ call[q].op = "patch"
    BY <1>5, <2>1 DEF RequestStands, EditStands, Editing, Writing
  <2>3. call[q].line = call[r].line
    BY <1>3, <1>4, <2>1, <2>2 DEF OneEdited, TotalStands
  <2> QED
    BY <1>1, <1>5, <2>3 DEF Order!EditsItem, Editing
<1>6. Order!TotalMatchesItems' /\ DOMAIN total' = Requests
  BY <1>1 DEF TotalInv, Order!TotalMatchesItems
<1>7. TotalStands(r)'
  BY <1>1, <1>2, <1>3, <1>4, <1>5 DEF TotalStands, Editing
<1>8. ASSUME NEW q \in Requests, q # r
      PROVE  TotalStands(q)'
  <2>1. TotalStands(q)
    BY DEF TotalInv
  <2>2. /\ pc'[q] = pc[q] /\ UNCHANGED <<call, draft, total, items>>
        /\ Editing(q)' <=> Editing(q)
    BY <1>1, <1>2, <1>8 DEF Editing
  <2>3. ASSUME Editing(q)', NEW p \in Requests, Editing(p)', call[p].order = call[q].order
        PROVE  p = q
    <3>1. p # r
      BY <1>5, <1>8, <2>2, <2>3
    <3>2. Editing(p)
      BY <1>1, <1>2, <2>3, <3>1 DEF Editing
    <3> QED
      BY <2>1, <2>2, <2>3, <3>2 DEF TotalStands
  <2> QED
    BY <2>1, <2>2, <2>3 DEF TotalStands
<1> QED
  BY <1>6, <1>7, <1>8 DEF TotalInv

\* items.SumOrderTotal sums what the commit will store.
LEMMA TotalSums ==
    ASSUME TotalInv, OrderInv', NEW r \in Requests, Order!SumOrderTotal(r)
    PROVE  TotalInv'
<1>1. PICK new : new = [items[call[r].order] EXCEPT ![call[r].line] = call[r].quantity]
  OBVIOUS
<1>2. /\ pc[r] = "sum" /\ pc' = [pc EXCEPT ![r] = "updateTotal"]
      /\ UNCHANGED <<call, draft, header, items>>
      /\ total' = [total EXCEPT ![r] = Order!Cents(new)]
  BY <1>1 DEF Order!SumOrderTotal, Order!Goto, Order!tableVars
<1>3. /\ total'[r] = Order!Cents(new) /\ pc'[r] = "updateTotal" /\ DOMAIN total' = Requests
      /\ \A q \in Requests : q # r => pc'[q] = pc[q] /\ total'[q] = total[q]
  BY <1>2 DEF TotalInv, OrderInv, OrderTypes
<1>4. RequestStands(r) /\ TotalStands(r)
  BY DEF TotalInv, OrderInv
<1>5. call[r].op = "patch"
  BY <1>2, <1>4 DEF RequestStands, CreateStands, Writing
<1>6. Editing(r)
  BY <1>2, <1>5 DEF Editing
<1> QED
  BY <1>1, <1>2, <1>3, <1>4, <1>5, <1>6, TotalGoes DEF TotalStands

\* The steps that move on, read or answer.
LEMMA TotalProceeds ==
    ASSUME TotalInv, OrderInv', NEW r \in Requests,
           \/ Order!InsertOrder(r) \/ Order!InsertItems(r) \/ Order!FindOrder(r)
           \/ Order!FindItem(r) \/ Order!UpdateTotal(r) \/ Order!Append(r) \/ Order!Expire(r)
           \/ Order!StatementFails(r) \/ Order!ReadOrder(r) \/ Order!ReadItems(r)
           \/ Order!ReadEvents(r)
           \/ Order!CommitFails(r) /\ UNCHANGED <<header, items>>
    PROVE  TotalInv'
<1>1. /\ UNCHANGED <<call, draft, total, header, items>>
      /\ \/ UNCHANGED pc
         \/ pc[r] = "insertOrder" /\ pc' = [pc EXCEPT ![r] = "insertItems"]
         \/ pc[r] = "insertItems" /\ call[r].op # "reject" /\ pc' = [pc EXCEPT ![r] = "append"]
         \/ pc[r] = "findOrder" /\ pc' = [pc EXCEPT ![r] = "findItem"]
         \/ pc[r] = "findItem" /\ pc' = [pc EXCEPT ![r] = "updateItem"]
         \/ pc[r] = "updateTotal" /\ pc' = [pc EXCEPT ![r] = "append"]
         \/ pc[r] = "append" /\ pc' = [pc EXCEPT ![r] = "commit"]
         \/ \E label \in {"readItems", "readEvents", "reply"} : pc' = [pc EXCEPT ![r] = label]
  BY DEF Order!InsertOrder, Order!InsertItems, Order!FindOrder, Order!FindItem,
     Order!UpdateTotal, Order!Append, Order!Expire, Order!StatementFails, Order!ReadOrder,
     Order!ReadItems, Order!ReadEvents, Order!CommitFails, Order!Fail, Order!Goto, Order!tableVars
<1>2. RequestStands(r) /\ TotalStands(r)
  BY DEF TotalInv, OrderInv
<1>3. \A q \in Requests : q # r => pc'[q] = pc[q]
  BY <1>1 DEF TotalInv, OrderInv, OrderTypes
<1>4. /\ pc'[r] \in Writing => pc[r] \in Writing
      /\ Editing(r)' => Editing(r) /\ (pc'[r] # "sum" => pc[r] # "sum")
  <2>1. pc \in [Requests -> {"idle", "insertOrder", "insertItems", "findOrder", "findItem",
                             "updateItem", "sum", "updateTotal", "append", "commit",
                             "readOrder", "readItems", "readEvents", "reply"}]
    BY DEF TotalInv, OrderInv, OrderTypes
  <2>2. call[r].op = "patch" => pc[r] \notin {"insertOrder", "insertItems"}
    BY <1>2 DEF RequestStands, EditStands, Writing
  <2> QED
    BY <1>1, <2>1, <2>2 DEF Editing, Writing
<1>5. DOMAIN total' = Requests
  BY <1>1 DEF TotalInv
<1> QED
  BY <1>1, <1>2, <1>3, <1>4, <1>5, TotalGoes DEF TotalStands

LEMMA TotalReplies ==
    ASSUME TotalInv, OrderInv', NEW r \in Requests, Order!Reply(r)
    PROVE  TotalInv'
<1>1. /\ pc' = [pc EXCEPT ![r] = "idle"] /\ call' = [call EXCEPT ![r] = Order!NoCall]
      /\ draft' = [draft EXCEPT ![r] = Order!NoItems] /\ total' = [total EXCEPT ![r] = 0]
      /\ UNCHANGED <<header, items>>
  BY DEF Order!Reply, Order!Goto, Order!tableVars
<1>2. /\ pc'[r] = "idle" /\ call'[r].op = "none" /\ DOMAIN total' = Requests
      /\ \A q \in Requests : q # r => /\ pc'[q] = pc[q] /\ call'[q] = call[q]
                                      /\ draft'[q] = draft[q] /\ total'[q] = total[q]
  BY <1>1 DEF TotalInv, OrderInv, OrderTypes, Order!NoCall
<1> QED
  BY <1>1, <1>2, TotalGoes DEF Editing, Writing

\* A commit stores the total of the items it stores, and nobody else stands on those.
LEMMA TotalCommits ==
    ASSUME TotalInv, OrderInv', NEW r \in Requests, Order!Commit(r) \/ Order!CommitFails(r),
           Order!CommitTables(r)
    PROVE  TotalInv'
<1>1. /\ pc[r] = "commit" /\ UNCHANGED <<call, draft, total>>
      /\ \/ pc' = [pc EXCEPT ![r] = "readOrder"]
         \/ pc' = [pc EXCEPT ![r] = "reply"]
  BY DEF Order!Commit, Order!CommitFails, Order!Goto
<1>2. /\ pc'[r] \in {"readOrder", "reply"} /\ \A q \in Requests : q # r => pc'[q] = pc[q]
      /\ DOMAIN total' = Requests
  BY <1>1 DEF TotalInv, OrderInv, OrderTypes
<1>3. RequestStands(r) /\ TotalStands(r)
  BY DEF TotalInv, OrderInv
<1>4. PICK o \in OrderIDs : o = call[r].order
  BY <1>1, <1>3 DEF RequestStands
<1>5. PICK new : items' = [items EXCEPT ![o] = new] /\ total[r] = Order!Cents(new)
  <2>1. CASE call[r].op = "patch"
    <3>1. PICK new : new = [items[o] EXCEPT ![call[r].line] = call[r].quantity]
      OBVIOUS
    <3>2. items' = [items EXCEPT ![o] = new]
      BY <1>4, <2>1, <3>1 DEF Order!CommitTables
    <3>3. total[r] = Order!Cents(new)
      BY <1>1, <1>3, <1>4, <2>1, <3>1 DEF TotalStands, Editing
    <3> QED
      BY <3>2, <3>3
  <2>2. CASE call[r].op # "patch"
    BY <1>1, <1>3, <1>4, <2>2 DEF Order!CommitTables, TotalStands, Writing
  <2> QED
    BY <2>1, <2>2
<1>6. /\ header'[o] = [cents |-> total[r]] /\ items'[o] = new
      /\ \A p \in OrderIDs : p # o => header'[p] = header[p] /\ items'[p] = items[p]
  BY <1>4, <1>5 DEF Order!CommitTables, TotalInv, OrderInv, OrderTypes
<1>7. Order!TotalMatchesItems'
  <2> SUFFICES ASSUME NEW p \in OrderIDs, header'[p] # Order!NoTotal
               PROVE  header'[p] = [cents |-> Order!Cents(items'[p])]
    BY DEF Order!TotalMatchesItems, Order!NoTotal
  <2>1. CASE p = o
    BY <1>5, <1>6, <2>1
  <2>2. CASE p # o
    BY <1>6, <2>2 DEF TotalInv, Order!TotalMatchesItems
  <2> QED
    BY <2>1, <2>2
<1>8. ASSUME NEW q \in Requests
      PROVE  /\ TotalStands(q) /\ (Editing(q)' => Editing(q) /\ q # r)
             /\ Editing(q)' => items'[call[q].order] = items[call[q].order]
  <2>1. RequestStands(q) /\ TotalStands(q)
    BY DEF TotalInv, OrderInv
  <2>2. Editing(q)' => Editing(q) /\ q # r
    BY <1>1, <1>2 DEF Editing
  <2>3. ASSUME Editing(q), q # r, call[q].order = o
        PROVE  FALSE
    <3>1. header[o] # Order!NoTotal
      BY <2>1, <2>3 DEF RequestStands, EditStands, Editing, Writing
    <3>2. call[r].op = "patch"
      BY <1>1, <1>3, <1>4, <3>1 DEF RequestStands, CreateStands, Writing
    <3> QED
      BY <1>1, <1>4, <2>1, <2>3, <3>2 DEF TotalStands, Editing
  <2>4. Editing(q) => call[q].order \in OrderIDs
    BY <2>1 DEF RequestStands, Editing
  <2> QED
    BY <1>6, <2>1, <2>2, <2>3, <2>4
<1>9. ASSUME NEW q \in Requests
      PROVE  TotalStands(q)'
  <2>1. pc'[q] = pc[q] \/ pc'[q] \notin Writing
    BY <1>2 DEF Writing
  <2>2. Editing(q)' /\ pc'[q] # "sum" => Editing(q) /\ pc[q] # "sum"
    BY <1>2, <1>8
  <2> QED
    BY <1>1, <1>8, <2>1, <2>2 DEF TotalStands
<1> QED
  BY <1>2, <1>7, <1>9 DEF TotalInv

LEMMA TotalStep ==
    ASSUME OneEdited, Order!ServiceAssumption, TotalInv, [Order!Next]_(Order!vars)
    PROVE  TotalInv'
<1>1. OrderInv'
  BY OrderStep DEF TotalInv
<1>2. CASE UNCHANGED Order!vars
  BY <1>1, <1>2 DEF Order!vars, Order!requestVars, Order!tableVars, TotalInv, TotalStands, Editing,
     Order!TotalMatchesItems
<1>3. ASSUME NEW r \in Requests, Order!CommitFails(r)
      PROVE  Order!CommitTables(r) \/ UNCHANGED <<header, items>>
  BY <1>3 DEF Order!CommitFails, Order!tableVars
<1>4. ASSUME NEW r \in Requests, Order!Commit(r)
      PROVE  Order!CommitTables(r)
  BY <1>4 DEF Order!Commit
<1> QED
  BY <1>1, <1>2, <1>3, <1>4, TotalStarts, TotalLocks, TotalSums, TotalProceeds, TotalReplies,
     TotalCommits DEF Order!Next, Order!Advance

\* For any requests, orders, lines and prices, as long as one item of an order is edited:
\* the total of a stored order is the sum of its stored lines, whatever edits, creates,
\* failures and lost commits run at the same time (CreateOrder, UpdateItemQuantity,
\* SumOrderTotal, UpdateTotal).  The row lock that UpdateQuantity takes is what keeps two
\* edits apart between their sums and their commits.
THEOREM OrderTotalsAreSums ==
    OneEdited /\ Order!ServiceAssumption /\ Order!Spec => []Order!TotalMatchesItems
<1> SUFFICES ASSUME OneEdited, Order!ServiceAssumption
             PROVE  Order!Spec => []Order!TotalMatchesItems
  OBVIOUS
<1>1. Order!Init => TotalInv
  BY TotalBegins
<1>2. TotalInv /\ [Order!Next]_(Order!vars) => TotalInv'
  BY TotalStep
<1>3. TotalInv => Order!TotalMatchesItems
  BY DEF TotalInv
<1> QED
  BY <1>1, <1>2, <1>3, PTL DEF Order!Spec

--------------------------------------------------------------------------------
(* The audit queries behind the semaphore of the order workflow.             *)

Running == {r \in Requests : pc[r] \in {"decode", "find", "found"}}

AuditInv ==
    /\ pc \in [Requests -> {"idle", "decode", "find", "found", "reply"}]
    /\ IsFiniteSet(Running) /\ lock = Cardinality(Running)
    /\ lock \in 0 .. MaximumConcurrent

LEMMA SameSize == \A S : Audit!Cardinality(S) = Cardinality(S)
BY Zenon DEF Audit!Cardinality, Cardinality

LEMMA AuditBegins == Audit!AuditAssumption /\ Audit!Init => AuditInv
<1> SUFFICES ASSUME Audit!AuditAssumption, Audit!Init
             PROVE  AuditInv
  OBVIOUS
<1>1. Running = {}
  BY DEF Audit!Init, Running
<1> QED
  BY <1>1, FS_EmptySet DEF Audit!AuditAssumption, Audit!Init, AuditInv

\* A request enters the semaphore, leaves it, or stays on its side.
LEMMA AuditMoves ==
    ASSUME Audit!AuditAssumption, AuditInv, NEW r \in Requests,
           NEW place \in {"idle", "decode", "find", "found", "reply"},
           pc' = [pc EXCEPT ![r] = place],
           \/ r \notin Running /\ place = "decode" /\ lock # MaximumConcurrent /\ lock' = lock + 1
           \/ r \in Running /\ place = "reply" /\ lock' = lock - 1
           \/ (r \in Running <=> place \in {"decode", "find", "found"}) /\ UNCHANGED lock
    PROVE  AuditInv'
<1>1. /\ pc' \in [Requests -> {"idle", "decode", "find", "found", "reply"}]
      /\ pc'[r] = place /\ \A q \in Requests : q # r => pc'[q] = pc[q]
  BY DEF AuditInv
<1>2. /\ lock \in Nat /\ lock <= MaximumConcurrent /\ MaximumConcurrent \in Nat
      /\ IsFiniteSet(Running)
  BY DEF Audit!AuditAssumption, AuditInv
<1>3. CASE r \notin Running /\ place = "decode" /\ lock # MaximumConcurrent /\ lock' = lock + 1
  <2>1. Running' = Running \union {r}
    BY <1>1, <1>3 DEF Running
  <2>2. IsFiniteSet(Running') /\ Cardinality(Running') = Cardinality(Running) + 1
    BY <1>2, <1>3, <2>1, FS_AddElement
  <2> QED
    BY <1>1, <1>2, <1>3, <2>2 DEF AuditInv
<1>4. CASE r \in Running /\ place = "reply" /\ lock' = lock - 1
  <2>1. Running' = Running \ {r}
    BY <1>1, <1>4 DEF Running
  <2>2. IsFiniteSet(Running') /\ Cardinality(Running') = Cardinality(Running) - 1
    BY <1>2, <1>4, <2>1, FS_RemoveElement
  <2>3. Cardinality(Running') \in Nat
    BY <2>2, FS_CardinalityType
  <2> QED
    BY <1>1, <1>2, <1>4, <2>2, <2>3 DEF AuditInv
<1>5. CASE (r \in Running <=> place \in {"decode", "find", "found"}) /\ UNCHANGED lock
  <2>1. Running' = Running
    BY <1>1, <1>5 DEF Running
  <2> QED
    BY <1>1, <1>2, <1>5, <2>1 DEF AuditInv
<1> QED
  BY <1>3, <1>4, <1>5

LEMMA AuditStep ==
    ASSUME Audit!AuditAssumption, AuditInv, [Audit!Next]_(Audit!vars)
    PROVE  AuditInv'
<1>1. CASE UNCHANGED <<pc, lock>>
  BY <1>1 DEF AuditInv, Running
<1>2. ASSUME NEW r \in Requests, Audit!LimitConcurrency(r), r \notin Running
      PROVE  AuditInv'
  BY <1>2, AuditMoves DEF Audit!LimitConcurrency, Audit!Goto
<1>3. ASSUME NEW r \in Requests, NEW code, Audit!Answer(r, code), r \in Running
      PROVE  AuditInv'
  BY <1>3, AuditMoves DEF Audit!Answer, Audit!Goto
<1>4. ASSUME NEW r \in Requests, NEW place \in {"find", "found"}, Audit!Goto(r, place),
             r \in Running, UNCHANGED lock
      PROVE  AuditInv'
  BY <1>4, AuditMoves DEF Audit!Goto
<1>5. ASSUME Audit!Insert
      PROVE  AuditInv'
  BY <1>1, <1>5 DEF Audit!Insert
<1>6. ASSUME NEW r \in Requests, NEW c \in AuditCalls, Audit!Arrive(r, c)
      PROVE  AuditInv'
  BY <1>2, <1>6 DEF Audit!Arrive, Running
<1>7. ASSUME NEW r \in Requests, Audit!Advance(r)
      PROVE  AuditInv'
  <2>1. CASE Audit!DecodeJSON(r)
    BY <1>3, <1>4, <2>1 DEF Audit!DecodeJSON, Running
  <2>2. CASE Audit!Find(r)
    BY <1>3, <1>4, <2>2 DEF Audit!Find, Running
  <2>3. CASE Audit!Fails(r)
    BY <1>3, <2>3 DEF Audit!Fails, Running
  <2>4. CASE Audit!Respond(r)
    BY <1>3, <2>4 DEF Audit!Respond, Running
  <2>5. CASE Audit!Follow(r)
    BY <1>2, <2>5 DEF Audit!Follow, Running
  <2>6. CASE Audit!Leave(r)
    <3>1. r \notin Running /\ UNCHANGED lock /\ pc' = [pc EXCEPT ![r] = "idle"]
      BY <2>6 DEF Audit!Leave, Audit!Goto, Running
    <3> QED
      BY <3>1, AuditMoves
  <2>7. CASE Audit!Expire(r)
    BY <1>1, <2>7 DEF Audit!Expire
  <2> QED
    BY <1>7, <2>1, <2>2, <2>3, <2>4, <2>5, <2>6, <2>7 DEF Audit!Advance
<1>8. CASE UNCHANGED Audit!vars
  BY <1>1, <1>8 DEF Audit!vars
<1> QED
  BY <1>5, <1>6, <1>7, <1>8 DEF Audit!Next

\* For any number of clients and slots: the slots that are taken are those of the
\* requests that run, however they end, and never more than there are
\* (limitConcurrency, searchHistory and historyDetail).
THEOREM SlotsComeBack ==
    Audit!AuditAssumption /\ Audit!Init /\ [][Audit!Next]_(Audit!vars) =>
        [](Audit!SlotsAreReturned /\ lock \in 0 .. MaximumConcurrent)
<1> SUFFICES ASSUME Audit!AuditAssumption
             PROVE  Audit!Init /\ [][Audit!Next]_(Audit!vars) =>
                       [](Audit!SlotsAreReturned /\ lock \in 0 .. MaximumConcurrent)
  OBVIOUS
<1>1. Audit!Init => AuditInv
  BY AuditBegins
<1>2. AuditInv /\ [Audit!Next]_(Audit!vars) => AuditInv'
  BY AuditStep
<1>3. AuditInv => Audit!SlotsAreReturned /\ lock \in 0 .. MaximumConcurrent
  BY SameSize DEF AuditInv, Running, Audit!SlotsAreReturned
<1> QED
  BY <1>1, <1>2, <1>3, PTL

--------------------------------------------------------------------------------
(* The pages a client of the audit routes is shown.                          *)

Rising(s) == \A i, j \in DOMAIN s : i < j => s[i] < s[j]
Shown(s) == {s[i] : i \in DOMAIN s}

\* How many revisions are smaller.
Before(S, v) == Cardinality({w \in S : w < v})

LEMMA BeforeOrders ==
    ASSUME NEW S \in SUBSET Nat, IsFiniteSet(S)
    PROVE  /\ \A v \in S : Before(S, v) \in 0 .. (Cardinality(S) - 1)
           /\ \A v, w \in S : v < w => Before(S, v) < Before(S, w)
<1>0. Cardinality(S) \in Nat /\ \A v \in S : v \in Nat
  BY FS_CardinalityType
<1>1. ASSUME NEW v \in S
      PROVE  /\ IsFiniteSet({w \in S : w < v}) /\ Before(S, v) \in Nat
             /\ Cardinality({w \in S : w < v} \union {v}) = Before(S, v) + 1
  <2> DEFINE T == {w \in S : w < v}
  <2>1. IsFiniteSet(T) /\ Cardinality(T) \in Nat
    <3>1. T \in SUBSET S
      OBVIOUS
    <3>2. IsFiniteSet(T)
      BY <3>1, FS_Subset
    <3> QED
      BY <3>2, FS_CardinalityType
  <2>2. v \notin T
    OBVIOUS
  <2>3. Cardinality(T \union {v}) = Cardinality(T) + 1
    BY <2>1, <2>2, FS_AddElement, Zenon
  <2> QED
    BY <2>1, <2>3 DEF Before
<1>2. ASSUME NEW v \in S PROVE Before(S, v) \in 0 .. (Cardinality(S) - 1)
  <2>1. PICK T : T = {w \in S : w < v} \union {v}
    OBVIOUS
  <2>2. T \in SUBSET S /\ Cardinality(T) = Before(S, v) + 1 /\ Before(S, v) \in Nat
    BY <1>1, <2>1, Zenon
  <2>3. Cardinality(T) <= Cardinality(S)
    BY <2>2, FS_Subset
  <2> QED
    BY <1>0, <2>2, <2>3
<1>3. ASSUME NEW v \in S, NEW w \in S, v < w PROVE Before(S, v) < Before(S, w)
  <2>1. PICK T : T = {x \in S : x < v} \union {v}
    OBVIOUS
  <2>2. T \in SUBSET {x \in S : x < w}
    <3> SUFFICES ASSUME NEW x \in T PROVE x \in S /\ x < w
      BY Zenon
    <3> QED
      BY <1>0, <1>3, <2>1
  <2>3. Cardinality(T) = Before(S, v) + 1 /\ Before(S, v) \in Nat /\ Before(S, w) \in Nat
    BY <1>1, <2>1, Zenon
  <2>4. Cardinality(T) <= Before(S, w)
    BY <1>1, <2>2, FS_Subset DEF Before
  <2> QED
    BY <2>3, <2>4
<1> QED
  BY <1>2, <1>3

\* Every place is taken.
LEMMA BeforeReaches ==
    ASSUME NEW S \in SUBSET Nat, IsFiniteSet(S), NEW n \in 0 .. (Cardinality(S) - 1)
    PROVE  \E v \in S : Before(S, v) = n
<1> DEFINE f == [v \in S |-> Before(S, v)]
           T == 0 .. (Cardinality(S) - 1)
<1>0. Cardinality(S) \in Nat
  BY FS_CardinalityType
<1>1. f \in [S -> T]
  BY BeforeOrders
<1>2. \A v, w \in S : f[v] = f[w] => v = w
  <2> SUFFICES ASSUME NEW v \in S, NEW w \in S, f[v] = f[w], v # w PROVE FALSE
    OBVIOUS
  <2>1. Before(S, v) \in Nat /\ Before(S, w) \in Nat /\ Before(S, v) = Before(S, w)
    BY BeforeOrders, <1>0
  <2>2. v < w \/ w < v
    OBVIOUS
  <2> QED
    BY <2>1, <2>2, BeforeOrders
<1>3. f \in Injection(S, T)
  <2> HIDE DEF f, T
  <2> QED
    BY <1>1, <1>2 DEF Injection, IsInjective
<1>4. IsFiniteSet(T) /\ Cardinality(T) = Cardinality(S)
  BY <1>0, FS_Interval
<1>5. f \in Surjection(S, T)
  BY <1>3, <1>4, FS_Injection
<1> QED
  BY <1>5 DEF Surjection

LEMMA RevisionsAreSorted ==
    ASSUME NEW S \in SUBSET Nat, IsFiniteSet(S), NEW c, c = Audit!Sorted(S)
    PROVE  c \in Seq(S) /\ Rising(c) /\ S \subseteq Shown(c)
<1>0. Cardinality(S) \in Nat /\ \A v \in S : v \in Nat
  BY FS_CardinalityType
<1>2. c = [k \in 1 .. Cardinality(S) |-> CHOOSE v \in S : Before(S, v) = k - 1]
  BY Zenon DEF Audit!Sorted, Before, Audit!Cardinality, Cardinality
<1>3. ASSUME NEW k \in 1 .. Cardinality(S) PROVE c[k] \in S /\ Before(S, c[k]) = k - 1
  <2>1. k - 1 \in 0 .. (Cardinality(S) - 1)
    BY <1>0
  <2>2. \E v \in S : Before(S, v) = k - 1
    BY <2>1, BeforeReaches
  <2>3. c[k] = CHOOSE v \in S : Before(S, v) = k - 1
    BY <1>2
  <2> QED
    BY <2>2, <2>3, Zenon
<1>4. c \in Seq(S) /\ DOMAIN c = 1 .. Cardinality(S)
  BY <1>0, <1>2, <1>3
<1>5. Rising(c)
  <2> SUFFICES ASSUME NEW j \in 1 .. Cardinality(S), NEW k \in 1 .. Cardinality(S), j < k
               PROVE  c[j] < c[k]
    BY <1>4 DEF Rising
  <2>1. c[j] \in S /\ c[k] \in S /\ Before(S, c[j]) = j - 1 /\ Before(S, c[k]) = k - 1
    BY <1>3
  <2>2. c[k] < c[j] => k - 1 < j - 1
    BY <2>1, BeforeOrders
  <2>3. c[j] = c[k] => j - 1 = k - 1
    BY <2>1
  <2>4. c[j] \in Nat /\ c[k] \in Nat
    BY <1>0, <2>1, Zenon
  <2>5. ~(c[k] < c[j]) /\ c[j] # c[k]
    BY <1>0, <2>2, <2>3
  <2> QED
    BY <2>4, <2>5
<1>6. ASSUME NEW v \in S PROVE v \in Shown(c)
  <2>1. PICK k \in 1 .. Cardinality(S) : Before(S, v) = k - 1
    <3>1. Before(S, v) \in 0 .. (Cardinality(S) - 1)
      BY BeforeOrders
    <3>2. Before(S, v) + 1 \in 1 .. Cardinality(S) /\ Before(S, v) = (Before(S, v) + 1) - 1
      BY <1>0, <3>1
    <3> QED
      BY <3>2
  <2>2. c[k] \in S /\ Before(S, c[k]) = k - 1 /\ k - 1 \in Nat
    BY <1>3
  <2>3. v < c[k] => k - 1 < k - 1
    BY <2>1, <2>2, BeforeOrders
  <2>4. c[k] < v => k - 1 < k - 1
    BY <2>1, <2>2, BeforeOrders
  <2>5. c[k] \in Nat /\ v \in Nat
    BY <1>0, <2>2, Zenon
  <2>6. c[k] = v
    BY <2>3, <2>4, <2>5
  <2> QED
    BY <1>4, <2>6 DEF Shown
<1> QED
  BY <1>4, <1>5, <1>6

LEMMA FunctionsAreSeqs ==
    ASSUME NEW n \in Nat, NEW f \in [1 .. n -> Nat]
    PROVE  f \in Seq(Nat)
OBVIOUS

LEMMA PrefixIsTyped ==
    ASSUME NEW S \in SUBSET Nat, NEW s \in Seq(S), NEW m \in Int, m <= Len(s)
    PROVE  SubSeq(s, 1, m) \in Seq(Nat)
<1>1. PICK k \in Nat : k <= Len(s) /\ SubSeq(s, 1, m) = [i \in 1 .. k |-> s[i]]
  <2>1. CASE m > 0
    BY <2>1
  <2>2. CASE m <= 0
    <3>1. SubSeq(s, 1, m) = [i \in 1 .. 0 |-> s[i]]
      BY <2>2
    <3> QED
      BY <3>1
  <2> QED
    BY <2>1, <2>2
<1>2. \A i \in 1 .. k : s[i] \in Nat
  <2>1. \A v \in S : v \in Nat
    OBVIOUS
  <2>2. \A i \in 1 .. k : s[i] \in S
    BY <1>1
  <2> QED
    BY <2>1, <2>2, Zenon
<1>3. [i \in 1 .. k |-> s[i]] \in [1 .. k -> Nat]
  BY <1>2, Zenon
<1> QED
  BY <1>1, <1>3, FunctionsAreSeqs, Zenon

\* The first n rows of a sorted set.
RowsFit(page, S, n) ==
    /\ page \in Seq(Nat) /\ Rising(page) /\ Shown(page) \subseteq S /\ Len(page) <= n
    /\ \A v \in S : v \in Shown(page) \/ (Len(page) = n /\ \A i \in 1 .. n : page[i] < v)

LEMMA FirstRows ==
    ASSUME NEW S \in SUBSET Nat, IsFiniteSet(S), NEW n \in Nat, NEW all, all = Audit!Sorted(S),
           NEW page, page = SubSeq(all, 1, IF Len(all) < n THEN Len(all) ELSE n)
    PROVE  RowsFit(page, S, n)
<1>1. all \in Seq(S) /\ Rising(all) /\ S \subseteq Shown(all)
  BY RevisionsAreSorted
<1>2. PICK l \in Nat : l = Len(all) /\ DOMAIN all = 1 .. l /\ \A i \in 1 .. l : all[i] \in S
  BY <1>1
<1>3. PICK m \in Nat : m = (IF l < n THEN l ELSE n)
  OBVIOUS
<1>4. m <= l /\ m <= n /\ (m = n \/ m = l)
  BY <1>3
<1>5. page = SubSeq(all, 1, m)
  BY <1>2, <1>3
<1>6. page \in Seq(S) /\ Len(page) = m /\ \A i \in 1 .. m : page[i] = all[i]
  BY <1>1, <1>2, <1>4, <1>5
<1>7. DOMAIN page = 1 .. m
  BY <1>6
<1>8. page \in Seq(Nat)
  <2>1. \A v \in S : v \in Nat
    OBVIOUS
  <2>2. ASSUME NEW i \in 1 .. m PROVE page[i] \in Nat
    <3>1. i \in 1 .. l
      BY <1>4
    <3>2. all[i] \in S /\ page[i] = all[i]
      BY <1>2, <1>6, <3>1
    <3> QED
      BY <2>1, <3>2, Zenon
  <2>3. page = [i \in 1 .. m |-> page[i]]
    BY <1>6, <1>7
  <2>4. page \in [1 .. m -> Nat]
    BY <2>2, <2>3, Zenon
  <2> QED
    BY <2>4, FunctionsAreSeqs
<1>9. Rising(page)
  BY <1>1, <1>2, <1>4, <1>6, <1>7 DEF Rising
<1>10. Shown(page) \subseteq S
  BY <1>2, <1>4, <1>6, <1>7 DEF Shown
<1>11. ASSUME NEW v \in S, v \notin Shown(page)
      PROVE  Len(page) = n /\ \A i \in 1 .. n : page[i] < v
  <2>1. PICK k \in 1 .. l : all[k] = v
    BY <1>1, <1>2 DEF Shown
  <2>2. k \notin 1 .. m
    <3>1. \A i \in 1 .. m : page[i] # v
      BY <1>7, <1>11 DEF Shown
    <3> QED
      BY <1>6, <2>1, <3>1
  <2>3. m = n /\ m < k
    BY <1>4, <2>2
  <2>4. \A i \in 1 .. n : all[i] < all[k]
    BY <1>1, <1>2, <1>4, <2>2, <2>3 DEF Rising
  <2> QED
    BY <1>6, <2>1, <2>3, <2>4
<1> QED
  BY <1>4, <1>6, <1>8, <1>9, <1>10, <1>11 DEF RowsFit

\* Pages one after the other.
LEMMA PagesFollow ==
    ASSUME NEW s \in Seq(Nat), NEW t \in Seq(Nat), Rising(s), Rising(t),
           \A v \in Shown(s), w \in Shown(t) : v < w
    PROVE  s \o t \in Seq(Nat) /\ Rising(s \o t) /\ Shown(s \o t) = Shown(s) \union Shown(t)
<1>1. PICK d : d = s \o t
  OBVIOUS
<1>2. /\ d \in Seq(Nat) /\ Len(s) \in Nat /\ Len(t) \in Nat /\ Len(d) = Len(s) + Len(t)
      /\ DOMAIN s = 1 .. Len(s) /\ DOMAIN t = 1 .. Len(t) /\ DOMAIN d = 1 .. (Len(s) + Len(t))
      /\ \A k \in 1 .. Len(s) : d[k] = s[k]
      /\ \A k \in 1 .. Len(t) : d[Len(s) + k] = t[k]
  BY <1>1
<1>3. \A k \in DOMAIN d : \/ k \in 1 .. Len(s) /\ d[k] = s[k]
                          \/ \E m \in 1 .. Len(t) : k = Len(s) + m /\ d[k] = t[m]
  <2> SUFFICES ASSUME NEW k \in DOMAIN d, k \notin 1 .. Len(s)
               PROVE  \E m \in 1 .. Len(t) : k = Len(s) + m /\ d[k] = t[m]
    BY <1>2
  <2>1. k - Len(s) \in 1 .. Len(t) /\ k = Len(s) + (k - Len(s))
    BY <1>2
  <2> QED
    BY <1>2, <2>1
<1>4. Rising(d)
  <2> SUFFICES ASSUME NEW j \in DOMAIN d, NEW k \in DOMAIN d, j < k
               PROVE  d[j] < d[k]
    BY DEF Rising
  <2>1. CASE k \in 1 .. Len(s)
    <3>1. j \in 1 .. Len(s)
      BY <1>2, <2>1
    <3> QED
      BY <1>2, <2>1, <3>1 DEF Rising
  <2>2. CASE k \notin 1 .. Len(s)
    <3>1. PICK m \in 1 .. Len(t) : k = Len(s) + m /\ d[k] = t[m]
      BY <1>3, <2>2
    <3>2. CASE j \in 1 .. Len(s)
      BY <1>2, <3>1, <3>2 DEF Shown
    <3>3. CASE j \notin 1 .. Len(s)
      <4>1. PICK l \in 1 .. Len(t) : j = Len(s) + l /\ d[j] = t[l]
        BY <1>3, <3>3
      <4>2. l < m
        BY <1>2, <3>1, <4>1
      <4> QED
        BY <1>2, <3>1, <4>1, <4>2 DEF Rising
    <3> QED
      BY <3>2, <3>3
  <2> QED
    BY <2>1, <2>2
<1>5. Shown(d) = Shown(s) \union Shown(t)
  <2>1. Shown(d) \subseteq Shown(s) \union Shown(t)
    BY <1>2, <1>3 DEF Shown
  <2>2. Shown(s) \subseteq Shown(d)
    BY <1>2 DEF Shown
  <2>3. ASSUME NEW k \in 1 .. Len(t) PROVE t[k] \in Shown(d)
    <3>1. Len(s) + k \in DOMAIN d /\ d[Len(s) + k] = t[k]
      BY <1>2
    <3> QED
      BY <3>1 DEF Shown
  <2> QED
    BY <1>2, <2>1, <2>2, <2>3 DEF Shown
<1> QED
  BY <1>1, <1>2, <1>4, <1>5

AuditCallTypes ==
    [op : {c.op : c \in AuditCalls} \union {"none"}, body : {c.body : c \in AuditCalls} \union {"ok"},
     aggregate : {c.aggregate : c \in AuditCalls} \union {"none"},
     from : Int, to : Int, after : Int, before : Int, limit : Int]
WalkTypes == [asked : AuditCallTypes, since : Nat, walked : Seq(Nat), page : Seq(Nat), next : Nat]

\* What the pages before the request c leave to be shown, when h revisions are committed.
WalkGoesOn(c, w, h) ==
    /\ w.since <= h
    /\ c = [w.asked EXCEPT !.from = c.from]
    /\ c.from = w.asked.from \/ (c.from > 0 /\ (w.asked.from = 0 \/ w.asked.from <= c.from))
    /\ Rising(w.walked)
    /\ \A v \in Shown(w.walked) : v \in Audit!Matches(w.asked, h) /\ v < c.from
    /\ \A v \in Audit!Matches(w.asked, w.since) :
          v \in Audit!Matches(c, w.since) \/ v \in Shown(w.walked)
    /\ c.op # "search" => w.next = 0

\* A page, before and after the row beyond the limit is cut off.
PageFits(c, w, h) == Rising(w.page) /\ Shown(w.page) \subseteq Audit!Matches(c, h)

FoundFits(c, w, h) ==
    /\ PageFits(c, w, h)
    /\ Len(w.page) <= c.limit + 1
    /\ \A v \in Audit!Matches(c, w.since) :
          v \in Shown(w.page) \/ (Len(w.page) = c.limit + 1 /\ w.page[c.limit + 1] < v)

ReplyFits(c, w, h) ==
    /\ PageFits(c, w, h)
    /\ w.next = 0 => Audit!Matches(c, w.since) \subseteq Shown(w.page)
    /\ w.next # 0 =>
          /\ w.next \in Audit!Matches(c, h)
          /\ \A v \in Shown(w.page) : v < w.next
          /\ \A v \in Audit!Matches(c, w.since) : v \in Shown(w.page) \/ w.next <= v

WalkFits(place, c, w, code, h) ==
    place # "idle" =>
        /\ WalkGoesOn(c, w, h)
        /\ place \in {"find", "found"} /\ c.op = "search" => c.limit > 0
        /\ place = "found" /\ c.op = "search" => FoundFits(c, w, h)
        /\ place = "reply" /\ c.op = "search" /\ code = "ok" => ReplyFits(c, w, h)

WalkInv ==
    /\ AuditInv
    /\ call \in [Requests -> AuditCallTypes]
    /\ seen \in [Requests -> WalkTypes]
    /\ outcome = [r \in Requests |-> outcome[r]]
    /\ history \in Nat
    /\ \A r \in Requests : WalkFits(pc[r], call[r], seen[r], outcome[r], history)

\* Of Matches only the bound on the revision matters here.
LEMMA MatchesAreNumbers ==
    ASSUME NEW c, NEW h \in Nat
    PROVE  /\ Audit!Matches(c, h) \subseteq 1 .. h
           /\ IsFiniteSet(Audit!Matches(c, h)) /\ Audit!Matches(c, h) \in SUBSET Nat
<1>1. Audit!Matches(c, h) \subseteq 1 .. h
  BY DEF Audit!Matches
<1>2. IsFiniteSet(1 .. h)
  BY FS_Interval
<1> QED
  BY <1>1, <1>2, FS_Subset

LEMMA MatchesGrow ==
    ASSUME NEW c, NEW g \in Nat, NEW h \in Nat, g <= h
    PROVE  Audit!Matches(c, g) \subseteq Audit!Matches(c, h)
BY DEF Audit!Matches

LEMMA MatchesFromHere ==
    ASSUME NEW a \in AuditCallTypes, NEW f \in Int, NEW h \in Nat, NEW c, c = [a EXCEPT !.from = f]
    PROVE  /\ \A v \in Audit!Matches(c, h) : f = 0 \/ f <= v
           /\ \A v \in Audit!Matches(a, h) : f = 0 \/ f <= v => v \in Audit!Matches(c, h)
           /\ \A v \in Audit!Matches(c, h) :
                 a.from = 0 \/ a.from <= v => v \in Audit!Matches(a, h)
<1>1. /\ c.aggregate = a.aggregate /\ c.to = a.to /\ c.after = a.after /\ c.before = a.before
      /\ c.from = f
  BY DEF AuditCallTypes
<1> QED
  BY <1>1, Zenon DEF Audit!Matches

LEMMA MatchesBeyond ==
    ASSUME NEW a \in AuditCallTypes, NEW f \in Int, NEW h \in Nat, NEW v \in Audit!Matches(a, h),
           f = 0 \/ f <= v
    PROVE  v \in Audit!Matches([a EXCEPT !.from = f], h)
BY MatchesFromHere

LEMMA CallsStayTyped ==
    ASSUME NEW a \in AuditCallTypes, NEW f \in Int
    PROVE  /\ [a EXCEPT !.from = f] \in AuditCallTypes
           /\ [a EXCEPT !.from = f].from = f
           /\ [a EXCEPT !.from = f].op = a.op
           /\ [a EXCEPT !.from = a.from] = a
BY DEF AuditCallTypes

LEMMA LastBoundCounts ==
    \A a \in AuditCallTypes : \A f, g \in Int :
        [[a EXCEPT !.from = g] EXCEPT !.from = f] = [a EXCEPT !.from = f]
BY DEF AuditCallTypes

\* A commit adds a revision.
LEMMA WalkGrows ==
    ASSUME NEW place, NEW c, NEW w \in WalkTypes, NEW code, NEW g \in Nat, NEW h \in Nat, g <= h,
           WalkFits(place, c, w, code, g)
    PROVE  WalkFits(place, c, w, code, h)
<1>1. w.since \in Nat
  BY DEF WalkTypes
<1>2. Audit!Matches(w.asked, g) \subseteq Audit!Matches(w.asked, h)
      /\ Audit!Matches(c, g) \subseteq Audit!Matches(c, h)
  BY MatchesGrow
<1>3. WalkGoesOn(c, w, g) => WalkGoesOn(c, w, h)
  BY <1>1, <1>2 DEF WalkGoesOn
<1>4. PageFits(c, w, g) => PageFits(c, w, h)
  BY <1>2 DEF PageFits
<1>5. FoundFits(c, w, g) => FoundFits(c, w, h)
  BY <1>4 DEF FoundFits
<1>6. ReplyFits(c, w, g) => ReplyFits(c, w, h)
  BY <1>2, <1>4 DEF ReplyFits
<1> QED
  BY <1>3, <1>5, <1>6, Zenon DEF WalkFits

\* The parts of a walk that a step has changed.
WalkIs(x, asked, since, walked, page, boundary) ==
    /\ x \in WalkTypes
    /\ x.asked = asked /\ x.since = since /\ x.walked = walked /\ x.page = page
    /\ x.next = boundary

LEMMA WalkParts ==
    ASSUME NEW w \in WalkTypes, NEW s \in Seq(Nat), NEW p \in Seq(Nat), NEW n \in Nat
    PROVE  /\ WalkIs([w EXCEPT !.page = p, !.next = n], w.asked, w.since, w.walked, p, n)
           /\ WalkIs([w EXCEPT !.walked = s, !.page = p, !.next = n], w.asked, w.since, s, p, n)
           /\ WalkIs([w EXCEPT !.page = p], w.asked, w.since, w.walked, p, w.next)
<1>1. WalkIs([w EXCEPT !.page = p, !.next = n], w.asked, w.since, w.walked, p, n)
  BY Zenon DEF WalkTypes, WalkIs
<1>2. WalkIs([w EXCEPT !.walked = s, !.page = p, !.next = n], w.asked, w.since, s, p, n)
  BY Zenon DEF WalkTypes, WalkIs
<1>3. WalkIs([w EXCEPT !.page = p], w.asked, w.since, w.walked, p, w.next)
  BY Zenon DEF WalkTypes, WalkIs
<1> QED
  BY <1>1, <1>2, <1>3

LEMMA NewWalk ==
    ASSUME NEW c \in AuditCallTypes, NEW h \in Nat
    PROVE  WalkIs([Audit!NoWalk EXCEPT !.asked = c, !.since = h], c, h, <<>>, <<>>, 0)
<1>1. 0 \in Nat /\ <<>> \in Seq(Nat)
  OBVIOUS
<1> QED
  BY <1>1, Zenon DEF Audit!NoWalk, WalkTypes, WalkIs

\* A walk begins.
LEMMA WalkStarts ==
    ASSUME NEW c \in AuditCallTypes, NEW h \in Nat, NEW place \in {"decode", "reply"}, NEW code,
           code # "ok", NEW w, w = [Audit!NoWalk EXCEPT !.asked = c, !.since = h]
    PROVE  w \in WalkTypes /\ WalkFits(place, c, w, code, h)
<1>2. WalkIs(w, c, h, <<>>, <<>>, 0)
  BY NewWalk, Zenon
<1>3. Rising(<<>>) /\ Shown(<<>>) = {}
  BY DEF Rising, Shown
<1>4. c = [c EXCEPT !.from = c.from]
  BY CallsStayTyped DEF AuditCallTypes
<1>5. w.asked = c /\ w.since = h /\ w.walked = <<>> /\ w.next = 0 /\ w \in WalkTypes
  BY <1>2, Zenon DEF WalkIs
<1>6. c.from \in Int /\ \A v \in Audit!Matches(w.asked, w.since) : v \in Audit!Matches(c, w.since)
  BY <1>5, Zenon DEF AuditCallTypes
<1>7. WalkGoesOn(c, w, h)
  <2>1. w.since <= h /\ c.from = w.asked.from /\ Rising(w.walked) /\ Shown(w.walked) = {}
    BY <1>3, <1>5
  <2>2. c = [w.asked EXCEPT !.from = c.from]
    BY <1>4, <1>5, Zenon
  <2> QED
    BY <1>5, <1>6, <2>1, <2>2, Zenon DEF WalkGoesOn
<1> QED
  BY <1>5, <1>7, Zenon DEF WalkFits

\* The row beyond the limit names where the next page begins.
LEMMA PageIsCut ==
    ASSUME NEW c \in AuditCallTypes, NEW w \in WalkTypes, NEW h \in Nat, WalkGoesOn(c, w, h),
           c.op = "search", c.limit > 0, FoundFits(c, w, h),
           NEW cut, cut = Audit!NextPage(w.page, c.limit),
           NEW x, x = [w EXCEPT !.page = cut.page, !.next = cut.next]
    PROVE  x \in WalkTypes /\ WalkGoesOn(c, x, h) /\ ReplyFits(c, x, h)
<1>0. /\ w.page \in Seq(Nat) /\ w.since \in Nat /\ c.limit \in Nat /\ w.since <= h
  BY DEF WalkTypes, AuditCallTypes, WalkGoesOn
<1>1. CASE Len(w.page) <= c.limit
  <2>1. cut.page = w.page /\ cut.next = 0
    BY <1>0, <1>1 DEF Audit!NextPage
  <2>2. /\ x.page = w.page /\ x.next = 0 /\ x.since = w.since /\ x.asked = w.asked
        /\ x.walked = w.walked /\ x \in WalkTypes
    <3>1. 0 \in Nat /\ x = [w EXCEPT !.page = w.page, !.next = 0]
      BY <2>1, Zenon
    <3>2. WalkIs([w EXCEPT !.page = w.page, !.next = 0], w.asked, w.since, w.walked, w.page, 0)
      BY <1>0, <3>1, WalkParts, Zenon
    <3> QED
      BY <3>1, <3>2, Zenon DEF WalkIs
  <2>3. Audit!Matches(c, w.since) \subseteq Shown(w.page)
    BY <1>0, <1>1 DEF FoundFits
  <2> QED
    BY <2>2, <2>3 DEF WalkGoesOn, ReplyFits, FoundFits, PageFits
<1>2. CASE Len(w.page) > c.limit
  <2>0. PICK l \in Nat, p \in Seq(Nat) : l = c.limit /\ p = w.page /\ Len(p) = l + 1
    BY <1>0, <1>2 DEF FoundFits
  <2>1. cut.page = SubSeq(p, 1, l) /\ cut.next = p[l + 1]
    BY <1>2, <2>0 DEF Audit!NextPage
  <2>2. DOMAIN p = 1 .. (l + 1) /\ \A i \in 1 .. (l + 1) : p[i] \in Nat
    BY <2>0
  <2>3. PICK q : q = cut.page
    OBVIOUS
  <2>4. q \in Seq(Nat) /\ DOMAIN q = 1 .. l /\ \A i \in 1 .. l : q[i] = p[i]
    BY <2>0, <2>1, <2>2, <2>3
  <2>5. PICK n \in Nat : n = cut.next /\ n = p[l + 1] /\ l + 1 \in 1 .. (l + 1)
    BY <2>0, <2>1, <2>2
  <2>6. /\ x.page = q /\ x.next = n /\ x.since = w.since /\ x.asked = w.asked
        /\ x.walked = w.walked /\ x \in WalkTypes
    <3>1. x = [w EXCEPT !.page = q, !.next = n]
      BY <2>3, <2>5, Zenon
    <3>2. WalkIs([w EXCEPT !.page = q, !.next = n], w.asked, w.since, w.walked, q, n)
      BY <1>0, <2>4, WalkParts, Zenon
    <3> QED
      BY <3>1, <3>2, Zenon DEF WalkIs
  <2>7. Rising(p) /\ Shown(p) \subseteq Audit!Matches(c, h)
    BY <2>0 DEF FoundFits, PageFits
  <2>8. n \in Audit!Matches(c, h) /\ n > 0
    <3>1. n \in Shown(p)
      BY <2>2, <2>5 DEF Shown
    <3> QED
      BY <2>7, <3>1, MatchesAreNumbers
  <2>9. Rising(q) /\ \A v \in Shown(q) : v < n
    <3>1. \A i \in 1 .. l : i \in 1 .. (l + 1) /\ i < l + 1
      BY <2>0
    <3>2. \A i, j \in 1 .. (l + 1) : i < j => p[i] < p[j]
      BY <2>2, <2>7 DEF Rising
    <3>3. \A i, j \in 1 .. l : i < j => q[i] < q[j]
      BY <2>4, <3>1, <3>2
    <3>4. \A i \in 1 .. l : q[i] < n
      BY <2>4, <2>5, <3>1, <3>2
    <3> QED
      BY <2>4, <3>3, <3>4, Zenon DEF Rising, Shown
  <2>10. Shown(q) \subseteq Audit!Matches(c, h)
    BY <2>2, <2>4, <2>7 DEF Shown
  <2>11. ASSUME NEW v \in Audit!Matches(c, w.since), v \notin Shown(q)
         PROVE  n <= v
    <3>0. v \in Nat
      BY <1>0, MatchesAreNumbers
    <3>1. CASE v \in Shown(p)
      <4>1. PICK i \in 1 .. (l + 1) : p[i] = v
        BY <2>2, <3>1 DEF Shown
      <4>2. i \notin 1 .. l
        BY <2>4, <2>11, <4>1 DEF Shown
      <4> QED
        BY <2>5, <3>0, <4>1, <4>2
    <3>2. CASE v \notin Shown(p)
      BY <2>0, <2>5, <3>0, <3>2 DEF FoundFits
    <3> QED
      BY <3>1, <3>2
  <2>12. WalkGoesOn(c, x, h)
    BY <2>6 DEF WalkGoesOn
  <2> QED
    BY <2>6, <2>8, <2>9, <2>10, <2>11, <2>12 DEF ReplyFits, PageFits
<1> QED
  BY <1>0, <1>1, <1>2

\* The pages a client has been shown together.
LEMMA WalkShows ==
    ASSUME NEW c \in AuditCallTypes, NEW w \in WalkTypes, NEW h \in Nat, WalkGoesOn(c, w, h),
           PageFits(c, w, h)
    PROVE  /\ w.walked \o w.page \in Seq(Nat) /\ Rising(w.walked \o w.page)
           /\ Shown(w.walked \o w.page) = Shown(w.walked) \union Shown(w.page)
           /\ Shown(w.walked \o w.page) \subseteq Audit!Matches(w.asked, h)
           /\ \A v \in Shown(w.walked) : v \in Nat /\ c.from > v
<1>0. /\ w.walked \in Seq(Nat) /\ w.page \in Seq(Nat) /\ w.asked \in AuditCallTypes
      /\ c.from \in Int /\ w.asked.from \in Int /\ w.since \in Nat
  BY DEF WalkTypes, AuditCallTypes
<1>1. \A v \in Audit!Matches(c, h) : v \in Nat /\ v > 0 /\ (c.from = 0 \/ c.from <= v)
  BY <1>0, MatchesAreNumbers, MatchesFromHere DEF WalkGoesOn
<1>2. \A v \in Shown(w.walked) : v \in Nat /\ v > 0 /\ v < c.from
  BY MatchesAreNumbers DEF WalkGoesOn
<1>3. \A v \in Shown(w.walked), u \in Shown(w.page) : v < u
  <2> SUFFICES ASSUME NEW v \in Shown(w.walked), NEW u \in Shown(w.page)
               PROVE  v < u
    OBVIOUS
  <2>1. u \in Audit!Matches(c, h)
    BY DEF PageFits
  <2> QED
    BY <1>0, <1>1, <1>2, <2>1
<1>4. /\ w.walked \o w.page \in Seq(Nat) /\ Rising(w.walked \o w.page)
      /\ Shown(w.walked \o w.page) = Shown(w.walked) \union Shown(w.page)
  BY <1>0, <1>3, PagesFollow DEF WalkGoesOn, PageFits
<1>5. Audit!Matches(c, h) \subseteq Audit!Matches(w.asked, h)
  <2> SUFFICES ASSUME NEW v \in Audit!Matches(c, h)
               PROVE  v \in Audit!Matches(w.asked, h)
    OBVIOUS
  <2>1. w.asked.from = 0 \/ w.asked.from <= v
    BY <1>0, <1>1 DEF WalkGoesOn
  <2> QED
    BY <1>0, <2>1, MatchesFromHere DEF WalkGoesOn
<1> QED
  BY <1>2, <1>4, <1>5 DEF WalkGoesOn, PageFits

\* The client follows the boundary.
LEMMA WalkContinues ==
    ASSUME NEW c \in AuditCallTypes, NEW w \in WalkTypes, NEW h \in Nat, WalkGoesOn(c, w, h),
           c.op = "search", ReplyFits(c, w, h), w.next > 0,
           NEW d, d = [c EXCEPT !.from = w.next],
           NEW x, x = [w EXCEPT !.walked = w.walked \o w.page, !.page = <<>>, !.next = 0]
    PROVE  d \in AuditCallTypes /\ x \in WalkTypes /\ WalkGoesOn(d, x, h)
<1>0. /\ w.walked \in Seq(Nat) /\ w.page \in Seq(Nat) /\ w.asked \in AuditCallTypes /\ w.next \in Nat
      /\ c.from \in Int /\ w.asked.from \in Int /\ w.since \in Nat /\ w.since <= h
  BY DEF WalkTypes, AuditCallTypes, WalkGoesOn
<1>1. /\ PageFits(c, w, h) /\ w.next \in Audit!Matches(c, h) /\ \A v \in Shown(w.page) : v < w.next
      /\ \A v \in Audit!Matches(c, w.since) : v \in Shown(w.page) \/ w.next <= v
  BY <1>0 DEF ReplyFits
<1>2. d \in AuditCallTypes /\ d.from = w.next /\ d.op = c.op /\ d = [w.asked EXCEPT !.from = w.next]
  <2>0. w.next \in Int
    BY <1>0
  <2>1. d \in AuditCallTypes /\ d.from = w.next /\ d.op = c.op
    BY <1>0, <2>0, CallsStayTyped, Zenon
  <2>2. c = [w.asked EXCEPT !.from = c.from]
    BY DEF WalkGoesOn
  <2>3. [[w.asked EXCEPT !.from = c.from] EXCEPT !.from = w.next] = [w.asked EXCEPT !.from = w.next]
    <3>1. w.asked \in AuditCallTypes /\ c.from \in Int
      BY <1>0
    <3> QED
      BY <2>0, <3>1, LastBoundCounts, Zenon
  <2> QED
    BY <2>1, <2>2, <2>3, Zenon
<1>3. PICK shown : shown = w.walked \o w.page
  OBVIOUS
<1>4. /\ shown \in Seq(Nat) /\ Rising(shown) /\ Shown(shown) = Shown(w.walked) \union Shown(w.page)
      /\ Shown(shown) \subseteq Audit!Matches(w.asked, h)
      /\ \A v \in Shown(w.walked) : v \in Nat /\ c.from > v
  BY <1>1, <1>3, WalkShows
<1>5. /\ x.walked = shown /\ x.page = <<>> /\ x.next = 0 /\ x.since = w.since /\ x.asked = w.asked
      /\ x \in WalkTypes
  <2>1. <<>> \in Seq(Nat) /\ 0 \in Nat
    OBVIOUS
  <2>2. x = [w EXCEPT !.walked = shown, !.page = <<>>, !.next = 0]
    BY <1>3, Zenon
  <2>3. WalkIs([w EXCEPT !.walked = shown, !.page = <<>>, !.next = 0], w.asked, w.since, shown, <<>>, 0)
    BY <1>4, <2>1, WalkParts, Zenon
  <2> QED
    BY <2>2, <2>3, Zenon DEF WalkIs
<1>6. c.from = 0 \/ c.from <= w.next
  BY <1>0, <1>1, MatchesFromHere DEF WalkGoesOn
<1>7. \A v \in Shown(shown) : v < w.next
  BY <1>0, <1>1, <1>4, <1>6
<1>8. w.asked.from = 0 \/ w.asked.from <= w.next
  BY <1>0, <1>6 DEF WalkGoesOn
<1>9. ASSUME NEW v \in Audit!Matches(w.asked, w.since), v \notin Shown(shown)
      PROVE  v \in Audit!Matches(d, w.since)
  <2>1. v \in Audit!Matches(c, w.since)
    BY <1>4, <1>9 DEF WalkGoesOn
  <2>2. w.next <= v
    BY <1>1, <1>4, <1>9, <2>1
  <2>3. w.next \in Int /\ w.since \in Nat /\ w.asked \in AuditCallTypes
    BY <1>0
  <2>4. v \in Audit!Matches([w.asked EXCEPT !.from = w.next], w.since)
    BY <1>9, <2>2, <2>3, MatchesBeyond
  <2> QED
    BY <1>2, <2>4, Zenon
<1> QED
  BY <1>0, <1>2, <1>4, <1>5, <1>7, <1>8, <1>9 DEF WalkGoesOn

LEMMA NothingIsTyped ==
    Audit!NoCall \in AuditCallTypes /\ Audit!NoWalk \in WalkTypes
<1>1. Audit!NoCall \in AuditCallTypes
  <2>1. 0 \in Int
    OBVIOUS
  <2> QED
    BY <2>1, Zenon DEF Audit!NoCall, AuditCallTypes
<1>2. Audit!NoWalk \in WalkTypes
  <2>1. 0 \in Nat /\ <<>> \in Seq(Nat)
    OBVIOUS
  <2> QED
    BY <1>1, <2>1, Zenon DEF Audit!NoWalk, WalkTypes
<1> QED
  BY <1>1, <1>2

LEMMA WalkBegins == Audit!AuditAssumption /\ Audit!Init => WalkInv
<1> SUFFICES ASSUME Audit!AuditAssumption, Audit!Init
             PROVE  WalkInv
  OBVIOUS
<1>1. Audit!NoCall \in AuditCallTypes /\ Audit!NoWalk \in WalkTypes
  BY NothingIsTyped
<1>3. call \in [Requests -> AuditCallTypes] /\ seen \in [Requests -> WalkTypes]
  BY <1>1, Zenon DEF Audit!Init
<1>4. history \in Nat /\ \A r \in Requests : pc[r] = "idle"
  BY DEF Audit!Init
<1>6. outcome = [r \in Requests |-> outcome[r]]
  BY DEF Audit!Init
<1>5. \A r \in Requests : WalkFits(pc[r], call[r], seen[r], outcome[r], history)
  BY <1>4, Zenon DEF WalkFits
<1> QED
  BY <1>3, <1>4, <1>5, <1>6, AuditBegins DEF WalkInv

\* A step of request r.
LEMMA WalkMoves ==
    ASSUME WalkInv, AuditInv', NEW r \in Requests, UNCHANGED history,
           NEW place, NEW c \in AuditCallTypes, NEW w \in WalkTypes, NEW code,
           pc' = [pc EXCEPT ![r] = place], call' = [call EXCEPT ![r] = c],
           seen' = [seen EXCEPT ![r] = w], outcome' = [outcome EXCEPT ![r] = code],
           WalkFits(place, c, w, code, history)
    PROVE  WalkInv'
<1>1. pc \in [Requests -> {"idle", "decode", "find", "found", "reply"}]
  BY DEF WalkInv, AuditInv
<1>2. /\ call' \in [Requests -> AuditCallTypes] /\ seen' \in [Requests -> WalkTypes]
      /\ outcome' = [q \in Requests |-> outcome'[q]] /\ history' \in Nat
  BY Zenon DEF WalkInv
<1>3. pc'[r] = place /\ call'[r] = c /\ seen'[r] = w /\ outcome'[r] = code
  BY <1>1, Zenon DEF WalkInv
<1>4. \A q \in Requests : q # r =>
         pc'[q] = pc[q] /\ call'[q] = call[q] /\ seen'[q] = seen[q] /\ outcome'[q] = outcome[q]
  BY <1>1, Zenon DEF WalkInv
<1>5. \A q \in Requests : WalkFits(pc'[q], call'[q], seen'[q], outcome'[q], history')
  BY <1>3, <1>4, Zenon DEF WalkInv
<1> QED
  BY <1>2, <1>5 DEF WalkInv

\* What a step leaves alone.
LEMMA WalkStays ==
    ASSUME WalkInv, NEW r \in Requests
    PROVE  /\ call = [call EXCEPT ![r] = call[r]] /\ seen = [seen EXCEPT ![r] = seen[r]]
           /\ outcome = [outcome EXCEPT ![r] = outcome[r]]
           /\ call[r] \in AuditCallTypes /\ seen[r] \in WalkTypes
           /\ history \in Nat /\ WalkFits(pc[r], call[r], seen[r], outcome[r], history)
<1>1. call \in [Requests -> AuditCallTypes] /\ seen \in [Requests -> WalkTypes]
      /\ outcome = [q \in Requests |-> outcome[q]]
  BY DEF WalkInv
<1>2. call = [call EXCEPT ![r] = call[r]] /\ seen = [seen EXCEPT ![r] = seen[r]]
      /\ outcome = [outcome EXCEPT ![r] = outcome[r]]
  BY <1>1
<1> QED
  BY <1>1, <1>2, Zenon DEF WalkInv

\* An answer that is no page.
LEMMA WalkRefused ==
    ASSUME NEW place, place # "idle", NEW c, NEW w, NEW code, NEW h, WalkFits(place, c, w, code, h),
           NEW answer, answer # "ok" \/ c.op # "search"
    PROVE  WalkFits("reply", c, w, answer, h)
BY Zenon DEF WalkFits

LEMMA WalkAnswers ==
    ASSUME WalkInv, AuditInv', NEW r \in Requests, pc[r] # "idle", UNCHANGED <<call, seen, history>>,
           NEW answer, answer # "ok" \/ call[r].op # "search",
           pc' = [pc EXCEPT ![r] = "reply"], outcome' = [outcome EXCEPT ![r] = answer]
    PROVE  WalkInv'
<1>1. /\ call = [call EXCEPT ![r] = call[r]] /\ seen = [seen EXCEPT ![r] = seen[r]]
      /\ call[r] \in AuditCallTypes /\ seen[r] \in WalkTypes
      /\ WalkFits(pc[r], call[r], seen[r], outcome[r], history)
  BY WalkStays
<1>2. WalkFits("reply", call[r], seen[r], answer, history)
  BY <1>1, WalkRefused, Zenon
<1>3. call' = [call EXCEPT ![r] = call[r]] /\ seen' = [seen EXCEPT ![r] = seen[r]]
  BY <1>1, Zenon
<1> QED
  BY <1>1, <1>2, <1>3, WalkMoves, Zenon

\* limitConcurrency lets a request in or refuses it.
LEMMA WalkEnters ==
    ASSUME WalkInv, AuditInv', NEW r \in Requests, UNCHANGED history, Audit!LimitConcurrency(r),
           NEW c \in AuditCallTypes, NEW w \in WalkTypes,
           call' = [call EXCEPT ![r] = c], seen' = [seen EXCEPT ![r] = w],
           WalkGoesOn(c, w, history)
    PROVE  WalkInv'
<1>1. CASE /\ outcome' = [outcome EXCEPT ![r] = "too_many_requests"]
           /\ pc' = [pc EXCEPT ![r] = "reply"]
  <2>1. WalkFits("reply", c, w, "too_many_requests", history)
    BY Zenon DEF WalkFits
  <2> QED
    BY <1>1, <2>1, WalkMoves, Zenon
<1>2. CASE outcome' = outcome /\ pc' = [pc EXCEPT ![r] = "decode"]
  <2>1. WalkFits("decode", c, w, outcome[r], history)
    BY Zenon DEF WalkFits
  <2>2. outcome' = [outcome EXCEPT ![r] = outcome[r]]
    BY <1>2, WalkStays, Zenon
  <2> QED
    BY <1>2, <2>1, <2>2, WalkMoves, Zenon
<1> QED
  BY <1>1, <1>2 DEF Audit!LimitConcurrency, Audit!Goto

LEMMA WalkArrives ==
    ASSUME Audit!AuditAssumption, WalkInv, AuditInv', NEW r \in Requests, NEW c \in AuditCalls,
           Audit!Arrive(r, c)
    PROVE  WalkInv'
<1>1. c \in AuditCallTypes
  <2>1. /\ c = [op |-> c.op, body |-> c.body, aggregate |-> c.aggregate, from |-> c.from, to |-> c.to,
                after |-> c.after, before |-> c.before, limit |-> c.limit]
        /\ c.from \in Int /\ c.to \in Int /\ c.after \in Int /\ c.before \in Int /\ c.limit \in Int
    BY Zenon DEF Audit!AuditAssumption
  <2>2. /\ c.op \in {a.op : a \in AuditCalls} \union {"none"}
        /\ c.body \in {a.body : a \in AuditCalls} \union {"ok"}
        /\ c.aggregate \in {a.aggregate : a \in AuditCalls} \union {"none"}
    OBVIOUS
  <2>3. [op |-> c.op, body |-> c.body, aggregate |-> c.aggregate, from |-> c.from, to |-> c.to,
         after |-> c.after, before |-> c.before, limit |-> c.limit] \in AuditCallTypes
    BY <2>1, <2>2, Zenon DEF AuditCallTypes
  <2> QED
    BY <2>1, <2>3, Zenon
<1>2. PICK w : w = [Audit!NoWalk EXCEPT !.asked = c, !.since = history]
  OBVIOUS
<1>3. history \in Nat
  BY WalkStays
<1>4. w \in WalkTypes /\ WalkFits("decode", c, w, "none", history)
  <2>1. "none" # "ok" /\ "decode" \in {"decode", "reply"}
    OBVIOUS
  <2> QED
    BY <1>1, <1>2, <1>3, <2>1, WalkStarts, Zenon
<1>5. WalkGoesOn(c, w, history)
  BY <1>4, Zenon DEF WalkFits
<1>6. /\ call' = [call EXCEPT ![r] = c] /\ seen' = [seen EXCEPT ![r] = w] /\ UNCHANGED history
      /\ Audit!LimitConcurrency(r)
  BY <1>2, Zenon DEF Audit!Arrive
<1> QED
  BY <1>1, <1>3, <1>4, <1>5, <1>6, WalkEnters, Zenon

\* The row set of a page, and of one revision.
LEMMA WalkFinds ==
    ASSUME WalkInv, AuditInv', NEW r \in Requests, Audit!Find(r)
    PROVE  WalkInv'
<1>0. /\ call = [call EXCEPT ![r] = call[r]] /\ outcome = [outcome EXCEPT ![r] = outcome[r]]
      /\ call[r] \in AuditCallTypes /\ seen[r] \in WalkTypes
      /\ history \in Nat /\ WalkFits("find", call[r], seen[r], outcome[r], history)
      /\ pc[r] = "find"
  BY WalkStays DEF Audit!Find
<1>1. CASE expired[r] # "no"
  <2>1. PICK code : code = Audit!ContextError(r)
    OBVIOUS
  <2>2. code # "ok"
    BY <2>1, Zenon DEF Audit!ContextError
  <2>3. /\ UNCHANGED <<call, seen, history>> /\ outcome' = [outcome EXCEPT ![r] = code]
        /\ pc' = [pc EXCEPT ![r] = "reply"]
    BY <1>1, <2>1, Zenon DEF Audit!Find, Audit!Answer, Audit!Goto
  <2>4. pc[r] # "idle"
    BY <1>0
  <2> QED
    BY <2>2, <2>3, <2>4, WalkAnswers, Zenon
<1>2. CASE expired[r] = "no"
  <2>1. /\ seen' = [seen EXCEPT ![r].page = Audit!Rows(Audit!Query(call[r]))]
        /\ pc' = [pc EXCEPT ![r] = "found"] /\ UNCHANGED <<outcome, call, history>>
    BY <1>2 DEF Audit!Find, Audit!Goto
  <2>2. PICK c : c = call[r]
    OBVIOUS
  <2>3. PICK w : w = seen[r]
    OBVIOUS
  <2>4. PICK q : q = Audit!Query(c)
    OBVIOUS
  <2>5. PICK page : page = Audit!Rows(q)
    OBVIOUS
  <2>6. PICK x : x = [w EXCEPT !.page = page]
    OBVIOUS
  <2>7. seen' = [seen EXCEPT ![r] = x]
    BY <2>1, <2>2, <2>3, <2>4, <2>5, <2>6, Zenon
  <2>8. PICK S : S = Audit!Matches(q, history)
    OBVIOUS
  <2>9. S \in SUBSET Nat /\ IsFiniteSet(S)
    BY <1>0, <2>8, MatchesAreNumbers
  <2>10. page = LET all == Audit!Sorted(S)
                IN  SubSeq(all, 1, IF Len(all) < q.limit THEN Len(all) ELSE q.limit)
    BY <2>5, <2>8, Zenon DEF Audit!Rows
  <2>11. /\ c \in AuditCallTypes /\ w \in WalkTypes /\ WalkGoesOn(c, w, history)
         /\ c.op = "search" => c.limit > 0
    BY <1>0, <2>2, <2>3, Zenon DEF WalkFits
  <2>12. c.limit \in Int /\ w.since \in Nat /\ w.since <= history
    BY <2>11 DEF AuditCallTypes, WalkTypes, WalkGoesOn
  <2>13. CASE c.op = "search"
    <3>0. c.op # "detail"
      BY <2>13
    <3>1. q = [c EXCEPT !.limit = @ + 1]
      BY <2>4, <3>0, Zenon DEF Audit!Query
    <3>2. /\ q.limit = c.limit + 1 /\ q.from = c.from /\ q.to = c.to /\ q.after = c.after
          /\ q.before = c.before /\ q.aggregate = c.aggregate
      BY <2>11, <3>1, Zenon DEF AuditCallTypes
    <3>3. S = Audit!Matches(c, history)
      BY <2>8, <3>2, Zenon DEF Audit!Matches
    <3>4. PICK n \in Nat : n = c.limit + 1 /\ n > 0 /\ q.limit = n
      <4>1. PICK l \in Int : l = c.limit /\ l > 0 /\ q.limit = l + 1
        BY <2>11, <2>12, <2>13, <3>2
      <4> QED
        BY <4>1
    <3>5. RowsFit(page, S, n)
      <4>1. PICK all : all = Audit!Sorted(S)
        OBVIOUS
      <4>2. page = SubSeq(all, 1, IF Len(all) < n THEN Len(all) ELSE n)
        BY <2>10, <3>4, <4>1, Zenon
      <4> QED
        BY <2>9, <4>1, <4>2, FirstRows, Zenon
    <3> USE DEF RowsFit
    <3>6. WalkIs(x, w.asked, w.since, w.walked, page, w.next)
      <4>1. page \in Seq(Nat)
        BY <3>5
      <4> QED
        BY <2>6, <2>11, <4>1, WalkParts, Zenon
    <3>7. /\ x \in WalkTypes /\ x.asked = w.asked /\ x.since = w.since /\ x.walked = w.walked
          /\ x.page = page /\ x.next = w.next
      BY <3>6, Zenon DEF WalkIs
    <3>8. Audit!Matches(c, w.since) \subseteq S
      BY <1>0, <2>12, <3>3, MatchesGrow
    <3>9. \A v \in Audit!Matches(c, w.since) : v \in Shown(page) \/ (Len(page) = n /\ page[n] < v)
      <4>1. n \in 1 .. n
        BY <3>4
      <4> QED
        BY <3>5, <3>8, <4>1
    <3>10. FoundFits(c, x, history)
      BY <3>3, <3>4, <3>5, <3>7, <3>9 DEF FoundFits, PageFits
    <3>11. WalkGoesOn(c, x, history)
      BY <2>11, <3>7, Zenon DEF WalkGoesOn
    <3>12. WalkFits("found", c, x, outcome[r], history)
      BY <2>11, <3>10, <3>11, Zenon DEF WalkFits
    <3>13. call' = [call EXCEPT ![r] = c] /\ outcome' = [outcome EXCEPT ![r] = outcome[r]]
      BY <1>0, <2>1, <2>2, Zenon
    <3>14. UNCHANGED history /\ pc' = [pc EXCEPT ![r] = "found"]
      BY <1>0, <2>1, Zenon
    <3> QED
      BY <2>7, <2>11, <3>7, <3>12, <3>13, <3>14, WalkMoves, Zenon
  <2>14. CASE c.op # "search"
    <3>1. PICK n \in Int : n = q.limit
      <4>1. c.op = "detail" => q = [c EXCEPT !.to = c.from, !.limit = 1]
        BY <2>4, Zenon DEF Audit!Query
      <4>2. c.op = "detail" => q.limit = 1
        BY <2>11, <4>1, Zenon DEF AuditCallTypes
      <4>3. c.op # "detail" => q = [c EXCEPT !.limit = @ + 1]
        BY <2>4, Zenon DEF Audit!Query
      <4>4. c.op # "detail" => q.limit = c.limit + 1
        BY <2>11, <4>3, Zenon DEF AuditCallTypes
      <4> QED
        BY <2>12, <4>2, <4>4
    <3>2. PICK all : all = Audit!Sorted(S)
      OBVIOUS
    <3>3. all \in Seq(S)
      BY <2>9, <3>2, RevisionsAreSorted
    <3>4. PICK m \in Int : m <= Len(all) /\ page = SubSeq(all, 1, m)
      BY <2>10, <3>1, <3>2, <3>3
    <3>5. page \in Seq(Nat)
      BY <2>9, <3>3, <3>4, PrefixIsTyped
    <3>6. WalkIs(x, w.asked, w.since, w.walked, page, w.next)
      BY <2>6, <2>11, <3>5, WalkParts, Zenon
    <3>7. x \in WalkTypes /\ WalkGoesOn(c, x, history)
      BY <2>11, <3>6, Zenon DEF WalkIs, WalkGoesOn
    <3>8. WalkFits("found", c, x, outcome[r], history)
      BY <2>14, <3>7, Zenon DEF WalkFits
    <3>9. call' = [call EXCEPT ![r] = c] /\ outcome' = [outcome EXCEPT ![r] = outcome[r]]
      BY <1>0, <2>1, <2>2, Zenon
    <3>10. UNCHANGED history /\ pc' = [pc EXCEPT ![r] = "found"]
      BY <1>0, <2>1, Zenon
    <3> QED
      BY <2>7, <2>11, <3>7, <3>8, <3>9, <3>10, WalkMoves, Zenon
  <2> QED
    BY <2>13, <2>14
<1> QED
  BY <1>1, <1>2

LEMMA WalkResponds ==
    ASSUME WalkInv, AuditInv', NEW r \in Requests, Audit!Respond(r)
    PROVE  WalkInv'
<1>0. /\ call = [call EXCEPT ![r] = call[r]]
      /\ call[r] \in AuditCallTypes /\ seen[r] \in WalkTypes
      /\ history \in Nat /\ WalkFits("found", call[r], seen[r], outcome[r], history)
      /\ pc[r] = "found" /\ pc[r] # "idle"
  BY WalkStays DEF Audit!Respond
<1>1. CASE expired[r] # "no"
  <2>1. PICK code : code = Audit!ContextError(r)
    OBVIOUS
  <2>2. code # "ok"
    BY <2>1, Zenon DEF Audit!ContextError
  <2>3. /\ UNCHANGED <<call, seen, history>> /\ outcome' = [outcome EXCEPT ![r] = code]
        /\ pc' = [pc EXCEPT ![r] = "reply"]
    BY <1>1, <2>1, Zenon DEF Audit!Respond, Audit!Answer, Audit!Goto
  <2> QED
    BY <1>0, <2>2, <2>3, WalkAnswers, Zenon
<1>2. CASE expired[r] = "no" /\ call[r].op # "search"
  <2>1. PICK code : code = (IF seen[r].page = <<>> THEN "audit_entry_not_found" ELSE "ok")
    OBVIOUS
  <2>3. /\ UNCHANGED <<call, seen, history>> /\ outcome' = [outcome EXCEPT ![r] = code]
        /\ pc' = [pc EXCEPT ![r] = "reply"]
    BY <1>2, <2>1, Zenon DEF Audit!Respond, Audit!Answer, Audit!Goto
  <2> QED
    BY <1>0, <1>2, <2>3, WalkAnswers, Zenon
<1>3. CASE expired[r] = "no" /\ call[r].op = "search"
  <2>1. PICK c : c = call[r]
    OBVIOUS
  <2>2. PICK w : w = seen[r]
    OBVIOUS
  <2>3. PICK cut : cut = Audit!NextPage(w.page, c.limit)
    OBVIOUS
  <2>4. PICK x : x = [w EXCEPT !.page = cut.page, !.next = cut.next]
    OBVIOUS
  <2>5. /\ seen' = [seen EXCEPT ![r].page = cut.page, ![r].next = cut.next]
        /\ outcome' = [outcome EXCEPT ![r] = "ok"] /\ pc' = [pc EXCEPT ![r] = "reply"]
        /\ UNCHANGED <<call, history>>
    BY <1>3, <2>1, <2>2, <2>3, Zenon DEF Audit!Respond, Audit!Answer, Audit!Goto
  <2>6. seen \in [Requests -> WalkTypes]
    BY DEF WalkInv
  <2>7. seen' = [seen EXCEPT ![r] = x]
    <3>1. [seen EXCEPT ![r].page = cut.page][r] = [w EXCEPT !.page = cut.page]
      BY <2>2, <2>6, Zenon
    <3>2. seen' = [[seen EXCEPT ![r].page = cut.page] EXCEPT ![r] =
                      [[seen EXCEPT ![r].page = cut.page][r] EXCEPT !.next = cut.next]]
      BY <2>5, Zenon
    <3>3. seen' = [[seen EXCEPT ![r].page = cut.page] EXCEPT ![r] = x]
      BY <2>4, <3>1, <3>2, Zenon
    <3>4. \A f, a, b : f \in [Requests -> WalkTypes] => [[f EXCEPT ![r] = a] EXCEPT ![r] = b] = [f EXCEPT ![r] = b]
      OBVIOUS
    <3> QED
      BY <2>6, <3>3, <3>4, Zenon
  <2>8. /\ c \in AuditCallTypes /\ w \in WalkTypes /\ WalkGoesOn(c, w, history) /\ c.op = "search"
        /\ c.limit > 0 /\ FoundFits(c, w, history)
    BY <1>0, <1>3, <2>1, <2>2, Zenon DEF WalkFits
  <2>9. x \in WalkTypes /\ WalkGoesOn(c, x, history) /\ ReplyFits(c, x, history)
    BY <1>0, <2>3, <2>4, <2>8, PageIsCut, Zenon
  <2>10. WalkFits("reply", c, x, "ok", history)
    BY <2>9, Zenon DEF WalkFits
  <2>11. call' = [call EXCEPT ![r] = c] /\ UNCHANGED history
    BY <1>0, <2>1, <2>5, Zenon
  <2> QED
    BY <2>5, <2>7, <2>8, <2>9, <2>10, <2>11, WalkMoves, Zenon
<1> QED
  BY <1>1, <1>2, <1>3

LEMMA WalkFollows ==
    ASSUME WalkInv, AuditInv', NEW r \in Requests, Audit!Follow(r)
    PROVE  WalkInv'
<1>0. /\ call = [call EXCEPT ![r] = call[r]]
      /\ call[r] \in AuditCallTypes /\ seen[r] \in WalkTypes
      /\ history \in Nat /\ WalkFits("reply", call[r], seen[r], outcome[r], history)
      /\ UNCHANGED history /\ Audit!LimitConcurrency(r) /\ WalkGoesOn(call[r], seen[r], history)
  BY WalkStays DEF Audit!Follow, WalkFits
<1>1. PICK c : c = call[r]
  OBVIOUS
<1>2. PICK w : w = seen[r]
  OBVIOUS
<1>3. CASE /\ outcome[r] = "ok" /\ w.next > 0
           /\ call' = [call EXCEPT ![r].from = w.next]
           /\ seen' = [seen EXCEPT ![r].walked = @ \o w.page, ![r].page = <<>>, ![r].next = 0]
  <2>1. PICK d : d = [c EXCEPT !.from = w.next]
    OBVIOUS
  <2>2. PICK x : x = [w EXCEPT !.walked = w.walked \o w.page, !.page = <<>>, !.next = 0]
    OBVIOUS
  <2>3. c.op = "search"
    <3>1. c.op # "search" => w.next = 0
      BY <1>0, <1>1, <1>2, Zenon DEF WalkGoesOn
    <3> QED
      BY <1>3, <3>1
  <2>4. ReplyFits(c, w, history)
    BY <1>0, <1>1, <1>2, <1>3, <2>3, Zenon DEF WalkFits
  <2>5. d \in AuditCallTypes /\ x \in WalkTypes /\ WalkGoesOn(d, x, history)
    BY <1>0, <1>1, <1>2, <1>3, <2>1, <2>2, <2>3, <2>4, WalkContinues, Zenon
  <2>6. call' = [call EXCEPT ![r] = d]
    BY <1>1, <1>3, <2>1, Zenon
  <2>7. seen' = [seen EXCEPT ![r] = x]
    <3>1. seen \in [Requests -> WalkTypes]
      BY DEF WalkInv
    <3>2. PICK y, z : /\ y = [w EXCEPT !.walked = w.walked \o w.page]
                      /\ z = [y EXCEPT !.page = <<>>]
      OBVIOUS
    <3>3. \A a, b : [[seen EXCEPT ![r] = a] EXCEPT ![r] = b] = [seen EXCEPT ![r] = b]
      BY <3>1
    <3>4. \A a : [seen EXCEPT ![r] = a][r] = a
      BY <3>1
    <3>5. PICK s : s = [seen EXCEPT ![r].walked = @ \o w.page]
      OBVIOUS
    <3>6. s = [seen EXCEPT ![r] = y]
      BY <1>2, <3>2, <3>5, Zenon
    <3>7. [s EXCEPT ![r].page = <<>>] = [seen EXCEPT ![r] = z]
      <4>1. s[r] = y
        BY <3>4, <3>6, Zenon
      <4>2. [s EXCEPT ![r].page = <<>>] = [s EXCEPT ![r] = [y EXCEPT !.page = <<>>]]
        BY <4>1, Zenon
      <4>3. [s EXCEPT ![r].page = <<>>] = [[seen EXCEPT ![r] = y] EXCEPT ![r] = z]
        BY <3>2, <3>6, <4>2, Zenon
      <4> QED
        BY <3>3, <4>3, Zenon
    <3>8. seen' = [[s EXCEPT ![r].page = <<>>] EXCEPT ![r].next = 0]
      BY <1>3, <3>5, Zenon
    <3>9. x = [z EXCEPT !.next = 0]
      BY <2>2, <3>2, Zenon
    <3> QED
      BY <3>3, <3>4, <3>7, <3>8, <3>9, Zenon
  <2> QED
    BY <1>0, <2>5, <2>6, <2>7, WalkEnters, Zenon
<1>4. CASE /\ seen' = [seen EXCEPT ![r].page = <<>>, ![r].next = 0]
           /\ UNCHANGED call
  <2>1. PICK x : x = [w EXCEPT !.page = <<>>, !.next = 0]
    OBVIOUS
  <2>2. <<>> \in Seq(Nat) /\ 0 \in Nat
    OBVIOUS
  <2>3. WalkIs(x, w.asked, w.since, w.walked, <<>>, 0)
    BY <1>0, <1>2, <2>1, <2>2, WalkParts, Zenon
  <2>4. x \in WalkTypes /\ WalkGoesOn(c, x, history)
    BY <1>0, <1>1, <1>2, <2>3, Zenon DEF WalkIs, WalkGoesOn
  <2>5. call' = [call EXCEPT ![r] = c]
    BY <1>0, <1>1, <1>4, Zenon
  <2>6. seen' = [seen EXCEPT ![r] = x]
    <3>1. seen \in [Requests -> WalkTypes]
      BY DEF WalkInv
    <3>2. PICK y : y = [w EXCEPT !.page = <<>>]
      OBVIOUS
    <3>3. \A a, b : [[seen EXCEPT ![r] = a] EXCEPT ![r] = b] = [seen EXCEPT ![r] = b]
      BY <3>1
    <3>4. \A a : [seen EXCEPT ![r] = a][r] = a
      BY <3>1
    <3>5. seen' = [[seen EXCEPT ![r] = y] EXCEPT ![r] = x]
      BY <1>2, <1>4, <2>1, <3>2, <3>3, <3>4, Zenon
    <3> QED
      BY <3>3, <3>5, Zenon
  <2> QED
    BY <1>0, <1>1, <2>4, <2>5, <2>6, WalkEnters, Zenon
<1> QED
  BY <1>2, <1>3, <1>4 DEF Audit!Follow

LEMMA WalkStep ==
    ASSUME Audit!AuditAssumption, WalkInv, [Audit!Next]_(Audit!vars)
    PROVE  WalkInv'
<1>0. AuditInv'
  BY AuditStep DEF WalkInv
<1>1. CASE Audit!Insert
  <2>1. history' = history + 1 /\ UNCHANGED <<pc, call, seen, outcome>> /\ history \in Nat
    BY <1>1 DEF Audit!Insert, WalkInv
  <2>2. history' \in Nat /\ history <= history'
    BY <2>1
  <2>3. ASSUME NEW r \in Requests
        PROVE  WalkFits(pc[r], call[r], seen[r], outcome[r], history')
    <3>1. WalkFits(pc[r], call[r], seen[r], outcome[r], history) /\ seen[r] \in WalkTypes
      BY WalkStays
    <3> QED
      BY <2>1, <2>2, <3>1, WalkGrows, Zenon
  <2> QED
    BY <1>0, <2>1, <2>2, <2>3, Zenon DEF WalkInv
<1>2. ASSUME NEW r \in Requests, NEW c \in AuditCalls, Audit!Arrive(r, c)
      PROVE  WalkInv'
  BY <1>0, <1>2, WalkArrives, Zenon
<1>3. ASSUME NEW r \in Requests, Audit!DecodeJSON(r)
      PROVE  WalkInv'
  <2>1. /\ call = [call EXCEPT ![r] = call[r]] /\ seen = [seen EXCEPT ![r] = seen[r]]
        /\ outcome = [outcome EXCEPT ![r] = outcome[r]]
        /\ call[r] \in AuditCallTypes /\ seen[r] \in WalkTypes
        /\ WalkFits("decode", call[r], seen[r], outcome[r], history)
        /\ pc[r] # "idle" /\ UNCHANGED <<call, seen, history>>
    BY <1>3, WalkStays DEF Audit!DecodeJSON
  <2>2. CASE /\ Audit!ValidQuery(call[r]) /\ UNCHANGED outcome /\ pc' = [pc EXCEPT ![r] = "find"]
    <3>1. call[r].op = "search" => call[r].limit > 0
      BY <2>2, Zenon DEF Audit!ValidQuery, Audit!parseRequiredPositiveInt64
    <3>2. WalkFits("find", call[r], seen[r], outcome[r], history)
      BY <2>1, <3>1, Zenon DEF WalkFits
    <3>3. /\ call' = [call EXCEPT ![r] = call[r]] /\ seen' = [seen EXCEPT ![r] = seen[r]]
          /\ outcome' = [outcome EXCEPT ![r] = outcome[r]] /\ UNCHANGED history
      BY <2>1, <2>2, Zenon
    <3>4. call[r] \in AuditCallTypes /\ seen[r] \in WalkTypes /\ pc' = [pc EXCEPT ![r] = "find"]
      BY <2>1, <2>2, Zenon
    <3> QED
      BY <1>0, <3>2, <3>3, <3>4, WalkMoves, Zenon
  <2>3. ASSUME NEW code, code # "ok", Audit!Answer(r, code)
        PROVE  WalkInv'
    BY <1>0, <2>1, <2>3, WalkAnswers, Zenon DEF Audit!Answer, Audit!Goto
  <2>4. Audit!DecodeFault(call[r].body) # "ok" /\ "invalid_audit_query" # "ok"
    BY DEF Audit!DecodeFault
  <2> QED
    BY <1>3, <2>2, <2>3, <2>4 DEF Audit!DecodeJSON, Audit!Goto
<1>4. ASSUME NEW r \in Requests, Audit!Fails(r)
      PROVE  WalkInv'
  <2>1. /\ UNCHANGED <<call, seen, history>> /\ outcome' = [outcome EXCEPT ![r] = "internal_error"]
        /\ pc' = [pc EXCEPT ![r] = "reply"]
    BY <1>4, Zenon DEF Audit!Fails, Audit!Answer, Audit!Goto
  <2>2. pc[r] # "idle" /\ "internal_error" # "ok"
    BY <1>4 DEF Audit!Fails
  <2> QED
    BY <1>0, <2>1, <2>2, WalkAnswers, Zenon
<1>5. ASSUME NEW r \in Requests, Audit!Leave(r)
      PROVE  WalkInv'
  <2>1. /\ pc' = [pc EXCEPT ![r] = "idle"] /\ call' = [call EXCEPT ![r] = Audit!NoCall]
        /\ seen' = [seen EXCEPT ![r] = Audit!NoWalk] /\ outcome' = [outcome EXCEPT ![r] = "none"]
        /\ UNCHANGED history
    BY <1>5, Zenon DEF Audit!Leave, Audit!Goto
  <2>2. Audit!NoCall \in AuditCallTypes /\ Audit!NoWalk \in WalkTypes
    BY NothingIsTyped
  <2>3. WalkFits("idle", Audit!NoCall, Audit!NoWalk, "none", history)
    BY Zenon DEF WalkFits
  <2> QED
    BY <1>0, <2>1, <2>2, <2>3, WalkMoves, Zenon
<1>6. ASSUME UNCHANGED <<pc, call, seen, outcome, history>>
      PROVE  WalkInv'
  BY <1>0, <1>6, Zenon DEF WalkInv
<1>7. ASSUME NEW r \in Requests, Audit!Advance(r)
      PROVE  WalkInv'
  <2>1. CASE Audit!Expire(r)
    BY <1>6, <2>1 DEF Audit!Expire
  <2> QED
    BY <1>0, <1>3, <1>4, <1>5, <1>7, <2>1, WalkFinds, WalkResponds, WalkFollows DEF Audit!Advance
<1>8. CASE UNCHANGED Audit!vars
  BY <1>6, <1>8 DEF Audit!vars
<1> QED
  BY <1>1, <1>2, <1>7, <1>8 DEF Audit!Next

LEMMA WalkIsComplete ==
    ASSUME WalkInv
    PROVE  Audit!WalksAreComplete
<1> SUFFICES ASSUME NEW r \in Requests, pc[r] = "reply", call[r].op = "search", outcome[r] = "ok"
             PROVE  LET shown == seen[r].walked \o seen[r].page
                    IN /\ \A i \in 1 .. Len(shown) - 1 : shown[i] < shown[i + 1]
                       /\ Audit!ToSet(shown) \subseteq Audit!Matches(seen[r].asked, history)
                       /\ seen[r].next = 0 =>
                             Audit!Matches(seen[r].asked, seen[r].since) \subseteq Audit!ToSet(shown)
  BY DEF Audit!WalksAreComplete
<1>1. PICK c : c = call[r]
  OBVIOUS
<1>2. PICK w : w = seen[r]
  OBVIOUS
<1>3. /\ c \in AuditCallTypes /\ w \in WalkTypes /\ history \in Nat
      /\ WalkGoesOn(c, w, history) /\ ReplyFits(c, w, history)
  BY <1>1, <1>2, WalkStays DEF WalkFits
<1>4. PICK shown : shown = w.walked \o w.page
  OBVIOUS
<1>5. /\ shown \in Seq(Nat) /\ Rising(shown)
      /\ Shown(shown) = Shown(w.walked) \union Shown(w.page)
      /\ Shown(shown) \subseteq Audit!Matches(w.asked, history)
  <2>1. PageFits(c, w, history)
    BY <1>3, Zenon DEF ReplyFits
  <2> QED
    BY <1>3, <1>4, <2>1, WalkShows, Zenon
<1>6. Audit!ToSet(shown) = Shown(shown)
  BY DEF Audit!ToSet, Shown
<1>7. \A i \in 1 .. Len(shown) - 1 : shown[i] < shown[i + 1]
  <2> SUFFICES ASSUME NEW i \in 1 .. Len(shown) - 1
               PROVE  shown[i] < shown[i + 1]
    OBVIOUS
  <2>1. i \in DOMAIN shown /\ i + 1 \in DOMAIN shown /\ i < i + 1
    BY <1>5
  <2> QED
    BY <1>5, <2>1 DEF Rising
<1>8. w.next = 0 => Audit!Matches(w.asked, w.since) \subseteq Shown(shown)
  BY <1>3, <1>5, Zenon DEF WalkGoesOn, ReplyFits
<1> QED
  BY <1>2, <1>4, <1>5, <1>6, <1>7, <1>8, Zenon

\* For any clients, requests, limits and times of recording: a client that follows
\* next_from_revision to the end has seen, in order and once each, every revision it asked for
\* that was there when it began and none it did not ask for, while commands commit between its
\* pages, some of its requests fail or are refused, and it repeats them (searchHistory,
\* HistoryStore.Find).
THEOREM AuditWalksAreComplete ==
    Audit!AuditAssumption /\ Audit!Init /\ [][Audit!Next]_(Audit!vars) => []Audit!WalksAreComplete
<1> SUFFICES ASSUME Audit!AuditAssumption
             PROVE  Audit!Init /\ [][Audit!Next]_(Audit!vars) => []Audit!WalksAreComplete
  OBVIOUS
<1>1. Audit!Init => WalkInv
  BY WalkBegins
<1>2. WalkInv /\ [Audit!Next]_(Audit!vars) => WalkInv'
  BY WalkStep
<1>3. WalkInv => Audit!WalksAreComplete
  BY WalkIsComplete
<1> QED
  BY <1>1, <1>2, <1>3, PTL

--------------------------------------------------------------------------------
(* The keys that several nodes share and rotate in Redis.                    *)

SharedKeys == [node : Nodes, boot : Nat, no : Nat \ {0}, exp : Nat]

JwtTypes ==
    /\ pc \in [Requests -> {"idle", "parse", "rotate", "reply"}]
    /\ DOMAIN outcome = Requests /\ DOMAIN work = Requests
    /\ keys \in Seq(SharedKeys)
    /\ next \in [Nodes -> Nat \ {0}] /\ boots \in [Nodes -> Nat]
    /\ now \in Nat

\* A key is of the process that runs, whose nextKID is ahead of it, or of an earlier one.
KeysArePast ==
    \A i \in DOMAIN keys :
        /\ keys[i].boot <= boots[keys[i].node]
        /\ keys[i].boot = boots[keys[i].node] => keys[i].no < next[keys[i].node]

KeysDiffer ==
    \A i, j \in DOMAIN keys : i # j /\ Jwt!SameProcess(i, j) => keys[i].no # keys[j].no

\* The key of a token that was refused is pushed out, has ended or lost its kid.
KeyIsGone(i) ==
    \/ Len(keys) - i >= Capacity
    \/ now >= keys[i].exp
    \/ \E j \in DOMAIN keys : j > i /\ Jwt!KID(j) = Jwt!KID(i) /\ ~Jwt!SameProcess(i, j)

JwtStands(r) ==
    /\ outcome[r] # "none" => pc[r] = "reply"
    /\ pc[r] = "parse" => work[r].token.key \in DOMAIN keys
    /\ pc[r] = "rotate" => /\ work[r].node \in Nodes
                           /\ work[r].previous \in DOMAIN keys \union {0}
    /\ outcome[r] = "rotated" =>
          /\ work[r].key \in DOMAIN keys
          /\ keys[work[r].key].node = work[r].node
          /\ work[r].previous # 0 =>
                /\ work[r].previous \in DOMAIN keys
                /\ work[r].previous < work[r].key
                /\ Jwt!KID(work[r].previous) # Jwt!KID(work[r].key)
    /\ outcome[r] = "invalid_token" =>
          \/ work[r].token.key = 0
          \/ work[r].token.key \in DOMAIN keys /\ KeyIsGone(work[r].token.key)

JwtInv ==
    /\ JwtTypes /\ KeysArePast /\ KeysDiffer
    /\ \A t \in tokens : t.key \in DOMAIN keys
    /\ \A r \in Requests : JwtStands(r)

\* What a step may do to the counters and the keys: nothing, count and store a key, count
\* without storing, or start a process again.
JwtCounts ==
    \/ UNCHANGED <<keys, next, boots>>
    \/ \E n \in Nodes :
          /\ Jwt!CreateKey(n, boots[n], next[n]) \/ Jwt!LoseKey(n)
          /\ UNCHANGED boots
    \/ \E n \in Nodes :
          /\ boots' = [boots EXCEPT ![n] = @ + 1]
          /\ \/ next' = [next EXCEPT ![n] = 1] /\ UNCHANGED keys
             \/ Jwt!CreateKey(n, boots[n] + 1, 1)

\* What is known of the keys, and stays known.
KeysStay ==
    /\ DOMAIN keys \subseteq DOMAIN keys' /\ Len(keys) <= Len(keys')
    /\ \A i \in DOMAIN keys : keys'[i] = keys[i]
    /\ \A i \in DOMAIN keys : Jwt!KID(i)' = Jwt!KID(i)
    /\ \A i \in DOMAIN keys : KeyIsGone(i) => KeyIsGone(i)'

LEMMA KeyIsTyped ==
    ASSUME NEW n \in Nodes, NEW b \in Nat, NEW k \in Nat \ {0}, NEW exp \in Nat
    PROVE  \E key \in SharedKeys :
              /\ key = [node |-> n, boot |-> b, no |-> k, exp |-> exp]
              /\ key.node = n /\ key.boot = b /\ key.no = k
<1>1. PICK key : key = [node |-> n, boot |-> b, no |-> k, exp |-> exp]
  OBVIOUS
<1>2. key \in SharedKeys /\ key.node = n /\ key.boot = b /\ key.no = k
  BY <1>1 DEF SharedKeys
<1> QED
  BY <1>1, <1>2

LEMMA KeyFields ==
    ASSUME JwtInv
    PROVE  /\ Len(keys) \in Nat /\ DOMAIN keys = 1 .. Len(keys)
           /\ \A i \in DOMAIN keys :
                 /\ i \in Nat \ {0}
                 /\ keys[i].node \in Nodes /\ keys[i].boot \in Nat /\ keys[i].no \in Nat
                 /\ keys[i].exp \in Nat
<1>1. keys \in Seq(SharedKeys)
  BY DEF JwtInv, JwtTypes
<1>2. /\ Len(keys) \in Nat /\ DOMAIN keys = 1 .. Len(keys)
      /\ \A i \in DOMAIN keys : i \in Nat \ {0} /\ keys[i] \in SharedKeys
  BY <1>1
<1> QED
  BY <1>2 DEF SharedKeys

LEMMA JwtBegins == Jwt!JwtAssumption /\ Jwt!Init => JwtInv
<1> SUFFICES ASSUME Jwt!JwtAssumption, Jwt!Init
             PROVE  JwtInv
  OBVIOUS
<1>1. PICK n \in Nodes : /\ keys = <<[node |-> n, boot |-> 0, no |-> 1, exp |-> KeyTTL]>>
                         /\ next = [m \in Nodes |-> IF m = n THEN 2 ELSE 1]
  <2>1. (CHOOSE m \in Nodes : TRUE) \in Nodes
    BY DEF Jwt!JwtAssumption
  <2> QED
    BY <2>1 DEF Jwt!Init
<1>2. PICK key \in SharedKeys : /\ key = [node |-> n, boot |-> 0, no |-> 1, exp |-> KeyTTL]
                               /\ key.node = n /\ key.boot = 0 /\ key.no = 1
  BY KeyIsTyped DEF Jwt!JwtAssumption
<1>3. keys \in Seq(SharedKeys) /\ DOMAIN keys = {1} /\ keys[1] = key
  BY <1>1, <1>2
<1>4. next[n] = 2 /\ next \in [Nodes -> Nat \ {0}] /\ boots[n] = 0 /\ boots \in [Nodes -> Nat]
  BY <1>1 DEF Jwt!Init
<1>5. JwtTypes
  BY <1>3, <1>4 DEF Jwt!Init, JwtTypes
<1>6. KeysArePast /\ KeysDiffer
  BY <1>2, <1>3, <1>4 DEF KeysArePast, KeysDiffer
<1>7. \A r \in Requests : JwtStands(r)
  BY DEF Jwt!Init, JwtStands
<1> QED
  BY <1>5, <1>6, <1>7 DEF Jwt!Init, JwtInv

\* No key moves, and a key that is gone stays gone.
LEMMA KeysAreKept ==
    ASSUME Jwt!JwtAssumption, JwtInv, now' \in Nat, now' >= now,
           UNCHANGED keys \/ \E key \in SharedKeys : keys' = Append(keys, key)
    PROVE  KeysStay
<1>1. /\ keys \in Seq(SharedKeys) /\ now \in Nat /\ Len(keys) \in Nat
      /\ DOMAIN keys = 1 .. Len(keys)
      /\ \A i \in DOMAIN keys : i \in Nat /\ keys[i].exp \in Nat
  BY KeyFields DEF JwtInv, JwtTypes
<1>2. /\ DOMAIN keys \subseteq DOMAIN keys' /\ Len(keys) <= Len(keys') /\ Len(keys') \in Nat
      /\ \A i \in DOMAIN keys : keys'[i] = keys[i]
  <2>1. CASE UNCHANGED keys
    BY <1>1, <2>1
  <2>2. ASSUME NEW key \in SharedKeys, keys' = Append(keys, key)
        PROVE  /\ DOMAIN keys \subseteq DOMAIN keys' /\ Len(keys) <= Len(keys')
               /\ Len(keys') \in Nat
               /\ \A i \in DOMAIN keys : keys'[i] = keys[i]
    <3>1. PICK len \in Nat : len = Len(keys)
      BY <1>1
    <3>2. keys \in Seq(SharedKeys)
      BY <1>1
    <3>3. /\ Len(keys') = len + 1 /\ DOMAIN keys' = 1 .. len + 1
          /\ \A i \in 1 .. len : keys'[i] = keys[i]
      BY <2>2, <3>1, <3>2
    <3> QED
      BY <1>1, <3>1, <3>3
  <2> QED
    BY <2>1, <2>2
<1>3. \A i \in DOMAIN keys : Jwt!KID(i)' = Jwt!KID(i)
  BY <1>2 DEF Jwt!KID
<1>4. \A i, j \in DOMAIN keys : Jwt!SameProcess(i, j)' <=> Jwt!SameProcess(i, j)
  BY <1>2 DEF Jwt!SameProcess
<1>5. ASSUME NEW i \in DOMAIN keys, KeyIsGone(i)
      PROVE  KeyIsGone(i)'
  <2>1. CASE Len(keys) - i >= Capacity
    BY <1>1, <1>2, <2>1 DEF KeyIsGone, Jwt!JwtAssumption
  <2>2. CASE now >= keys[i].exp
    <3>1. now' >= keys'[i].exp
      BY <1>1, <1>2, <2>2
    <3> QED
      BY <3>1 DEF KeyIsGone
  <2>3. ASSUME NEW j \in DOMAIN keys, j > i, Jwt!KID(j) = Jwt!KID(i), ~Jwt!SameProcess(i, j)
        PROVE  KeyIsGone(i)'
    <3>1. j \in DOMAIN keys' /\ Jwt!KID(j)' = Jwt!KID(i)' /\ ~Jwt!SameProcess(i, j)'
      BY <1>2, <1>3, <1>4, <2>3
    <3> QED
      BY <2>3, <3>1 DEF KeyIsGone
  <2> QED
    BY <1>5, <2>1, <2>2, <2>3 DEF KeyIsGone
<1> QED
  BY <1>2, <1>3, <1>5 DEF KeysStay

\* A new key of process n has a number the process has not used.
LEMMA KeyIsAdded ==
    ASSUME Jwt!JwtAssumption, JwtInv, NEW n \in Nodes, NEW b \in Nat, NEW k \in Nat \ {0},
           Jwt!CreateKey(n, b, k),
           \A i \in DOMAIN keys : keys[i].node = n =>
               keys[i].boot <= b /\ (keys[i].boot = b => keys[i].no < k),
           boots' \in [Nodes -> Nat], boots'[n] = b,
           \A m \in Nodes : m # n => boots'[m] = boots[m]
    PROVE  /\ keys' \in Seq(SharedKeys) /\ next' \in [Nodes -> Nat \ {0}]
           /\ \E key \in SharedKeys : keys' = Append(keys, key)
           /\ KeysArePast' /\ KeysDiffer'
<1>1. keys \in Seq(SharedKeys) /\ next \in [Nodes -> Nat \ {0}] /\ now \in Nat
  BY DEF JwtInv, JwtTypes
<1>2. PICK key \in SharedKeys :
         /\ key = [node |-> n, boot |-> b, no |-> k, exp |-> now + KeyTTL]
         /\ key.node = n /\ key.boot = b /\ key.no = k
  <2>1. PICK exp \in Nat : exp = now + KeyTTL
    BY <1>1 DEF Jwt!JwtAssumption
  <2>2. \E key \in SharedKeys :
           /\ key = [node |-> n, boot |-> b, no |-> k, exp |-> exp]
           /\ key.node = n /\ key.boot = b /\ key.no = k
    BY KeyIsTyped
  <2> QED
    BY <2>1, <2>2
<1>3. keys' = Append(keys, key) /\ next' = [next EXCEPT ![n] = k + 1]
  BY <1>2 DEF Jwt!CreateKey, Jwt!nextKeyID
<1>4. PICK len \in Nat : len = Len(keys)
  BY <1>1
<1>5. /\ keys' \in Seq(SharedKeys) /\ keys'[len + 1] = key
      /\ \A i \in 1 .. len : keys'[i] = keys[i]
      /\ DOMAIN keys = 1 .. len /\ DOMAIN keys' = 1 .. len + 1
  BY <1>1, <1>2, <1>3, <1>4
<1>6. /\ next' \in [Nodes -> Nat \ {0}] /\ next'[n] = k + 1
      /\ \A m \in Nodes : m # n => next'[m] = next[m]
  BY <1>1, <1>3
<1>7. \A i \in 1 .. len : /\ keys[i].node \in Nodes /\ keys[i].boot \in Nat /\ keys[i].no \in Nat
                          /\ keys[i].boot <= boots[keys[i].node]
                          /\ keys[i].boot = boots[keys[i].node] =>
                                keys[i].no < next[keys[i].node]
  BY <1>5, KeyFields DEF JwtInv, KeysArePast
<1>8. KeysArePast'
  <2> SUFFICES ASSUME NEW i \in DOMAIN keys'
               PROVE  /\ keys'[i].boot <= boots'[keys'[i].node]
                      /\ keys'[i].boot = boots'[keys'[i].node] =>
                            keys'[i].no < next'[keys'[i].node]
    BY DEF KeysArePast
  <2>1. CASE i = len + 1
    BY <1>2, <1>5, <1>6, <2>1
  <2>2. CASE i \in 1 .. len
    <3>1. PICK m \in Nodes, c \in Nat, l \in Nat :
             /\ m = keys[i].node /\ c = keys[i].boot /\ l = keys[i].no
             /\ c <= boots[m] /\ (c = boots[m] => l < next[m])
             /\ m = n => c <= b /\ (c = b => l < k)
      BY <1>5, <1>7, <2>2
    <3>2. c <= boots'[m] /\ (c = boots'[m] => l < next'[m])
      <4>1. CASE m = n
        BY <1>6, <3>1, <4>1
      <4>2. CASE m # n
        BY <1>6, <3>1, <4>2
      <4> QED
        BY <4>1, <4>2
    <3>3. keys'[i].node = m /\ keys'[i].boot = c /\ keys'[i].no = l
      BY <1>5, <2>2, <3>1
    <3> QED
      BY <3>2, <3>3
  <2> QED
    BY <1>5, <2>1, <2>2
<1>9. KeysDiffer'
  <2>1. \A i \in 1 .. len : keys[i].node = n /\ keys[i].boot = b => keys[i].no # k
    BY <1>5, <1>7
  <2>2. \A i, j \in 1 .. len :
           i # j /\ keys[i].node = keys[j].node /\ keys[i].boot = keys[j].boot =>
           keys[i].no # keys[j].no
    BY <1>5 DEF JwtInv, KeysDiffer, Jwt!SameProcess
  <2> SUFFICES ASSUME NEW i \in 1 .. len + 1, NEW j \in 1 .. len + 1, i # j,
                      keys'[i].node = keys'[j].node, keys'[i].boot = keys'[j].boot
               PROVE  keys'[i].no # keys'[j].no
    BY <1>5 DEF KeysDiffer, Jwt!SameProcess
  <2>3. CASE i \in 1 .. len /\ j \in 1 .. len
    BY <1>5, <2>2, <2>3
  <2>4. CASE i \in 1 .. len /\ j = len + 1
    BY <1>2, <1>5, <2>1, <2>4
  <2>5. CASE i = len + 1 /\ j \in 1 .. len
    BY <1>2, <1>5, <2>1, <2>5
  <2> QED
    BY <2>3, <2>4, <2>5
<1> QED
  BY <1>3, <1>5, <1>6, <1>8, <1>9

\* Counters that grow, or start again under a new boot, keep the keys apart.
LEMMA KeysGrow ==
    ASSUME Jwt!JwtAssumption, JwtInv, JwtCounts, now' \in Nat, now' >= now
    PROVE  /\ keys' \in Seq(SharedKeys) /\ next' \in [Nodes -> Nat \ {0}]
           /\ boots' \in [Nodes -> Nat]
           /\ KeysArePast' /\ KeysDiffer' /\ KeysStay
<1>1. /\ keys \in Seq(SharedKeys) /\ next \in [Nodes -> Nat \ {0}] /\ boots \in [Nodes -> Nat]
      /\ KeysArePast /\ KeysDiffer
      /\ \A i \in DOMAIN keys : keys[i].node \in Nodes /\ keys[i].boot \in Nat /\ keys[i].no \in Nat
  BY KeyFields DEF JwtInv, JwtTypes
<1> DEFINE Goal == /\ keys' \in Seq(SharedKeys) /\ next' \in [Nodes -> Nat \ {0}]
                   /\ boots' \in [Nodes -> Nat]
                   /\ KeysArePast' /\ KeysDiffer' /\ KeysStay
<1>2. ASSUME UNCHANGED keys
      PROVE  KeysDiffer' /\ KeysStay
  <2>1. KeysStay
    BY <1>2, KeysAreKept
  <2> QED
    BY <1>1, <1>2, <2>1 DEF KeysDiffer, Jwt!SameProcess
<1>3. CASE UNCHANGED <<keys, next, boots>>
  BY <1>1, <1>2, <1>3 DEF KeysArePast
<1>4. ASSUME NEW n \in Nodes, Jwt!CreateKey(n, boots[n], next[n]), UNCHANGED boots
      PROVE  Goal
  <2>1. boots[n] \in Nat /\ next[n] \in Nat \ {0}
    BY <1>1
  <2>2. \A i \in DOMAIN keys : keys[i].node = n =>
           keys[i].boot <= boots[n] /\ (keys[i].boot = boots[n] => keys[i].no < next[n])
    BY <1>1 DEF KeysArePast
  <2>3. /\ keys' \in Seq(SharedKeys) /\ next' \in [Nodes -> Nat \ {0}]
        /\ \E key \in SharedKeys : keys' = Append(keys, key)
        /\ KeysArePast' /\ KeysDiffer'
    <3>1. PICK b \in Nat, k \in Nat \ {0} : b = boots[n] /\ k = next[n]
      BY <2>1
    <3>2. /\ boots' \in [Nodes -> Nat] /\ boots'[n] = b
          /\ \A m \in Nodes : m # n => boots'[m] = boots[m]
      BY <1>1, <1>4, <3>1
    <3>3. /\ Jwt!CreateKey(n, b, k)
          /\ \A i \in DOMAIN keys : keys[i].node = n =>
                keys[i].boot <= b /\ (keys[i].boot = b => keys[i].no < k)
      BY <1>4, <2>2, <3>1
    <3> QED
      BY <3>2, <3>3, KeyIsAdded
  <2> QED
    BY <1>1, <1>4, <2>3, KeysAreKept
<1>5. ASSUME NEW n \in Nodes, Jwt!LoseKey(n), UNCHANGED boots
      PROVE  Goal
  <2>1. UNCHANGED keys /\ next' = [next EXCEPT ![n] = next[n] + 1] /\ next[n] \in Nat
    BY <1>1, <1>5 DEF Jwt!LoseKey, Jwt!nextKeyID
  <2>2. next' \in [Nodes -> Nat \ {0}] /\ \A m \in Nodes : next'[m] >= next[m]
    BY <1>1, <2>1
  <2>3. KeysArePast'
    <3> SUFFICES ASSUME NEW i \in DOMAIN keys
                 PROVE  /\ keys[i].boot <= boots[keys[i].node]
                        /\ keys[i].boot = boots[keys[i].node] =>
                              keys[i].no < next'[keys[i].node]
      BY <1>5, <2>1 DEF KeysArePast
    <3>1. PICK m \in Nodes, l \in Nat : m = keys[i].node /\ l = keys[i].no
      BY <1>1
    <3>2. next[m] \in Nat /\ next'[m] \in Nat /\ next'[m] >= next[m]
      BY <1>1, <2>2
    <3> QED
      BY <1>1, <3>1, <3>2 DEF KeysArePast
  <2> QED
    BY <1>1, <1>2, <1>5, <2>1, <2>2, <2>3
<1>6. ASSUME NEW n \in Nodes, boots' = [boots EXCEPT ![n] = @ + 1],
             \/ next' = [next EXCEPT ![n] = 1] /\ UNCHANGED keys
             \/ Jwt!CreateKey(n, boots[n] + 1, 1)
      PROVE  Goal
  <2>1. /\ boots' \in [Nodes -> Nat] /\ boots'[n] = boots[n] + 1 /\ boots[n] \in Nat
        /\ \A m \in Nodes : m # n => boots'[m] = boots[m]
    BY <1>1, <1>6
  <2>2. \A i \in DOMAIN keys : keys[i].node = n => keys[i].boot <= boots[n]
    BY <1>1 DEF KeysArePast
  <2>3. CASE next' = [next EXCEPT ![n] = 1] /\ UNCHANGED keys
    <3>1. next' \in [Nodes -> Nat \ {0}] /\ \A m \in Nodes : m # n => next'[m] = next[m]
      BY <1>1, <2>3
    <3>2. KeysArePast'
      <4> SUFFICES ASSUME NEW i \in DOMAIN keys
                   PROVE  /\ keys[i].boot <= boots'[keys[i].node]
                          /\ keys[i].boot = boots'[keys[i].node] =>
                                keys[i].no < next'[keys[i].node]
        BY <2>3 DEF KeysArePast
      <4>1. PICK m \in Nodes, c \in Nat : m = keys[i].node /\ c = keys[i].boot
        BY <1>1
      <4>2. CASE m = n
        <5>1. c <= boots[n]
          BY <2>2, <4>1, <4>2
        <5>2. c <= boots'[n] /\ c # boots'[n]
          BY <2>1, <5>1
        <5> QED
          BY <4>1, <4>2, <5>2
      <4>3. CASE m # n
        BY <1>1, <2>1, <3>1, <4>1, <4>3 DEF KeysArePast
      <4> QED
        BY <4>2, <4>3
    <3> QED
      BY <1>1, <1>2, <2>1, <2>3, <3>1, <3>2
  <2>4. CASE Jwt!CreateKey(n, boots[n] + 1, 1)
    <3>1. \A i \in DOMAIN keys : keys[i].node = n =>
             keys[i].boot <= boots[n] + 1 /\ (keys[i].boot = boots[n] + 1 => keys[i].no < 1)
      BY <1>1, <2>1, <2>2
    <3>2. /\ keys' \in Seq(SharedKeys) /\ next' \in [Nodes -> Nat \ {0}]
          /\ \E key \in SharedKeys : keys' = Append(keys, key)
          /\ KeysArePast' /\ KeysDiffer'
      <4>1. boots[n] + 1 \in Nat /\ 1 \in Nat \ {0}
        BY <2>1
      <4> QED
        BY <2>1, <2>4, <3>1, <4>1, KeyIsAdded
    <3> QED
      BY <2>1, <3>2, KeysAreKept
  <2> QED
    BY <1>6, <2>3, <2>4
<1> QED
  BY <1>3, <1>4, <1>5, <1>6 DEF JwtCounts

\* A step of one request, of the clock or of a process.
LEMMA JwtGoes ==
    ASSUME Jwt!JwtAssumption, JwtInv, JwtCounts,
           now' \in Nat, now' >= now,
           pc' \in [Requests -> {"idle", "parse", "rotate", "reply"}],
           DOMAIN outcome' = Requests, DOMAIN work' = Requests,
           \A t \in tokens' : t \in tokens \/ t.key \in DOMAIN keys,
           \A q \in Requests :
               \/ pc'[q] = pc[q] /\ outcome'[q] = outcome[q] /\ work'[q] = work[q]
               \/ JwtStands(q)'
    PROVE  JwtInv'
<1>1. /\ keys' \in Seq(SharedKeys) /\ next' \in [Nodes -> Nat \ {0}] /\ boots' \in [Nodes -> Nat]
      /\ KeysArePast' /\ KeysDiffer'
      /\ DOMAIN keys \subseteq DOMAIN keys'
      /\ \A i \in DOMAIN keys : keys'[i] = keys[i]
      /\ \A i \in DOMAIN keys : Jwt!KID(i)' = Jwt!KID(i)
      /\ \A i \in DOMAIN keys : KeyIsGone(i) => KeyIsGone(i)'
  BY KeysGrow DEF KeysStay
<1>2. JwtTypes'
  BY <1>1 DEF JwtInv, JwtTypes
<1>3. \A t \in tokens' : t.key \in DOMAIN keys'
  BY <1>1 DEF JwtInv
<1>4. ASSUME NEW q \in Requests, pc'[q] = pc[q], outcome'[q] = outcome[q], work'[q] = work[q]
      PROVE  JwtStands(q)'
  <2>0. JwtStands(q)
    BY DEF JwtInv
  <2>1. outcome[q] # "none" => pc[q] = "reply"
    BY <2>0 DEF JwtStands
  <2>2. pc[q] = "parse" => work[q].token.key \in DOMAIN keys'
    BY <1>1, <2>0 DEF JwtStands
  <2>3. pc[q] = "rotate" => work[q].node \in Nodes /\ work[q].previous \in DOMAIN keys' \union {0}
    BY <1>1, <2>0 DEF JwtStands
  <2>4. outcome[q] = "rotated" =>
          /\ work[q].key \in DOMAIN keys'
          /\ keys'[work[q].key].node = work[q].node
          /\ work[q].previous # 0 =>
                /\ work[q].previous \in DOMAIN keys'
                /\ work[q].previous < work[q].key
                /\ Jwt!KID(work[q].previous)' # Jwt!KID(work[q].key)'
    <3> SUFFICES ASSUME outcome[q] = "rotated"
                 PROVE  /\ work[q].key \in DOMAIN keys'
                        /\ keys'[work[q].key].node = work[q].node
                        /\ work[q].previous # 0 =>
                              /\ work[q].previous \in DOMAIN keys'
                              /\ work[q].previous < work[q].key
                              /\ Jwt!KID(work[q].previous)' # Jwt!KID(work[q].key)'
      OBVIOUS
    <3>1. PICK j, p : j = work[q].key /\ p = work[q].previous
      OBVIOUS
    <3>2. /\ j \in DOMAIN keys /\ keys[j].node = work[q].node
          /\ p # 0 => p \in DOMAIN keys /\ p < j /\ Jwt!KID(p) # Jwt!KID(j)
      BY <2>0, <3>1 DEF JwtStands
    <3>3. UNCHANGED Jwt!KID(j) /\ (p # 0 => UNCHANGED Jwt!KID(p))
      BY <1>1, <3>2
    <3>4. work'[q].key = j /\ work'[q].previous = p
      BY <1>4, <3>1
    <3>5. p # 0 => <<NodeID[keys'[p].node], keys'[p].no>> # <<NodeID[keys'[j].node], keys'[j].no>>
      BY <3>2, <3>3 DEF Jwt!KID
    <3> QED
      BY <1>1, <1>4, <3>1, <3>2, <3>4, <3>5 DEF Jwt!KID
  <2>5. outcome[q] = "invalid_token" =>
          \/ work[q].token.key = 0
          \/ work[q].token.key \in DOMAIN keys /\ KeyIsGone(work[q].token.key)
    BY <2>0 DEF JwtStands
  <2>6. outcome[q] = "invalid_token" =>
          \/ work[q].token.key = 0
          \/ work[q].token.key \in DOMAIN keys' /\ KeyIsGone(work[q].token.key)'
    <3>1. PICK i : i = work[q].token.key /\ i = work'[q].token.key
      BY <1>4
    <3>2. outcome[q] = "invalid_token" => i = 0 \/ (i \in DOMAIN keys' /\ KeyIsGone(i)')
      BY <1>1, <2>5, <3>1
    <3> QED
      BY <3>1, <3>2 DEF KeyIsGone, Jwt!KID, Jwt!SameProcess
  <2>7. work'[q].token.key = work[q].token.key /\ work'[q].key = work[q].key
        /\ work'[q].previous = work[q].previous /\ work'[q].node = work[q].node
    BY <1>4
  <2> QED
    BY <1>4, <2>1, <2>2, <2>3, <2>4, <2>6, <2>7 DEF JwtStands, KeyIsGone, Jwt!KID, Jwt!SameProcess
<1> QED
  BY <1>1, <1>2, <1>3, <1>4 DEF JwtInv

LEMMA RefusedIsGone ==
    ASSUME JwtInv, Jwt!JwtAssumption, NEW i \in DOMAIN keys, i \notin Jwt!Retained
    PROVE  KeyIsGone(i)
<1>1. /\ keys[i].exp \in Nat /\ now \in Nat /\ Len(keys) \in Nat /\ i \in Nat
      /\ \A j \in DOMAIN keys : j \in Nat
  BY KeyFields DEF JwtInv, JwtTypes
<1>2. CASE ~(i > Len(keys) - Capacity /\ now < keys[i].exp)
  BY <1>1, <1>2 DEF KeyIsGone, Jwt!JwtAssumption
<1>3. CASE Jwt!Replaced(i)
  <2>1. PICK j \in DOMAIN keys : j > i /\ Jwt!KID(j) = Jwt!KID(i)
    BY <1>3 DEF Jwt!Replaced
  <2>2. keys[j].no = keys[i].no
    BY <2>1 DEF Jwt!KID
  <2>3. ~Jwt!SameProcess(i, j)
    BY <1>1, <2>1, <2>2 DEF JwtInv, KeysDiffer
  <2> QED
    BY <2>1, <2>3 DEF KeyIsGone
<1> QED
  BY <1>2, <1>3 DEF Jwt!Retained

\* Counters that a request or a process may move, as JwtCounts takes them.
LEMMA JwtCountsAre ==
    /\ UNCHANGED <<keys, next, boots>> => JwtCounts
    /\ \A n \in Nodes :
          UNCHANGED boots /\ (Jwt!CreateKey(n, boots[n], next[n]) \/ Jwt!LoseKey(n)) => JwtCounts
  BY DEF JwtCounts

\* A request whose answer needs nothing of the keys.
LEMMA JwtAnswers ==
    ASSUME Jwt!JwtAssumption, JwtInv, NEW r \in Requests, NEW code, NEW shown,
           code # "rotated", code = "invalid_token" => shown.token.key = 0,
           Jwt!Show(r, code, shown), JwtCounts,
           \A t \in tokens' : t \in tokens \/ t.key \in DOMAIN keys, UNCHANGED now
    PROVE  JwtInv'
<1>1. /\ pc' = [pc EXCEPT ![r] = "reply"] /\ outcome' = [outcome EXCEPT ![r] = code]
      /\ work' = [work EXCEPT ![r] = shown]
  BY DEF Jwt!Show, Jwt!Goto
<1>2. /\ pc' \in [Requests -> {"idle", "parse", "rotate", "reply"}] /\ DOMAIN outcome' = Requests
      /\ pc'[r] = "reply" /\ outcome'[r] = code /\ work'[r] = shown /\ DOMAIN work' = Requests
      /\ \A q \in Requests : q # r =>
            pc'[q] = pc[q] /\ outcome'[q] = outcome[q] /\ work'[q] = work[q]
  BY <1>1 DEF JwtInv, JwtTypes
<1>3. JwtStands(r)'
  BY <1>2 DEF JwtStands
<1>4. now' \in Nat /\ now' >= now
  BY DEF JwtInv, JwtTypes
<1> QED
  BY <1>2, <1>3, <1>4, JwtGoes

\* ParseContext finds no key in Redis for a token of the repository.
LEMMA JwtRefuses ==
    ASSUME Jwt!JwtAssumption, JwtInv, NEW r \in Requests, NEW t, NEW shown,
           t.key \in DOMAIN keys, t.key \notin Jwt!Retained, shown.token = t,
           Jwt!Show(r, "invalid_token", shown), UNCHANGED <<keys, next, boots, tokens, now>>
    PROVE  JwtInv'
<1>1. /\ pc' = [pc EXCEPT ![r] = "reply"] /\ outcome' = [outcome EXCEPT ![r] = "invalid_token"]
      /\ work' = [work EXCEPT ![r] = shown]
  BY DEF Jwt!Show, Jwt!Goto
<1>2. /\ pc' \in [Requests -> {"idle", "parse", "rotate", "reply"}] /\ DOMAIN outcome' = Requests
      /\ pc'[r] = "reply" /\ outcome'[r] = "invalid_token" /\ DOMAIN work' = Requests
      /\ work'[r] = shown
      /\ \A q \in Requests : q # r =>
            pc'[q] = pc[q] /\ outcome'[q] = outcome[q] /\ work'[q] = work[q]
  BY <1>1 DEF JwtInv, JwtTypes
<1>3. now' \in Nat /\ now' >= now /\ JwtCounts
  BY JwtCountsAre DEF JwtInv, JwtTypes
<1>4. PICK i \in DOMAIN keys : i = t.key
  OBVIOUS
<1>5. KeyIsGone(i)
  BY <1>4, RefusedIsGone
<1>6. KeyIsGone(i)' /\ i \in DOMAIN keys'
  BY <1>3, <1>5, KeysGrow DEF KeysStay
<1>7. work'[r].token.key = i
  BY <1>2, <1>4
<1>8. JwtStands(r)'
  BY <1>2, <1>6, <1>7 DEF JwtStands, KeyIsGone
<1> QED
  BY <1>2, <1>3, <1>8, JwtGoes

LEMMA JwtIssues ==
    ASSUME Jwt!JwtAssumption, JwtInv, NEW r \in Requests, NEW n \in Nodes, NEW ttl \in TTLs,
           Jwt!IssueToken(r, n, ttl)
    PROVE  JwtInv'
<1>1. /\ pc[r] = "idle" /\ UNCHANGED <<boots, tokens, now>> /\ outcome[r] = "none"
      /\ keys \in Seq(SharedKeys) /\ now \in Nat
  BY DEF Jwt!IssueToken, JwtInv, JwtTypes, JwtStands
<1>2. CASE Jwt!Answer(r, "invalid_request") /\ UNCHANGED <<keys, next>>
  <2>1. JwtCounts
    BY <1>1, <1>2, JwtCountsAre
  <2> QED
    BY <1>1, <1>2, <2>1, JwtAnswers DEF Jwt!Answer
<1>3. CASE ~(Jwt!Answer(r, "invalid_request") /\ UNCHANGED <<keys, next>>)
  <2>1. /\ (Jwt!HasCurrent /\ UNCHANGED <<keys, next>>) \/ Jwt!CreateKey(n, boots[n], next[n])
        /\ pc' = [pc EXCEPT ![r] = "parse"] /\ UNCHANGED outcome
        /\ work' = [work EXCEPT ![r] = [Jwt!NoWork EXCEPT !.node = n, !.token =
                       [key |-> Len(keys'), exp |-> now + ttl]]]
    BY <1>3 DEF Jwt!IssueToken, Jwt!Goto
  <2>2. Len(keys') \in DOMAIN keys'
    <3>1. CASE Jwt!HasCurrent /\ UNCHANGED <<keys, next>>
      BY <3>1 DEF Jwt!HasCurrent, Jwt!Retained
    <3>2. CASE Jwt!CreateKey(n, boots[n], next[n])
      <4>1. PICK key : keys' = Append(keys, key)
        BY <3>2 DEF Jwt!CreateKey
      <4> QED
        BY <1>1, <4>1
    <3> QED
      BY <2>1, <3>1, <3>2
  <2>3. PICK i \in DOMAIN keys' : i = Len(keys')
    BY <2>2
  <2>4. PICK w : w = [Jwt!NoWork EXCEPT !.node = n, !.token = [key |-> i, exp |-> now + ttl]]
    OBVIOUS
  <2>5. w.token.key = i
    BY <2>4 DEF Jwt!NoWork
  <2>6. /\ pc' \in [Requests -> {"idle", "parse", "rotate", "reply"}] /\ DOMAIN outcome' = Requests
        /\ pc'[r] = "parse" /\ outcome'[r] = "none" /\ work'[r] = w /\ DOMAIN work' = Requests
        /\ \A q \in Requests : q # r =>
              pc'[q] = pc[q] /\ outcome'[q] = outcome[q] /\ work'[q] = work[q]
    BY <1>1, <2>1, <2>3, <2>4 DEF JwtInv, JwtTypes
  <2>7. JwtStands(r)'
    BY <2>3, <2>6, <2>5 DEF JwtStands
  <2>8. JwtCounts
    BY <1>1, <2>1, JwtCountsAre
  <2>9. now' \in Nat /\ now' >= now
    BY <1>1
  <2> QED
    BY <1>1, <2>6, <2>7, <2>8, <2>9, JwtGoes
<1> QED
  BY <1>2, <1>3

LEMMA JwtParses ==
    ASSUME Jwt!JwtAssumption, JwtInv, NEW r \in Requests,
           Jwt!ParseOwn(r) \/ \E t \in tokens : Jwt!VerifyToken(r, t)
    PROVE  JwtInv'
<1>1. UNCHANGED <<keys, next, boots, now>> /\ JwtCounts
  BY JwtCountsAre DEF Jwt!ParseOwn, Jwt!VerifyToken
<1>2. CASE Jwt!ParseOwn(r)
  <2>1. PICK t : t = work[r].token
    OBVIOUS
  <2>2. t.key \in DOMAIN keys
    BY <1>2, <2>1 DEF Jwt!ParseOwn, JwtInv, JwtStands
  <2>3. /\ \A u \in tokens' : u \in tokens \/ u = t
        /\ \E code : code # "rotated" /\ Jwt!Answer(r, code)
    BY <1>2, <2>1 DEF Jwt!ParseOwn, Jwt!Verdict, Jwt!Expiry
  <2>4. PICK code : code # "rotated" /\ Jwt!Show(r, code, Jwt!NoWork)
    BY <2>3 DEF Jwt!Answer
  <2>5. Jwt!NoWork.token.key = 0
    BY DEF Jwt!NoWork, Jwt!NoToken, Jwt!NoKey
  <2> QED
    BY <1>1, <2>2, <2>3, <2>4, <2>5, JwtAnswers
<1>3. ASSUME NEW t \in tokens, Jwt!VerifyToken(r, t)
      PROVE  JwtInv'
  <2>1. PICK w : w = [Jwt!NoWork EXCEPT !.token = t]
    OBVIOUS
  <2>2. w.token = t
    BY <2>1 DEF Jwt!NoWork
  <2>3. UNCHANGED tokens /\ t.key \in DOMAIN keys
    BY <1>3 DEF Jwt!VerifyToken, JwtInv
  <2>4. PICK v \in Jwt!Verdicts(t) : Jwt!Show(r, IF v = "valid" THEN "verified" ELSE v, w)
    BY <1>3, <2>1 DEF Jwt!VerifyToken
  <2>5. /\ v \in {"valid", "expired_token", "invalid_token"}
        /\ v = "invalid_token" => t.key \notin Jwt!Retained
    BY <2>4 DEF Jwt!Verdicts, Jwt!Verdict, Jwt!Expiry
  <2>6. CASE v = "invalid_token"
    <3>1. Jwt!Show(r, "invalid_token", w)
      BY <2>4, <2>6
    <3> QED
      BY <1>1, <2>2, <2>3, <2>5, <2>6, <3>1, JwtRefuses
  <2>7. CASE v # "invalid_token"
    <3>1. PICK code \in {"verified", "expired_token"} : Jwt!Show(r, code, w)
      BY <2>4, <2>5, <2>7
    <3> QED
      BY <1>1, <2>3, <3>1, JwtAnswers
  <2> QED
    BY <2>6, <2>7
<1> QED
  BY <1>2, <1>3

LEMMA JwtReads ==
    ASSUME Jwt!JwtAssumption, JwtInv, NEW r \in Requests, NEW n \in Nodes, Jwt!ReadCurrent(r, n)
    PROVE  JwtInv'
<1>1. /\ pc[r] = "idle" /\ Jwt!Goto(r, "rotate")
      /\ UNCHANGED <<outcome, keys, next, boots, tokens, now>>
      /\ now \in Nat /\ outcome[r] = "none"
  BY DEF Jwt!ReadCurrent, JwtInv, JwtTypes, JwtStands
<1>2. PICK previous \in DOMAIN keys \union {0} :
         work' = [work EXCEPT ![r] = [Jwt!NoWork EXCEPT !.node = n, !.previous = previous]]
  <2>1. \A p : p \in {Jwt!NoKey} \union (IF Jwt!HasCurrent THEN {Len(keys)} ELSE {}) =>
               p \in DOMAIN keys \union {0}
    BY DEF Jwt!HasCurrent, Jwt!Retained, Jwt!NoKey
  <2>2. \E previous \in {Jwt!NoKey} \union (IF Jwt!HasCurrent THEN {Len(keys)} ELSE {}) :
           work' = [work EXCEPT ![r] = [Jwt!NoWork EXCEPT !.node = n, !.previous = previous]]
    BY Zenon DEF Jwt!ReadCurrent
  <2> QED
    BY <2>1, <2>2, Zenon
<1>3. PICK w : w = [Jwt!NoWork EXCEPT !.node = n, !.previous = previous]
  OBVIOUS
<1>4. w.node = n /\ w.previous = previous
  BY <1>3 DEF Jwt!NoWork
<1>5. work' = [work EXCEPT ![r] = w] /\ pc' = [pc EXCEPT ![r] = "rotate"]
  BY <1>1, <1>2, <1>3 DEF Jwt!Goto
<1>6. /\ pc' \in [Requests -> {"idle", "parse", "rotate", "reply"}] /\ DOMAIN outcome' = Requests
      /\ pc'[r] = "rotate" /\ outcome'[r] = "none" /\ work'[r] = w /\ DOMAIN work' = Requests
      /\ \A q \in Requests : q # r =>
            pc'[q] = pc[q] /\ outcome'[q] = outcome[q] /\ work'[q] = work[q]
  BY <1>1, <1>5 DEF JwtInv, JwtTypes
<1>7. DOMAIN keys' = DOMAIN keys
  BY <1>1
<1>8. JwtStands(r)'
  BY <1>2, <1>4, <1>6, <1>7 DEF JwtStands
<1>9. JwtCounts /\ now' \in Nat /\ now' >= now
  BY <1>1, JwtCountsAre
<1> QED
  BY <1>1, <1>6, <1>8, <1>9, JwtGoes

LEMMA JwtRotates ==
    ASSUME Jwt!JwtAssumption, JwtInv, NEW r \in Requests, Jwt!ForcedRotate(r)
    PROVE  JwtInv'
<1>1. PICK n \in Nodes : n = work[r].node /\ pc[r] = "rotate"
  BY DEF Jwt!ForcedRotate, JwtInv, JwtStands
<1>2. PICK p \in DOMAIN keys \union {0} : p = work[r].previous
  BY <1>1 DEF JwtInv, JwtStands
<1>3. PICK shown : shown = IF p # 0 /\ Jwt!KID(p) = <<NodeID[n], next[n]>> THEN 0 ELSE p
  OBVIOUS
<1>4. /\ shown \in DOMAIN keys \union {0}
      /\ shown # 0 => Jwt!KID(shown) # <<NodeID[n], next[n]>>
  BY <1>2, <1>3
<1>5. /\ Jwt!CreateKey(n, boots[n], next[n]) /\ UNCHANGED <<boots, tokens, now>>
      /\ Jwt!Show(r, "rotated",
                  [Jwt!NoWork EXCEPT !.node = n, !.key = Len(keys'), !.previous = shown])
  BY <1>1, <1>2, <1>3 DEF Jwt!ForcedRotate, Jwt!NoKey
<1>6. JwtCounts /\ now' \in Nat /\ now' >= now
  BY <1>5, JwtCountsAre DEF JwtInv, JwtTypes
<1>7. PICK w : w = [Jwt!NoWork EXCEPT !.node = n, !.key = Len(keys'), !.previous = shown]
  OBVIOUS
<1>8. w.node = n /\ w.key = Len(keys') /\ w.previous = shown
  BY <1>7 DEF Jwt!NoWork
<1>9. /\ pc' = [pc EXCEPT ![r] = "reply"] /\ outcome' = [outcome EXCEPT ![r] = "rotated"]
      /\ work' = [work EXCEPT ![r] = w]
  BY <1>5, <1>7 DEF Jwt!Show, Jwt!Goto
<1>10. /\ pc' \in [Requests -> {"idle", "parse", "rotate", "reply"}] /\ DOMAIN outcome' = Requests
       /\ pc'[r] = "reply" /\ outcome'[r] = "rotated" /\ work'[r] = w /\ DOMAIN work' = Requests
       /\ \A q \in Requests : q # r =>
             pc'[q] = pc[q] /\ outcome'[q] = outcome[q] /\ work'[q] = work[q]
  BY <1>9 DEF JwtInv, JwtTypes
<1>11. PICK len \in Nat : len = Len(keys)
  BY KeyFields
<1>12. PICK key : /\ key.node = n /\ key.no = next[n]
                  /\ keys' = Append(keys, key)
  BY <1>5 DEF Jwt!CreateKey
<1>13. /\ Len(keys') = len + 1 /\ DOMAIN keys' = 1 .. len + 1 /\ keys'[len + 1] = key
       /\ DOMAIN keys = 1 .. len
  <2>1. keys \in Seq(SharedKeys) /\ keys' \in Seq(SharedKeys)
    BY <1>6, KeysGrow DEF JwtInv, JwtTypes
  <2> QED
    BY <1>11, <1>12, <2>1
<1>14. Jwt!KID(len + 1)' = <<NodeID[n], next[n]>>
  BY <1>12, <1>13 DEF Jwt!KID
<1>15. shown # 0 =>
         shown \in DOMAIN keys' /\ shown < len + 1 /\ Jwt!KID(shown)' # Jwt!KID(len + 1)'
  <2> SUFFICES ASSUME shown # 0
               PROVE  shown \in DOMAIN keys' /\ shown < len + 1
                      /\ Jwt!KID(shown)' # Jwt!KID(len + 1)'
    OBVIOUS
  <2>1. shown \in DOMAIN keys /\ Jwt!KID(shown)' = Jwt!KID(shown)
    BY <1>4, <1>6, KeysGrow DEF KeysStay
  <2> QED
    BY <1>4, <1>13, <1>14, <2>1
<1>16. JwtStands(r)'
  <2>1. work'[r].key = len + 1 /\ work'[r].previous = shown /\ work'[r].node = n
    BY <1>8, <1>10, <1>13
  <2> QED
    BY <1>10, <1>12, <1>13, <1>15, <2>1 DEF JwtStands, Jwt!KID
<1> QED
  BY <1>5, <1>6, <1>10, <1>16, JwtGoes

LEMMA JwtRestarts ==
    ASSUME Jwt!JwtAssumption, JwtInv, NEW n \in Nodes, Jwt!Restart(n)
    PROVE  JwtInv'
<1>1. PICK lost : lost = {r \in Requests : pc[r] \in {"parse", "rotate"} /\ work[r].node = n}
  OBVIOUS
<1>2. /\ pc' = [r \in Requests |-> IF r \in lost THEN "idle" ELSE pc[r]]
      /\ work' = [r \in Requests |-> IF r \in lost THEN Jwt!NoWork ELSE work[r]]
      /\ UNCHANGED <<outcome, tokens, now>>
  BY <1>1 DEF Jwt!Restart
<1>3. JwtCounts
  <2>1. boots' = [boots EXCEPT ![n] = @ + 1] /\ boots'[n] = boots[n] + 1
    BY DEF Jwt!Restart, JwtInv, JwtTypes
  <2>2. \/ next' = [next EXCEPT ![n] = 1] /\ UNCHANGED keys
        \/ Jwt!CreateKey(n, boots[n] + 1, 1)
    BY <2>1 DEF Jwt!Restart
  <2> QED
    BY <2>1, <2>2 DEF JwtCounts
<1>4. /\ pc' \in [Requests -> {"idle", "parse", "rotate", "reply"}]
      /\ DOMAIN outcome' = Requests /\ DOMAIN work' = Requests
      /\ now' \in Nat /\ now' >= now
  BY <1>2 DEF JwtInv, JwtTypes
<1>5. ASSUME NEW q \in Requests
      PROVE  \/ pc'[q] = pc[q] /\ outcome'[q] = outcome[q] /\ work'[q] = work[q]
             \/ JwtStands(q)'
  <2>1. CASE q \in lost
    <3>1. pc'[q] = "idle" /\ outcome'[q] = outcome[q] /\ pc[q] \in {"parse", "rotate"}
      BY <1>1, <1>2, <2>1
    <3>2. outcome[q] = "none"
      BY <3>1 DEF JwtInv, JwtStands
    <3> QED
      BY <3>1, <3>2 DEF JwtStands
  <2>2. CASE q \notin lost
    BY <1>2, <2>2
  <2> QED
    BY <2>1, <2>2
<1> QED
  BY <1>2, <1>3, <1>4, <1>5, JwtGoes

LEMMA JwtStep ==
    ASSUME Jwt!JwtAssumption, JwtInv, [Jwt!Next]_(Jwt!vars)
    PROVE  JwtInv'
<1>1. ASSUME Jwt!Tick \/ UNCHANGED Jwt!vars
      PROVE  JwtInv'
  <2>1. /\ UNCHANGED <<pc, work, outcome, keys, next, boots, tokens>>
        /\ now' \in Nat /\ now' >= now
    BY <1>1 DEF Jwt!Tick, Jwt!vars, JwtInv, JwtTypes
  <2>2. JwtCounts
    BY <2>1, JwtCountsAre
  <2> QED
    BY <2>1, <2>2, JwtGoes DEF JwtInv, JwtTypes
<1>2. ASSUME NEW r \in Requests, Jwt!OperationFails(r) \/ Jwt!RotateRefused(r)
      PROVE  JwtInv'
  <2>1. PICK code \in {"repository_timeout", "internal_error"} : Jwt!Show(r, code, Jwt!NoWork)
    BY <1>2 DEF Jwt!OperationFails, Jwt!RotateRefused, Jwt!Answer
  <2>2. /\ UNCHANGED <<boots, tokens, now>>
        /\ \/ UNCHANGED <<keys, next>>
           \/ \E n \in Nodes : Jwt!CreateKey(n, boots[n], next[n]) \/ Jwt!LoseKey(n)
    BY <1>2 DEF Jwt!OperationFails, Jwt!RotateRefused, JwtInv, JwtStands
  <2>3. JwtCounts
    BY <2>2, JwtCountsAre
  <2> QED
    BY <2>1, <2>2, <2>3, JwtAnswers
<1>3. ASSUME NEW r \in Requests, Jwt!Reply(r)
      PROVE  JwtInv'
  <2>1. /\ UNCHANGED <<keys, next, boots, tokens, now>> /\ pc' = [pc EXCEPT ![r] = "idle"]
        /\ outcome' = [outcome EXCEPT ![r] = "none"] /\ work' = [work EXCEPT ![r] = Jwt!NoWork]
    BY <1>3 DEF Jwt!Reply, Jwt!Goto
  <2>2. /\ pc' \in [Requests -> {"idle", "parse", "rotate", "reply"}] /\ DOMAIN outcome' = Requests
        /\ pc'[r] = "idle" /\ outcome'[r] = "none" /\ DOMAIN work' = Requests
        /\ now' \in Nat /\ now' >= now
        /\ \A q \in Requests : q # r =>
              pc'[q] = pc[q] /\ outcome'[q] = outcome[q] /\ work'[q] = work[q]
    BY <2>1 DEF JwtInv, JwtTypes
  <2>3. JwtStands(r)' /\ JwtCounts
    BY <2>1, <2>2, JwtCountsAre DEF JwtStands
  <2> QED
    BY <2>1, <2>2, <2>3, JwtGoes
<1> QED
  BY <1>1, <1>2, <1>3, JwtIssues, JwtParses, JwtReads, JwtRotates, JwtRestarts DEF Jwt!Next

LEMMA JwtShows == JwtInv => Jwt!RotationsAreTrue /\ Jwt!RetainedTokensVerify
<1> SUFFICES ASSUME JwtInv
             PROVE  Jwt!RotationsAreTrue /\ Jwt!RetainedTokensVerify
  OBVIOUS
<1>1. Jwt!RotationsAreTrue
  <2>1. ASSUME NEW i \in DOMAIN keys, NEW j \in DOMAIN keys, i # j, Jwt!KID(i) = Jwt!KID(j)
        PROVE  ~Jwt!SameProcess(i, j)
    <3>1. keys[i].no = keys[j].no
      BY <2>1 DEF Jwt!KID
    <3> QED
      BY <2>1, <3>1 DEF JwtInv, KeysDiffer
  <2>2. ASSUME NEW r \in Requests, outcome[r] = "rotated"
        PROVE  /\ work[r].key \in DOMAIN keys
               /\ keys[work[r].key].node = work[r].node
               /\ work[r].previous # Jwt!NoKey =>
                     /\ work[r].previous < work[r].key
                     /\ Jwt!KID(work[r].previous) # Jwt!KID(work[r].key)
    BY <2>2 DEF JwtInv, JwtStands, Jwt!NoKey
  <2> QED
    BY <2>1, <2>2 DEF Jwt!RotationsAreTrue
<1>2. Jwt!RetainedTokensVerify
  <2> SUFFICES ASSUME NEW r \in Requests, outcome[r] = "invalid_token", work[r].token \in tokens
               PROVE  KeyIsGone(work[r].token.key)
    BY DEF Jwt!RetainedTokensVerify, KeyIsGone
  <2>1. work[r].token.key \in DOMAIN keys
    BY DEF JwtInv
  <2>2. work[r].token.key # 0
    BY <2>1, KeyFields
  <2> QED
    BY <2>2 DEF JwtInv, JwtStands
<1> QED
  BY <1>1, <1>2

\* For any nodes, node ids, lifetimes and capacity, with restarts that count from the start
\* again, rotations that overlap and answers that are lost: two keys with one kid come
\* from two processes, a rotation answers with a key of its own node behind a previous
\* one with another kid, and a token is called invalid only after Capacity later keys, at
\* the end of its key, or when another process has taken its kid (RotateKey, IssueToken,
\* VerifyToken, NewService).
THEOREM RotationsKeepTokens ==
    Jwt!JwtAssumption /\ Jwt!Spec => [](Jwt!RotationsAreTrue /\ Jwt!RetainedTokensVerify)
<1> SUFFICES ASSUME Jwt!JwtAssumption
             PROVE  Jwt!Spec => [](Jwt!RotationsAreTrue /\ Jwt!RetainedTokensVerify)
  OBVIOUS
<1>1. Jwt!Init => JwtInv
  BY JwtBegins
<1>2. JwtInv /\ [Jwt!Next]_(Jwt!vars) => JwtInv'
  BY JwtStep
<1>3. JwtInv => Jwt!RotationsAreTrue /\ Jwt!RetainedTokensVerify
  BY JwtShows
<1> QED
  BY <1>1, <1>2, <1>3, PTL DEF Jwt!Spec

--------------------------------------------------------------------------------
(* The CRUD API over one table.                                              *)

LEMMA CrudSizes == \A S : Crud!Cardinality(S) = Cardinality(S)
BY Zenon DEF Crud!Cardinality, Cardinality

CrudRows == [id : CrudIDs, status : Crud!Statuses, version : Nat]

CrudTypes ==
    /\ pc \in [Requests -> {"idle", "exec", "reread", "reply"}]
    /\ call \in [Requests -> Crud!Calls \union {Crud!NoCall}]
    /\ expired \in [Requests -> BOOLEAN]
    /\ wrote \in [Requests -> Nat]
    /\ seen \in [Requests -> SUBSET CrudRows]
    /\ outcome \in [Requests -> {"none", "ok", "invalid_request", "order_not_found",
                                 "repository_error"}]
    /\ table \in [CrudIDs -> [status : Crud!Statuses \union {"absent"}, version : Nat]]

\* A row that was deleted; no request writes it again.
Gone(i) == table[i].status = "absent" /\ table[i].version > 0

\* A row shown to r is its own write or a newer one.
ShowsWrite(r) ==
    \E row \in seen[r] :
        /\ row.id = call[r].id /\ row.version >= wrote[r]
        /\ row.version = wrote[r] /\ call[r].op = "update" => row.status = call[r].status

\* What a request knows of the row it is about.
CrudStands(r) ==
    LET i == call[r].id IN
    /\ pc[r] \in {"idle", "exec"} => wrote[r] = 0
    /\ pc[r] # "idle" => call[r].op = "none" \/ call[r] \in Crud!Calls
    /\ pc[r] \in {"exec", "reread"} => call[r] \in Crud!Calls /\ call[r].status # "invalid"
    /\ pc[r] = "exec" /\ call[r].op = "create" => table[i].version = 0
    /\ pc[r] = "reread" =>
          /\ call[r].op = "update" /\ wrote[r] > 0 /\ table[i].version >= wrote[r]
          /\ table[i].version = wrote[r] => table[i].status = call[r].status
    /\ pc[r] = "reply" /\ outcome[r] = "ok" /\ call[r].op \in {"create", "update"} => ShowsWrite(r)
    /\ pc[r] = "reply" /\ outcome[r] = "order_not_found" /\ wrote[r] > 0 =>
          i \in CrudIDs /\ Gone(i)
    /\ pc[r] = "reply" /\ outcome[r] = "ok" /\ call[r].op = "delete" => i \in CrudIDs /\ Gone(i)

CrudInv ==
    /\ CrudTypes
    /\ \A i \in CrudIDs : table[i].status # "absent" => table[i].version > 0
    /\ \A q, r \in Requests : q # r /\ call[q].op = "create" /\ call[r].op = "create" =>
          call[q].id # call[r].id
    /\ \A r \in Requests : CrudStands(r) /\ Cardinality(seen[r]) <= CrudLimit

LEMMA CrudCallTypes ==
    ASSUME NEW c \in Crud!Calls
    PROVE  /\ c.op \in {"get", "delete", "create", "update", "list"}
           /\ c.op # "list" => c.id \in CrudIDs
           /\ c.op = "update" /\ c.status # "invalid" => c.status \in {"paid", "cancelled"}
           /\ c.op = "list" /\ c.status # "invalid" => c.status \in {"pending", "paid"}
BY DEF Crud!Calls

LEMMA CrudBegins == Crud!CrudAssumption /\ Crud!Init => CrudInv
<1> SUFFICES ASSUME Crud!CrudAssumption, Crud!Init
             PROVE  CrudInv
  OBVIOUS
<1>1. /\ pc = [r \in Requests |-> "idle"] /\ call = [r \in Requests |-> Crud!NoCall]
      /\ wrote = [r \in Requests |-> 0] /\ seen = [r \in Requests |-> {}]
      /\ outcome = [r \in Requests |-> "none"]
      /\ table = [i \in CrudIDs |-> [status |-> "absent", version |-> 0]]
  BY DEF Crud!Init
<1>2. expired \in [Requests -> BOOLEAN]
  BY Zenon DEF Crud!Init
<1>3. \A r \in Requests : call[r].op = "none" /\ pc[r] = "idle" /\ wrote[r] = 0 /\ seen[r] = {}
  BY <1>1 DEF Crud!NoCall
<1>4. CrudTypes
  BY <1>1, <1>2 DEF CrudTypes
<1>5. Cardinality({}) = 0
  BY FS_EmptySet
<1> QED
  BY <1>1, <1>3, <1>4, <1>5 DEF CrudInv, CrudStands, Crud!CrudAssumption

\* A write makes the next version of an existing row, or the first of the row that only
\* this request creates.
CrudWrites(r, i, status) ==
    /\ i \in CrudIDs
    /\ table' = [table EXCEPT ![i] = [status |-> status, version |-> table[i].version + 1]]
    /\ \/ table[i].status # "absent"
       \/ pc[r] = "exec" /\ call[r].op = "create" /\ call[r].id = i /\ table[i].version = 0

\* The other requests stand as before, whatever r writes.
LEMMA CrudOthers ==
    ASSUME CrudInv, NEW r \in Requests, NEW q \in Requests, q # r,
           pc'[q] = pc[q], call'[q] = call[q], wrote'[q] = wrote[q], seen'[q] = seen[q],
           outcome'[q] = outcome[q],
           UNCHANGED table \/ \E i, status : CrudWrites(r, i, status)
    PROVE  CrudStands(q)'
<1>0. CrudStands(q) /\ wrote[q] \in Nat
  BY DEF CrudInv, CrudTypes
<1>1. CASE UNCHANGED table
  BY <1>0, <1>1 DEF CrudStands, ShowsWrite, Gone
<1>2. ASSUME NEW i, NEW status, CrudWrites(r, i, status)
      PROVE  CrudStands(q)'
  <2>1. /\ table'[i].version = table[i].version + 1 /\ table[i].version \in Nat
        /\ \A j \in CrudIDs : j # i => table'[j] = table[j]
        /\ \A j \in CrudIDs : table[j].version \in Nat
    BY <1>2 DEF CrudWrites, CrudInv, CrudTypes
  <2>2. pc[q] \in {"exec", "reread"} /\ call[q].op # "list" => call[q].id \in CrudIDs
    BY <1>0, CrudCallTypes DEF CrudStands
  <2>3. ~Gone(i)
    BY <1>2 DEF CrudWrites, Gone
  <2>4. pc[q] = "exec" /\ call[q].op = "create" => call[q].id # i
    BY <1>0, <1>2 DEF CrudWrites, CrudInv, CrudStands
  <2>5. ShowsWrite(q) => ShowsWrite(q)'
    BY DEF ShowsWrite
  <2>6. \A j \in CrudIDs : Gone(j) => Gone(j)'
    BY <2>1, <2>3 DEF Gone
  <2>7. pc[q] = "exec" /\ call[q].op = "create" => table'[call[q].id].version = 0
    BY <1>0, <2>1, <2>2, <2>4 DEF CrudStands
  <2>8. pc[q] = "reread" =>
          /\ table'[call[q].id].version >= wrote[q]
          /\ table'[call[q].id].version = wrote[q] => table'[call[q].id].status = call[q].status
    BY <1>0, <2>1, <2>2 DEF CrudStands
  <2> QED
    BY <1>0, <2>5, <2>6, <2>7, <2>8 DEF CrudStands
<1> QED
  BY <1>1, <1>2

\* What a step of r has to show: types, its own row and its own answer.
LEMMA CrudMoves ==
    ASSUME Crud!CrudAssumption, CrudInv, NEW r \in Requests,
           CrudTypes', CrudStands(r)', Cardinality(seen'[r]) <= CrudLimit,
           call'[r].op = "create" => \/ call'[r] = call[r]
                                     \/ \A q \in Requests :
                                           ~(call[q].op = "create" /\ call[q].id = call'[r].id),
           \A q \in Requests : q # r =>
               /\ pc'[q] = pc[q] /\ call'[q] = call[q] /\ wrote'[q] = wrote[q]
               /\ seen'[q] = seen[q] /\ outcome'[q] = outcome[q],
           UNCHANGED table \/ \E i, status : CrudWrites(r, i, status)
    PROVE  CrudInv'
<1>1. \A q \in Requests : CrudStands(q)' /\ Cardinality(seen'[q]) <= CrudLimit
  BY CrudOthers DEF CrudInv
<1>2. \A i \in CrudIDs : table'[i].status # "absent" => table'[i].version > 0
  <2>1. \A i \in CrudIDs : table[i].version \in Nat
    BY DEF CrudInv, CrudTypes
  <2>2. ASSUME NEW i, NEW status, CrudWrites(r, i, status)
        PROVE  /\ table'[i].version = table[i].version + 1
               /\ \A j \in CrudIDs : j # i => table'[j] = table[j]
    BY <2>2 DEF CrudWrites, CrudInv, CrudTypes
  <2> QED
    BY <2>1, <2>2 DEF CrudInv
<1>3. \A q, p \in Requests : q # p /\ call'[q].op = "create" /\ call'[p].op = "create" =>
          call'[q].id # call'[p].id
  BY DEF CrudInv
<1> QED
  BY <1>1, <1>2, <1>3 DEF CrudInv

\* List shows at most limit rows: the number of smaller hits tells the listed ones apart.
LEMMA ListedRows ==
    ASSUME Crud!CrudAssumption, NEW hits \in SUBSET CrudIDs,
           NEW listed, listed = {i \in hits : Cardinality({j \in hits : j < i}) < CrudLimit},
           NEW answer, \A x \in answer : x.id \in listed,
           \A x, y \in answer : x.id = y.id => x = y
    PROVE  Cardinality(answer) <= CrudLimit
<1> DEFINE Smaller(i) == {j \in hits : j < i}
<1>0. CrudLimit \in Nat /\ \A j \in hits : j \in Nat
  BY DEF Crud!CrudAssumption
<1>1. ASSUME NEW i \in hits
      PROVE  IsFiniteSet(Smaller(i)) /\ Cardinality(Smaller(i)) \in Nat
  <2>1. Smaller(i) \subseteq Nat /\ i \in Nat
    BY <1>0, Zenon
  <2>a. \A j \in hits : j < i => j <= i
    BY <1>0
  <2>b. \A j \in Smaller(i) : j <= i
    BY <2>a, Zenon
  <2>2. IsFiniteSet(Smaller(i))
    <3> HIDE DEF Smaller
    <3> QED
      BY <2>1, <2>b, FS_BoundedSetOfNaturals
  <2> HIDE DEF Smaller
  <2> QED
    BY <2>2, FS_CardinalityType
<1>2. ASSUME NEW i \in hits, NEW k \in hits, i < k
      PROVE  Cardinality(Smaller(i)) < Cardinality(Smaller(k))
  <2>1. i \in Nat /\ k \in Nat
    BY <1>0
  <2>a. \A j \in hits : j < i => j < k
    BY <1>0, <1>2, <2>1
  <2>b. ~(i < i)
    BY <2>1
  <2>2. Smaller(i) \subseteq Smaller(k) /\ i \in Smaller(k) /\ i \notin Smaller(i)
    BY <1>2, <2>a, <2>b, Zenon
  <2>3. IsFiniteSet(Smaller(k)) /\ Cardinality(Smaller(k)) \in Nat /\ Cardinality(Smaller(i)) \in Nat
    BY <1>1
  <2> HIDE DEF Smaller
  <2>4. Cardinality(Smaller(i)) <= Cardinality(Smaller(k))
    BY <2>2, <2>3, FS_Subset
  <2>5. Cardinality(Smaller(i)) # Cardinality(Smaller(k))
    BY <2>2, <2>3, FS_Subset
  <2> QED
    BY <2>3, <2>4, <2>5
<1> DEFINE rank == [x \in answer |-> Cardinality(Smaller(x.id))]
<1>3. \A x \in answer : x.id \in hits /\ x.id \in Nat /\ rank[x] \in 0 .. (CrudLimit - 1)
  <2> SUFFICES ASSUME NEW x \in answer
               PROVE  x.id \in hits /\ x.id \in Nat /\ rank[x] \in 0 .. (CrudLimit - 1)
    OBVIOUS
  <2>1. x.id \in hits /\ Cardinality(Smaller(x.id)) < CrudLimit
    OBVIOUS
  <2> HIDE DEF Smaller
  <2> QED
    BY <1>0, <1>1, <2>1, SMTT(30)
<1> HIDE DEF Smaller
<1>4. ASSUME NEW x \in answer, NEW y \in answer, rank[x] = rank[y]
      PROVE  x = y
  <2>1. x.id \in hits /\ y.id \in hits /\ x.id \in Nat /\ y.id \in Nat
    BY <1>3
  <2>2. Cardinality(Smaller(x.id)) = Cardinality(Smaller(y.id))
    BY <1>4
  <2>3. Cardinality(Smaller(x.id)) \in Nat /\ Cardinality(Smaller(y.id)) \in Nat
    BY <1>1, <2>1
  <2>4. ~(x.id < y.id) /\ ~(y.id < x.id)
    BY <1>2, <2>1, <2>2, <2>3
  <2> QED
    BY <2>1, <2>4
<1>5. rank \in [answer -> 0 .. (CrudLimit - 1)]
  BY <1>3
<1> HIDE DEF rank
<1>6. rank \in Injection(answer, 0 .. (CrudLimit - 1))
  BY <1>4, <1>5 DEF Injection, IsInjective
<1>7. IsFiniteSet(0 .. (CrudLimit - 1)) /\ Cardinality(0 .. (CrudLimit - 1)) = CrudLimit
  BY <1>0, FS_Interval DEF Crud!CrudAssumption
<1> QED
  BY <1>6, <1>7, FS_Injection

LEMMA FewRows ==
    ASSUME Crud!CrudAssumption
    PROVE  Cardinality({}) <= CrudLimit /\ \A x : Cardinality({x}) <= CrudLimit
BY FS_EmptySet, FS_Singleton DEF Crud!CrudAssumption

\* A step that answers r with the rows it shows.
LEMMA CrudAnswers ==
    ASSUME Crud!CrudAssumption, CrudInv, NEW r \in Requests, pc[r] # "idle",
           NEW code \in {"ok", "invalid_request", "order_not_found", "repository_error"},
           NEW answer \in SUBSET CrudRows, Cardinality(answer) <= CrudLimit,
           Crud!Answer(r, code, answer), UNCHANGED <<call, expired>>,
           wrote' \in [Requests -> Nat], \A q \in Requests : q # r => wrote'[q] = wrote[q],
           table' \in [CrudIDs -> [status : Crud!Statuses \union {"absent"}, version : Nat]],
           UNCHANGED table \/ \E i, status : CrudWrites(r, i, status),
           code = "ok" /\ call[r].op \in {"create", "update"} =>
               \E row \in answer :
                   /\ row.id = call[r].id /\ row.version >= wrote'[r]
                   /\ row.version = wrote'[r] /\ call[r].op = "update" => row.status = call[r].status,
           code = "order_not_found" /\ wrote'[r] > 0 => call[r].id \in CrudIDs /\ Gone(call[r].id)',
           code = "ok" /\ call[r].op = "delete" => call[r].id \in CrudIDs /\ Gone(call[r].id)'
    PROVE  CrudInv'
<1>1. /\ pc' = [pc EXCEPT ![r] = "reply"]
      /\ outcome' = [outcome EXCEPT ![r] = code]
      /\ seen' = [seen EXCEPT ![r] = answer]
  BY DEF Crud!Answer, Crud!Goto
<1>2. /\ pc'[r] = "reply" /\ outcome'[r] = code /\ seen'[r] = answer /\ call'[r] = call[r]
      /\ \A q \in Requests : q # r => pc'[q] = pc[q] /\ outcome'[q] = outcome[q] /\ seen'[q] = seen[q]
                                     /\ call'[q] = call[q]
  BY <1>1 DEF CrudInv, CrudTypes
<1>3. CrudTypes'
  <2>1. expired' \in [Requests -> BOOLEAN]
    BY Zenon DEF CrudInv, CrudTypes
  <2> QED
    BY <1>1, <2>1 DEF CrudInv, CrudTypes
<1>4. CrudStands(r)'
  <2>1. call[r].op = "none" \/ call[r] \in Crud!Calls
    BY DEF CrudInv, CrudStands
  <2> QED
    BY <1>2, <2>1 DEF CrudStands, ShowsWrite
<1> QED
  BY <1>2, <1>3, <1>4, CrudMoves

\* What the statements write.
LEMMA CrudWritten ==
    ASSUME CrudInv, NEW r \in Requests, pc[r] = "exec", NEW status \in Crud!Statuses \union {"absent"},
           Crud!Write(call[r].id, status), call[r].op # "list",
           Crud!Exists(call[r].id) \/ call[r].op = "create"
    PROVE  /\ call[r].id \in CrudIDs
           /\ table' \in [CrudIDs -> [status : Crud!Statuses \union {"absent"}, version : Nat]]
           /\ CrudWrites(r, call[r].id, status)
           /\ table'[call[r].id] = [status |-> status, version |-> table[call[r].id].version + 1]
           /\ table[call[r].id].version \in Nat
<1>1. call[r] \in Crud!Calls /\ (call[r].op = "create" => table[call[r].id].version = 0)
  BY DEF CrudInv, CrudStands
<1>2. call[r].id \in CrudIDs
  BY <1>1, CrudCallTypes
<1>3. /\ table' = [table EXCEPT ![call[r].id] =
                     [status |-> status, version |-> table[call[r].id].version + 1]]
      /\ table[call[r].id] \in [status : Crud!Statuses \union {"absent"}, version : Nat]
  BY <1>2 DEF Crud!Write, CrudInv, CrudTypes
<1>4. table' \in [CrudIDs -> [status : Crud!Statuses \union {"absent"}, version : Nat]]
  BY <1>2, <1>3 DEF CrudInv, CrudTypes
<1>5. table'[call[r].id] = [status |-> status, version |-> table[call[r].id].version + 1]
  BY <1>2, <1>3 DEF CrudInv, CrudTypes
<1> QED
  BY <1>1, <1>2, <1>3, <1>4, <1>5 DEF CrudWrites, Crud!Exists

LEMMA CrudRowTypes ==
    ASSUME CrudInv, NEW i \in CrudIDs, Crud!Exists(i)
    PROVE  Crud!Row(i) \in CrudRows
<1>1. table[i] \in [status : Crud!Statuses \union {"absent"}, version : Nat]
  BY DEF CrudInv, CrudTypes
<1> QED
  BY <1>1 DEF Crud!Exists, Crud!Row, CrudRows

LEMMA CrudArrives ==
    ASSUME Crud!CrudAssumption, CrudInv, NEW r \in Requests, NEW c \in Crud!Calls, Crud!Arrive(r, c)
    PROVE  CrudInv'
<1>1. /\ pc[r] = "idle" /\ call' = [call EXCEPT ![r] = c] /\ UNCHANGED <<expired, wrote, table>>
      /\ c.op = "create" => table[c.id].version = 0 /\ \A q \in Requests :
                               ~(call[q].op = "create" /\ call[q].id = c.id)
  BY DEF Crud!Arrive
<1>2. wrote[r] = 0
  BY <1>1 DEF CrudInv, CrudStands
<1>3. /\ call'[r] = c /\ \A q \in Requests : q # r => call'[q] = call[q]
      /\ call' \in [Requests -> Crud!Calls \union {Crud!NoCall}]
  BY <1>1 DEF CrudInv, CrudTypes
<1>4. expired' \in [Requests -> BOOLEAN]
  BY <1>1, Zenon DEF CrudInv, CrudTypes
<1>5. CASE c.status = "invalid"
  <2>1. /\ pc' = [pc EXCEPT ![r] = "reply"]
        /\ outcome' = [outcome EXCEPT ![r] = "invalid_request"]
        /\ seen' = [seen EXCEPT ![r] = {}]
    BY <1>5 DEF Crud!Arrive, Crud!Answer, Crud!Goto
  <2>2. /\ pc'[r] = "reply" /\ outcome'[r] = "invalid_request" /\ seen'[r] = {}
        /\ \A q \in Requests : q # r => pc'[q] = pc[q] /\ outcome'[q] = outcome[q] /\ seen'[q] = seen[q]
    BY <2>1 DEF CrudInv, CrudTypes
  <2>3. CrudTypes'
    BY <1>1, <1>3, <1>4, <2>1 DEF CrudInv, CrudTypes
  <2>4. CrudStands(r)'
    BY <1>1, <1>2, <1>3, <2>2 DEF CrudStands
  <2> QED
    BY <1>1, <1>3, <2>2, <2>3, <2>4, FewRows, CrudMoves
<1>6. CASE c.status # "invalid"
  <2>1. pc' = [pc EXCEPT ![r] = "exec"] /\ UNCHANGED <<outcome, seen>>
    BY <1>6 DEF Crud!Arrive, Crud!Goto
  <2>2. pc'[r] = "exec" /\ \A q \in Requests : q # r => pc'[q] = pc[q]
    BY <2>1 DEF CrudInv, CrudTypes
  <2>3. CrudTypes'
    BY <1>1, <1>3, <1>4, <2>1 DEF CrudInv, CrudTypes
  <2>4. CrudStands(r)'
    BY <1>1, <1>2, <1>3, <1>6, <2>2 DEF CrudStands
  <2>5. Cardinality(seen'[r]) <= CrudLimit
    BY <2>1 DEF CrudInv
  <2> QED
    BY <1>1, <1>3, <2>1, <2>2, <2>3, <2>4, <2>5, CrudMoves
<1> QED
  BY <1>5, <1>6

LEMMA CrudAdvances ==
    ASSUME Crud!CrudAssumption, CrudInv, NEW r \in Requests, Crud!Advance(r)
    PROVE  CrudInv'
<1>0. /\ pc[r] \in {"exec", "reread"} => call[r] \in Crud!Calls /\ call[r].status # "invalid"
      /\ pc[r] = "exec" => wrote[r] = 0
      /\ pc[r] = "reread" => call[r].op = "update" /\ wrote[r] > 0
      /\ wrote \in [Requests -> Nat] /\ wrote[r] \in Nat
      /\ table \in [CrudIDs -> [status : Crud!Statuses \union {"absent"}, version : Nat]]
      /\ {} \in SUBSET CrudRows
  BY DEF CrudInv, CrudTypes, CrudStands
<1>1. CASE Crud!StatementFails(r)
  <2>1. /\ pc[r] \in {"exec", "reread"} /\ Crud!Answer(r, "repository_error", {})
        /\ UNCHANGED <<call, expired, wrote>>
    BY <1>1 DEF Crud!StatementFails
  <2>2. CASE UNCHANGED table
    BY <1>0, <2>1, <2>2, FewRows, CrudAnswers
  <2>3. CASE ~UNCHANGED table
    <3>1. pc[r] = "exec" /\ call[r].op # "list"
      BY <1>1, <2>3 DEF Crud!StatementFails
    <3>2. PICK status \in Crud!Statuses \union {"absent"} :
             Crud!Write(call[r].id, status) /\ (Crud!Exists(call[r].id) \/ call[r].op = "create")
      <4>1. call[r].op = "update" => call[r].status \in {"paid", "cancelled"}
        BY <1>0, <3>1, CrudCallTypes
      <4> QED
        BY <1>1, <2>3, <4>1 DEF Crud!StatementFails, Crud!Statuses
    <3>3. /\ call[r].id \in CrudIDs
          /\ table' \in [CrudIDs -> [status : Crud!Statuses \union {"absent"}, version : Nat]]
          /\ CrudWrites(r, call[r].id, status)
      BY <3>1, <3>2, CrudWritten
    <3> QED
      BY <1>0, <2>1, <3>1, <3>3, FewRows, CrudAnswers
  <2> QED
    BY <2>2, <2>3
<1>2. CASE Crud!Create(r)
  <2> DEFINE row == [id |-> call[r].id, status |-> "pending", version |-> 1]
  <2>1. /\ pc[r] = "exec" /\ call[r].op = "create" /\ Crud!Write(call[r].id, "pending")
        /\ wrote' = [wrote EXCEPT ![r] = 1] /\ Crud!Answer(r, "ok", {row})
        /\ UNCHANGED <<call, expired>>
    BY <1>2 DEF Crud!Create
  <2>2. /\ call[r].id \in CrudIDs
        /\ table' \in [CrudIDs -> [status : Crud!Statuses \union {"absent"}, version : Nat]]
        /\ CrudWrites(r, call[r].id, "pending")
    BY <2>1, CrudWritten DEF Crud!Statuses
  <2>3. {row} \in SUBSET CrudRows /\ Cardinality({row}) <= CrudLimit
    <3>1. row \in CrudRows
      BY <2>2 DEF CrudRows, Crud!Statuses
    <3> HIDE DEF row
    <3> QED
      BY <3>1, FewRows
  <2>4. /\ wrote' \in [Requests -> Nat] /\ wrote'[r] = 1
        /\ \A q \in Requests : q # r => wrote'[q] = wrote[q]
    BY <1>0, <2>1
  <2>5. \E x \in {row} : /\ x.id = call[r].id /\ x.version >= wrote'[r]
                         /\ x.version = wrote'[r] /\ call[r].op = "update" => x.status = call[r].status
    BY <2>1, <2>4
  <2> QED
    BY <2>1, <2>2, <2>3, <2>4, <2>5, CrudAnswers
<1>3. CASE Crud!Find(r)
  <2>1. /\ pc[r] \in {"exec", "reread"} /\ UNCHANGED <<call, expired, wrote, table>>
        /\ pc[r] = "exec" => call[r].op = "get"
        /\ IF Crud!Exists(call[r].id)
           THEN Crud!Answer(r, "ok", {Crud!Row(call[r].id)})
           ELSE Crud!Answer(r, "order_not_found", {})
    BY <1>3 DEF Crud!Find
  <2>2. call[r].id \in CrudIDs
    BY <1>0, <2>1, CrudCallTypes
  <2>3. CASE Crud!Exists(call[r].id)
    <3> DEFINE row == Crud!Row(call[r].id)
    <3>1. {row} \in SUBSET CrudRows /\ Cardinality({row}) <= CrudLimit
      BY <2>2, <2>3, CrudRowTypes, FewRows
    <3>2. call[r].op \in {"create", "update"} =>
             /\ row.id = call[r].id /\ row.version >= wrote[r]
             /\ row.version = wrote[r] => row.status = call[r].status
      BY <2>1 DEF CrudInv, CrudStands, Crud!Row
    <3>3. call[r].op # "delete"
      BY <1>0, <2>1
    <3> HIDE DEF row
    <3> QED
      BY <1>0, <2>1, <2>3, <3>1, <3>2, <3>3, CrudAnswers DEF row
  <2>4. CASE ~Crud!Exists(call[r].id)
    <3>1. wrote[r] > 0 => Gone(call[r].id)'
      BY <1>0, <2>1, <2>2, <2>4 DEF CrudInv, CrudStands, Crud!Exists, Gone
    <3> QED
      BY <1>0, <2>1, <2>2, <2>4, <3>1, FewRows, CrudAnswers
  <2> QED
    BY <2>3, <2>4
<1>4. CASE Crud!List(r)
  <2> DEFINE hits == {i \in CrudIDs : table[i].status = call[r].status}
             listed == {i \in hits : Cardinality({j \in hits : j < i}) < CrudLimit}
             answer == {Crud!Row(i) : i \in listed}
  <2>1. pc[r] = "exec" /\ call[r].op = "list" /\ UNCHANGED <<call, expired, wrote, table>>
    BY <1>4 DEF Crud!List
  <2>2. Crud!Answer(r, "ok", answer)
    BY <1>4, CrudSizes, Zenon DEF Crud!List
  <2>3. call[r].status \in {"pending", "paid"}
    BY <1>0, <2>1, CrudCallTypes
  <2>4. \A i \in listed : i \in CrudIDs /\ Crud!Exists(i)
    BY <2>3 DEF Crud!Exists
  <2>5. answer \in SUBSET CrudRows
    <3> HIDE DEF listed
    <3> QED
      BY <2>4, CrudRowTypes
  <2>6. /\ \A x \in answer : x.id \in listed
        /\ \A x, y \in answer : x.id = y.id => x = y
    <3> HIDE DEF listed
    <3> QED
      BY DEF Crud!Row
  <2>7. Cardinality(answer) <= CrudLimit
    <3>1. hits \in SUBSET CrudIDs
      OBVIOUS
    <3> HIDE DEF hits, answer
    <3> QED
      BY <2>6, <3>1, ListedRows
  <2> HIDE DEF answer
  <2> QED
    BY <1>0, <2>1, <2>2, <2>5, <2>7, CrudAnswers
<1>5. CASE Crud!UpdateStatus(r)
  <2>1. pc[r] = "exec" /\ call[r].op = "update" /\ UNCHANGED <<call, expired>>
    BY <1>5 DEF Crud!UpdateStatus
  <2>2. CASE ~Crud!Exists(call[r].id)
    <3>1. Crud!Answer(r, "order_not_found", {}) /\ UNCHANGED <<wrote, table>>
      BY <1>5, <2>2 DEF Crud!UpdateStatus
    <3> QED
      BY <1>0, <2>1, <3>1, FewRows, CrudAnswers
  <2>3. CASE Crud!Exists(call[r].id)
    <3>1. /\ Crud!Write(call[r].id, call[r].status)
          /\ wrote' = [wrote EXCEPT ![r] = table[call[r].id].version + 1]
          /\ pc' = [pc EXCEPT ![r] = "reread"] /\ UNCHANGED <<outcome, seen>>
      BY <1>5, <2>3 DEF Crud!UpdateStatus, Crud!Goto
    <3>2. call[r].status \in Crud!Statuses \union {"absent"}
      BY <1>0, <2>1, CrudCallTypes DEF Crud!Statuses
    <3>3. /\ call[r].id \in CrudIDs
          /\ table' \in [CrudIDs -> [status : Crud!Statuses \union {"absent"}, version : Nat]]
          /\ CrudWrites(r, call[r].id, call[r].status)
          /\ table'[call[r].id] = [status |-> call[r].status, version |-> table[call[r].id].version + 1]
          /\ table[call[r].id].version \in Nat
      BY <2>1, <2>3, <3>1, <3>2, CrudWritten
    <3>4. /\ wrote' \in [Requests -> Nat] /\ wrote'[r] = table[call[r].id].version + 1
          /\ \A q \in Requests : q # r => wrote'[q] = wrote[q]
      BY <1>0, <3>1, <3>3
    <3>5. pc'[r] = "reread" /\ \A q \in Requests : q # r => pc'[q] = pc[q]
      BY <3>1 DEF CrudInv, CrudTypes
    <3>6. CrudTypes'
      <4>1. expired' \in [Requests -> BOOLEAN]
        BY <2>1, Zenon DEF CrudInv, CrudTypes
      <4> QED
        BY <2>1, <3>1, <3>3, <3>4, <4>1 DEF CrudInv, CrudTypes
    <3>7. CrudStands(r)'
      BY <1>0, <2>1, <3>3, <3>4, <3>5 DEF CrudStands
    <3>8. Cardinality(seen'[r]) <= CrudLimit
      BY <3>1 DEF CrudInv
    <3> QED
      BY <2>1, <3>1, <3>3, <3>4, <3>5, <3>6, <3>7, <3>8, CrudMoves
  <2> QED
    BY <2>2, <2>3
<1>6. CASE Crud!Delete(r)
  <2>1. pc[r] = "exec" /\ call[r].op = "delete" /\ UNCHANGED <<call, expired>>
    BY <1>6 DEF Crud!Delete
  <2>2. CASE ~Crud!Exists(call[r].id)
    <3>1. Crud!Answer(r, "order_not_found", {}) /\ UNCHANGED <<wrote, table>>
      BY <1>6, <2>2 DEF Crud!Delete
    <3> QED
      BY <1>0, <2>1, <3>1, FewRows, CrudAnswers
  <2>3. CASE Crud!Exists(call[r].id)
    <3>1. /\ Crud!Write(call[r].id, "absent") /\ Crud!Answer(r, "ok", {})
          /\ wrote' = [wrote EXCEPT ![r] = table[call[r].id].version + 1]
      BY <1>6, <2>3 DEF Crud!Delete
    <3>2. /\ call[r].id \in CrudIDs
          /\ table' \in [CrudIDs -> [status : Crud!Statuses \union {"absent"}, version : Nat]]
          /\ CrudWrites(r, call[r].id, "absent")
          /\ table'[call[r].id] = [status |-> "absent", version |-> table[call[r].id].version + 1]
          /\ table[call[r].id].version \in Nat
      BY <2>1, <2>3, <3>1, CrudWritten
    <3>3. /\ wrote' \in [Requests -> Nat]
          /\ \A q \in Requests : q # r => wrote'[q] = wrote[q]
      BY <1>0, <3>1, <3>2
    <3>4. Gone(call[r].id)'
      BY <2>1, <3>2 DEF Gone
    <3> QED
      BY <1>0, <2>1, <3>1, <3>2, <3>3, <3>4, FewRows, CrudAnswers
  <2> QED
    BY <2>2, <2>3
<1>7. CASE Crud!Reply(r)
  <2>1. /\ pc' = [pc EXCEPT ![r] = "idle"] /\ call' = [call EXCEPT ![r] = Crud!NoCall]
        /\ wrote' = [wrote EXCEPT ![r] = 0] /\ seen' = [seen EXCEPT ![r] = {}]
        /\ outcome' = [outcome EXCEPT ![r] = "none"] /\ UNCHANGED table
        /\ expired' = [expired EXCEPT ![r] = FALSE]
    BY <1>7 DEF Crud!Reply, Crud!Goto
  <2>2. /\ pc'[r] = "idle" /\ call'[r].op = "none" /\ wrote'[r] = 0 /\ seen'[r] = {}
        /\ \A q \in Requests : q # r =>
              /\ pc'[q] = pc[q] /\ call'[q] = call[q] /\ wrote'[q] = wrote[q]
              /\ seen'[q] = seen[q] /\ outcome'[q] = outcome[q]
    BY <2>1 DEF CrudInv, CrudTypes, Crud!NoCall
  <2>3. CrudTypes'
    <3>1. expired' \in [Requests -> BOOLEAN]
      BY <2>1, Zenon DEF CrudInv, CrudTypes
    <3> QED
      BY <2>1, <3>1 DEF CrudInv, CrudTypes
  <2>4. CrudStands(r)'
    BY <2>2 DEF CrudStands
  <2> QED
    BY <2>1, <2>2, <2>3, <2>4, FewRows, CrudMoves
<1> QED
  BY <1>1, <1>2, <1>3, <1>4, <1>5, <1>6, <1>7 DEF Crud!Advance

LEMMA CrudStep ==
    ASSUME Crud!CrudAssumption, CrudInv, [Crud!Next]_(Crud!vars)
    PROVE  CrudInv'
<1>1. ASSUME NEW r \in Requests, Crud!Expire(r)
      PROVE  CrudInv'
  <2>1. /\ expired' = [expired EXCEPT ![r] = TRUE]
        /\ UNCHANGED <<pc, call, wrote, seen, outcome, table>>
    BY <1>1 DEF Crud!Expire
  <2>2. expired' \in [Requests -> BOOLEAN]
    BY <2>1, Zenon DEF CrudInv, CrudTypes
  <2> QED
    BY <2>1, <2>2 DEF CrudInv, CrudTypes, CrudStands, ShowsWrite, Gone
<1>2. CASE UNCHANGED Crud!vars
  <2>1. UNCHANGED <<pc, call, expired, wrote, seen, outcome, table>>
    BY <1>2 DEF Crud!vars, Crud!requestVars
  <2>2. CrudTypes' <=> CrudTypes
    BY <2>1, Zenon DEF CrudTypes
  <2>3. \A r \in Requests : CrudStands(r)' <=> CrudStands(r)
    BY <2>1 DEF CrudStands, ShowsWrite, Gone
  <2> QED
    BY <2>1, <2>2, <2>3, Zenon DEF CrudInv
<1> QED
  BY <1>1, <1>2, CrudArrives, CrudAdvances DEF Crud!Next

LEMMA CrudShows ==
    ASSUME CrudInv
    PROVE  Crud!TypeOK /\ Crud!AnswersMatchTable
<1>1. Crud!TypeOK
  BY DEF CrudInv, CrudTypes, CrudRows, Crud!TypeOK
<1>2. Crud!AnswersMatchTable
  <2> SUFFICES ASSUME NEW r \in Requests, pc[r] = "reply"
               PROVE  /\ outcome[r] = "ok" /\ call[r].op \in {"create", "update"} => ShowsWrite(r)
                      /\ outcome[r] = "order_not_found" => ~Crud!Exists(call[r].id) \/ wrote[r] = 0
                      /\ outcome[r] = "ok" /\ call[r].op = "delete" => ~Crud!Exists(call[r].id)
                      /\ Cardinality(seen[r]) <= CrudLimit
    BY CrudSizes, Zenon DEF Crud!AnswersMatchTable, ShowsWrite
  <2>1. wrote[r] \in Nat
    BY DEF CrudInv, CrudTypes
  <2> QED
    BY <2>1 DEF CrudInv, CrudStands, Gone, Crud!Exists
<1> QED
  BY <1>1, <1>2

\* Create, FindByID, List, UpdateStatus and Delete with any callers and rows, while
\* statements fail with or without effect: a row shown after a write is that write or a newer
\* one, an order missing after the request's own update is gone for good, a deleted order stays
\* deleted, and a list keeps to its limit.
THEOREM CrudAnswersAreTrue ==
    Crud!CrudAssumption /\ Crud!Spec => []Crud!AnswersMatchTable
<1> SUFFICES ASSUME Crud!CrudAssumption
             PROVE  Crud!Spec => []Crud!AnswersMatchTable
  OBVIOUS
<1>1. Crud!Init => CrudInv
  BY CrudBegins
<1>2. CrudInv /\ [Crud!Next]_(Crud!vars) => CrudInv'
  BY CrudStep
<1>3. CrudInv => Crud!AnswersMatchTable
  BY CrudShows
<1> QED
  BY <1>1, <1>2, <1>3, PTL DEF Crud!Spec

================================================================================
