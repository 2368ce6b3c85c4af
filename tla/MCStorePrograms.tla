---------------------------- MODULE MCStorePrograms ----------------------------
(***************************************************************************)
(* The request services side by side: three over PostgreSQL, one over      *)
(* DynamoDB, two with a Bloom filter, three over an audit history, two that*)
(* issue tokens and one that imports graphs.  They share no state, so a    *)
(* behaviour is one of some program; the variables only the others have    *)
(* stay unused.                                                            *)
(***************************************************************************)
EXTENDS Integers, Sequences, FiniteSets

CONSTANTS
    R1, R2,
    EditedLines   \* the items that PATCH /orders/{id}/items/{item_id} edits

VARIABLES
    program,
    pc, call, expired, outcome,
    draft, total, mine, view, header, items, events,
    id, claim, sent, rows, records, stream, printed,
    wrote, seen, table, log,
    lock, orders, used, history,
    service, meta, filter, admitted, created,
    work, tokens, now, started, delay, keys, next, boots

sharedVars == <<call, expired, outcome>>
orderVars == <<draft, total, mine, view, header, items, events>>
commandVars == <<id, claim, sent, rows, records, stream, printed>>
sqlVars == <<orderVars, commandVars>>
crudVars == <<wrote, seen, table>>
catalogVars == <<seen, table, log>>
historyVars == <<lock, orders, used, history>>
bloomVars == <<service, meta, filter, admitted, created>>
jwtVars == <<keys, next, boots>>
tokenVars == <<work, tokens, now, started, delay, jwtVars>>
newVars == <<log, historyVars, bloomVars, tokenVars>>
vars == <<program, pc, sharedVars, sqlVars, crudVars, newVars>>

OneToOne == [p \in {1, 2} |-> p]

\* Two commands of their own and one that reuses an id of each.
SomeIdentities ==
    {[order |-> "o1", command |-> "c1"],
     [order |-> "o2", command |-> "c2"],
     [order |-> "o2", command |-> "c1"]}

Order == INSTANCE SqlOrderService WITH
    Requests <- {R1, R2}, Orders <- {1}, Lines <- {1, 2}, Price <- OneToOne,
    Quantities <- {0, 1, 2}, Edited <- EditedLines, MaxEvents <- 2

Command == INSTANCE OutboxCommand WITH
    Processes <- {R1, R2}, Identities <- SomeIdentities, MaxAttempts <- 2, MaxMessages <- 3

Crud == INSTANCE OrdersCrud WITH
    Requests <- {R1, R2}, IDs <- {1, 2}, Limit <- 1, MaxVersion <- 2

\* Searches without bounds, within revisions, with inverted bounds and within a period.
Bound(from, to, after, before) == [from |-> from, to |-> to, after |-> after, before |-> before]
SomeBounds == {Bound(0, 0, 0, 0), Bound(2, 4, 0, 0), Bound(3, 2, 0, 0), Bound(0, 3, 2, 4)}

Query == INSTANCE AuditQuery WITH
    Requests <- {R1}, Bounds <- SomeBounds, Limits <- {-1, 0, 1, 3, 4},
    DefaultLimit <- 2, MaximumLimit <- 3

History == INSTANCE OrderHistory WITH
    Requests <- {R1, R2}, Orders <- {"o1"}, Commands <- {"c1", "c2", "c3"}, Nobody <- "nobody"

Catalog == INSTANCE CatalogRepository WITH
    Requests <- {R1, R2}, SKUs <- {1, 2}, PageSize <- 1, MaxVersion <- 2

\* Two instances that agree on the filter, one by default.
Redis == INSTANCE RedisAdmission WITH
    Requests <- {R1, R2}, Instances <- {"x", "y"}, Configured <- [i \in {"x", "y"} |->
        IF i = "x" THEN 0 ELSE 10], Default <- 10, Events <- {"a", "b"},
    Bits <- [e \in {"a", "b"} |-> IF e = "a" THEN {1, 2} ELSE {2, 3}]

\* The bits of the third key are those of the first two together.
Lines(price, quantity, category) ==
    <<[price |-> price, quantity |-> quantity, currency |-> "EUR", category |-> category]>>
Checkout(key, lines) ==
    [key |-> key, currency |-> "EUR", tier |-> "vip", region |-> "EU", lines |-> lines]
SomeCheckouts ==
    {Checkout("k1", Lines(5050, 3, "service") \o Lines(1050, 1, "tax_exempt")),
     Checkout("k2", Lines(3333, 7, "service")),
     Checkout("k3", Lines(5000, 2, "goods")),
     Checkout("k3", Lines(5000, 2, "restricted")),
     Checkout("none", Lines(5000, 2, "goods"))}
TokenRequest(role, scopes, ttl) == [role |-> role, scopes |-> scopes, ttl |-> ttl]

Guard == INSTANCE CheckoutGuard WITH
    Requests <- {R1, R2}, Keys <- {"k1", "k2", "k3"},
    Bits <- [k1 |-> {1, 2}, k2 |-> {2, 3}, k3 |-> {1, 3}],
    TokenRequests <- {TokenRequest("customer", {"checkout:submit"}, 1),
                      TokenRequest("customer", {"read"}, 2)},
    Checkouts <- SomeCheckouts, MaxTokens <- 1, MaxTime <- 1

Refresh == INSTANCE TokenRefresh WITH
    Requests <- {R1, R2}, Sessions <- {1},
    SessionRequests <- {TokenRequest("customer", {"profile:read"}, 1),
                        TokenRequest("guest", {"other"}, 6), TokenRequest("none", {}, 2)},
    AccessTTL <- 2, RefreshTTL <- 2, MaxDelay <- 1, MaxTime <- 5

Jwt == INSTANCE DistributedJwt WITH
    Requests <- {R1, R2}, Nodes <- {"a", "b"}, NodeID <- [a |-> "api-1", b |-> "api-1"],
    TTLs <- {0, 1}, MaxTTL <- 1, Capacity <- 2, KeyTTL <- 2, MaxKeys <- 2,
    MaxRestarts <- [a |-> 1, b |-> 0], MaxTime <- 2, MaxTokens <- 1

\* Records in and out of order, at and beyond the safe range, and with every fault.
Vertex(i, label, partner, value) ==
    [kind |-> "vertex", id |-> i, label |-> label, partner |-> partner, from |-> 0, to |-> 0,
     value |-> value]
Edge(i, label, from, to, value) ==
    [kind |-> "edge", id |-> i, label |-> label, partner |-> "none", from |-> from, to |-> to,
     value |-> value]
Value(type, n) == [type |-> type, n |-> n]
Account(i, n) == Vertex(i, "Account", "acme", Value("int", n))
Device(i) == Vertex(i, "Device", "acme", Value("float", 2))
Uses(i, from, to) == Edge(i, "USES_DEVICE", from, to, Value("fraction", 0))
SomeSources ==
    {<<Uses(7, 3, 1), Device(1), Account(3, -4), Account(2, 4)>>,
     <<Account(1, 5), Account(2, 7), Account(3, 6)>>,
     <<Account(1, 1), Vertex(2, "Device", "acme", Value("uint", 9))>>,
     <<Account(1, 1), Vertex(2, "Device", "acme", Value("uint", 8)), Uses(3, 1, 2)>>,
     <<Account(1, 1), Uses(2, 1, 9)>>,
     <<Account(1, 1), Device(1)>>}
PartnerFile(format, lines) == [format |-> format, records |-> lines]
SomeFiles ==
    {PartnerFile("ndjson", <<Account(2, 5), Device(1), Uses(4, 2, 1), Uses(3, 2, 1)>>),
     PartnerFile("graphml", <<Device(1), Account(2, 5), Uses(1, 2, 1)>>),
     PartnerFile("ndjson", <<Account(1, 1), Account(1, 2)>>),
     PartnerFile("ndjson", <<Account(1, 1), Vertex(2, "Device", "acme", Value("list", 0))>>),
     PartnerFile("graphml", <<Account(1, 1), Device(2), Uses(3, 2, 1)>>),
     PartnerFile("graphml", <<Account(1, 1), Vertex(2, "Device", "other", Value("int", 0))>>),
     PartnerFile("ndjson", <<Account(1, 1), Device(2), Edge(3, "OWNS", 1, 2, Value("int", 0))>>),
     PartnerFile("ndjson", <<Account(1, 1), Uses(2, 1, 3)>>)}
Limit(bytes, lines) == [bytes |-> bytes, records |-> lines]
Asks(format, limits) == [format |-> format, partner |-> "acme", limits |-> limits]

Graph == INSTANCE GraphImport WITH
    Sources <- SomeSources, Files <- SomeFiles,
    Fixture <- <<Account(1, 3), Device(2), Uses(3, 1, 2)>>, Partner <- "acme",
    Calls <- {Asks("ndjson", Limit(0, 0)), Asks("graphml", Limit(0, 0)), Asks("csv", Limit(0, 0)),
              Asks("ndjson", Limit(3, -1)), Asks("ndjson", Limit(8, 0)), Asks("graphml", Limit(0, 3)),
              [Asks("ndjson", Limit(0, -2)) EXCEPT !.partner = ""], Asks("graphml", Limit(0, -2))},
    Default <- Limit(4, 4), Safe <- 4, MaxInt <- 8,
    file <- table, origin <- history, result <- seen, runs <- log

\* Walks without filter and within revisions and times; clocks that disagree.
Audits(op, from, to, limit) ==
    [op |-> op, body |-> "ok", aggregate |-> "order", from |-> from, to |-> to, after |-> 0,
     before |-> 0, limit |-> limit]
SomeAudits ==
    {Audits("search", 0, 0, 1), Audits("search", 3, 2, 1), Audits("search", 0, 0, 101),
     [Audits("search", 0, 0, 1) EXCEPT !.to = 3, !.before = 2],
     [Audits("search", -1, 0, 1) EXCEPT !.aggregate = "blank"], Audits("search", 0, -1, 1),
     Audits("detail", 2, 0, 0), Audits("detail", 0, 0, 0)}
    \union {[Audits("detail", 1, 0, 0) EXCEPT !.body = b] :
               b \in {"type", "encoding", "large", "broken", "syntax"}}

Audit == INSTANCE OrderAudit WITH
    Requests <- {R1, R2}, Calls <- SomeAudits, RecordedAt <- <<1, 3, 2>>,
    MaximumConcurrent <- 1, slots <- lock

ASSUME OrderConstants == Order!ServiceAssumption
ASSUME CommandConstants == Command!CommandAssumption
ASSUME CrudConstants == Crud!CrudAssumption
ASSUME QueryConstants == Query!AuditAssumption
ASSUME HistoryConstants == History!HistoryAssumption
ASSUME CatalogConstants == Catalog!CatalogAssumption
ASSUME RedisConstants == Redis!AdmissionAssumption
ASSUME GuardConstants == Guard!GuardAssumption
ASSUME RefreshConstants == Refresh!RefreshAssumption
ASSUME JwtConstants == Jwt!JwtAssumption
ASSUME AuditConstants == Audit!AuditAssumption
ASSUME GraphConstants == Graph!ImportAssumption

\* The variables of the programs that do not run keep a neutral value.
OrderUnused ==
    /\ draft = "unused"
    /\ total = "unused"
    /\ mine = "unused"
    /\ view = "unused"
    /\ header = "unused"
    /\ items = "unused"
    /\ events = "unused"

CommandUnused ==
    /\ id = "unused"
    /\ claim = "unused"
    /\ sent = "unused"
    /\ rows = "unused"
    /\ records = "unused"
    /\ stream = "unused"
    /\ printed = "unused"

SqlUnused == OrderUnused /\ CommandUnused

CrudUnused ==
    /\ wrote = "unused"
    /\ seen = "unused"
    /\ table = "unused"

OrdersUnused == orders = "unused" /\ used = "unused"
HistoryUnused == OrdersUnused /\ lock = "unused" /\ history = "unused"

RedisUnused ==
    /\ service = "unused"
    /\ meta = "unused"

RefreshUnused ==
    /\ started = "unused"
    /\ delay = "unused"

JwtUnused ==
    /\ keys = "unused"
    /\ next = "unused"
    /\ boots = "unused"

BloomUnused == RedisUnused /\ filter = "unused" /\ admitted = "unused" /\ created = "unused"
TokenUnused == work = "unused" /\ tokens = "unused" /\ now = "unused" /\ RefreshUnused /\ JwtUnused
NewUnused == log = "unused" /\ HistoryUnused /\ BloomUnused /\ TokenUnused

SqlInit ==
    /\ \/ /\ program = "order"
          /\ Order!Init
          /\ CommandUnused
          /\ CrudUnused
       \/ /\ program = "command"
          /\ Command!Init
          /\ call = "unused"
          /\ expired = "unused"
          /\ outcome = "unused"
          /\ OrderUnused
          /\ CrudUnused
       \/ /\ program = "crud"
          /\ Crud!Init
          /\ SqlUnused
    /\ NewUnused

AuditInit ==
    /\ \/ /\ program = "query"
          /\ Query!Init
          /\ table = "unused"
          /\ log = "unused"
          /\ HistoryUnused
       \/ /\ program = "history"
          /\ History!Init
          /\ table = "unused"
          /\ log = "unused"
       \/ /\ program = "catalog"
          /\ Catalog!Init
          /\ HistoryUnused
       \/ /\ program = "graph"
          /\ Graph!Init
          /\ OrdersUnused
          /\ lock = "unused"
       \/ /\ program = "audit"
          /\ Audit!Init
          /\ OrdersUnused
          /\ table = "unused"
          /\ log = "unused"
    /\ wrote = "unused"
    /\ SqlUnused
    /\ BloomUnused
    /\ TokenUnused

GrantInit ==
    /\ \/ /\ program = "redis"
          /\ Redis!Init
          /\ created = "unused"
          /\ table = "unused"
          /\ TokenUnused
       \/ /\ program = "guard"
          /\ Guard!Init
          /\ seen = "unused"
          /\ table = "unused"
          /\ RedisUnused
          /\ work = "unused"
          /\ RefreshUnused
          /\ JwtUnused
       \/ /\ program = "refresh"
          /\ Refresh!Init
          /\ call = "unused"
          /\ seen = "unused"
          /\ table = "unused"
          /\ BloomUnused
          /\ JwtUnused
       \/ /\ program = "jwt"
          /\ Jwt!Init
          /\ call = "unused"
          /\ seen = "unused"
          /\ table = "unused"
          /\ BloomUnused
          /\ RefreshUnused
    /\ expired = "unused"
    /\ wrote = "unused"
    /\ log = "unused"
    /\ SqlUnused
    /\ HistoryUnused

Init == SqlInit \/ AuditInit \/ GrantInit

RunsOrder(A) ==
    program = "order" /\ A /\ UNCHANGED <<program, commandVars, crudVars, newVars>>
RunsCommand(A) ==
    /\ program = "command" /\ A
    /\ UNCHANGED <<program, sharedVars, orderVars, crudVars, newVars>>
RunsCrud(A) == program = "crud" /\ A /\ UNCHANGED <<program, sqlVars, newVars>>
RunsQuery(A) == program = "query" /\ A /\ UNCHANGED <<program, sqlVars, wrote, table, newVars>>
RunsHistory(A) ==
    program = "history" /\ A /\ UNCHANGED <<program, sqlVars, wrote, table, log, bloomVars, tokenVars>>
RunsCatalog(A) ==
    program = "catalog" /\ A /\ UNCHANGED <<program, sqlVars, wrote, historyVars, bloomVars, tokenVars>>
RunsAudit(A) ==
    /\ program = "audit" /\ A
    /\ UNCHANGED <<program, sqlVars, wrote, table, log, orders, used, bloomVars, tokenVars>>
RunsGraph(A) ==
    /\ program = "graph" /\ A
    /\ UNCHANGED <<program, sqlVars, wrote, lock, orders, used, bloomVars, tokenVars>>

notGranting == <<program, expired, sqlVars, wrote, table, log, historyVars>>
RunsRedis(A) == program = "redis" /\ A /\ UNCHANGED <<notGranting, created, tokenVars>>
RunsGuard(A) ==
    /\ program = "guard" /\ A
    /\ UNCHANGED <<notGranting, seen, service, meta, work, started, delay, jwtVars>>
RunsRefresh(A) ==
    program = "refresh" /\ A /\ UNCHANGED <<notGranting, call, seen, bloomVars, jwtVars>>
RunsJwt(A) ==
    program = "jwt" /\ A /\ UNCHANGED <<notGranting, call, seen, bloomVars, started, delay>>

Next ==
    \/ RunsOrder(Order!Next)
    \/ RunsCommand(Command!Next)
    \/ RunsCrud(Crud!Next)
    \/ RunsQuery(Query!Next)
    \/ RunsHistory(History!Next)
    \/ RunsCatalog(Catalog!Next)
    \/ RunsAudit(Audit!Next)
    \/ RunsGraph(Graph!Next)
    \/ RunsRedis(Redis!Next)
    \/ RunsGuard(Guard!Next)
    \/ RunsRefresh(Refresh!Next)
    \/ RunsJwt(Jwt!Next)

Spec == Init /\ [][Next]_vars

--------------------------------------------------------------------------------
\* The type invariants of the programs.
TypeOK ==
    /\ program = "order" => Order!TypeOK
    /\ program = "command" => Command!TypeOK
    /\ program = "crud" => Crud!TypeOK
    /\ program = "query" => Query!TypeOK
    /\ program = "history" => History!TypeOK
    /\ program = "catalog" => Catalog!TypeOK
    /\ program = "audit" => Audit!TypeOK
    /\ program = "graph" => Graph!TypeOK
    /\ program = "redis" => Redis!TypeOK
    /\ program = "guard" => Guard!TypeOK
    /\ program = "refresh" => Refresh!TypeOK
    /\ program = "jwt" => Jwt!TypeOK

\* What a program keeps in several places fits together at every moment: the tables that
\* CreateOrder and Place write in one transaction, the audit history that
\* apply appends to before it changes the service's own map, the versions that
\* conditional writes make of a catalog item, the slots of the semaphore with the requests
\* that run, and the keys rotations leave in Redis.
RowsAgree ==
    /\ program = "order" => Order!AggregateIsWhole
    /\ program = "command" => Command!OrdersHaveRecords
    /\ program = "history" => History!HistoryLeads /\ History!CommandsAreUnique
    /\ program = "catalog" => Catalog!NoLostRename
    /\ program = "audit" => Audit!SlotsAreReturned
    /\ program = "redis" => Redis!ServingAgree
    /\ program = "jwt" => Jwt!RotationsAreTrue

\* UpdateItemQuantity: the stored total of an order is the sum of its stored lines.
TotalMatchesItems == program = "order" => Order!TotalMatchesItems

\* What the programs report to their callers is true of what they store, although most
\* of them read after their own write and beside other writers; the pages of an audit
\* search are complete, a quoted total is the exact one up to rounding, an imported graph
\* is whole and the same after any exports and imports, and a token is called invalid only
\* when its key is gone: pushed out by Capacity later keys, which is earlier than the
\* example's README says, past its end, or replaced by another process.
AnswersAreTrue ==
    /\ program = "order" => Order!AnswerShowsOwnWrite
    /\ program = "command" => Command!PrintedIsPublished
    /\ program = "crud" => Crud!AnswersMatchTable
    /\ program = "query" => Query!WalksAreComplete
    /\ program = "history" => History!AnswersAreRecorded
    /\ program = "catalog" => Catalog!QueryShowsStored
    /\ program = "audit" => Audit!WalksAreComplete
    /\ program = "graph" => Graph!ImportIsAGraph /\ Graph!RoundTripsAreFaithful
    /\ program = "redis" => Redis!StatsInclude
    /\ program = "guard" => Guard!TotalIsNear
    /\ program = "jwt" => Jwt!RetainedTokensVerify

\* admit, Put and RefreshAccess: a checkout key or an event is admitted at most once,
\* whatever overlaps, collides, fails or is restarted, and no sequence of refreshes
\* outlives the refresh token of its session.
GrantsAreBounded ==
    /\ program = "redis" => Redis!AdmittedOnce
    /\ program = "guard" => Guard!AtMostOnce /\ Guard!DuplicateIsJustified
    /\ program = "refresh" => Refresh!SessionsEnd

================================================================================
