------------------------------ MODULE AbuseCluster ------------------------------
(***************************************************************************)
(* examples/graph-abuse-cluster: the program replaces the fixture in       *)
(* Neo4j, loads it again in two reads, groups the users that share         *)
(* identifiers into clusters and prints the report after it has closed the *)
(* client.  Several processes run on the same fixture id at the same time. *)
(* Neo4j reads committed data and locks only what a statement has matched: *)
(* the database is external and modelled by what the statements see.       *)
(***************************************************************************)
EXTENDS Naturals, Sequences, FiniteSets, SequencesExt, FiniteSetsExt

CONSTANTS
    Processes,      \* concurrent runs of the program
    Leftovers,      \* generations that earlier runs may have left in the database
    Users,          \* opaque user ids, in their string order
    Kind,           \* identifier -> its kind; numbered by kind and opaque id
    FixtureEdges    \* the sets of edges <<user, identifier>> a fixture may have

VARIABLES
    pc,         \* process -> the stage of run it is in
    cancelled,  \* process -> a signal has arrived or operationTimeout has passed
    stale,      \* process -> vertices its replace statement has matched
    loaded,     \* process -> [vertices, edges] it has read
    report,     \* process -> the report of Analyze
    client,     \* process -> the state of its Neo4j client
    output,     \* process -> "none", "partial" or "full": what it has written
    exit,       \* process -> its exit code, -1 before
    fixture,    \* the edges of the fixture
    store       \* Neo4j: [vertices, edges]; an element id is a generation and an opaque id

runVars == <<pc, cancelled, stale, loaded, report, client, output, exit>>
vars == <<runVars, fixture, store>>

Identifiers == DOMAIN Kind
Opaque == Users \union Identifiers
NoReport == [clusters |-> <<>>, isolated |-> <<>>]
EmptyGraph == [vertices |-> {}, edges |-> {}]

ClusterAssumption ==
    /\ Users \subseteq Nat /\ Identifiers \subseteq Nat /\ Users \intersect Identifiers = {}
    /\ \A i \in Identifiers : Kind[i] \in {"device", "ip", "payment_token"}
    /\ \A es \in FixtureEdges : es # {} /\ es \subseteq Users \X Identifiers
    /\ Processes \intersect Leftovers = {}

Stages == {"open", "verify", "match", "replace", "vertices", "edges", "analyze", "encode",
           "close", "write", "cleanup", "exited"}

TypeOK ==
    /\ pc \in [Processes -> Stages]
    /\ cancelled \in [Processes -> BOOLEAN]
    /\ client \in [Processes -> {"none", "open", "closed", "closed_again"}]
    /\ output \in [Processes -> {"none", "partial", "full"}]
    /\ exit \in [Processes -> {-1, 0, 1}]
    /\ fixture \in FixtureEdges

--------------------------------------------------------------------------------
(* Cypher: what the statements do to the graph.                              *)

Generation(g) == {<<g, o>> : o \in Opaque}

\* The edges that generation g creates between the vertices its MATCH finds.
Linked(g, vertices, edges) ==
    UNION {{[by |-> g, of |-> e, start |-> x, end |-> y] :
               x \in {v \in vertices : v[2] = e[1]}, y \in {v \in vertices : v[2] = e[2]}} :
           e \in edges}

\* replaceFixtureCypher of generation g, whose OPTIONAL MATCH has found the old vertices.
Replaced(g, old) ==
    LET kept == store.vertices \ old
        all == kept \union Generation(g)
    IN [vertices |-> all,
        edges |-> {e \in store.edges : e.start \in kept /\ e.end \in kept}
                      \union Linked(g, all, fixture)]

Init ==
    /\ fixture \in FixtureEdges
    /\ \E gs \in SUBSET Leftovers :
          LET vs == UNION {Generation(g) : g \in gs} IN
          store = [vertices |-> vs, edges |-> UNION {Linked(g, vs, fixture) : g \in gs}]
    /\ pc = [p \in Processes |-> "open"]
    /\ cancelled = [p \in Processes |-> FALSE]
    /\ stale = [p \in Processes |-> {}]
    /\ loaded = [p \in Processes |-> EmptyGraph]
    /\ report = [p \in Processes |-> NoReport]
    /\ client = [p \in Processes |-> "none"]
    /\ output = [p \in Processes |-> "none"]
    /\ exit = [p \in Processes |-> -1]

--------------------------------------------------------------------------------
(* Analyze.                                                                  *)

loadVertices(vertices) == \A v, w \in vertices : v[2] = w[2] => v = w

loadEdges(edges, vertices) ==
    /\ \A e \in edges : e.start \in vertices /\ e.end \in vertices
    /\ \A e, f \in edges : e.of = f.of \/ (e.start = f.start /\ e.end = f.end) => e = f

\* The neighbours of a vertex, sorted by opaque id.
Adjacency(edges, v) ==
    SetToSortSeq({e.end : e \in {f \in edges : f.start = v}}
                    \union {e.start : e \in {f \in edges : f.end = v}},
                 LAMBDA a, b : a[2] < b[2])

\* The breadth-first walk from a vertex.  A vertex enters the queue once, so the loop over
\* the queue ends before head passes the number of vertices.
walkComponent(start, vertices, edges, visited) ==
    LET look(acc, head) ==
            IF head > Len(acc.queue) THEN acc
            ELSE LET fresh == SelectSeq(Adjacency(edges, acc.queue[head]),
                                        LAMBDA n : n \notin acc.visited)
                 IN [queue |-> acc.queue \o fresh, visited |-> acc.visited \union ToSet(fresh)]
        walked == FoldLeft(look, [queue |-> <<start>>, visited |-> visited \union {start}],
                           [head \in 1 .. Cardinality(vertices) |-> head])
    IN ToSet(walked.queue)

identifierWeight(kind) == CASE kind = "payment_token" -> 5 [] kind = "device" -> 3 [] kind = "ip" -> 1

\* The cluster of a component: users ascending, evidence by kind and opaque id.
ClusterOf(component, edges) ==
    LET users == {v[2] : v \in component} \intersect Users
        count(i) == Cardinality({e.start : e \in {f \in edges : f.end = i}})
        shared == {i \in component : i[2] \in Identifiers /\ count(i) >= 2}
    IN [users |-> SetToSortSeq(users, <),
        evidence |-> SetToSortSeq({[id |-> i[2], users |-> count(i)] : i \in shared},
                                  LAMBDA a, b : a.id < b.id),
        risk |-> MapThenSumSet(LAMBDA i : identifierWeight(Kind[i[2]]), shared)]

Riskier(a, b) ==
    \/ a.risk > b.risk
    \/ a.risk = b.risk /\ Len(a.users) > Len(b.users)
    \/ a.risk = b.risk /\ Len(a.users) = Len(b.users) /\ a.users[1] < b.users[1]

\* One component per user that no earlier walk has visited.
analyzeComponents(vertices, edges) ==
    LET users == SetToSortSeq({v \in vertices : v[2] \in Users}, LAMBDA a, b : a[2] < b[2])
        step(acc, u) ==
            IF u \in acc.visited THEN acc
            ELSE LET c == walkComponent(u, vertices, edges, acc.visited)
                 IN [visited |-> acc.visited \union c, components |-> Append(acc.components, c)]
        walked == FoldLeft(step, [visited |-> {}, components |-> <<>>], users)
        all == {ClusterOf(c, edges) : c \in ToSet(walked.components)}
        alone == {c \in all : Len(c.users) < 2}
    IN [clusters |-> SetToSortSeq(all \ alone, Riskier),
        isolated |-> SetToSortSeq({c.users[1] : c \in alone}, <)]

--------------------------------------------------------------------------------
(* run and Execute.                                                          *)

Goto(p, label) == pc' = [pc EXCEPT ![p] = label]
Exit(p, code) == exit' = [exit EXCEPT ![p] = code] /\ Goto(p, "exited")

\* A signal, or the operation deadline.
Cancel(p) ==
    /\ pc[p] # "exited"
    /\ ~cancelled[p]
    /\ cancelled' = [cancelled EXCEPT ![p] = TRUE]
    /\ UNCHANGED <<pc, stale, loaded, report, client, output, exit, fixture, store>>

\* run before the client is open: an early return closes nothing.
Open(p) ==
    /\ pc[p] = "open"
    /\ \/ /\ ~cancelled[p]
          /\ client' = [client EXCEPT ![p] = "open"]
          /\ Goto(p, "verify")
          /\ UNCHANGED exit
       \/ Exit(p, 1) /\ UNCHANGED client
    /\ UNCHANGED <<cancelled, stale, loaded, report, output, fixture, store>>

\* Every later failure, the backend's or the context's, leaves through the deferred close.
Fails(p) ==
    /\ pc[p] \in {"verify", "match", "replace", "vertices", "edges", "analyze", "encode"}
    /\ Goto(p, "cleanup")
    /\ \/ UNCHANGED store
       \/ pc[p] = "replace" /\ store' = Replaced(p, stale[p])
    /\ UNCHANGED <<cancelled, stale, loaded, report, client, output, exit, fixture>>

\* VerifyConnectivity and ValidateFixture, each with a context check behind it.
Verify(p) ==
    /\ pc[p] = "verify"
    /\ ~cancelled[p]
    /\ Goto(p, "match")
    /\ UNCHANGED <<cancelled, stale, loaded, report, client, output, exit, fixture, store>>

\* ReplaceFixture is one statement, but what it matches is not locked against vertices
\* that another statement is about to create.
MatchStale(p) ==
    /\ pc[p] = "match"
    /\ ~cancelled[p]
    /\ stale' = [stale EXCEPT ![p] = store.vertices]
    /\ Goto(p, "replace")
    /\ UNCHANGED <<cancelled, loaded, report, client, output, exit, fixture, store>>

ReplaceFixture(p) ==
    /\ pc[p] = "replace"
    /\ ~cancelled[p]
    /\ store' = Replaced(p, stale[p])
    /\ Goto(p, "vertices")
    /\ UNCHANGED <<cancelled, stale, loaded, report, client, output, exit, fixture>>

ReadVertices(p) ==
    /\ pc[p] = "vertices"
    /\ ~cancelled[p]
    /\ loaded' = [loaded EXCEPT ![p].vertices = store.vertices]
    /\ Goto(p, "edges")
    /\ UNCHANGED <<cancelled, stale, report, client, output, exit, fixture, store>>

\* The second read of LoadFixture and validateLoadedGraph.
ReadEdges(p) ==
    /\ pc[p] = "edges"
    /\ ~cancelled[p]
    /\ loaded' = [loaded EXCEPT ![p].edges = store.edges]
    /\ Goto(p, IF loadVertices(loaded[p].vertices)
                  /\ loadEdges(store.edges, loaded[p].vertices) THEN "analyze" ELSE "cleanup")
    /\ UNCHANGED <<cancelled, stale, report, client, output, exit, fixture, store>>

Analyze(p) ==
    /\ pc[p] = "analyze"
    /\ ~cancelled[p]
    /\ report' = [report EXCEPT ![p] = analyzeComponents(loaded[p].vertices, loaded[p].edges)]
    /\ Goto(p, "encode")
    /\ UNCHANGED <<cancelled, stale, loaded, client, output, exit, fixture, store>>

\* The last context check of run; nothing behind it looks at the context again.
Encode(p) ==
    /\ pc[p] = "encode"
    /\ ~cancelled[p]
    /\ Goto(p, "close")
    /\ UNCHANGED <<cancelled, stale, loaded, report, client, output, exit, fixture, store>>

\* closeApplication, by run itself or by its deferred function; the close may fail.
Close(p) ==
    /\ pc[p] \in {"close", "cleanup"}
    /\ client' = [client EXCEPT ![p] = IF @ = "open" THEN "closed" ELSE "closed_again"]
    /\ \/ pc[p] = "close" /\ Goto(p, "write") /\ UNCHANGED exit
       \/ Exit(p, 1)
    /\ UNCHANGED <<cancelled, stale, loaded, report, output, fixture, store>>

writeFull(p) ==
    /\ pc[p] = "write"
    /\ \/ output' = [output EXCEPT ![p] = "full"] /\ Exit(p, 0)
       \/ output' = [output EXCEPT ![p] = "partial"] /\ Exit(p, 1)
    /\ UNCHANGED <<cancelled, stale, loaded, report, client, fixture, store>>

Step(p) ==
    \/ Open(p)
    \/ Fails(p)
    \/ Verify(p)
    \/ MatchStale(p)
    \/ ReplaceFixture(p)
    \/ ReadVertices(p)
    \/ ReadEdges(p)
    \/ Analyze(p)
    \/ Encode(p)
    \/ Close(p)
    \/ writeFull(p)

Next == \E p \in Processes : Cancel(p) \/ Step(p)

Spec == Init /\ [][Next]_vars

--------------------------------------------------------------------------------
Share(u, v) == \E i \in Identifiers : <<u, i>> \in fixture /\ <<v, i>> \in fixture
Closed(us) == \A u \in us, v \in Users : Share(u, v) => v \in us

\* A smallest set of users that shares no identifier with anyone outside.
Component(us) == us # {} /\ Closed(us) /\ \A some \in SUBSET us \ {{}, us} : ~Closed(some)

SharedBy(us) == {i \in Identifiers : Cardinality({u \in us : <<u, i>> \in fixture}) >= 2}

\* Analyze: a report names the connected groups of users, each once, with every
\* identifier two of them share counted once, the riskiest group first.
ReportIsRight(r) ==
    LET groups == {ToSet(c.users) : c \in ToSet(r.clusters)} IN
    /\ groups = {us \in SUBSET Users : Component(us) /\ Cardinality(us) >= 2}
    /\ Len(r.clusters) = Cardinality(groups)
    /\ ToSet(r.isolated) = {u \in Users : Component({u})}
    /\ \A c \in ToSet(r.clusters) :
          c.risk = MapThenSumSet(LAMBDA i : identifierWeight(Kind[i]), SharedBy(ToSet(c.users)))
    /\ \A k \in 1 .. Len(r.clusters) - 1 : r.clusters[k].risk >= r.clusters[k + 1].risk

\* run: whatever other processes do to the namespace between the statements, a report
\* that is printed is the right one, it is printed after the client was closed, and only
\* a process that printed all of it exits with 0.
PrintedIsRight ==
    \A p \in Processes :
        /\ output[p] # "none" => client[p] = "closed" /\ ReportIsRight(report[p])
        /\ exit[p] = 0 <=> output[p] = "full"

\* run: every way out of a run that has opened its client closes it exactly once.
ClosedOnce ==
    \A p \in Processes :
        /\ client[p] # "closed_again"
        /\ pc[p] = "exited" => client[p] # "open"

\* ReplaceFixture: a replacement leaves nothing of what earlier runs left behind, not even
\* when two of them had doubled the namespace.
LeftoversAreReplaced ==
    \A p \in Processes : pc[p] \in {"vertices", "edges", "analyze", "encode", "close", "write"} =>
        \A g \in Leftovers : store.vertices \intersect Generation(g) = {}

\* run: what every process comes to in the end.
AllExited == \A p \in Processes : pc[p] = "exited"

================================================================================
