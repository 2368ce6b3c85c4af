--------------------------- MODULE CatalogRepository ---------------------------
(***************************************************************************)
(* The repository of examples/dynamodb-conditional-repository: callers     *)
(* create and rename catalog items of one tenant with conditional writes   *)
(* and query the tenant's partition.                                       *)
(***************************************************************************)
EXTENDS Naturals, Sequences, FiniteSets

CONSTANTS
    Requests,    \* concurrent callers
    SKUs,        \* items of the tenant, in the order of their sort keys
    PageSize,    \* items DynamoDB returns from one Query at most
    MaxVersion   \* bound: versions of an item

CatalogAssumption == SKUs \subseteq Nat /\ PageSize \in Nat \ {0} /\ MaxVersion \in Nat

VARIABLES
    pc,       \* caller -> where it stands
    call,     \* caller -> [op, sku, expected, name]
    expired,  \* caller -> its context is done
    seen,     \* caller -> the items it was given
    outcome,  \* caller -> the answer
    table,    \* sku -> [name, version], version 0 without an item
    log       \* sku -> the names it was given, by version

requestVars == <<pc, call, expired, seen, outcome>>
vars == <<requestVars, table, log>>

NoCall == [op |-> "none", sku |-> 0, expected |-> 0, name |-> "none"]
NoItem == [name |-> "none", version |-> 0]

TypeOK ==
    /\ pc \in [Requests -> {"idle", "call", "reply"}]
    /\ expired \in [Requests -> BOOLEAN]
    /\ \A r \in Requests : seen[r] \subseteq [sku : SKUs, name : Requests, version : Nat]
    /\ outcome \in [Requests -> {"none", "ok", "invalid_item", "conditional_conflict",
                                 "context_error", "client_error"}]
    /\ table \in [SKUs -> [name : Requests \union {"none"}, version : 0 .. MaxVersion]]

Init ==
    /\ pc = [r \in Requests |-> "idle"]
    /\ call = [r \in Requests |-> NoCall]
    /\ expired = [r \in Requests |-> FALSE]
    /\ seen = [r \in Requests |-> {}]
    /\ outcome = [r \in Requests |-> "none"]
    /\ table = [k \in SKUs |-> NoItem]
    /\ log = [k \in SKUs |-> <<>>]

Goto(r, label) == pc' = [pc EXCEPT ![r] = label]
Answer(r, code, rows) ==
    /\ outcome' = [outcome EXCEPT ![r] = code]
    /\ seen' = [seen EXCEPT ![r] = rows]
    /\ Goto(r, "reply")
Exists(k) == table[k].version > 0
decodeItem(k) == [sku |-> k, name |-> table[k].name, version |-> table[k].version]

--------------------------------------------------------------------------------
\* validateItem and the checks of UpdateName and QueryTenant.  New items have version 1, as
\* SampleItems has them.
validateItem(c) ==
    /\ c.op \in {"create", "update"} => c.name # "none"
    /\ c.op = "update" => c.expected > 0

Arrive(r, c) ==
    /\ pc[r] = "idle"
    /\ call' = [call EXCEPT ![r] = c]
    /\ IF validateItem(c)
       THEN Goto(r, "call") /\ UNCHANGED <<seen, outcome>>
       ELSE Answer(r, "invalid_item", {})
    /\ UNCHANGED <<expired, table, log>>

Expire(r) ==
    /\ pc[r] = "call" /\ ~expired[r]
    /\ expired' = [expired EXCEPT ![r] = TRUE]
    /\ UNCHANGED <<pc, call, seen, outcome, table, log>>

\* The two conditional writes and what they store.
ConditionHolds(c) ==
    IF c.op = "create" THEN ~Exists(c.sku) ELSE Exists(c.sku) /\ table[c.sku].version = c.expected

encodeItem(c) == [name |-> c.name, version |-> c.expected + 1]

Store(c) ==
    /\ c.expected < MaxVersion
    /\ table' = [table EXCEPT ![c.sku] = encodeItem(c)]
    /\ log' = [log EXCEPT ![c.sku] = Append(@, c.name)]

\* PutItem with attribute_not_exists on both keys.
CreateIfAbsent(r) ==
    /\ pc[r] = "call" /\ ~expired[r] /\ call[r].op = "create"
    /\ IF ConditionHolds(call[r])
       THEN Store(call[r]) /\ Answer(r, "ok", {})
       ELSE Answer(r, "conditional_conflict", {}) /\ UNCHANGED <<table, log>>
    /\ UNCHANGED <<call, expired>>

\* UpdateItem with version = expected; ALL_NEW returns the item as written.
UpdateName(r) ==
    /\ pc[r] = "call" /\ ~expired[r] /\ call[r].op = "update"
    /\ IF ConditionHolds(call[r])
       THEN /\ Store(call[r])
            /\ Answer(r, "ok", {[sku |-> call[r].sku, name |-> call[r].name,
                                 version |-> call[r].expected + 1]})
       ELSE Answer(r, "conditional_conflict", {}) /\ UNCHANGED <<table, log>>
    /\ UNCHANGED <<call, expired>>

\* One Query, consistently read: the first page of the partition.
FirstPage ==
    LET present == {k \in SKUs : Exists(k)}
    IN {k \in present : Cardinality({j \in present : j < k}) < PageSize}

QueryTenant(r) ==
    /\ pc[r] = "call" /\ ~expired[r] /\ call[r].op = "query"
    /\ Answer(r, "ok", {decodeItem(k) : k \in FirstPage})
    /\ UNCHANGED <<call, expired, table, log>>

\* A context that is done before the call, or an error of the client: the write may have
\* taken effect.
CallFails(r) ==
    /\ pc[r] = "call"
    /\ Answer(r, IF expired[r] THEN "context_error" ELSE "client_error", {})
    /\ \/ UNCHANGED <<table, log>>
       \/ call[r].op \in {"create", "update"} /\ ConditionHolds(call[r]) /\ Store(call[r])
    /\ UNCHANGED <<call, expired>>

Reply(r) ==
    /\ pc[r] = "reply"
    /\ Goto(r, "idle")
    /\ call' = [call EXCEPT ![r] = NoCall]
    /\ expired' = [expired EXCEPT ![r] = FALSE]
    /\ seen' = [seen EXCEPT ![r] = {}]
    /\ outcome' = [outcome EXCEPT ![r] = "none"]
    /\ UNCHANGED <<table, log>>

Calls(r) ==
    [op : {"create"}, sku : SKUs, expected : {0}, name : {r}]
        \union [op : {"update"}, sku : SKUs, expected : 0 .. MaxVersion - 1, name : {r}]
        \union [op : {"query"}, sku : {0}, expected : {0}, name : {"none"}]
        \union [op : {"create"}, sku : SKUs, expected : {0}, name : {"none"}]

Next ==
    \/ \E r \in Requests : \E c \in Calls(r) : Arrive(r, c)
    \/ \E r \in Requests :
          \/ Expire(r)
          \/ CreateIfAbsent(r)
          \/ UpdateName(r)
          \/ QueryTenant(r)
          \/ CallFails(r)
          \/ Reply(r)

Spec == Init /\ [][Next]_vars

--------------------------------------------------------------------------------
\* CreateIfAbsent and UpdateName: every write that took effect, heard of or not, is one
\* version of the item and none is overwritten unread; a caller told of success wrote
\* exactly the version after the one it expected.
NoLostRename ==
    /\ \A k \in SKUs :
          /\ table[k].version = Len(log[k])
          /\ log[k] # <<>> => table[k].name = log[k][Len(log[k])]
    /\ \A r \in Requests :
          outcome[r] = "ok" /\ call[r].op \in {"create", "update"} =>
              log[call[r].sku][call[r].expected + 1] = r

\* QueryTenant: an answer shows items as they were stored, with their versions, although
\* others create and rename while it is on its way.
QueryShowsStored ==
    \A r \in Requests : outcome[r] = "ok" =>
        \A item \in seen[r] : /\ item.version <= Len(log[item.sku])
                               /\ log[item.sku][item.version] = item.name

================================================================================
