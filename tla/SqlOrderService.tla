----------------------------- MODULE SqlOrderService -----------------------------
(***************************************************************************)
(* The order aggregate of examples/gin-sql-order-service: CreateOrder and  *)
(* UpdateItemQuantity write the order header, its items and its status     *)
(* events in one transaction each and then read the aggregate back with    *)
(* three separate queries.  PostgreSQL runs at READ COMMITTED and no query *)
(* takes a row lock of its own: an UPDATE waits for another transaction    *)
(* that has updated the same row, a SELECT sees what is committed and what *)
(* its own transaction has written.                                        *)
(***************************************************************************)
EXTENDS Naturals, FiniteSetsExt

CONSTANTS
    Requests,     \* concurrent HTTP requests
    Orders,       \* ids newID hands out, 1 .. n in this order
    Lines,        \* the items of every order
    Price,        \* item -> unit_price_cents
    Quantities,   \* quantities that requests ask for
    Edited,       \* the items that PATCH requests edit
    MaxEvents     \* bound: status events of one order

ServiceAssumption ==
    /\ Orders \subseteq Nat \ {0}
    /\ IsFiniteSet(Lines) /\ Lines # {}
    /\ Price \in [Lines -> Nat]
    /\ Quantities \subseteq Nat
    /\ Edited \subseteq Lines
    /\ MaxEvents \in Nat

VARIABLES
    pc,        \* request -> where it stands
    call,      \* request -> the call it makes
    expired,   \* request -> its requestTimeout has passed or its client has left
    draft,     \* request -> the items its transaction will have written
    total,     \* request -> the total it writes or has read
    mine,      \* request -> number of the status event it appended, 0 if none
    view,      \* request -> the aggregate it has read back so far
    outcome,   \* request -> the answer
    header,    \* gin_sql_order_service_orders: committed total, NoTotal without a row
    items,     \* gin_sql_order_service_items: committed quantities, 0 without a row
    events     \* gin_sql_order_service_status_events: committed rows of an order

requestVars == <<pc, call, expired, draft, total, mine, view, outcome>>
tableVars == <<header, items, events>>
vars == <<requestVars, tableVars>>

NoTotal == [none |-> TRUE]
NoItems == [l \in Lines |-> 0]
NoCall == [op |-> "none", order |-> 0, line |-> 0, quantity |-> 0]
NoView == [total |-> NoTotal, items |-> NoItems, events |-> 0]
Amounts == [cents : Nat] \union {NoTotal}

Ops == {"create", "reject", "patch", "get", "status"}
Outcomes == {"none", "ok", "invalid_request", "order_not_found", "item_not_found",
             "order_rejected", "service_error"}

TypeOK ==
    /\ pc \in [Requests -> {"idle", "insertOrder", "insertItems", "findOrder", "findItem",
                            "updateItem", "sum", "updateTotal", "append", "commit",
                            "readOrder", "readItems", "readEvents", "reply"}]
    /\ \A r \in Requests :
          /\ call[r].op \in Ops \union {"none"}
          /\ call[r].order \in Nat
          /\ call[r].quantity \in Nat
          /\ draft[r] \in [Lines -> Nat]
          /\ total[r] \in Nat
          /\ mine[r] \in Nat
          /\ view[r] \in [total : Amounts, items : [Lines -> Nat], events : Nat]
          /\ outcome[r] \in Outcomes
    /\ expired \in [Requests -> BOOLEAN]
    /\ header \in [Orders -> Amounts]
    /\ items \in [Orders -> [Lines -> Nat]]
    /\ events \in [Orders -> Nat]

Init ==
    /\ pc = [r \in Requests |-> "idle"]
    /\ call = [r \in Requests |-> NoCall]
    /\ expired = [r \in Requests |-> FALSE]
    /\ draft = [r \in Requests |-> NoItems]
    /\ total = [r \in Requests |-> 0]
    /\ mine = [r \in Requests |-> 0]
    /\ view = [r \in Requests |-> NoView]
    /\ outcome = [r \in Requests |-> "none"]
    /\ header = [o \in Orders |-> NoTotal]
    /\ items = [o \in Orders |-> NoItems]
    /\ events = [o \in Orders |-> 0]

Goto(r, label) == pc' = [pc EXCEPT ![r] = label]

Cents(quantities) == MapThenSumSet(LAMBDA l : quantities[l] * Price[l], Lines)

\* The call returns an error: WithTx has rolled back and writeServiceError answers.
Fail(r, code) ==
    /\ outcome' = [outcome EXCEPT ![r] = code]
    /\ Goto(r, "reply")
    /\ UNCHANGED <<call, expired, draft, total, mine, view, tableVars>>

\* The validators and the CHECK constraints refuse anything else.
Valid(quantity) == quantity > 0

\* newID never hands out an id twice.
Taken == {call[r].order : r \in {q \in Requests : call[q].op \in {"create", "reject"}}}
Fresh(o) ==
    /\ o \in Orders
    /\ header[o] = NoTotal
    /\ o \notin Taken
    /\ \A p \in Orders : p < o => header[p] # NoTotal \/ p \in Taken

--------------------------------------------------------------------------------
\* createOrder: the request is validated before the transaction; ids are chosen and line
\* totals summed.
StartCreate(r, op, quantity) ==
    /\ pc[r] = "idle"
    /\ \E o \in Orders :
          /\ Fresh(o)
          /\ call' = [call EXCEPT ![r] = [op |-> op, order |-> o, line |-> 0, quantity |-> quantity]]
    /\ IF Valid(quantity)
       THEN /\ draft' = [draft EXCEPT ![r] = [l \in Lines |-> quantity]]
            /\ total' = [total EXCEPT ![r] = Cents([l \in Lines |-> quantity])]
            /\ Goto(r, "insertOrder")
            /\ UNCHANGED outcome
       ELSE /\ outcome' = [outcome EXCEPT ![r] = "invalid_request"]
            /\ Goto(r, "reply")
            /\ UNCHANGED <<draft, total>>
    /\ UNCHANGED <<expired, mine, view, tableVars>>

\* updateItem, getOrder and getStatus: any order and item id may be asked for.
StartOther(r, op, o, line, quantity) ==
    /\ pc[r] = "idle"
    /\ op = "patch" => events[o] < MaxEvents
    /\ call' = [call EXCEPT ![r] = [op |-> op, order |-> o, line |-> line, quantity |-> quantity]]
    /\ IF op = "patch" /\ ~Valid(quantity)
       THEN outcome' = [outcome EXCEPT ![r] = "invalid_request"] /\ Goto(r, "reply")
       ELSE Goto(r, IF op = "patch" THEN "findOrder" ELSE "readOrder") /\ UNCHANGED outcome
    /\ UNCHANGED <<expired, draft, total, mine, view, tableVars>>

\* The request timeout passes or the client goes away.
Expire(r) ==
    /\ pc[r] # "idle"
    /\ ~expired[r]
    /\ expired' = [expired EXCEPT ![r] = TRUE]
    /\ UNCHANGED <<pc, call, draft, total, mine, view, outcome, tableVars>>

\* Every statement runs on the request context; also one that waits for a row.
StatementFails(r) ==
    /\ pc[r] \notin {"idle", "reply"}
    /\ expired[r]
    /\ Fail(r, "service_error")

--------------------------------------------------------------------------------
\* orders.Create and items.Create inside the transaction; fresh ids clash with nobody.
InsertOrder(r) ==
    /\ pc[r] = "insertOrder"
    /\ Goto(r, "insertItems")
    /\ UNCHANGED <<call, expired, draft, total, mine, view, outcome, tableVars>>

\* Mutant: the items are written outside the transaction.
InsertItemsOutside(r) ==
    /\ pc[r] = "insertItems"
    /\ items' = [items EXCEPT ![call[r].order] = draft[r]]
    /\ IF call[r].op = "reject"
       THEN outcome' = [outcome EXCEPT ![r] = "order_rejected"] /\ Goto(r, "reply")
       ELSE UNCHANGED outcome /\ Goto(r, "append")
    /\ UNCHANGED <<call, expired, draft, total, mine, view, header, events>>

\* The item inserts, and the reject_after_items switch behind them.
InsertItems(r) ==
    /\ pc[r] = "insertItems"
    /\ IF call[r].op = "reject"
       THEN Fail(r, "order_rejected")
       ELSE /\ Goto(r, "append")
            /\ UNCHANGED <<call, expired, draft, total, mine, view, outcome, tableVars>>

\* orders.FindByID and items.FindByID inside the transaction of UpdateItemQuantity.
FindOrder(r) ==
    /\ pc[r] = "findOrder"
    /\ IF header[call[r].order] = NoTotal
       THEN Fail(r, "order_not_found")
       ELSE /\ Goto(r, "findItem")
            /\ UNCHANGED <<call, expired, draft, total, mine, view, outcome, tableVars>>

FindItem(r) ==
    /\ pc[r] = "findItem"
    /\ IF call[r].line \notin Lines
       THEN Fail(r, "item_not_found")
       ELSE /\ Goto(r, "updateItem")
            /\ UNCHANGED <<call, expired, draft, total, mine, view, outcome, tableVars>>

\* Rows another open transaction has updated.
EditsItem(q, o, l) ==
    /\ call[q].op = "patch" /\ call[q].order = o /\ call[q].line = l
    /\ pc[q] \in {"sum", "updateTotal", "append", "commit"}
EditsHeader(q, o) ==
    /\ call[q].op = "patch" /\ call[q].order = o
    /\ pc[q] \in {"append", "commit"}

\* items.UpdateQuantity waits for another edit of the same item.
UpdateQuantity(r) ==
    /\ pc[r] = "updateItem"
    /\ \A q \in Requests \ {r} : ~EditsItem(q, call[r].order, call[r].line)
    /\ Goto(r, "sum")
    /\ UNCHANGED <<call, expired, draft, total, mine, view, outcome, tableVars>>

\* Mutant: the total is taken from the item that was edited.
SumEditedOnly(r) ==
    /\ pc[r] = "sum"
    /\ total' = [total EXCEPT ![r] = call[r].quantity * Price[call[r].line]]
    /\ Goto(r, "updateTotal")
    /\ UNCHANGED <<call, expired, draft, mine, view, outcome, tableVars>>

\* items.SumOrderTotal sees the committed items and its own edit.
SumOrderTotal(r) ==
    /\ pc[r] = "sum"
    /\ total' = [total EXCEPT ![r] =
                    Cents([items[call[r].order] EXCEPT ![call[r].line] = call[r].quantity])]
    /\ Goto(r, "updateTotal")
    /\ UNCHANGED <<call, expired, draft, mine, view, outcome, tableVars>>

\* orders.UpdateTotal waits for another edit of the same order.
UpdateTotal(r) ==
    /\ pc[r] = "updateTotal"
    /\ \A q \in Requests \ {r} : ~EditsHeader(q, call[r].order)
    /\ Goto(r, "append")
    /\ UNCHANGED <<call, expired, draft, total, mine, view, outcome, tableVars>>

\* statuses.Append.
Append(r) ==
    /\ pc[r] = "append"
    /\ Goto(r, "commit")
    /\ UNCHANGED <<call, expired, draft, total, mine, view, outcome, tableVars>>

\* What COMMIT makes visible.
CommitTables(r) ==
    LET o == call[r].order IN
    /\ header' = [header EXCEPT ![o] = [cents |-> total[r]]]
    /\ items' = IF call[r].op = "patch"
                THEN [items EXCEPT ![o][call[r].line] = call[r].quantity]
                ELSE [items EXCEPT ![o] = draft[r]]
    /\ events' = [events EXCEPT ![o] = @ + 1]

\* The transaction commits and the aggregate is read back.
Commit(r) ==
    /\ pc[r] = "commit"
    /\ CommitTables(r)
    /\ mine' = [mine EXCEPT ![r] = events[call[r].order] + 1]
    /\ Goto(r, "readOrder")
    /\ UNCHANGED <<call, expired, draft, total, view, outcome>>

\* The connection breaks during COMMIT, which takes effect or does not.
CommitFails(r) ==
    /\ pc[r] = "commit"
    /\ CommitTables(r) \/ UNCHANGED tableVars
    /\ outcome' = [outcome EXCEPT ![r] = "service_error"]
    /\ Goto(r, "reply")
    /\ UNCHANGED <<call, expired, draft, total, mine, view>>

--------------------------------------------------------------------------------
\* GetOrder and GetStatus: three, respectively two, queries without a transaction.
ReadOrder(r) ==
    /\ pc[r] = "readOrder"
    /\ IF header[call[r].order] = NoTotal
       THEN Fail(r, "order_not_found")
       ELSE /\ view' = [view EXCEPT ![r].total = header[call[r].order]]
            /\ Goto(r, IF call[r].op = "status" THEN "readEvents" ELSE "readItems")
            /\ UNCHANGED <<call, expired, draft, total, mine, outcome, tableVars>>

ReadItems(r) ==
    /\ pc[r] = "readItems"
    /\ view' = [view EXCEPT ![r].items = items[call[r].order]]
    /\ Goto(r, "readEvents")
    /\ UNCHANGED <<call, expired, draft, total, mine, outcome, tableVars>>

ReadEvents(r) ==
    /\ pc[r] = "readEvents"
    /\ view' = [view EXCEPT ![r].events = events[call[r].order]]
    /\ outcome' = [outcome EXCEPT ![r] = "ok"]
    /\ Goto(r, "reply")
    /\ UNCHANGED <<call, expired, draft, total, mine, tableVars>>

\* The handler answers.
Reply(r) ==
    /\ pc[r] = "reply"
    /\ Goto(r, "idle")
    /\ call' = [call EXCEPT ![r] = NoCall]
    /\ expired' = [expired EXCEPT ![r] = FALSE]
    /\ draft' = [draft EXCEPT ![r] = NoItems]
    /\ total' = [total EXCEPT ![r] = 0]
    /\ mine' = [mine EXCEPT ![r] = 0]
    /\ view' = [view EXCEPT ![r] = NoView]
    /\ outcome' = [outcome EXCEPT ![r] = "none"]
    /\ UNCHANGED tableVars

Advance(r) ==
    \/ StatementFails(r)
    \/ InsertOrder(r)
    \/ InsertItems(r)
    \/ FindOrder(r)
    \/ FindItem(r)
    \/ UpdateQuantity(r)
    \/ SumOrderTotal(r)
    \/ UpdateTotal(r)
    \/ Append(r)
    \/ Commit(r)
    \/ CommitFails(r)
    \/ ReadOrder(r)
    \/ ReadItems(r)
    \/ ReadEvents(r)
    \/ Reply(r)

Next ==
    \/ \E r \in Requests, op \in {"create", "reject"}, quantity \in Quantities :
          StartCreate(r, op, quantity)
    \/ \E r \in Requests, o \in Orders, line \in Edited \union {0}, quantity \in Quantities :
          StartOther(r, "patch", o, line, quantity)
    \/ \E r \in Requests, o \in Orders, op \in {"get", "status"} : StartOther(r, op, o, 0, 0)
    \/ \E r \in Requests : Expire(r)
    \/ \E r \in Requests : Advance(r)

Spec == Init /\ [][Next]_vars

--------------------------------------------------------------------------------
\* CreateOrder writes header, items and first status event together or not at all: a
\* rejected, failed or unfinished create leaves nothing, a stored order is whole.
AggregateIsWhole ==
    \A o \in Orders :
        /\ header[o] # NoTotal <=> events[o] > 0
        /\ header[o] # NoTotal => \A l \in Lines : items[o][l] > 0
        /\ header[o] = NoTotal => items[o] = NoItems

\* README "recalculates the order total from item rows ... in the same transaction":
\* the stored total of an order is the sum of its stored lines.
TotalMatchesItems ==
    \A o \in Orders : header[o] # NoTotal => header[o] = [cents |-> Cents(items[o])]

\* A successful create or edit shows its own status event, and its own quantity unless
\* a later edit has been committed in between, although it reads outside its
\* transaction.
AnswerShowsOwnWrite ==
    \A r \in Requests : (pc[r] = "reply" /\ outcome[r] = "ok" /\ mine[r] > 0) =>
        /\ view[r].events >= mine[r]
        /\ \/ view[r].events > mine[r]
           \/ call[r].op = "patch" /\ view[r].items[call[r].line] = call[r].quantity
           \/ call[r].op = "create" /\ view[r].items = draft[r]
        /\ view[r].total # NoTotal

================================================================================
