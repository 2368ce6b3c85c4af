----------------------------- MODULE OrderPlacement -----------------------------
(***************************************************************************)
(* PlaceOrder of examples/sql-transaction-boundary: one transaction locks  *)
(* the product rows in id order, debits the stock, inserts the order and   *)
(* its lines and commits, or rolls everything back.  Callers run at the    *)
(* same time and choose the order ids themselves.                          *)
(***************************************************************************)
EXTENDS Integers, Sequences, FiniteSetsExt

CONSTANTS
    Requests,   \* concurrent callers
    Products,   \* product ids, ordered as numbers
    Stock,      \* product -> stock before the first call
    UnitPrice,  \* product -> price_cents
    Placements  \* PlaceOrderRequests callers make: [order, lines, reject]

Lines == [product : Nat, quantity : Nat]

PlacementAssumption ==
    /\ Products \subseteq Nat /\ IsFiniteSet(Products)
    /\ Stock \in [Products -> Nat]
    /\ UnitPrice \in [Products -> Nat]
    /\ \A p \in Placements : p.lines \in Seq(Lines) /\ p.reject \in BOOLEAN

VARIABLES
    pc,        \* caller -> where its call stands
    want,      \* caller -> its PlaceOrderRequest
    locked,    \* caller -> product rows its transaction has locked
    expired,   \* caller -> ctx.Err() # nil
    outcome,   \* caller -> what PlaceOrder returned
    stock,     \* sql_transaction_products: committed stock
    placed     \* sql_transaction_orders and _order_lines: committed orders

callVars == <<pc, want, locked, expired, outcome>>
vars == <<callVars, stock, placed>>

NoWant == [order |-> "none", lines |-> <<>>, reject |-> FALSE]
Outcomes == {"none", "placed", "invalid_order", "insufficient_stock", "payment_rejected", "error"}

TypeOK ==
    /\ pc \in [Requests -> {"idle", "lock", "debit", "insert", "payment", "commit", "return"}]
    /\ want \in [Requests -> Placements \union {NoWant}]
    /\ locked \in [Requests -> SUBSET Products]
    /\ expired \in [Requests -> BOOLEAN]
    /\ outcome \in [Requests -> Outcomes]
    /\ stock \in [Products -> Nat]
    /\ \A o \in placed : o.lines \in Seq(Lines) /\ o.total \in Nat

Init ==
    /\ pc = [r \in Requests |-> "idle"]
    /\ want = [r \in Requests |-> NoWant]
    /\ locked = [r \in Requests |-> {}]
    /\ expired = [r \in Requests |-> FALSE]
    /\ outcome = [r \in Requests |-> "none"]
    /\ stock = Stock
    /\ placed = {}

Goto(r, label) == pc' = [pc EXCEPT ![r] = label]

Indices(r) == DOMAIN want[r].lines
ProductIDs(r) == {want[r].lines[i].product : i \in Indices(r)}
Demand(r, p) ==
    MapThenSumSet(LAMBDA i : want[r].lines[i].quantity,
                  {i \in Indices(r) : want[r].lines[i].product = p})

\* PlaceOrder returns; its transaction and its locks are gone.
Return(r, result) ==
    /\ outcome' = [outcome EXCEPT ![r] = result]
    /\ locked' = [locked EXCEPT ![r] = {}]
    /\ Goto(r, "return")
    /\ UNCHANGED <<want, expired>>

--------------------------------------------------------------------------------
\* validateRequest: at least one line, positive quantities, no product twice.
Valid(p) ==
    /\ p.lines # <<>>
    /\ \A i \in DOMAIN p.lines : p.lines[i].quantity > 0
    /\ \A i, j \in DOMAIN p.lines : p.lines[i].product = p.lines[j].product => i = j

Call(r, p) ==
    /\ pc[r] = "idle"
    /\ want' = [want EXCEPT ![r] = p]
    /\ IF Valid(p)
       THEN Goto(r, "lock") /\ UNCHANGED outcome
       ELSE Goto(r, "return") /\ outcome' = [outcome EXCEPT ![r] = "invalid_order"]
    /\ UNCHANGED <<locked, expired, stock, placed>>

Cancel(r) ==
    /\ pc[r] # "idle"
    /\ ~expired[r]
    /\ expired' = [expired EXCEPT ![r] = TRUE]
    /\ UNCHANGED <<pc, want, locked, outcome, stock, placed>>

StatementFails(r) ==
    /\ pc[r] \notin {"idle", "return"}
    /\ expired[r]
    /\ Return(r, "error")
    /\ UNCHANGED <<stock, placed>>

\* Product rows the lock statement still has to lock; an unknown product has no row.
Unlocked(r) == (ProductIDs(r) \intersect Products) \ locked[r]

\* Mutant: the rows are locked in the order of the request.
LockInRequestOrder(r) ==
    /\ pc[r] = "lock"
    /\ IF Unlocked(r) = {}
       THEN Goto(r, "debit") /\ UNCHANGED locked
       ELSE LET first == Min({i \in Indices(r) : want[r].lines[i].product \in Unlocked(r)})
                p == want[r].lines[first].product
            IN /\ \A q \in Requests \ {r} : p \notin locked[q]
               /\ locked' = [locked EXCEPT ![r] = @ \union {p}]
               /\ UNCHANGED pc
    /\ UNCHANGED <<want, expired, outcome, stock, placed>>

\* LockByID: "order by id for update" locks row after row in id order and waits for
\* rows another transaction has locked.
LockByID(r) ==
    /\ pc[r] = "lock"
    /\ IF Unlocked(r) = {}
       THEN Goto(r, "debit") /\ UNCHANGED locked
       ELSE LET p == Min(Unlocked(r))
            IN /\ \A q \in Requests \ {r} : p \notin locked[q]
               /\ locked' = [locked EXCEPT ![r] = @ \union {p}]
               /\ UNCHANGED pc
    /\ UNCHANGED <<want, expired, outcome, stock, placed>>

\* The loop over the lines: every product must exist and have the stock; the debits
\* stay invisible until the commit.
Debit(r) ==
    /\ pc[r] = "debit"
    /\ IF \E p \in ProductIDs(r) : p \notin Products \/ stock[p] < Demand(r, p)
       THEN Return(r, "insufficient_stock")
       ELSE Goto(r, "insert") /\ UNCHANGED <<want, locked, expired, outcome>>
    /\ UNCHANGED <<stock, placed>>

\* CreateOrder and CreateLine: the primary key waits for another open transaction that
\* inserted the same order id and fails on a committed one.
InsertOrder(r) ==
    /\ pc[r] = "insert"
    /\ \A q \in Requests \ {r} :
          want[q].order = want[r].order => pc[q] \notin {"payment", "commit"}
    /\ IF \E o \in placed : o.order = want[r].order
       THEN Return(r, "error")
       ELSE Goto(r, "payment") /\ UNCHANGED <<want, locked, expired, outcome>>
    /\ UNCHANGED <<stock, placed>>

\* RejectPayment fails the transaction after every write.
Pay(r) ==
    /\ pc[r] = "payment"
    /\ IF want[r].reject
       THEN Return(r, "payment_rejected")
       ELSE Goto(r, "commit") /\ UNCHANGED <<want, locked, expired, outcome>>
    /\ UNCHANGED <<stock, placed>>

Total(r) ==
    MapThenSumSet(LAMBDA i : want[r].lines[i].quantity * UnitPrice[want[r].lines[i].product],
                  Indices(r))

CommitTables(r) ==
    /\ stock' = [p \in Products |-> stock[p] - Demand(r, p)]
    /\ placed' = placed \union {[order |-> want[r].order, lines |-> want[r].lines,
                                 total |-> Total(r), reject |-> want[r].reject]}

Commit(r) ==
    /\ pc[r] = "commit"
    /\ \/ CommitTables(r) /\ Return(r, "placed")
       \/ CommitTables(r) /\ Return(r, "error")
       \/ UNCHANGED <<stock, placed>> /\ Return(r, "error")

\* The caller takes the result.
Done(r) ==
    /\ pc[r] = "return"
    /\ Goto(r, "idle")
    /\ want' = [want EXCEPT ![r] = NoWant]
    /\ expired' = [expired EXCEPT ![r] = FALSE]
    /\ outcome' = [outcome EXCEPT ![r] = "none"]
    /\ UNCHANGED <<locked, stock, placed>>

Advance(r) ==
    \/ StatementFails(r)
    \/ LockByID(r)
    \/ Debit(r)
    \/ InsertOrder(r)
    \/ Pay(r)
    \/ Commit(r)
    \/ Done(r)

Next ==
    \/ \E r \in Requests, p \in Placements : Call(r, p)
    \/ \E r \in Requests : Cancel(r)
    \/ \E r \in Requests : Advance(r)

Spec == Init /\ [][Next]_vars

--------------------------------------------------------------------------------
\* The lines of order o that ask for product p.
Sold(p) ==
    MapThenSumSet(LAMBDA o : MapThenSumSet(LAMBDA i : o.lines[i].quantity,
                                 {i \in DOMAIN o.lines : o.lines[i].product = p}), placed)

\* "commits stock and order rows together or rolls all changes back" (PlaceOrder):
\* whatever was sold is missing from the stock and nothing else is, no product is
\* oversold, and no rejected payment leaves an order.
StockIsConserved ==
    /\ \A p \in Products : stock[p] >= 0 /\ stock[p] + Sold(p) = Stock[p]
    /\ \A o \in placed : ~o.reject
    /\ \A o, p \in placed : o.order = p.order => o = p

\* A caller that is told "placed" finds its own lines stored under its order id.
PlacedIsStored ==
    \A r \in Requests : outcome[r] = "placed" =>
        \E o \in placed : o.order = want[r].order /\ o.lines = want[r].lines /\ o.total = Total(r)

\* A call is under way.  Every call ends, also one that is never cancelled: locking in id
\* order leaves no cycle of callers waiting for each other.
Running(r) == pc[r] # "idle"

================================================================================
