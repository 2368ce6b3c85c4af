------------------------------ MODULE OutboxCommand ------------------------------
(***************************************************************************)
(* The command of examples/transactional-outbox-publisher: a process       *)
(* commits one order with its outbox record, lets the relay of the         *)
(* sqloutbox library publish one record, checks that the newest message of *)
(* the Redis stream is its own and only then prints its result.  Several   *)
(* processes share the database and the stream, may be stopped at any      *)
(* moment and may be given identities that are already in use.             *)
(***************************************************************************)
EXTENDS Naturals, Sequences

CONSTANTS
    Processes,    \* processes that may run at the same time
    Identities,   \* [order, command]: ORDER_ID and COMMAND_ID of a process
    MaxAttempts,  \* RelayOptions.MaxAttempts
    MaxMessages   \* bound: messages in the stream

Commands == {i.command : i \in Identities}

CommandAssumption ==
    /\ MaxAttempts \in Nat \ {0}
    /\ MaxMessages \in Nat
    /\ \A i \in Identities : DOMAIN i = {"order", "command"}

VARIABLES
    pc,        \* process -> where execute stands
    id,        \* process -> its identities
    claim,     \* process -> the record its relay has claimed, NoRecord if none
    sent,      \* process -> did the publisher report success?
    rows,      \* transactional_outbox_orders: committed identities
    records,   \* transactional_outbox_records: command -> [status, attempts]
    stream,    \* the Redis stream, oldest message first
    printed    \* ghost: identities of which a result was printed

procVars == <<pc, id, claim, sent>>
vars == <<procVars, rows, records, stream, printed>>

NoRecord == "none"
NoIdentity == [order |-> "none", command |-> "none"]

TypeOK ==
    /\ pc \in [Processes -> {"down", "order", "event", "commit", "claim", "publish", "store",
                             "verify", "print"}]
    /\ id \in [Processes -> Identities \union {NoIdentity}]
    /\ claim \in [Processes -> Commands \union {NoRecord}]
    /\ sent \in [Processes -> BOOLEAN]
    /\ rows \subseteq Identities
    /\ DOMAIN records \subseteq Commands
    /\ \A c \in DOMAIN records :
          records[c] \in [status : {"pending", "claimed", "published", "dead_letter"},
                          attempts : 0 .. MaxAttempts]
    /\ stream \in Seq(Commands)
    /\ printed \subseteq Identities

Init ==
    /\ pc = [p \in Processes |-> "down"]
    /\ id = [p \in Processes |-> NoIdentity]
    /\ claim = [p \in Processes |-> NoRecord]
    /\ sent = [p \in Processes |-> FALSE]
    /\ rows = {}
    /\ records = [c \in {} |-> 0]
    /\ stream = <<>>
    /\ printed = {}

Goto(p, label) == pc' = [pc EXCEPT ![p] = label]

\* execute returns an error or the process is killed: an open transaction rolls back, a
\* claim stays.
Stop(p) ==
    /\ Goto(p, "down")
    /\ id' = [id EXCEPT ![p] = NoIdentity]
    /\ claim' = [claim EXCEPT ![p] = NoRecord]
    /\ sent' = [sent EXCEPT ![p] = FALSE]

--------------------------------------------------------------------------------
\* loadConfig, openDependencies and CreateSchema succeed; what they change is nothing
\* the order can see.
Start(p, i) ==
    /\ pc[p] = "down"
    /\ id' = [id EXCEPT ![p] = i]
    /\ Goto(p, "order")
    /\ UNCHANGED <<claim, sent, rows, records, stream, printed>>

\* A signal, the execution timeout, a broken connection or a kill.
Interrupted(p) ==
    /\ pc[p] # "down"
    /\ Stop(p)
    /\ UNCHANGED <<rows, records, stream, printed>>

\* Place: the order row; its primary key waits for an open insert and fails on a stored one.
InsertOrder(p) ==
    /\ pc[p] = "order"
    /\ \A q \in Processes \ {p} : id[q].order = id[p].order => pc[q] \notin {"event", "commit"}
    /\ IF \E i \in rows : i.order = id[p].order
       THEN Stop(p)
       ELSE Goto(p, "event") /\ UNCHANGED <<id, claim, sent>>
    /\ UNCHANGED <<rows, records, stream, printed>>

\* Place: store.Enqueue in the same transaction; the event id is unique too.
Enqueue(p) ==
    /\ pc[p] = "event"
    /\ \A q \in Processes \ {p} : id[q].command = id[p].command => pc[q] # "commit"
    /\ IF id[p].command \in DOMAIN records
       THEN Stop(p)
       ELSE Goto(p, "commit") /\ UNCHANGED <<id, claim, sent>>
    /\ UNCHANGED <<rows, records, stream, printed>>

\* WithTx commits; an error may hide a commit that took effect.
Commit(p) ==
    /\ pc[p] = "commit"
    /\ rows' = rows \union {id[p]}
    /\ records' = [c \in DOMAIN records \union {id[p].command} |->
                     IF c = id[p].command THEN [status |-> "pending", attempts |-> 0]
                     ELSE records[c]]
    /\ \/ Goto(p, "claim") /\ UNCHANGED <<id, claim, sent>>
       \/ Stop(p)
    /\ UNCHANGED <<stream, printed>>

\* relay.RunOnce claims one record, whoever enqueued it: a pending one whose retry delay
\* has passed, or one whose claim has outlived its lease: executionTimeout ends a
\* claimant before that.
Claim(p, c) ==
    /\ pc[p] = "claim"
    /\ c \in DOMAIN records
    /\ \/ records[c].status = "pending"
       \/ records[c].status = "claimed" /\ \A q \in Processes : claim[q] # c
    /\ records' = [records EXCEPT ![c] =
                     [status |-> "claimed",
                      attempts |-> IF @.attempts < MaxAttempts THEN @.attempts + 1 ELSE @.attempts]]
    /\ claim' = [claim EXCEPT ![p] = c]
    /\ Goto(p, "publish")
    /\ UNCHANGED <<id, sent, rows, stream, printed>>

\* RunOnce finds nothing to claim: the result is not the expected one.
NothingToClaim(p) ==
    /\ pc[p] = "claim"
    /\ Stop(p)
    /\ UNCHANGED <<rows, records, stream, printed>>

\* XADD; an error may hide a message that was appended.
Publish(p) ==
    /\ pc[p] = "publish"
    /\ Len(stream) < MaxMessages
    /\ \/ stream' = Append(stream, claim[p]) /\ sent' = [sent EXCEPT ![p] = TRUE]
       \/ stream' = Append(stream, claim[p]) /\ UNCHANGED sent
       \/ UNCHANGED <<stream, sent>>
    /\ Goto(p, "store")
    /\ UNCHANGED <<id, claim, rows, records, printed>>

\* The relay stores the result; execute goes on only with {Claimed: 1, Published: 1}.
StoreResult(p) ==
    /\ pc[p] = "store"
    /\ LET c == claim[p] IN
       records' = [records EXCEPT ![c].status =
                     IF sent[p] THEN "published"
                     ELSE IF records[c].attempts < MaxAttempts THEN "pending"
                     ELSE "dead_letter"]
    /\ IF sent[p]
       THEN /\ claim' = [claim EXCEPT ![p] = NoRecord]
            /\ Goto(p, "verify")
            /\ UNCHANGED <<id, sent>>
       ELSE Stop(p)
    /\ UNCHANGED <<rows, stream, printed>>

\* Mutant: one published record is taken for the own one.
VerifyNothing(p) ==
    /\ pc[p] = "verify"
    /\ Goto(p, "print")
    /\ UNCHANGED <<id, claim, sent, rows, records, stream, printed>>

\* XRevRangeN: the newest message must carry the identity of this command.
Verify(p) ==
    /\ pc[p] = "verify"
    /\ IF stream # <<>> /\ stream[Len(stream)] = id[p].command
       THEN Goto(p, "print") /\ UNCHANGED <<id, claim, sent>>
       ELSE Stop(p)
    /\ UNCHANGED <<rows, records, stream, printed>>

\* deps.Close succeeds and the buffered result is written.
PrintResult(p) ==
    /\ pc[p] = "print"
    /\ printed' = printed \union {id[p]}
    /\ Stop(p)
    /\ UNCHANGED <<rows, records, stream>>

Advance(p) ==
    \/ InsertOrder(p)
    \/ Enqueue(p)
    \/ Commit(p)
    \/ \E c \in Commands : Claim(p, c)
    \/ NothingToClaim(p)
    \/ Publish(p)
    \/ StoreResult(p)
    \/ Verify(p)
    \/ PrintResult(p)

Next ==
    \/ \E p \in Processes, i \in Identities : Start(p, i)
    \/ \E p \in Processes : Interrupted(p)
    \/ \E p \in Processes : Advance(p)

Spec == Init /\ [][Next]_vars

--------------------------------------------------------------------------------
InStream == {stream[k] : k \in DOMAIN stream}

\* "order and outbox rows commit atomically" and "identity conflicts roll the whole
\* transaction back" (README): orders and records pair up one to one, and only
\* committed records reach the stream.
OrdersHaveRecords ==
    /\ {i.command : i \in rows} = DOMAIN records
    /\ \A i, j \in rows : (i.order = j.order \/ i.command = j.command) => i = j
    /\ InStream \subseteq DOMAIN records
    /\ \A c \in DOMAIN records : records[c].status = "published" => c \in InStream

\* "The command then fails its identity check instead of reporting the wrong event"
\* (README): a printed result stands for an order of that process that is committed and
\* whose own event is in the stream, also when processes publish each other's records.
PrintedIsPublished ==
    \A i \in printed : i \in rows /\ i.command \in InStream

================================================================================
