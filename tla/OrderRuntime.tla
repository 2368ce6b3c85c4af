------------------------------ MODULE OrderRuntime ------------------------------
(***************************************************************************)
(* The process around the order commands: RunLifecycle supervises the HTTP *)
(* server and the outbox relay, run closes Redis and PostgreSQL at the     *)
(* end, and the relay of the sqloutbox library publishes the committed     *)
(* outbox records to a Redis stream.  The process may be told to stop, its *)
(* server or relay may fail, and it may be killed and started again; the   *)
(* outbox table and the stream survive.                                    *)
(***************************************************************************)
EXTENDS Naturals, FiniteSets

CONSTANTS
    Handlers,     \* HTTP handlers that may be busy at a time
    Events,       \* ids of outbox records, in commit order
    Aggregate,    \* record -> its order; records of one order are relayed in turn
    MaxAttempts   \* RelayOptions.MaxAttempts

RuntimeAssumption ==
    /\ Events \subseteq Nat
    /\ DOMAIN Aggregate = Events
    /\ MaxAttempts \in Nat \ {0}

VARIABLES
    main,        \* where run and RunLifecycle stand
    cause,       \* which case of the select fired
    signalled,   \* ctx of RunLifecycle is done
    deadline,    \* the shutdown limit has passed
    errors,      \* stages in the error RunLifecycle will return
    server,      \* the Serve goroutine: "serving", "closed" or "failed"
    busy,        \* handlers in flight
    relay,       \* the relay goroutine: "running", "returned" or "reported"
    relayErr,    \* what relay.Run returned
    relayCancel, \* cancelRelay was called
    relayFlag,   \* RuntimeHealth.relayRunning
    outbox,      \* record -> [status, attempts]
    sending,     \* claimed records the relay works on: "publish", "accepted", "failed"
    stream,      \* records appended to the Redis stream
    exits        \* ghost: [clean, cut] of the exit of a process that is down

lifeVars == <<main, cause, signalled, deadline, errors>>
serverVars == <<server, busy>>
relayVars == <<relay, relayErr, relayCancel, relayFlag>>
tableVars == <<outbox, stream>>
vars == <<lifeVars, serverVars, relayVars, tableVars, sending, exits>>

Nothing == [e \in {} |-> 0]

TypeOK ==
    /\ main \in {"select", "shutdown", "drain", "waitServer", "join", "joining", "close", "down"}
    /\ cause \in {"none", "signal", "relay", "server"}
    /\ signalled \in BOOLEAN
    /\ deadline \in BOOLEAN
    /\ errors \subseteq {"http_shutdown", "http_serve", "relay", "relay_shutdown"}
    /\ server \in {"serving", "closed", "failed"}
    /\ busy \subseteq Handlers
    /\ relay \in {"running", "returned", "reported"}
    /\ relayErr \in {"none", "nil", "cancelled", "failed"}
    /\ relayCancel \in BOOLEAN
    /\ relayFlag \in BOOLEAN
    /\ DOMAIN outbox \subseteq Events
    /\ \A e \in DOMAIN outbox :
          outbox[e] \in [status : {"pending", "claimed", "published", "dead_letter"},
                         attempts : 0 .. MaxAttempts]
    /\ DOMAIN sending \subseteq DOMAIN outbox
    /\ \A e \in DOMAIN sending : sending[e] \in {"publish", "accepted", "failed"}
    /\ stream \subseteq Events
    /\ exits \subseteq [clean : BOOLEAN, cut : BOOLEAN]

\* RunLifecycle starts relay and server and waits.
Started ==
    /\ main = "select"
    /\ cause = "none"
    /\ signalled = FALSE
    /\ deadline = FALSE
    /\ errors = {}
    /\ server = "serving"
    /\ busy = {}
    /\ relay = "running"
    /\ relayErr = "none"
    /\ relayCancel = FALSE
    /\ relayFlag = TRUE
    /\ sending = Nothing

Init ==
    /\ Started
    /\ outbox = Nothing
    /\ stream = {}
    /\ exits = {}

Running == main # "down"

--------------------------------------------------------------------------------
\* SIGINT or SIGTERM.
Signal ==
    /\ Running
    /\ ~signalled
    /\ signalled' = TRUE
    /\ UNCHANGED <<main, cause, deadline, errors, serverVars, relayVars, tableVars, sending, exits>>

\* A command handler starts, and ends with or without a committed outbox record.
Request(h) ==
    /\ Running
    /\ server = "serving"
    /\ h \notin busy
    /\ busy' = busy \union {h}
    /\ UNCHANGED <<lifeVars, server, relayVars, tableVars, sending, exits>>

Respond(h) ==
    /\ Running
    /\ h \in busy
    /\ busy' = busy \ {h}
    /\ \/ UNCHANGED outbox
       \/ \E e \in Events \ DOMAIN outbox :
            /\ \A f \in Events : f < e => f \in DOMAIN outbox
            /\ outbox' = [k \in DOMAIN outbox \union {e} |->
                            IF k = e THEN [status |-> "pending", attempts |-> 0] ELSE outbox[k]]
    /\ UNCHANGED <<lifeVars, server, relayVars, stream, sending, exits>>

\* server.Serve fails on its own.
ServeFails ==
    /\ Running
    /\ server = "serving"
    /\ server' = "failed"
    /\ UNCHANGED <<lifeVars, busy, relayVars, tableVars, sending, exits>>

--------------------------------------------------------------------------------
\* An earlier record of the same order that is not settled yet.
Blocked(e) ==
    \E f \in DOMAIN outbox :
        /\ f < e
        /\ Aggregate[f] = Aggregate[e]
        /\ outbox[f].status \in {"pending", "claimed"}

\* The relay claims a pending record, or one that an earlier relay claimed and whose
\* lease has run out.  attempts counts claims; above MaxAttempts the count no longer
\* matters and is left there.
Claim(e) ==
    /\ Running
    /\ relay = "running"
    /\ ~relayCancel
    /\ e \in DOMAIN outbox \ DOMAIN sending
    /\ outbox[e].status \in {"pending", "claimed"}
    /\ ~Blocked(e)
    /\ outbox' = [outbox EXCEPT ![e] =
                    [status |-> "claimed",
                     attempts |-> IF @.attempts < MaxAttempts THEN @.attempts + 1 ELSE @.attempts]]
    /\ sending' = [k \in DOMAIN sending \union {e} |-> IF k = e THEN "publish" ELSE sending[k]]
    /\ UNCHANGED <<lifeVars, serverVars, relayVars, stream, exits>>

\* The publisher appends to the stream; an error may hide an append that happened.
Publish(e) ==
    /\ Running
    /\ relay = "running"
    /\ e \in DOMAIN sending
    /\ sending[e] = "publish"
    /\ \/ stream' = stream \union {e} /\ sending' = [sending EXCEPT ![e] = "accepted"]
       \/ stream' = stream \union {e} /\ sending' = [sending EXCEPT ![e] = "failed"]
       \/ UNCHANGED stream /\ sending' = [sending EXCEPT ![e] = "failed"]
    /\ UNCHANGED <<lifeVars, serverVars, relayVars, outbox, exits>>

\* Mutants: an ambiguous error is taken for success; a failed record is always retried;
\* the publisher's outcome is stored for the delivery status.
StoreOptimistic(e) ==
    /\ Running
    /\ relay = "running"
    /\ e \in DOMAIN sending
    /\ sending[e] # "publish"
    /\ outbox' = [outbox EXCEPT ![e].status = "published"]
    /\ sending' = [k \in DOMAIN sending \ {e} |-> sending[k]]
    /\ UNCHANGED <<lifeVars, serverVars, relayVars, stream, exits>>

StoreRetriesForever(e) ==
    /\ Running
    /\ relay = "running"
    /\ e \in DOMAIN sending
    /\ sending[e] # "publish"
    /\ outbox' = [outbox EXCEPT ![e].status =
                    IF sending[e] = "accepted" THEN "published" ELSE "pending"]
    /\ sending' = [k \in DOMAIN sending \ {e} |-> sending[k]]
    /\ UNCHANGED <<lifeVars, serverVars, relayVars, stream, exits>>

\* The relay stores the result: published, pending again, or dead letter after
\* MaxAttempts.
StoreResult(e) ==
    /\ Running
    /\ relay = "running"
    /\ e \in DOMAIN sending
    /\ sending[e] # "publish"
    /\ outbox' = [outbox EXCEPT ![e].status =
                    IF sending[e] = "accepted" THEN "published"
                    ELSE IF outbox[e].attempts < MaxAttempts THEN "pending"
                    ELSE "dead_letter"]
    /\ sending' = [k \in DOMAIN sending \ {e} |-> sending[k]]
    /\ UNCHANGED <<lifeVars, serverVars, relayVars, stream, exits>>

\* relay.Run returns nil or an error, that of its cancellation only once it is
\* cancelled.  Its claims stay.
RelayReturns ==
    /\ Running
    /\ relay = "running"
    /\ relay' = "returned"
    /\ relayErr' \in {"nil", "failed"} \union (IF relayCancel THEN {"cancelled"} ELSE {})
    /\ sending' = Nothing
    /\ UNCHANGED <<lifeVars, serverVars, relayCancel, relayFlag, tableVars, exits>>

\* The relay goroutine lowers the health flag and sends to relayDone.
RelayReports ==
    /\ Running
    /\ relay = "returned"
    /\ relay' = "reported"
    /\ relayFlag' = FALSE
    /\ UNCHANGED <<lifeVars, serverVars, relayErr, relayCancel, tableVars, sending, exits>>

--------------------------------------------------------------------------------
\* The select of RunLifecycle: ctx.Done, relayDone or serverDone.
SelectSignal ==
    /\ main = "select"
    /\ signalled
    /\ main' = "shutdown"
    /\ cause' = "signal"
    /\ UNCHANGED <<signalled, deadline, errors, serverVars, relayVars, tableVars, sending, exits>>

SelectRelay ==
    /\ main = "select"
    /\ relay = "reported"
    /\ main' = "shutdown"
    /\ cause' = "relay"
    /\ relayFlag' = FALSE
    /\ UNCHANGED <<signalled, deadline, errors, serverVars, relay, relayErr, relayCancel, tableVars,
                   sending, exits>>

SelectServer ==
    /\ main = "select"
    /\ server # "serving"
    /\ main' = "join"
    /\ cause' = "server"
    /\ errors' = IF server = "closed" /\ signalled THEN errors ELSE errors \union {"http_serve"}
    /\ relayCancel' = TRUE
    /\ UNCHANGED <<signalled, deadline, serverVars, relay, relayErr, relayFlag, tableVars, sending,
                   exits>>

\* The shutdown limit passes.
DeadlinePasses ==
    /\ main \notin {"select", "close", "down"}
    /\ ~deadline
    /\ deadline' = TRUE
    /\ UNCHANGED <<main, cause, signalled, errors, serverVars, relayVars, tableVars, sending, exits>>

\* server.Shutdown closes the listener, which ends Serve, and waits for the handlers.
Shutdown ==
    /\ main = "shutdown"
    /\ main' = "drain"
    /\ server' = IF server = "serving" THEN "closed" ELSE server
    /\ UNCHANGED <<cause, signalled, deadline, errors, busy, relayVars, tableVars, sending, exits>>

Drained ==
    /\ main = "drain"
    /\ busy = {}
    /\ main' = "waitServer"
    /\ UNCHANGED <<cause, signalled, deadline, errors, serverVars, relayVars, tableVars, sending, exits>>

\* Mutant: a shutdown that ran out of time is only logged.
DrainIsSilent ==
    /\ main = "drain"
    /\ deadline \/ busy = {}
    /\ main' = "waitServer"
    /\ UNCHANGED <<cause, signalled, deadline, errors, serverVars, relayVars, tableVars, sending, exits>>

\* Shutdown runs out of time, and the server is closed under its handlers, or it has
\* drained and returns the error of closing the listener.
DrainFails ==
    /\ main = "drain"
    /\ deadline \/ busy = {}
    /\ main' = "waitServer"
    /\ errors' = errors \union {"http_shutdown"}
    /\ UNCHANGED <<cause, signalled, deadline, serverVars, relayVars, tableVars, sending, exits>>

\* waitServer, then cancelRelay after a signal; after a relay failure the relay is
\* already joined.
WaitServer ==
    /\ main = "waitServer"
    /\ server # "serving"
    /\ LET serveErr == IF server = "failed" THEN {"http_serve"} ELSE {}
           stopped == IF cause = "relay" /\ ~(signalled /\ relayErr = "cancelled")
                      THEN {"relay"} ELSE {}
       IN errors' = errors \union serveErr \union stopped
    /\ main' = IF cause = "signal" THEN "join" ELSE "close"
    /\ relayCancel' = (relayCancel \/ cause = "signal")
    /\ UNCHANGED <<cause, signalled, deadline, serverVars, relay, relayErr, relayFlag, tableVars,
                   sending, exits>>

RelayTimedOut ==
    /\ main' = "close"
    /\ relayFlag' = FALSE
    /\ errors' = errors \union {"relay_shutdown"}
    /\ UNCHANGED <<cause, signalled, deadline, serverVars, relay, relayErr, relayCancel, tableVars,
                   sending, exits>>

\* waitRelay: no time is left, or the timer is started.
EnterJoin ==
    /\ main = "join"
    /\ \/ deadline /\ RelayTimedOut
       \/ ~deadline /\ main' = "joining"
          /\ UNCHANGED <<cause, signalled, deadline, errors, serverVars, relayVars, tableVars,
                         sending, exits>>

\* Mutant: the join waits for the relay without a limit.
JoinUnbounded ==
    /\ main = "joining"
    /\ relay = "reported"
    /\ main' = "close"
    /\ errors' = errors \union (IF relayErr \in {"nil", "cancelled"} THEN {} ELSE {"relay"})
    /\ UNCHANGED <<cause, signalled, deadline, serverVars, relayVars, tableVars, sending, exits>>

\* waitRelay: the relay reports, or the timer fires.
JoinRelay ==
    /\ main = "joining"
    /\ \/ /\ relay = "reported"
          /\ main' = "close"
          /\ errors' = errors \union (IF relayErr \in {"nil", "cancelled"} THEN {} ELSE {"relay"})
          /\ UNCHANGED <<cause, signalled, deadline, serverVars, relayVars, tableVars, sending, exits>>
       \/ deadline /\ RelayTimedOut

\* The process is gone: goroutines stop where they are, claims and tables stay.
Gone ==
    /\ main' = "down"
    /\ cause' = "none"
    /\ signalled' = FALSE
    /\ deadline' = FALSE
    /\ errors' = {}
    /\ server' = "closed"
    /\ busy' = {}
    /\ relay' = "reported"
    /\ relayErr' = "none"
    /\ relayCancel' = FALSE
    /\ relayFlag' = FALSE
    /\ sending' = Nothing

\* run returns and closes Redis and PostgreSQL; a close that fails is one more error.
Close ==
    /\ main = "close"
    /\ \E closed \in BOOLEAN :
          exits' = {[clean |-> errors = {} /\ closed, cut |-> busy # {} \/ relay = "running"]}
    /\ Gone
    /\ UNCHANGED tableVars

\* The process is killed.
Kill ==
    /\ Running
    /\ Gone
    /\ UNCHANGED <<tableVars, exits>>

Restart ==
    /\ main = "down"
    /\ main' = "select"
    /\ server' = "serving"
    /\ relay' = "running"
    /\ relayFlag' = TRUE
    /\ exits' = {}
    /\ UNCHANGED <<cause, signalled, deadline, errors, busy, relayErr, relayCancel, tableVars,
                   sending>>

--------------------------------------------------------------------------------
RelayStep(e) == Claim(e) \/ Publish(e) \/ StoreResult(e)

MainStep ==
    \/ SelectSignal
    \/ SelectRelay
    \/ SelectServer
    \/ Shutdown
    \/ Drained
    \/ DrainFails
    \/ WaitServer
    \/ EnterJoin
    \/ JoinRelay
    \/ Close

Next ==
    \/ Signal
    \/ \E h \in Handlers : Request(h) \/ Respond(h)
    \/ ServeFails
    \/ \E e \in Events : RelayStep(e)
    \/ RelayReturns
    \/ RelayReports
    \/ MainStep
    \/ DeadlinePasses
    \/ Kill
    \/ Restart

Spec == Init /\ [][Next]_vars

\* The goroutines of the process and its shutdown timer keep going; handlers may hang,
\* and a cancelled relay may take its time.
FairSpec ==
    /\ Spec
    /\ \A e \in Events : WF_vars(RelayStep(e))
    /\ WF_vars(RelayReports)
    /\ WF_vars(MainStep)
    /\ WF_vars(DeadlinePasses)

--------------------------------------------------------------------------------
\* At-least-once delivery: a record is marked published only if it is in the stream,
\* and nothing reaches the stream that was not committed to the outbox.
StreamIsCommitted ==
    /\ stream \subseteq DOMAIN outbox
    /\ \A e \in DOMAIN outbox : outbox[e].status = "published" => e \in stream

\* "drains HTTP, cancels and joins the relay, then closes Redis and PostgreSQL"
\* (README): an exit without error cut neither a handler nor the relay short, and
\* the relay is not cancelled under a busy handler unless an error is already due.
ShutdownInOrder ==
    /\ \A x \in exits : x.clean => ~x.cut
    /\ relayCancel /\ errors = {} => busy = {}

\* A signal, a failed server and a relay that stopped by itself all end the process
\* within its shutdown limit, even under a handler that hangs and a relay that does not
\* react to its cancellation.
EventuallyExits ==
    (signalled \/ relay = "reported" \/ server = "failed") ~> main = "down"

\* Every committed record is published or dead-lettered in the end, if some process
\* keeps running.
EventuallyRelayed ==
    <>[](main = "select" /\ relay = "running") =>
        \A e \in Events : (e \in DOMAIN outbox)
            ~> (e \in DOMAIN outbox /\ outbox[e].status \in {"published", "dead_letter"})

================================================================================
