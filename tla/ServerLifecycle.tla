----------------------------- MODULE ServerLifecycle -----------------------------
(***************************************************************************)
(* RunServer of examples/gin-content-moderation-workflow: one goroutine    *)
(* listens, the caller waits for it or for the signal, shuts the server    *)
(* down within shutdownTimeout, closes it by force if that fails, and      *)
(* joins the goroutine before it returns.                                  *)
(***************************************************************************)
EXTENDS Naturals

CONSTANTS
    MaxHandlers   \* bound: requests in flight at the same time

LifecycleAssumption == MaxHandlers \in Nat

VARIABLES
    main,       \* where RunServer stands
    listener,   \* ListenAndServe: "running", "closed" or "failed" once it has returned
    signalled,  \* ctx.Done() is closed
    handlers,   \* requests in flight
    late,       \* shutdownTimeout has passed
    results,    \* the errors collected for errors.Join
    cut         \* ghost: a handler lost its connection or its process

serverVars == <<main, listener, signalled, handlers, late, results, cut>>

TypeOK ==
    /\ main \in {"select", "shutdown", "close", "join", "returned"}
    /\ listener \in {"running", "closed", "failed"}
    /\ signalled \in BOOLEAN
    /\ handlers \in 0 .. MaxHandlers
    /\ late \in BOOLEAN
    /\ results \subseteq {"listen", "shutdown", "close"}
    /\ cut \in BOOLEAN

Init ==
    /\ main = "select"
    /\ listener = "running"
    /\ signalled = FALSE
    /\ handlers = 0
    /\ late = FALSE
    /\ results = {}
    /\ cut = FALSE

--------------------------------------------------------------------------------
\* The world: signals, requests, the listener and the clock.
Signal ==
    /\ ~signalled
    /\ signalled' = TRUE
    /\ UNCHANGED <<main, listener, handlers, late, results, cut>>

Accept ==
    /\ listener = "running"
    /\ main = "select"
    /\ handlers < MaxHandlers
    /\ handlers' = handlers + 1
    /\ UNCHANGED <<main, listener, signalled, late, results, cut>>

HandlerReturns ==
    /\ handlers > 0
    /\ main # "returned"
    /\ handlers' = handlers - 1
    /\ UNCHANGED <<main, listener, signalled, late, results, cut>>

ListenFails ==
    /\ listener = "running"
    /\ listener' = "failed"
    /\ UNCHANGED <<main, signalled, handlers, late, results, cut>>

TimeoutPasses ==
    /\ main = "shutdown"
    /\ ~late
    /\ late' = TRUE
    /\ UNCHANGED <<main, listener, signalled, handlers, results, cut>>

--------------------------------------------------------------------------------
\* RunServer returns; main ends the process and every handler with it.
Return(errors) ==
    /\ results' = errors
    /\ cut' = (cut \/ handlers > 0)
    /\ main' = "returned"
    /\ UNCHANGED <<listener, signalled, handlers, late>>

\* case err := <-listenResult.
SelectListen ==
    /\ main = "select"
    /\ listener # "running"
    /\ Return(IF listener = "failed" THEN {"listen"} ELSE {})

\* case <-ctx.Done(): Shutdown closes the listener at once and then waits.
SelectSignal ==
    /\ main = "select"
    /\ signalled
    /\ main' = "shutdown"
    /\ listener' = IF listener = "running" THEN "closed" ELSE listener
    /\ UNCHANGED <<signalled, handlers, late, results, cut>>

Drained ==
    /\ main = "shutdown"
    /\ handlers = 0
    /\ main' = "join"
    /\ UNCHANGED <<listener, signalled, handlers, late, results, cut>>

\* Mutant: Shutdown runs on a context without a deadline.
ShutdownUnbounded ==
    /\ main = "shutdown"
    /\ handlers = 0
    /\ results' = results \union {"shutdown"}
    /\ main' = "close"
    /\ UNCHANGED <<listener, signalled, handlers, late, cut>>

\* Shutdown gives up at the deadline and leaves the connections to Close, or it has
\* drained and returns the error of closing the listener.
ShutdownFails ==
    /\ main = "shutdown"
    /\ late \/ handlers = 0
    /\ results' = results \union {"shutdown"}
    /\ main' = "close"
    /\ UNCHANGED <<listener, signalled, handlers, late, cut>>

\* server.Close drops every connection; its error is one more result.
Close ==
    /\ main = "close"
    /\ cut' = (cut \/ handlers > 0)
    /\ results' \in {results, results \union {"close"}}
    /\ main' = "join"
    /\ UNCHANGED <<listener, signalled, handlers, late>>

\* Mutant: a listener that failed while the server was shut down is not reported.
JoinIgnoresError ==
    /\ main = "join"
    /\ listener # "running"
    /\ Return(results)

\* listenErr := <-listenResult.
Join ==
    /\ main = "join"
    /\ listener # "running"
    /\ Return(results \union IF listener = "failed" THEN {"listen"} ELSE {})

Run == SelectListen \/ SelectSignal \/ Drained \/ ShutdownFails \/ Close \/ Join

Next ==
    \/ Signal
    \/ Accept
    \/ HandlerReturns
    \/ ListenFails
    \/ TimeoutPasses
    \/ Run

Spec == Init /\ [][Next]_serverVars

--------------------------------------------------------------------------------
\* RunServer joins its goroutine, and a nil result means that the server was asked to
\* stop, that the listener did not fail and that no request was cut short.
CleanReturn ==
    main = "returned" =>
        /\ listener # "running"
        /\ results = {} => signalled /\ listener = "closed" /\ ~cut

\* A signal or a failed listener ends the process although handlers may hang.
EventuallyReturns == (signalled \/ listener = "failed") ~> main = "returned"

================================================================================
