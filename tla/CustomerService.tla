---------------------------- MODULE CustomerService ----------------------------
(***************************************************************************)
(* The operations service of the customer migration example: manual starts,*)
(* scheduled ticks behind a leader gate, cancellation and report requests  *)
(* that interleave on one Service (service.go, scheduler.go).  A run of    *)
(* the batch is one step here; CustomerEngine opens it up.                 *)
(***************************************************************************)
EXTENDS Naturals, FiniteSets

CONSTANTS
    Manual,     \* concurrent POST /batch/start callers
    Ticks,      \* concurrent tick callers: RunScheduler and /batch/schedule/tick
    Gates,      \* LeaderGates a process may be wired with: "held", "missing", "elector"
    NoCaller    \* Service.cancelActive = nil

ASSUME ServiceAssumption ==
    /\ Manual \cap Ticks = {}
    /\ NoCaller \notin Manual \union Ticks
    /\ Gates \subseteq {"held", "missing", "elector"}

Callers == Manual \union Ticks

VARIABLES
    pc,            \* caller -> where its request stands
    ctxDone,       \* caller -> its run context is cancelled
    code,          \* caller -> error code of its request, "ok" for the empty string
    ran,           \* caller -> its request was admitted to a batch run
    acquired,      \* caller -> its Campaign call acquired leadership
    reply,         \* caller -> HTTP status of its last answer
    active,        \* Service.active
    cancelActive,  \* whose run Service.cancelActive cancels
    latest,        \* error code of Service.latest, "none" before the first run
    lastRejection, \* Service.lastRejectionCode
    leader,        \* who holds the election: "none", "self" or "rival"
    leaked,        \* a Resign call failed while this process was leader
    gate           \* Service.leaderGate: which LeaderGate NewService was given

callerVars == <<pc, ctxDone, code, ran, acquired, reply>>
serviceVars == <<active, cancelActive, latest, lastRejection>>
leaderVars == <<leader, leaked, gate>>
vars == <<callerVars, serviceVars, leaderVars>>

RunCodes == {"ok", "request_cancelled", "writer_crash"}
Codes == RunCodes \union {"invalid_run_id", "not_leader", "run_in_progress", "invalid_request"}

TypeOK ==
    /\ pc \in [Callers -> {"idle", "gate", "begin", "running", "finish", "reject",
                           "resign", "record", "reply"}]
    /\ ctxDone \in [Callers -> BOOLEAN]
    /\ code \in [Callers -> Codes]
    /\ ran \in [Callers -> BOOLEAN]
    /\ acquired \in [Callers -> BOOLEAN]
    /\ reply \in [Callers -> {0, 200, 400, 408, 409}]
    /\ active \in BOOLEAN
    /\ cancelActive \in Callers \union {NoCaller}
    /\ latest \in RunCodes \union {"none"}
    /\ lastRejection \in Codes \union {"no_active_run", "report_not_found"}
    /\ leader \in {"none", "self", "rival"}
    /\ leaked \in BOOLEAN
    /\ gate \in Gates

\* NewService: nothing runs and nothing has been reported.
Init ==
    /\ pc = [c \in Callers |-> "idle"]
    /\ ctxDone = [c \in Callers |-> FALSE]
    /\ code = [c \in Callers |-> "ok"]
    /\ ran = [c \in Callers |-> FALSE]
    /\ acquired = [c \in Callers |-> FALSE]
    /\ reply = [c \in Callers |-> 0]
    /\ active = FALSE
    /\ cancelActive = NoCaller
    /\ latest = "none"
    /\ lastRejection = "ok"
    /\ leader = "none"
    /\ leaked = FALSE
    /\ gate \in Gates

Goto(c, label) == pc' = [pc EXCEPT ![c] = label]
SetCode(c, value) == code' = [code EXCEPT ![c] = value]

\* The handler returns err with this code: a tick that acquired leadership resigns
\* first, a tick records the rejection, a manual start answers.
AfterRun(c, acq, value) ==
    IF c \in Manual THEN "reply"
    ELSE IF acq THEN "resign"
    ELSE IF value = "ok" THEN "reply" ELSE "record"

--------------------------------------------------------------------------------
\* StartManual and RunScheduledTick: trim and validate the run id.
Arrive(c, valid) ==
    /\ pc[c] = "idle"
    /\ ctxDone' = [ctxDone EXCEPT ![c] = FALSE]
    /\ ran' = [ran EXCEPT ![c] = FALSE]
    /\ acquired' = [acquired EXCEPT ![c] = FALSE]
    /\ IF valid
       THEN /\ SetCode(c, "ok")
            /\ Goto(c, IF c \in Ticks THEN "gate" ELSE "begin")
       ELSE /\ SetCode(c, "invalid_run_id")
            /\ Goto(c, "reply")
    /\ UNCHANGED <<reply, serviceVars, leaderVars>>

\* The HTTP client goes away, or the scheduler is shut down.
ClientGone(c) ==
    /\ pc[c] # "idle"
    /\ ~ctxDone[c]
    /\ ctxDone' = [ctxDone EXCEPT ![c] = TRUE]
    /\ UNCHANGED <<pc, code, ran, acquired, reply, serviceVars, leaderVars>>

\* The gate refuses the tick: RunIfLeader returns before calling run.
Refuse(c, value) ==
    /\ SetCode(c, value)
    /\ Goto(c, "record")
    /\ UNCHANGED <<ctxDone, ran, acquired, reply, serviceVars, leaderVars>>

\* staticLeaderGate.RunIfLeader.
StaticGate(c) ==
    /\ pc[c] = "gate"
    /\ gate # "elector"
    /\ IF ctxDone[c] THEN Refuse(c, "request_cancelled")
       ELSE IF gate = "missing" THEN Refuse(c, "not_leader")
       ELSE /\ Goto(c, "begin")
            /\ UNCHANGED <<ctxDone, code, ran, acquired, reply, serviceVars, leaderVars>>

\* Mutants: ErrAlreadyLeader and a fresh acquisition are mixed up; a lost election
\* is not told apart from ErrAlreadyLeader.
CampaignMixesOutcomes(c) ==
    /\ pc[c] = "gate"
    /\ gate = "elector"
    /\ IF ctxDone[c] THEN Refuse(c, "request_cancelled")
       ELSE IF leader = "rival" THEN Refuse(c, "not_leader")
       ELSE /\ Goto(c, "begin")
            /\ leader' = "self"
            /\ acquired' = [acquired EXCEPT ![c] = leader = "self"]
            /\ UNCHANGED <<ctxDone, code, ran, reply, serviceVars, leaked, gate>>

CampaignIgnoresRival(c) ==
    /\ pc[c] = "gate"
    /\ gate = "elector"
    /\ IF ctxDone[c] THEN Refuse(c, "request_cancelled")
       ELSE /\ Goto(c, "begin")
            /\ leader' = IF leader = "none" THEN "self" ELSE leader
            /\ acquired' = [acquired EXCEPT ![c] = leader = "none"]
            /\ UNCHANGED <<ctxDone, code, ran, reply, serviceVars, leaked, gate>>

\* ElectorLeaderGate.RunIfLeader up to run(ctx): Campaign acquires leadership, or
\* reports ErrAlreadyLeader and the run borrows the leadership that is held.
Campaign(c) ==
    /\ pc[c] = "gate"
    /\ gate = "elector"
    /\ IF ctxDone[c] THEN Refuse(c, "request_cancelled")
       ELSE IF leader = "rival" THEN Refuse(c, "not_leader")
       ELSE /\ Goto(c, "begin")
            /\ leader' = "self"
            /\ acquired' = [acquired EXCEPT ![c] = leader = "none"]
            /\ UNCHANGED <<ctxDone, code, ran, reply, serviceVars, leaked, gate>>

\* Campaign fails for another reason (the election store is unreachable).
CampaignFails(c) ==
    /\ pc[c] = "gate"
    /\ gate = "elector"
    /\ Refuse(c, "invalid_request")

\* Mutant: a busy service makes the caller wait.
BeginRunWaits(c) ==
    /\ pc[c] = "begin"
    /\ ~active
    /\ Goto(c, "running")
    /\ active' = TRUE
    /\ cancelActive' = c
    /\ ran' = [ran EXCEPT ![c] = TRUE]
    /\ UNCHANGED <<ctxDone, code, acquired, reply, latest, lastRejection, leaderVars>>

\* beginRun: one critical section that admits the run or rejects it.
BeginRun(c) ==
    /\ pc[c] = "begin"
    /\ IF active
       THEN /\ Goto(c, "reject")
            /\ SetCode(c, "run_in_progress")
            /\ UNCHANGED <<active, cancelActive, ran>>
       ELSE /\ Goto(c, "running")
            /\ active' = TRUE
            /\ cancelActive' = c
            /\ ran' = [ran EXCEPT ![c] = TRUE]
            /\ UNCHANGED code
    /\ UNCHANGED <<ctxDone, acquired, reply, latest, lastRejection, leaderVars>>

\* run: the rejected caller records run_in_progress in a critical section of its own.
RecordInProgress(c) ==
    /\ pc[c] = "reject"
    /\ lastRejection' = "run_in_progress"
    /\ Goto(c, AfterRun(c, acquired[c], code[c]))
    /\ UNCHANGED <<ctxDone, code, ran, acquired, reply, active, cancelActive, latest, leaderVars>>

\* RunBatch returns: a cancelled context usually ends it with request_cancelled, a
\* manual run may have its writer crash.
RunBatch(c) ==
    /\ pc[c] = "running"
    /\ \E value \in {"ok"} \union (IF ctxDone[c] THEN {"request_cancelled"} ELSE {})
                         \union (IF c \in Manual THEN {"writer_crash"} ELSE {}) :
            SetCode(c, value)
    /\ Goto(c, "finish")
    /\ UNCHANGED <<ctxDone, ran, acquired, reply, serviceVars, leaderVars>>

\* Mutants: a failed run leaves the service busy; the report shows the last
\* rejection.
FinishOnlyOnSuccess(c) ==
    /\ pc[c] = "finish"
    /\ latest' = code[c]
    /\ active' = (code[c] # "ok")
    /\ cancelActive' = NoCaller
    /\ lastRejection' = IF code[c] # "ok" THEN code[c] ELSE lastRejection
    /\ Goto(c, AfterRun(c, acquired[c], code[c]))
    /\ UNCHANGED <<ctxDone, code, ran, acquired, reply, leaderVars>>

FinishReportsRejection(c) ==
    /\ pc[c] = "finish"
    /\ latest' = lastRejection
    /\ active' = FALSE
    /\ cancelActive' = NoCaller
    /\ lastRejection' = IF code[c] # "ok" THEN code[c] ELSE lastRejection
    /\ Goto(c, AfterRun(c, acquired[c], code[c]))
    /\ UNCHANGED <<ctxDone, code, ran, acquired, reply, leaderVars>>

\* finishRun: one critical section that publishes the response and frees the service.
FinishRun(c) ==
    /\ pc[c] = "finish"
    /\ latest' = code[c]
    /\ active' = FALSE
    /\ cancelActive' = NoCaller
    /\ lastRejection' = IF code[c] # "ok" THEN code[c] ELSE lastRejection
    /\ Goto(c, AfterRun(c, acquired[c], code[c]))
    /\ UNCHANGED <<ctxDone, code, ran, acquired, reply, leaderVars>>

\* ElectorLeaderGate.RunIfLeader after run(ctx): resign on a context that outlives
\* the caller; a failed Resign only leaves a diagnostic.
Resign(c) ==
    /\ pc[c] = "resign"
    /\ \/ /\ leader' = IF leader = "self" THEN "none" ELSE leader
          /\ UNCHANGED leaked
       \/ /\ leaked' = (leaked \/ leader = "self")
          /\ UNCHANGED leader
    /\ acquired' = [acquired EXCEPT ![c] = FALSE]
    /\ Goto(c, IF code[c] = "ok" THEN "reply" ELSE "record")
    /\ UNCHANGED <<ctxDone, code, ran, reply, serviceVars, gate>>

\* RunScheduledTick: recordRejection after the gate returned an error.
RecordRejection(c) ==
    /\ pc[c] = "record"
    /\ lastRejection' = code[c]
    /\ Goto(c, "reply")
    /\ UNCHANGED <<ctxDone, code, ran, acquired, reply, active, cancelActive, latest, leaderVars>>

\* Mutant: only malformed requests are answered with an error status.
HttpStatusLenient(value) ==
    IF value \in {"invalid_run_id", "invalid_request"} THEN 400 ELSE 200

\* writeRunResponse: the HTTP status of an error code.
HttpStatus(value) ==
    CASE value = "ok"                                        -> 200
      [] value \in {"invalid_run_id", "invalid_request"}   -> 400
      [] value = "request_cancelled"                       -> 408
      [] OTHER                                             -> 409

\* The handler writes its answer.
Reply(c) ==
    /\ pc[c] = "reply"
    /\ reply' = [reply EXCEPT ![c] = HttpStatus(code[c])]
    /\ Goto(c, "idle")
    /\ UNCHANGED <<ctxDone, code, ran, acquired, serviceVars, leaderVars>>

\* CancelActiveRun: cancels the context of the active run, or reports that there is none.
CancelActiveRun ==
    /\ IF active /\ cancelActive # NoCaller
       THEN /\ ctxDone' = [ctxDone EXCEPT ![cancelActive] = TRUE]
            /\ UNCHANGED lastRejection
       ELSE /\ lastRejection' = "no_active_run"
            /\ UNCHANGED ctxDone
    /\ UNCHANGED <<pc, code, ran, acquired, reply, active, cancelActive, latest, leaderVars>>

\* Report before the first finished run.
ReportNotFound ==
    /\ latest = "none"
    /\ lastRejection' = "report_not_found"
    /\ UNCHANGED <<callerVars, active, cancelActive, latest, leaderVars>>

\* Another process wins the election while nobody leads, and gives it up later.
RivalCampaigns ==
    /\ gate = "elector"
    /\ leader = "none"
    /\ leader' = "rival"
    /\ UNCHANGED <<callerVars, serviceVars, leaked, gate>>

RivalResigns ==
    /\ leader = "rival"
    /\ leader' = "none"
    /\ UNCHANGED <<callerVars, serviceVars, leaked, gate>>

\* What a request does on its own once it has arrived.
Advance(c) ==
    \/ StaticGate(c)
    \/ Campaign(c)
    \/ CampaignFails(c)
    \/ BeginRun(c)
    \/ RecordInProgress(c)
    \/ RunBatch(c)
    \/ FinishRun(c)
    \/ Resign(c)
    \/ RecordRejection(c)
    \/ Reply(c)

Next ==
    \/ \E c \in Callers, valid \in BOOLEAN : Arrive(c, valid)
    \/ \E c \in Callers : ClientGone(c)
    \/ \E c \in Callers : Advance(c)
    \/ CancelActiveRun
    \/ ReportNotFound
    \/ RivalCampaigns
    \/ RivalResigns

Spec == Init /\ [][Next]_vars

\* A request that has arrived keeps being scheduled by the Go runtime; nobody is
\* obliged to send requests, to cancel or to campaign.
FairSpec == Spec /\ \A c \in Callers : WF_vars(Advance(c))

--------------------------------------------------------------------------------
InRun(c) == pc[c] \in {"running", "finish"}

\* beginRun and finishRun keep one run at a time, the active flag is up exactly
\* while that run is in flight, and the cancel function belongs to that run: a
\* cancel request can neither hit a finished run nor miss the active one.
ActiveRunIsOwned ==
    /\ \A c, d \in Callers : InRun(c) /\ InRun(d) => c = d
    /\ active <=> \E c \in Callers : InRun(c)
    /\ \A c \in Callers : cancelActive = c <=> InRun(c)

\* A request is answered 200 only if it was itself admitted to a run and that run
\* completed; a request that never ran is always told so.
OkMeansOwnRun ==
    \A c \in Callers : (pc[c] = "idle" /\ reply[c] = 200) => (ran[c] /\ code[c] = "ok")

\* RunIfLeader gives back what it acquired: this process leads only while a tick
\* that acquired leadership is still under way, unless a Resign failed.
LeadershipIsReturned ==
    leader = "self" => leaked \/ \E c \in Ticks : acquired[c]

\* "LeaderGate runs scheduled work only while leadership is held" (service.go:25,
\* and RunIfLeader's comment at service.go:425): a tick in a batch run has the static
\* gate on its side or this process leads.
ScheduledRunHoldsLeadership ==
    \A c \in Ticks : pc[c] = "running" =>
        gate = "held" \/ (gate = "elector" /\ leader = "self")

\* Every request is answered, whatever the others do.
EveryRequestAnswered == \A c \in Callers : pc[c] # "idle" ~> pc[c] = "idle"

================================================================================
