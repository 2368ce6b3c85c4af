------------------------- MODULE CustomerServiceProofs -------------------------
(***************************************************************************)
(* Proofs about the operations service of the customer migration, for any  *)
(* number of concurrent manual and scheduled callers and every leader      *)
(* gate: one run at a time, true answers, and leadership that is given     *)
(* back.  That a scheduled run has leadership on its side is proved for a  *)
(* single ticking caller; the run CustomerServiceTwoTicks shows that two   *)
(* of them can take it from each other.                                    *)
(***************************************************************************)
EXTENDS CustomerService, TLAPS

\* RunScheduler is the only source of ticks.
OneTicker == \A c, d \in Ticks : c = d

--------------------------------------------------------------------------------
\* Named parts of the inductive invariant.

\* TypeOK is not inductive by itself: finishRun publishes the code of the run, which
\* must be one that RunBatch returns.
TypeInv ==
    /\ TypeOK
    /\ \A c \in Callers : pc[c] = "finish" => code[c] \in RunCodes

\* What the code of a request says about it at each place of the handler.
CodeIsEarned ==
    \A c \in Callers :
        /\ InRun(c) => ran[c]
        /\ pc[c] \in {"resign", "record", "reply"} /\ code[c] = "ok" => ran[c]
        /\ pc[c] = "reject" => code[c] # "ok"

\* Only ticks pass the gate, and a tick has acquired leadership only between its
\* Campaign and its Resign.
AcquiredInGate ==
    \A c \in Callers :
        /\ pc[c] \in {"gate", "resign", "record"} => c \in Ticks
        /\ acquired[c] => c \in Ticks /\ pc[c] \in {"begin", "running", "finish", "reject", "resign"}

\* A tick that has passed the gate still has what the gate asked for.
AdmittedHoldsLeadership ==
    \A c \in Ticks : pc[c] \in {"begin", "running"} =>
        gate = "held" \/ (gate = "elector" /\ leader = "self")

--------------------------------------------------------------------------------
\* What a step of one caller leaves alone.
LEMMA AfterRunType ==
    ASSUME NEW c, NEW acq, NEW value
    PROVE  AfterRun(c, acq, value) \in {"reply", "resign", "record"}
  BY DEF AfterRun

LEMMA HttpStatusType ==
    ASSUME NEW value \in Codes
    PROVE  /\ HttpStatus(value) \in {200, 400, 408, 409}
           /\ HttpStatus(value) = 200 => value = "ok"
  BY DEF HttpStatus, Codes, RunCodes

LEMMA TypeInit == Init => TypeInv
  BY ServiceAssumption, ZenonT(60) DEF Init, TypeInv, TypeOK, Callers, Codes, RunCodes

LEMMA TypeStep == TypeInv /\ [Next]_vars => TypeInv'
<1> SUFFICES ASSUME TypeInv, [Next]_vars PROVE TypeInv'
  OBVIOUS
<1> USE DEF TypeInv, TypeOK, Goto, SetCode
<1>1. ASSUME NEW c \in Callers, NEW valid \in BOOLEAN, Arrive(c, valid) PROVE TypeInv'
  BY <1>1 DEF Arrive, serviceVars, leaderVars, Codes, RunCodes
<1>2. ASSUME NEW c \in Callers, ClientGone(c) PROVE TypeInv'
  BY <1>2 DEF ClientGone, serviceVars, leaderVars
<1>3. ASSUME NEW c \in Callers, StaticGate(c) PROVE TypeInv'
  BY <1>3 DEF StaticGate, Refuse, serviceVars, leaderVars, Codes, RunCodes
<1>4. ASSUME NEW c \in Callers, Campaign(c) PROVE TypeInv'
  <2>1. (leader = "none") \in BOOLEAN
    BY Zenon
  <2>2. acquired' \in [Callers -> BOOLEAN]
    BY <1>4, <2>1, ZenonT(60) DEF Campaign, Refuse
  <2>3. leaked' \in BOOLEAN /\ active' \in BOOLEAN
    BY <1>4, Zenon DEF Campaign, Refuse, serviceVars, leaderVars
  <2> QED
    BY <1>4, <2>2, <2>3 DEF Campaign, Refuse, serviceVars, leaderVars, Codes, RunCodes
<1>5. ASSUME NEW c \in Callers, CampaignFails(c) PROVE TypeInv'
  BY <1>5 DEF CampaignFails, Refuse, serviceVars, leaderVars, Codes, RunCodes
<1>6. ASSUME NEW c \in Callers, BeginRun(c) PROVE TypeInv'
  <2>1. active' \in BOOLEAN /\ ran' \in [Callers -> BOOLEAN]
    <3>1. CASE active
      BY <1>6, <3>1, ZenonT(60) DEF BeginRun
    <3>2. CASE ~active
      <4>1. active' = TRUE /\ ran' = [ran EXCEPT ![c] = TRUE]
        BY <1>6, <3>2, Zenon DEF BeginRun
      <4> QED
        BY <4>1, Zenon
    <3> QED
      BY <3>1, <3>2
  <2>2. pc' \in [Callers -> {"idle", "gate", "begin", "running", "finish", "reject",
                            "resign", "record", "reply"}]
    BY <1>6 DEF BeginRun
  <2>3. code' \in [Callers -> Codes] /\ cancelActive' \in Callers \union {NoCaller}
    BY <1>6 DEF BeginRun, Codes
  <2>4. \A d \in Callers : pc'[d] = "finish" => code'[d] \in RunCodes
    BY <1>6 DEF BeginRun
  <2> QED
    BY <1>6, <2>1, <2>2, <2>3, <2>4, Zenon DEF BeginRun, leaderVars
<1>7. ASSUME NEW c \in Callers, RecordInProgress(c) PROVE TypeInv'
  BY <1>7, AfterRunType DEF RecordInProgress, leaderVars, Codes, RunCodes
<1>8. ASSUME NEW c \in Callers, RunBatch(c) PROVE TypeInv'
  BY <1>8 DEF RunBatch, serviceVars, leaderVars, Codes, RunCodes
<1>9. ASSUME NEW c \in Callers, FinishRun(c) PROVE TypeInv'
  <2>1. active' \in BOOLEAN
    BY <1>9, Zenon DEF FinishRun
  <2>2. lastRejection' \in Codes \union {"no_active_run", "report_not_found"}
    BY <1>9 DEF FinishRun
  <2> QED
    BY <1>9, <2>1, <2>2, AfterRunType DEF FinishRun, leaderVars, Codes, RunCodes
<1>10. ASSUME NEW c \in Callers, Resign(c) PROVE TypeInv'
  <2>1. (leaked \/ leader = "self") \in BOOLEAN
    BY Zenon
  <2>2. leaked' \in BOOLEAN /\ acquired' \in [Callers -> BOOLEAN]
    BY <1>10, <2>1, Zenon DEF Resign
  <2> QED
    BY <1>10, <2>2 DEF Resign, serviceVars
<1>11. ASSUME NEW c \in Callers, RecordRejection(c) PROVE TypeInv'
  BY <1>11 DEF RecordRejection, leaderVars
<1>12. ASSUME NEW c \in Callers, Reply(c) PROVE TypeInv'
  BY <1>12, HttpStatusType DEF Reply, serviceVars, leaderVars
<1>13. CASE CancelActiveRun
  <2>1. ctxDone' \in [Callers -> BOOLEAN]
    <3>1. CASE active /\ cancelActive # NoCaller
      <4>1. ctxDone' = [ctxDone EXCEPT ![cancelActive] = TRUE]
        BY <1>13, <3>1, Zenon DEF CancelActiveRun
      <4> QED
        BY <4>1, Zenon
    <3>2. CASE ~(active /\ cancelActive # NoCaller)
      BY <1>13, <3>2, ZenonT(60) DEF CancelActiveRun
    <3> QED
      BY <3>1, <3>2
  <2> QED
    BY <1>13, <2>1 DEF CancelActiveRun, leaderVars
<1>14. CASE ReportNotFound
  BY <1>14 DEF ReportNotFound, callerVars, leaderVars
<1>15. CASE RivalCampaigns
  BY <1>15 DEF RivalCampaigns, callerVars, serviceVars
<1>16. CASE RivalResigns
  BY <1>16 DEF RivalResigns, callerVars, serviceVars
<1>17. CASE UNCHANGED vars
  BY <1>17 DEF vars, callerVars, serviceVars, leaderVars
<1> QED
  BY <1>1, <1>2, <1>3, <1>4, <1>5, <1>6, <1>7, <1>8, <1>9, <1>10, <1>11, <1>12, <1>13,
     <1>14, <1>15, <1>16, <1>17 DEF Next, Advance

--------------------------------------------------------------------------------
\* One run at a time.  ActiveRunIsOwned is inductive once the types are known.
LEMMA OwnedStep == TypeInv /\ ActiveRunIsOwned /\ [Next]_vars => ActiveRunIsOwned'
<1> SUFFICES ASSUME TypeInv, ActiveRunIsOwned, [Next]_vars PROVE ActiveRunIsOwned'
  OBVIOUS
<1> USE DEF TypeInv, TypeOK, Goto, ActiveRunIsOwned, InRun
<1>1. ASSUME NEW c \in Callers, NEW valid \in BOOLEAN, Arrive(c, valid) PROVE ActiveRunIsOwned'
  BY <1>1 DEF Arrive, serviceVars
<1>2. ASSUME NEW c \in Callers, ClientGone(c) PROVE ActiveRunIsOwned'
  BY <1>2 DEF ClientGone, serviceVars
<1>3. ASSUME NEW c \in Callers, StaticGate(c) PROVE ActiveRunIsOwned'
  BY <1>3 DEF StaticGate, Refuse, serviceVars
<1>4. ASSUME NEW c \in Callers, Campaign(c) PROVE ActiveRunIsOwned'
  BY <1>4 DEF Campaign, Refuse, serviceVars
<1>5. ASSUME NEW c \in Callers, CampaignFails(c) PROVE ActiveRunIsOwned'
  BY <1>5 DEF CampaignFails, Refuse, serviceVars
<1>6. ASSUME NEW c \in Callers, BeginRun(c) PROVE ActiveRunIsOwned'
  BY <1>6, ServiceAssumption DEF BeginRun, Callers
<1>7. ASSUME NEW c \in Callers, RecordInProgress(c) PROVE ActiveRunIsOwned'
  BY <1>7, AfterRunType DEF RecordInProgress
<1>8. ASSUME NEW c \in Callers, RunBatch(c) PROVE ActiveRunIsOwned'
  BY <1>8 DEF RunBatch, serviceVars
<1>9. ASSUME NEW c \in Callers, FinishRun(c) PROVE ActiveRunIsOwned'
  BY <1>9, AfterRunType, ServiceAssumption DEF FinishRun, Callers
<1>10. ASSUME NEW c \in Callers, Resign(c) PROVE ActiveRunIsOwned'
  BY <1>10 DEF Resign, serviceVars
<1>11. ASSUME NEW c \in Callers, RecordRejection(c) PROVE ActiveRunIsOwned'
  BY <1>11 DEF RecordRejection
<1>12. ASSUME NEW c \in Callers, Reply(c) PROVE ActiveRunIsOwned'
  BY <1>12 DEF Reply, serviceVars
<1>13. CASE UNCHANGED <<pc, active, cancelActive>>
  BY <1>13
<1>14. CancelActiveRun \/ ReportNotFound \/ RivalCampaigns \/ RivalResigns \/ UNCHANGED vars
       => UNCHANGED <<pc, active, cancelActive>>
  BY DEF CancelActiveRun, ReportNotFound, RivalCampaigns, RivalResigns, vars, callerVars,
     serviceVars
<1> QED
  BY <1>1, <1>2, <1>3, <1>4, <1>5, <1>6, <1>7, <1>8, <1>9, <1>10, <1>11, <1>12, <1>13, <1>14
     DEF Next, Advance

\* True answers: OkMeansOwnRun follows a request from its admission to its answer.
LEMMA EarnedStep ==
    TypeInv /\ CodeIsEarned /\ OkMeansOwnRun /\ [Next]_vars => CodeIsEarned' /\ OkMeansOwnRun'
<1> SUFFICES ASSUME TypeInv, CodeIsEarned, OkMeansOwnRun, [Next]_vars
             PROVE  CodeIsEarned' /\ OkMeansOwnRun'
  OBVIOUS
<1> USE DEF TypeInv, TypeOK, Goto, SetCode, CodeIsEarned, OkMeansOwnRun, InRun
<1>1. ASSUME NEW c \in Callers, NEW valid \in BOOLEAN, Arrive(c, valid)
      PROVE  CodeIsEarned' /\ OkMeansOwnRun'
  BY <1>1 DEF Arrive
<1>2. ASSUME NEW c \in Callers, ClientGone(c) PROVE CodeIsEarned' /\ OkMeansOwnRun'
  BY <1>2 DEF ClientGone
<1>3. ASSUME NEW c \in Callers, StaticGate(c) PROVE CodeIsEarned' /\ OkMeansOwnRun'
  BY <1>3 DEF StaticGate, Refuse
<1>4. ASSUME NEW c \in Callers, Campaign(c) PROVE CodeIsEarned' /\ OkMeansOwnRun'
  BY <1>4 DEF Campaign, Refuse
<1>5. ASSUME NEW c \in Callers, CampaignFails(c) PROVE CodeIsEarned' /\ OkMeansOwnRun'
  BY <1>5 DEF CampaignFails, Refuse
<1>6. ASSUME NEW c \in Callers, BeginRun(c) PROVE CodeIsEarned' /\ OkMeansOwnRun'
  BY <1>6 DEF BeginRun
<1>7. ASSUME NEW c \in Callers, RecordInProgress(c) PROVE CodeIsEarned' /\ OkMeansOwnRun'
  BY <1>7, AfterRunType DEF RecordInProgress
<1>8. ASSUME NEW c \in Callers, RunBatch(c) PROVE CodeIsEarned' /\ OkMeansOwnRun'
  BY <1>8 DEF RunBatch
<1>9. ASSUME NEW c \in Callers, FinishRun(c) PROVE CodeIsEarned' /\ OkMeansOwnRun'
  BY <1>9, AfterRunType DEF FinishRun
<1>10. ASSUME NEW c \in Callers, Resign(c) PROVE CodeIsEarned' /\ OkMeansOwnRun'
  BY <1>10 DEF Resign
<1>11. ASSUME NEW c \in Callers, RecordRejection(c) PROVE CodeIsEarned' /\ OkMeansOwnRun'
  BY <1>11 DEF RecordRejection
<1>12. ASSUME NEW c \in Callers, Reply(c) PROVE CodeIsEarned' /\ OkMeansOwnRun'
  <2>1. reply'[c] = 200 => code[c] = "ok"
    BY <1>12, HttpStatusType DEF Reply
  <2> QED
    BY <1>12, <2>1 DEF Reply
<1>13. CASE UNCHANGED <<pc, code, ran, reply>>
  BY <1>13
<1>14. CancelActiveRun \/ ReportNotFound \/ RivalCampaigns \/ RivalResigns \/ UNCHANGED vars
       => UNCHANGED <<pc, code, ran, reply>>
  BY DEF CancelActiveRun, ReportNotFound, RivalCampaigns, RivalResigns, vars, callerVars
<1> QED
  BY <1>1, <1>2, <1>3, <1>4, <1>5, <1>6, <1>7, <1>8, <1>9, <1>10, <1>11, <1>12, <1>13, <1>14
     DEF Next, Advance

\* Leadership: what a tick acquired is either still in its hands or given back.
LEMMA LeaderStep ==
    TypeInv /\ AcquiredInGate /\ LeadershipIsReturned /\ [Next]_vars
        => AcquiredInGate' /\ LeadershipIsReturned'
<1> SUFFICES ASSUME TypeInv, AcquiredInGate, LeadershipIsReturned, [Next]_vars
             PROVE  AcquiredInGate' /\ LeadershipIsReturned'
  OBVIOUS
<1> USE ServiceAssumption
    DEF TypeInv, TypeOK, Goto, SetCode, AcquiredInGate, LeadershipIsReturned, Callers
<1>1. ASSUME NEW c \in Callers, NEW valid \in BOOLEAN, Arrive(c, valid)
      PROVE  AcquiredInGate' /\ LeadershipIsReturned'
  BY <1>1 DEF Arrive, leaderVars
<1>2. ASSUME NEW c \in Callers, ClientGone(c) PROVE AcquiredInGate' /\ LeadershipIsReturned'
  BY <1>2 DEF ClientGone, leaderVars
<1>3. ASSUME NEW c \in Callers, StaticGate(c) PROVE AcquiredInGate' /\ LeadershipIsReturned'
  BY <1>3 DEF StaticGate, Refuse, leaderVars
<1>4. ASSUME NEW c \in Callers, Campaign(c) PROVE AcquiredInGate' /\ LeadershipIsReturned'
  <2>1. CASE Refuse(c, "request_cancelled") \/ Refuse(c, "not_leader")
    BY <1>4, <2>1 DEF Campaign, Refuse, leaderVars
  <2>2. CASE leader # "rival" /\ pc' = [pc EXCEPT ![c] = "begin"]
             /\ acquired' = [acquired EXCEPT ![c] = leader = "none"]
             /\ leader' = "self" /\ UNCHANGED leaked
    <3>1. c \in Ticks
      BY <1>4 DEF Campaign
    <3>2. acquired'[c] <=> leader = "none"
      BY <2>2, Zenon
    <3>3. \A d \in Callers \ {c} : acquired'[d] = acquired[d] /\ pc'[d] = pc[d]
      BY <2>2
    <3>4. pc'[c] = "begin"
      BY <2>2
    <3>5. AcquiredInGate'
      BY <3>1, <3>3, <3>4
    <3>6. CASE leader = "none"
      BY <3>1, <3>2, <3>5, <3>6, Zenon
    <3>7. CASE leader = "self"
      <4>1. ~acquired[c]
        BY <1>4 DEF Campaign
      <4> QED
        BY <2>2, <3>3, <3>5, <3>7, <4>1
    <3> QED
      BY <2>2, <3>6, <3>7
  <2> QED
    BY <1>4, <2>1, <2>2 DEF Campaign
<1>5. ASSUME NEW c \in Callers, CampaignFails(c) PROVE AcquiredInGate' /\ LeadershipIsReturned'
  BY <1>5 DEF CampaignFails, Refuse, leaderVars
<1>6. ASSUME NEW c \in Callers, BeginRun(c) PROVE AcquiredInGate' /\ LeadershipIsReturned'
  BY <1>6 DEF BeginRun, leaderVars
<1>7. ASSUME NEW c \in Callers, RecordInProgress(c) PROVE AcquiredInGate' /\ LeadershipIsReturned'
  BY <1>7 DEF RecordInProgress, leaderVars, AfterRun
<1>8. ASSUME NEW c \in Callers, RunBatch(c) PROVE AcquiredInGate' /\ LeadershipIsReturned'
  BY <1>8 DEF RunBatch, leaderVars
<1>9. ASSUME NEW c \in Callers, FinishRun(c) PROVE AcquiredInGate' /\ LeadershipIsReturned'
  BY <1>9 DEF FinishRun, leaderVars, AfterRun
<1>10. ASSUME NEW c \in Callers, Resign(c) PROVE AcquiredInGate' /\ LeadershipIsReturned'
  <2>1. AcquiredInGate'
    BY <1>10 DEF Resign
  <2>2. CASE leader' = "none" \/ (leader' = leader /\ leader # "self")
    BY <2>1, <2>2
  <2>3. CASE leaked' = (leaked \/ leader = "self") /\ leader' = leader
    BY <2>1, <2>3, Zenon
  <2> QED
    BY <1>10, <2>2, <2>3 DEF Resign
<1>11. ASSUME NEW c \in Callers, RecordRejection(c) PROVE AcquiredInGate' /\ LeadershipIsReturned'
  BY <1>11 DEF RecordRejection, leaderVars
<1>12. ASSUME NEW c \in Callers, Reply(c) PROVE AcquiredInGate' /\ LeadershipIsReturned'
  BY <1>12 DEF Reply, leaderVars
<1>13. CASE UNCHANGED <<pc, acquired, leaked>> /\ (leader' = leader \/ leader' # "self")
  BY <1>13
<1>14. CancelActiveRun \/ ReportNotFound \/ RivalCampaigns \/ RivalResigns \/ UNCHANGED vars
       => UNCHANGED <<pc, acquired, leaked>> /\ (leader' = leader \/ leader' # "self")
  BY DEF CancelActiveRun, ReportNotFound, RivalCampaigns, RivalResigns, vars, callerVars, leaderVars
<1> QED
  BY <1>1, <1>2, <1>3, <1>4, <1>5, <1>6, <1>7, <1>8, <1>9, <1>10, <1>11, <1>12, <1>13, <1>14
     DEF Next, Advance

\* With a single ticking caller nobody resigns or is succeeded while its run is on.
LEMMA AdmittedStep ==
    ASSUME OneTicker
    PROVE  TypeInv /\ AcquiredInGate /\ AdmittedHoldsLeadership /\ [Next]_vars
               => AdmittedHoldsLeadership'
<1> SUFFICES ASSUME TypeInv, AcquiredInGate, AdmittedHoldsLeadership, [Next]_vars
             PROVE  AdmittedHoldsLeadership'
  OBVIOUS
<1> USE ServiceAssumption
    DEF OneTicker, TypeInv, TypeOK, Goto, SetCode, AcquiredInGate, AdmittedHoldsLeadership, Callers
<1>1. ASSUME NEW c \in Callers, NEW valid \in BOOLEAN, Arrive(c, valid) PROVE AdmittedHoldsLeadership'
  BY <1>1 DEF Arrive, leaderVars
<1>2. ASSUME NEW c \in Callers, ClientGone(c) PROVE AdmittedHoldsLeadership'
  BY <1>2 DEF ClientGone, leaderVars
<1>3. ASSUME NEW c \in Callers, StaticGate(c) PROVE AdmittedHoldsLeadership'
  BY <1>3 DEF StaticGate, Refuse, leaderVars
<1>4. ASSUME NEW c \in Callers, Campaign(c) PROVE AdmittedHoldsLeadership'
  <2>1. gate' = gate /\ gate = "elector" /\ (leader' = leader \/ leader' = "self")
    BY <1>4 DEF Campaign, Refuse, leaderVars
  <2>2. \/ pc' = [pc EXCEPT ![c] = "record"] /\ leader' = leader
        \/ pc' = [pc EXCEPT ![c] = "begin"] /\ leader' = "self"
    BY <1>4 DEF Campaign, Refuse, leaderVars
  <2> QED
    BY <2>1, <2>2
<1>5. ASSUME NEW c \in Callers, CampaignFails(c) PROVE AdmittedHoldsLeadership'
  BY <1>5 DEF CampaignFails, Refuse, leaderVars
<1>6. ASSUME NEW c \in Callers, BeginRun(c) PROVE AdmittedHoldsLeadership'
  BY <1>6 DEF BeginRun, leaderVars
<1>7. ASSUME NEW c \in Callers, RecordInProgress(c) PROVE AdmittedHoldsLeadership'
  BY <1>7, AfterRunType DEF RecordInProgress, leaderVars
<1>8. ASSUME NEW c \in Callers, RunBatch(c) PROVE AdmittedHoldsLeadership'
  BY <1>8 DEF RunBatch, leaderVars
<1>9. ASSUME NEW c \in Callers, FinishRun(c) PROVE AdmittedHoldsLeadership'
  BY <1>9, AfterRunType DEF FinishRun, leaderVars
<1>10. ASSUME NEW c \in Callers, Resign(c) PROVE AdmittedHoldsLeadership'
  <2>1. c \in Ticks /\ pc'[c] \in {"reply", "record"}
    BY <1>10 DEF Resign
  <2> QED
    BY <2>1
<1>11. ASSUME NEW c \in Callers, RecordRejection(c) PROVE AdmittedHoldsLeadership'
  BY <1>11 DEF RecordRejection, leaderVars
<1>12. ASSUME NEW c \in Callers, Reply(c) PROVE AdmittedHoldsLeadership'
  BY <1>12 DEF Reply, leaderVars
<1>13. CASE UNCHANGED <<pc, gate>> /\ (leader' = leader \/ leader # "self")
  BY <1>13
<1>14. CancelActiveRun \/ ReportNotFound \/ RivalCampaigns \/ RivalResigns \/ UNCHANGED vars
       => UNCHANGED <<pc, gate>> /\ (leader' = leader \/ leader # "self")
  BY DEF CancelActiveRun, ReportNotFound, RivalCampaigns, RivalResigns, vars, callerVars, leaderVars
<1> QED
  BY <1>1, <1>2, <1>3, <1>4, <1>5, <1>6, <1>7, <1>8, <1>9, <1>10, <1>11, <1>12, <1>13, <1>14
     DEF Next, Advance

--------------------------------------------------------------------------------
LEMMA ServiceInvariant ==
    Spec => [](TypeInv /\ ActiveRunIsOwned /\ CodeIsEarned /\ OkMeansOwnRun
               /\ AcquiredInGate /\ LeadershipIsReturned)
<1>1. Init => TypeInv
  BY TypeInit
<1>2. Init => ActiveRunIsOwned
  BY ServiceAssumption DEF Init, ActiveRunIsOwned, InRun, Callers
<1>3. Init => CodeIsEarned /\ OkMeansOwnRun
  BY DEF Init, CodeIsEarned, OkMeansOwnRun, InRun
<1>4. Init => AcquiredInGate /\ LeadershipIsReturned
  BY DEF Init, AcquiredInGate, LeadershipIsReturned
<1> QED
  BY <1>1, <1>2, <1>3, <1>4, TypeStep, OwnedStep, EarnedStep, LeaderStep, PTL DEF Spec

\* For any number of callers and every gate: the variables of the service and of its
\* requests keep their types; in particular the published report carries a code that
\* RunBatch returns.
THEOREM ServiceTypes == Spec => []TypeOK
<1>1. TypeInv => TypeOK
  BY DEF TypeInv
<1> QED
  BY <1>1, ServiceInvariant, PTL

\* For any number of callers: beginRun and finishRun admit one run at a time, and the
\* active flag and the cancel function belong to that run.
THEOREM OneRunAtATime == Spec => []ActiveRunIsOwned
  BY ServiceInvariant, PTL

\* For any number of callers: a request that is answered 200 was admitted to a run of
\* its own, and that run completed.
THEOREM AnswersAreEarned == Spec => []OkMeansOwnRun
  BY ServiceInvariant, PTL

\* For any number of ticks and manual starts: RunIfLeader gives back the leadership it
\* acquired, unless Resign itself fails.
THEOREM GateGivesBack == Spec => []LeadershipIsReturned
  BY ServiceInvariant, PTL

\* With one source of ticks, a scheduled run has the gate on its side for as long as it
\* runs, whatever manual callers and rival processes do.
THEOREM OneTickerIsLed == ASSUME OneTicker PROVE Spec => []ScheduledRunHoldsLeadership
<1>1. Init => AdmittedHoldsLeadership
  BY DEF Init, AdmittedHoldsLeadership, Callers
<1>2. AdmittedHoldsLeadership => ScheduledRunHoldsLeadership
  BY DEF AdmittedHoldsLeadership, ScheduledRunHoldsLeadership
<1> QED
  BY <1>1, <1>2, ServiceInvariant, AdmittedStep, PTL DEF Spec
================================================================================
