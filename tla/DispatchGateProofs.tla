------------------------- MODULE DispatchGateProofs -------------------------
(***************************************************************************)
(* Theorems about DispatchGate for every set of requests and connections,  *)
(* every cap and every scene.  GateInv is inductive: TypesKept shows that  *)
(* steps keep the types, OrderKept, QuotaKept, McpKept, ListKept, KeyKept  *)
(* and ReportsKept that they keep the other parts.                         *)
(***************************************************************************)
EXTENDS DispatchGate, FiniteSetTheorems, TLAPS

USE DEF dispatch, engine, sending, counts, mcp, world

-----------------------------------------------------------------------------
(***************************************************************************)
(* Facts about the operators.                                              *)
(***************************************************************************)
(* The first of a chain is in it.                                          *)
LEMMA FirstOfChain ==
  ASSUME NEW cs \in SUBSET Connections, cs # {}
  PROVE  First(cs) \in cs
BY GateAssumption DEF First, GateAssumption

(* Sets of requests are finite.                                            *)
LEMMA RequestsFinite ==
  ASSUME NEW S \in SUBSET Requests
  PROVE  IsFiniteSet(S) /\ Cardinality(S) \in Nat
BY GateAssumption, FS_Subset, FS_CardinalityType DEF GateAssumption

(* A request more.                                                         *)
LEMMA OneMore ==
  ASSUME NEW S \in SUBSET Requests, NEW r \in Requests
  PROVE  Cardinality(S \union {r}) = IF r \in S THEN Cardinality(S) ELSE Cardinality(S) + 1
BY RequestsFinite, FS_AddElement

(* A request less.                                                         *)
LEMMA OneLess ==
  ASSUME NEW S \in SUBSET Requests, NEW r \in Requests
  PROVE  Cardinality(S \ {r}) = IF r \in S THEN Cardinality(S) - 1 ELSE Cardinality(S)
BY RequestsFinite, FS_RemoveElement

(* Fewer requests, a smaller number.                                       *)
LEMMA NoMore ==
  ASSUME NEW S \in SUBSET Requests, NEW T \in SUBSET S
  PROVE  Cardinality(T) <= Cardinality(S)
BY RequestsFinite, FS_Subset

(* A step of a request or a job.                                           *)
LEMMA GoesTo ==
  ASSUME NEW r \in Requests, NEW from, NEW to \in GatePC, pc \in [Requests -> GatePC],
         Goes(r, from, to)
  PROVE  pc' \in [Requests -> GatePC] /\ pc[r] = from /\ pc'[r] = to
BY DEF Goes

-----------------------------------------------------------------------------
(***************************************************************************)
(* Types.                                                                  *)
(***************************************************************************)
(* What a run does to an event and its job keeps a report a report.        *)
LEMMA PcMoves ==
  ASSUME NEW e \in Report, NEW p \in ReportPC
  PROVE  /\ [e EXCEPT !.pc = p] \in Report
         /\ [e EXCEPT !.pc = p, !.runs = e.runs + 1] \in Report
         /\ [e EXCEPT !.pc = p, !.heard = e.heard + 1] \in Report
         /\ [e EXCEPT !.pc = p, !.lost = e.lost + 1] \in Report
         /\ [e EXCEPT !.pc = p, !.lost = e.lost] \in Report
<1>1. e.runs + 1 \in Nat /\ e.heard + 1 \in Nat /\ e.lost + 1 \in Nat /\ e.lost \in Nat
  BY DEF Report
<1> QED BY <1>1 DEF Report

(* A new status leaves a report a report.                                  *)
LEMMA StatusMoves ==
  ASSUME NEW e \in Report, NEW s \in ReportStatus
  PROVE  [e EXCEPT !.status = s] \in Report
BY DEF Report

(* So do a new status and a step of the job, claimed or not.               *)
LEMMA BothMove ==
  ASSUME NEW e \in Report, NEW p \in ReportPC, NEW s \in ReportStatus
  PROVE  /\ [e EXCEPT !.status = s, !.pc = p] \in Report
         /\ [e EXCEPT !.pc = p, !.status = s] \in Report
         /\ [e EXCEPT !.status = s, !.attempts = e.attempts + 1, !.pc = p] \in Report
<1>1. e.attempts + 1 \in Nat
  BY DEF Report
<1> QED BY <1>1 DEF Report

(* So do a retry and fail!.                                                *)
LEMMA RetryTypes ==
  ASSUME NEW e \in Report
  PROVE  Retried(e) \in Report /\ Failed(e) \in Report
<1>1. ASSUME NEW f \in Report  PROVE Retried(f) \in Report
  <2>1. [f EXCEPT !.pc = "queued", !.runs = f.runs + 1] \in Report /\ [f EXCEPT !.pc = "over"] \in Report
    BY PcMoves DEF ReportPC
  <2> QED BY <2>1 DEF Retried
<1>2. ASSUME NEW s \in ReportStatus  PROVE Retried([e EXCEPT !.status = s]) \in Report
  <2>1. [e EXCEPT !.status = s] \in Report
    BY StatusMoves
  <2> QED BY <2>1, <1>1
<1>3. (IF e.attempts >= CloudAttempts THEN "dead" ELSE "pending") \in ReportStatus
  BY DEF ReportStatus
<1> QED BY <1>1, <1>2, <1>3 DEF Failed

(* A step of a report's job keeps the reports typed.                       *)
LEMMA StepTypes ==
  ASSUME cloud \in [Requests -> Report], NEW r \in Requests, NEW from,
         NEW new \in Report, Step(r, from, new)
  PROVE  cloud' \in [Requests -> Report]
BY DEF Step

(* The reports to the cloud service keep their types.                      *)
LEMMA ReportTypes ==
  ASSUME cloud \in [Requests -> Report], slips \in Nat, NEW r \in Requests, ReportSteps(r)
  PROVE  cloud' \in [Requests -> Report] /\ slips' \in Nat
<1>e. cloud[r] \in Report
  OBVIOUS
<1>p. /\ "over" \in ReportPC /\ "failing" \in ReportPC /\ "heard" \in ReportPC /\ "queued" \in ReportPC
      /\ "completed" \in ReportPC /\ "claimed" \in ReportPC
      /\ "processing" \in ReportStatus /\ "processed" \in ReportStatus
  BY DEF ReportPC, ReportStatus
<1>1. CASE ReportClaim(r)
  <2>1. [cloud[r] EXCEPT !.status = "processing", !.attempts = cloud[r].attempts + 1, !.pc = "claimed"] \in Report
    BY <1>e, <1>p, BothMove
  <2>2. Step(r, "queued", [cloud[r] EXCEPT !.status = "processing", !.attempts = cloud[r].attempts + 1,
                                           !.pc = "claimed"])
    BY <1>1 DEF ReportClaim
  <2> QED BY <1>1, <2>1, <2>2, StepTypes DEF ReportClaim
<1>2. CASE ReportSkip(r)
  <2>1. [cloud[r] EXCEPT !.pc = "over"] \in Report
    BY <1>e, <1>p, PcMoves
  <2> QED BY <1>2, <2>1, StepTypes DEF ReportSkip
<1>3. CASE ReportNotReady(r)
  BY <1>3, <1>e, RetryTypes, StepTypes DEF ReportNotReady
<1>4. CASE ReportHeard(r)
  <2>1. [cloud[r] EXCEPT !.pc = "heard", !.heard = cloud[r].heard + 1] \in Report
    BY <1>e, <1>p, PcMoves
  <2>2. Step(r, "claimed", [cloud[r] EXCEPT !.pc = "heard", !.heard = cloud[r].heard + 1])
    BY <1>4 DEF ReportHeard
  <2> QED BY <1>4, <2>1, <2>2, StepTypes DEF ReportHeard
<1>5. CASE ReportRefused(r)
  <2>1. [cloud[r] EXCEPT !.pc = "failing"] \in Report
    BY <1>e, <1>p, PcMoves
  <2> QED BY <1>5, <2>1, StepTypes DEF ReportRefused, Slip
<1>6. CASE ReportComplete(r)
  <2>1. [cloud[r] EXCEPT !.pc = "completed", !.status = "processed"] \in Report
    BY <1>e, <1>p, BothMove
  <2> QED BY <1>6, <2>1, StepTypes DEF ReportComplete
<1>7. CASE ReportUnnoted(r)
  <2>1. [cloud[r] EXCEPT !.pc = "failing", !.lost = cloud[r].lost + 1] \in Report
    BY <1>e, <1>p, PcMoves
  <2>2. Step(r, "heard", [cloud[r] EXCEPT !.pc = "failing", !.lost = cloud[r].lost + 1])
    BY <1>7 DEF ReportUnnoted
  <2> QED BY <1>7, <2>1, <2>2, StepTypes DEF ReportUnnoted, Slip
<1>8. CASE ReportFail(r)
  BY <1>8, <1>e, RetryTypes, StepTypes DEF ReportFail
<1>9. CASE FailFails(r)
  BY <1>9, <1>e, RetryTypes, StepTypes DEF FailFails, Slip
<1>10. CASE ReportEnd(r)
  <2>1. [cloud[r] EXCEPT !.pc = "over"] \in Report
    BY <1>e, <1>p, PcMoves
  <2> QED BY <1>10, <2>1, StepTypes DEF ReportEnd
<1>11. CASE ReportKilled(r)
  <2> DEFINE e(to) == [cloud[r] EXCEPT !.pc = to, !.lost = IF cloud[r].pc = "heard" THEN cloud[r].lost + 1
                                                           ELSE cloud[r].lost]
  <2>1. PICK to \in {"queued", "over"} : Step(r, cloud[r].pc, e(to))
    BY <1>11 DEF ReportKilled
  <2>2. e(to) \in Report
    BY <1>e, <1>p, PcMoves
  <2>3. slips' \in Nat
    BY <1>11 DEF ReportKilled, Slip
  <2> HIDE DEF e
  <2> QED BY <2>1, <2>2, <2>3, StepTypes
<1> QED BY <1>1, <1>2, <1>3, <1>4, <1>5, <1>6, <1>7, <1>8, <1>9, <1>10, <1>11 DEF ReportSteps

(* Written, or swallowed, the report of a status change is a report.       *)
LEMMA PublishTypes ==
  ASSUME cloud \in [Requests -> Report], NEW r \in Requests, Publish(r) \/ PublishFails(r)
  PROVE  cloud' \in [Requests -> Report]
<1>1. cloud[r] \in Report
  OBVIOUS
<1>2. [cloud[r] EXCEPT !.status = "pending", !.pc = "queued"] \in Report
  BY <1>1, BothMove DEF ReportPC, ReportStatus
<1>3. Swallowed \subseteq Report
  <2>1. NoReport \in Report
    BY DEF NoReport, Report, ReportPC, ReportStatus
  <2>2. [NoReport EXCEPT !.status = "pending", !.pc = "over"] \in Report
    BY <2>1, BothMove DEF ReportPC, ReportStatus
  <2> QED BY <2>1, <2>2 DEF Swallowed
<1> QED BY <1>2, <1>3 DEF Publish, PublishFails

(* Status changes of an email keep the types.                              *)
LEMMA EndsTypes ==
  ASSUME GateTypeOK, NEW r \in Requests, NEW status \in {"sent", "failed"}, Ends(r, status)
  PROVE  /\ email' \in [Requests -> {"none", "queued", "sent", "failed", "suppressed"}]
         /\ cloud' \in [Requests -> Report] /\ slips' \in Nat
<1>1. /\ cloud \in [Requests -> Report] /\ slips \in Nat
      /\ email \in [Requests -> {"none", "queued", "sent", "failed", "suppressed"}]
  BY DEF GateTypeOK
<1>2. cloud' \in [Requests -> Report]
  BY <1>1, PublishTypes DEF Ends
<1>3. slips' \in Nat
  BY <1>1 DEF Ends, Slip
<1>4. email' \in [Requests -> {"none", "queued", "sent", "failed", "suppressed"}]
  BY <1>1 DEF Ends
<1> QED BY <1>2, <1>3, <1>4

(* A job that moves on is a job.                                           *)
LEMMA JobMoves ==
  ASSUME NEW j \in Job, NEW p \in JobPC
  PROVE  /\ [j EXCEPT !.pc = p] \in Job
         /\ \A t \in Types \union {None} : [j EXCEPT !.pc = p, !.told = t] \in Job
         /\ \A c \in Connections : [j EXCEPT !.pc = p, !.by = c] \in Job
         /\ \A cs \in SUBSET Connections : [j EXCEPT !.pc = p, !.routes = cs] \in Job
         /\ \A cs \in SUBSET Connections : [j EXCEPT !.tried = cs] \in Job
BY DEF Job

(* The job of an email that has none is a job.                             *)
LEMMA NoJobType == NoJob \in Job
BY DEF NoJob, Job, JobPC

(* A step of a job changes that job only.                                  *)
LEMMA MovesTypes ==
  ASSUME job \in [Requests -> Job], NEW r \in Requests, NEW from, NEW new \in Job, Moves(r, from, new)
  PROVE  job' \in [Requests -> Job] /\ job[r].pc = from /\ job'[r] = new
         /\ \A s \in Requests \ {r} : job'[s] = job[s]
BY DEF Moves

(* A request's steps keep the types.                                       *)
LEMMA RequestTypes ==
  ASSUME GateTypeOK, NEW r \in Requests, RequestSteps(r)
  PROVE  GateTypeOK'
<1> USE DEF GateTypeOK, Goes, GatePC, Succeeded
<1>j. [job[r] EXCEPT !.pc = "queued"] \in Job
  BY JobMoves DEF JobPC
<1>c. Flight \union {r} \in SUBSET Requests /\ flown \in Nat
  BY DEF Flight, Via
<1>d. Cardinality(Flight \union {r}) \in Nat
  BY <1>c, RequestsFinite
<1>1. CASE Ask(r)
  BY <1>1 DEF Ask
<1>2. CASE McpAdmits(r)
  BY <1>2, <1>d DEF McpAdmits, Larger
<1>3. CASE McpRefuses(r)
  BY <1>3 DEF McpRefuses
<1>4. CASE Replay(r)
  BY <1>4 DEF Replay
<1>5. CASE LookupMiss(r)
  <2>1. unseen' \in [Requests -> SUBSET Requests]
    BY <1>5 DEF LookupMiss
  <2> QED BY <1>5, <2>1 DEF LookupMiss
<1>6. CASE PreflightPasses(r)
  BY <1>6 DEF PreflightPasses
<1>7. CASE PreflightRefuses(r)
  BY <1>7 DEF PreflightRefuses
<1>8. CASE FindsSuppressed(r)
  BY <1>8 DEF FindsSuppressed
<1>9. CASE FindsClear(r)
  BY <1>9 DEF FindsClear
<1>10. CASE PlanDenies(r)
  BY <1>10 DEF PlanDenies
<1>11. CASE Commit(r)
  BY <1>11 DEF Commit
<1>12. CASE Push(r)
  <2>1. job' \in [Requests -> Job]
    BY <1>12, <1>j DEF Push
  <2> QED BY <1>12, <2>1 DEF Push
<1>13. CASE PushFails(r)
  BY <1>13 DEF PushFails, Slip
<1>14. CASE Requeue(r)
  <2>1. job' \in [Requests -> Job]
    BY <1>14, <1>j DEF Requeue
  <2> QED BY <1>14, <2>1 DEF Requeue
<1>15. CASE CountMcp(r)
  BY <1>15 DEF CountMcp
<1>16. CASE CountMcpFails(r)
  BY <1>16 DEF CountMcpFails, Slip
<1> QED BY <1>1, <1>2, <1>3, <1>4, <1>5, <1>6, <1>7, <1>8, <1>9, <1>10, <1>11, <1>12,
           <1>13, <1>14, <1>15, <1>16 DEF RequestSteps

(* A job's steps keep the types.                                           *)
LEMMA JobTypes ==
  ASSUME GateTypeOK, NEW r \in Requests, JobSteps(r)
  PROVE  GateTypeOK'
<1>t. /\ job \in [Requests -> Job] /\ job[r] \in Job /\ NoJob \in Job
      /\ up \subseteq Connections /\ stored \in Types \union {None} /\ slips \in Nat
  BY NoJobType DEF GateTypeOK
<1>f. job[r].routes \subseteq Connections /\ job[r].tried \subseteq Connections
      /\ job[r].by \in Connections \union {None} /\ job[r].told \in Types \union {None}
  BY <1>t DEF Job
<1>p. /\ "queued" \in JobPC /\ "resolved" \in JobPC /\ "sending" \in JobPC /\ "delivered" \in JobPC
      /\ "answered" \in JobPC /\ "done" \in JobPC
  BY DEF JobPC
<1>n. [NoJob EXCEPT !.pc = "done"] \in Job /\ Back(r) \in Job
  BY <1>t, <1>p, JobMoves DEF Back
<1>1. CASE Resolve(r)
  <2>1. Eligible \in SUBSET Connections
    BY <1>t DEF Eligible
  <2>2. job' \in [Requests -> Job]
    <3>1. [NoJob EXCEPT !.pc = "resolved", !.routes = IF scene.mode = "demo" THEN {} ELSE Eligible] \in Job
      BY <2>1, <1>t, <1>p, JobMoves
    <3> QED BY <1>1, <3>1, <1>t, MovesTypes DEF Resolve
  <2>3. \A c \in Connections : Cardinality(Holders(c)') \in Nat
    BY RequestsFinite DEF Holders
  <2>4. peak' \in [Connections -> Nat]
    BY <1>1, <2>3 DEF Resolve, Larger, GateTypeOK
  <2> QED BY <1>1, <2>2, <2>4 DEF Resolve, GateTypeOK
<1>2. CASE ResolveNone(r)
  <2>1. job' \in [Requests -> Job]
    BY <1>2, <1>n, <1>t, MovesTypes DEF ResolveNone
  <2>2. Ends(r, "failed")
    BY <1>2 DEF ResolveNone
  <2> QED BY <1>2, <2>1, <2>2, EndsTypes DEF ResolveNone, GateTypeOK
<1>3. CASE EngineReplays(r)
  <2>1. job' \in [Requests -> Job]
    BY <1>3, <1>t, <1>p, JobMoves, MovesTypes DEF EngineReplays
  <2> QED BY <1>3, <2>1 DEF EngineReplays, GateTypeOK
<1>4. CASE EngineMisses(r)
  <2>1. job' \in [Requests -> Job]
    BY <1>4, <1>t, <1>p, JobMoves, MovesTypes DEF EngineMisses
  <2>2. slips' \in Nat /\ forgot' \in BOOLEAN
    <3>1. CASE scene.keyed[r] /\ stored # None
      BY <1>4, <3>1, <1>t DEF EngineMisses, Slip
    <3>2. CASE ~(scene.keyed[r] /\ stored # None)
      BY <1>4, <3>2 DEF EngineMisses, GateTypeOK
    <3> QED BY <3>1, <3>2
  <2>3. beside' \in [Requests -> SUBSET Requests]
    BY <1>4 DEF EngineMisses, GateTypeOK
  <2> QED BY <1>4, <2>1, <2>2, <2>3 DEF EngineMisses, GateTypeOK
<1>5. CASE MockTakes(r)
  <2>1. job' \in [Requests -> Job]
    BY <1>5, <1>t, <1>p, JobMoves, MovesTypes DEF MockTakes
  <2> QED BY <1>5, <2>1 DEF MockTakes, GateTypeOK
<1>6. CASE ProviderTakes(r)
  <2> DEFINE left == job[r].routes \ job[r].tried
  <2>1. First(left) \in Connections
    BY <1>6, <1>f, FirstOfChain DEF ProviderTakes
  <2>2. job' \in [Requests -> Job]
    <3>1. [job[r] EXCEPT !.pc = "delivered", !.by = First(left)] \in Job
      BY <2>1, <1>t, <1>p, JobMoves
    <3> QED BY <1>6, <3>1, <1>t, MovesTypes DEF ProviderTakes
  <2>3. taken' \in [Connections -> Nat]
    BY <1>6, <2>1 DEF ProviderTakes, GateTypeOK
  <2>4. mailed' \in [Requests -> SUBSET {"plain", "typed"}]
    BY <1>6 DEF ProviderTakes, GateTypeOK
  <2> QED BY <1>6, <2>2, <2>3, <2>4 DEF ProviderTakes, GateTypeOK
<1>7. CASE ProviderFails(r)
  <2> DEFINE left == job[r].routes \ job[r].tried
  <2>1. First(left) \in Connections
    BY <1>7, <1>f, FirstOfChain DEF ProviderFails
  <2>2. job' \in [Requests -> Job]
    <3>1. [job[r] EXCEPT !.tried = job[r].tried \union {First(left)}] \in Job
      BY <2>1, <1>t, <1>f, <1>p, JobMoves
    <3>2. PICK new \in Job : Moves(r, "sending", new)
      BY <1>7, <3>1, <1>n DEF ProviderFails
    <3> QED BY <3>2, <1>t, MovesTypes
  <2>3. slips' \in Nat
    BY <1>7, <1>t DEF ProviderFails, Slip
  <2> QED BY <1>7, <2>2, <2>3 DEF ProviderFails, GateTypeOK
<1>8. CASE RecipientRefused(r)
  <2>1. job' \in [Requests -> Job]
    BY <1>8, <1>n, <1>t, MovesTypes DEF RecipientRefused
  <2>2. Ends(r, "failed")
    BY <1>8 DEF RecipientRefused
  <2> QED BY <1>8, <2>1, <2>2, EndsTypes DEF RecipientRefused, GateTypeOK
<1>9. CASE Answers(r)
  <2> DEFINE type == IF job[r].by = None THEN "mock" ELSE TypeOf[job[r].by]
  <2>1. type \in Types
    BY <1>f DEF Types
  <2>2. job' \in [Requests -> Job]
    <3>1. [job[r] EXCEPT !.pc = "answered", !.told = type] \in Job
      BY <2>1, <1>t, <1>p, JobMoves
    <3> QED BY <1>9, <3>1, <1>t, MovesTypes DEF Answers
  <2>3. \/ stored' \in {type, stored} /\ UNCHANGED <<forgot, slips>>
        \/ Slip /\ forgot' = TRUE /\ stored' = stored
    BY <1>9 DEF Answers
  <2>4. slips' \in Nat /\ stored' \in Types \union {None}
    BY <2>1, <2>3, <1>t DEF Slip
  <2>5. forgot' \in BOOLEAN
    BY <2>3 DEF GateTypeOK
  <2> QED BY <1>9, <2>2, <2>4, <2>5 DEF Answers, GateTypeOK
<1>10. CASE AnswerLost(r)
  <2>1. job' \in [Requests -> Job]
    BY <1>10, <1>n, <1>t, MovesTypes DEF AnswerLost
  <2>2. slips' \in Nat /\ missed' \in [Connections -> Nat]
    BY <1>10 DEF AnswerLost, Slip, GateTypeOK
  <2> QED BY <1>10, <2>1, <2>2 DEF AnswerLost, GateTypeOK
<1>11. CASE CountSend(r)
  <2>1. /\ Moves(r, "answered", [NoJob EXCEPT !.pc = "done"])
        /\ email' = [email EXCEPT ![r] = "sent"]
        /\ Publish(r) \/ PublishFails(r)
        /\ slips' = slips \/ Slip
    BY <1>11 DEF CountSend
  <2>2. job' \in [Requests -> Job]
    BY <2>1, <1>n, <1>t, MovesTypes
  <2>3. PICK c : /\ used' = [d \in Connections |-> IF d = c THEN used[d] + 1 ELSE used[d]]
                 /\ own' = [d \in Connections |-> IF d = c /\ d = job[r].by THEN own[d] + 1 ELSE own[d]]
                 /\ missed' = [d \in Connections |-> IF d # c /\ d = job[r].by THEN missed[d] + 1 ELSE missed[d]]
    BY <1>11 DEF CountSend
  <2>4. used' \in [Connections -> Nat] /\ own' \in [Connections -> Nat] /\ missed' \in [Connections -> Nat]
    BY <2>3 DEF GateTypeOK
  <2>5. UNCHANGED <<pc, aged, unseen, engine, taken, peak, mcp, world>>
    BY <1>11 DEF CountSend
  <2>6. cloud' \in [Requests -> Report] /\ slips' \in Nat
    BY <2>1, PublishTypes DEF GateTypeOK, Slip
  <2> QED BY <2>1, <2>2, <2>4, <2>5, <2>6 DEF GateTypeOK
<1> QED BY <1>1, <1>2, <1>3, <1>4, <1>5, <1>6, <1>7, <1>8, <1>9, <1>10, <1>11 DEF JobSteps

(* What changes around them keeps the types.                               *)
LEMMA MoodTypes ==
  ASSUME GateTypeOK, MoodSteps
  PROVE  GateTypeOK'
<1> USE DEF GateTypeOK, Mood
<1>1. ASSUME NEW s \in {"plain", "typed"}, Suppress(s)  PROVE GateTypeOK'
  BY <1>1 DEF Suppress
<1>2. ASSUME NEW s \in {"plain", "typed"}, Unsuppress(s)  PROVE GateTypeOK'
  BY <1>2 DEF Unsuppress
<1>3. ASSUME NEW c \in Connections, ConnectionTurns(c)  PROVE GateTypeOK'
  BY <1>3 DEF ConnectionTurns
<1>4. CASE Midnight
  BY <1>4 DEF Midnight
<1>5. CASE KeysAge
  BY <1>5 DEF KeysAge
<1>6. CASE EntryExpires
  BY <1>6 DEF EntryExpires
<1> QED BY <1>1, <1>2, <1>3, <1>4, <1>5, <1>6 DEF MoodSteps

(* Every step keeps the types.                                             *)
LEMMA TypesKept ==
  ASSUME GateTypeOK, [GateNext]_gvars
  PROVE  GateTypeOK'
<1>1. ASSUME NEW r \in Requests, CloudSteps(r)  PROVE GateTypeOK'
  <2>1. cloud' \in [Requests -> Report] /\ slips' \in Nat
    BY <1>1, ReportTypes DEF CloudSteps, GateTypeOK
  <2> QED BY <1>1, <2>1 DEF CloudSteps, GateTypeOK
<1>2. CASE UNCHANGED gvars
  BY <1>2 DEF gvars, GateTypeOK
<1> QED BY <1>1, <1>2, RequestTypes, JobTypes, MoodTypes DEF GateNext

-----------------------------------------------------------------------------
(***************************************************************************)
(* Order: an email before its job, a connection before its message.        *)
(***************************************************************************)
(* The first of a new job's fields.                                        *)
LEMMA JobFields ==
  /\ NoJob.pc = "none" /\ NoJob.by = None /\ NoJob.routes = {}
  /\ \A r : Back(r).pc = "queued" /\ Back(r).by = None /\ Back(r).routes = {}
  /\ [NoJob EXCEPT !.pc = "done"].pc = "done" /\ [NoJob EXCEPT !.pc = "done"].by = None
BY DEF NoJob, Back

(* A request's steps keep the order.                                       *)
LEMMA RequestOrder ==
  ASSUME GateTypeOK, OrderInv, NEW r \in Requests, RequestSteps(r)
  PROVE  OrderInv'
<1>t. /\ pc \in [Requests -> GatePC] /\ job \in [Requests -> Job]
      /\ email \in [Requests -> {"none", "queued", "sent", "failed", "suppressed"}]
  BY DEF GateTypeOK
<1>1. ASSUME \/ Ask(r) \/ McpAdmits(r) \/ Replay(r) \/ LookupMiss(r) \/ PreflightPasses(r)
             \/ FindsClear(r) \/ McpRefuses(r) \/ PreflightRefuses(r) \/ PlanDenies(r)
             \/ CountMcp(r) \/ CountMcpFails(r) \/ PushFails(r)
      PROVE  OrderInv'
  <2>1. PICK from \in GatePC, to \in GatePC \ {"committed"} :
          /\ pc[r] = from /\ pc' = [pc EXCEPT ![r] = to]
          /\ to \in Early => from \in Early
    BY <1>1 DEF Ask, McpAdmits, Replay, LookupMiss, PreflightPasses, FindsClear, McpRefuses, PreflightRefuses,
                PlanDenies, CountMcp, CountMcpFails, PushFails, Goes, GatePC, Early, Succeeded
  <2>2. UNCHANGED <<email, job, posted>>
    BY <1>1 DEF Ask, McpAdmits, Replay, LookupMiss, PreflightPasses, FindsClear, McpRefuses, PreflightRefuses,
                PlanDenies, CountMcp, CountMcpFails, PushFails
  <2> QED BY <2>1, <2>2, <1>t DEF OrderInv
<1>2. CASE FindsSuppressed(r)
  BY <1>2, <1>t DEF FindsSuppressed, Goes, OrderInv, Early
<1>3. CASE Commit(r)
  BY <1>3, <1>t DEF Commit, Goes, OrderInv, Early
<1>4. ASSUME Push(r) \/ Requeue(r)
      PROVE  OrderInv'
  <2>1. /\ job[r].pc = "none" /\ email[r] = "queued" /\ job[r].by = None /\ pc[r] \notin Early
        /\ job' = [job EXCEPT ![r] = [job[r] EXCEPT !.pc = "queued"]]
        /\ UNCHANGED <<email, posted>>
    BY <1>4, <1>t DEF Push, Requeue, Goes, OrderInv, Early, sending, engine
  <2>2. job[r] \in Job /\ [job[r] EXCEPT !.pc = "queued"].pc = "queued" /\ [job[r] EXCEPT !.pc = "queued"].by = None
    BY <2>1, <1>t DEF Job
  <2>3. /\ job'[r].pc = "queued" /\ job'[r].by = None
        /\ \A s \in Requests \ {r} : job'[s] = job[s]
    BY <2>1, <2>2, <1>t
  <2>4. \A s \in Requests : /\ pc'[s] \in Early => pc[s] \in Early
                            /\ pc'[s] = "committed" => pc[s] = "committed" /\ s # r
    BY <1>4, <1>t DEF Push, Requeue, Goes, Early, Succeeded
  <2> QED BY <2>1, <2>3, <2>4 DEF OrderInv
<1> QED BY <1>1, <1>2, <1>3, <1>4 DEF RequestSteps

(* A job's steps keep the order.                                           *)
LEMMA JobOrder ==
  ASSUME GateTypeOK, OrderInv, NEW r \in Requests, JobSteps(r)
  PROVE  OrderInv'
<1>t. /\ job \in [Requests -> Job] /\ job[r] \in Job /\ posted \subseteq Requests
      /\ email \in [Requests -> {"none", "queued", "sent", "failed", "suppressed"}]
  BY DEF GateTypeOK
<1>j. /\ "sending" \in JobPC /\ "delivered" \in JobPC /\ "answered" \in JobPC
      /\ stored \in Types \union {None}
      /\ job[r].by \in Connections \union {None}
      /\ job[r].routes \subseteq Connections /\ job[r].tried \subseteq Connections
  BY <1>t DEF JobPC, GateTypeOK, Job
<1>p. pc' = pc
  BY DEF JobSteps, Resolve, ResolveNone, EngineReplays, EngineMisses, MockTakes, ProviderTakes,
         ProviderFails, RecipientRefused, Answers, AnswerLost, CountSend
<1>1. ASSUME ResolveNone(r) \/ RecipientRefused(r) \/ CountSend(r)
      PROVE  OrderInv'
  <2>1. /\ job[r].pc \notin {"none", "done"}
        /\ job' = [job EXCEPT ![r] = [NoJob EXCEPT !.pc = "done"]]
        /\ email' = [email EXCEPT ![r] = "sent"] \/ email' = [email EXCEPT ![r] = "failed"]
        /\ posted' = posted
    BY <1>1 DEF ResolveNone, RecipientRefused, CountSend, Moves, Ends
  <2>2. /\ job'[r].pc = "done" /\ job'[r].by = None
        /\ \A s \in Requests \ {r} : job'[s] = job[s] /\ email'[s] = email[s]
        /\ email'[r] \in {"sent", "failed"}
    BY <2>1, <1>t, JobFields
  <2>3. email[r] = "queued" /\ pc[r] \notin Early /\ pc[r] # "committed"
    BY <2>1 DEF OrderInv
  <2> QED BY <2>1, <2>2, <2>3, <1>p DEF OrderInv
<1>2. ASSUME NEW new \in Job, email' = email, posted' \subseteq posted \union {r},
             job[r].pc \notin {"none", "done"}, job' = [job EXCEPT ![r] = new],
             new.pc \notin {"none", "done"},
             new.by # None => new.pc \in {"delivered", "answered"} /\ new.by \in new.routes
      PROVE  OrderInv'
  <2>1. job'[r] = new /\ \A s \in Requests \ {r} : job'[s] = job[s]
    BY <1>2, <1>t
  <2>2. email[r] = "queued"
    BY <1>2 DEF OrderInv
  <2> QED BY <2>1, <2>2, <1>2, <1>p DEF OrderInv
<1>3. CASE Resolve(r)
  <2> DEFINE new == [NoJob EXCEPT !.pc = "resolved", !.routes = IF scene.mode = "demo" THEN {} ELSE Eligible]
  <2>1. new \in Job /\ new.pc = "resolved" /\ new.by = None
    <3>1. Eligible \in SUBSET Connections
      BY DEF Eligible, GateTypeOK
    <3> QED BY <3>1, NoJobType, JobMoves, JobFields DEF JobPC, NoJob
  <2> HIDE DEF new
  <2>2. job[r].pc = "queued" /\ job' = [job EXCEPT ![r] = new] /\ UNCHANGED <<email, posted>>
    BY <1>3 DEF Resolve, Moves, new
  <2> QED BY <2>1, <2>2, <1>2
<1>4. CASE EngineReplays(r)
  <2> DEFINE new == [job[r] EXCEPT !.pc = "answered", !.told = stored]
  <2>1. job[r].pc = "resolved" /\ job' = [job EXCEPT ![r] = new] /\ UNCHANGED <<email, posted>>
    BY <1>4 DEF EngineReplays, Moves
  <2>2. new \in Job
    BY <1>t, <1>j, JobMoves
  <2>2a. new.pc = "answered" /\ new.by = job[r].by
    BY <2>1, <1>t DEF Job
  <2>3. job[r].by = None
    BY <2>1 DEF OrderInv
  <2> HIDE DEF new
  <2> QED BY <2>1, <2>2, <2>2a, <2>3, <1>2
<1>5. ASSUME NEW p \in {"sending", "delivered"}, EngineMisses(r) \/ MockTakes(r),
             Moves(r, IF p = "sending" THEN "resolved" ELSE "sending", [job[r] EXCEPT !.pc = p])
      PROVE  OrderInv'
  <2> DEFINE new == [job[r] EXCEPT !.pc = p]
  <2>1. job[r].pc \in {"resolved", "sending"} /\ job' = [job EXCEPT ![r] = new]
    BY <1>5 DEF Moves
  <2>2. email' = email /\ posted' \subseteq posted \union {r}
    BY <1>5 DEF EngineMisses, MockTakes
  <2>3. new \in Job
    BY <1>t, <1>j, JobMoves
  <2>3a. new.pc = p /\ new.by = job[r].by
    BY <2>1, <1>t DEF Job
  <2>4. job[r].by = None
    BY <2>1 DEF OrderInv
  <2> HIDE DEF new
  <2> QED BY <2>1, <2>2, <2>3, <2>3a, <2>4, <1>2
<1>6. CASE ProviderTakes(r)
  <2> DEFINE left == job[r].routes \ job[r].tried
             new  == [job[r] EXCEPT !.pc = "delivered", !.by = First(left)]
  <2>1. /\ job[r].pc = "sending" /\ job' = [job EXCEPT ![r] = new] /\ left # {}
        /\ email' = email /\ posted' \subseteq posted \union {r}
    BY <1>6 DEF ProviderTakes, Moves
  <2>2. First(left) \in left /\ job[r].routes \subseteq Connections
    BY <2>1, <1>t, FirstOfChain DEF Job
  <2>3. new \in Job
    BY <2>2, <1>t, <1>j, JobMoves
  <2>3a. new.pc = "delivered" /\ new.by = First(left) /\ new.routes = job[r].routes
    BY <2>1, <1>t DEF Job
  <2>4. new.by \in new.routes
    BY <2>2, <2>3a
  <2> HIDE DEF new
  <2> QED BY <2>1, <2>3, <2>3a, <2>4, <1>2
<1>7. CASE ProviderFails(r)
  <2> DEFINE left == job[r].routes \ job[r].tried
             next == [job[r] EXCEPT !.tried = job[r].tried \union {First(left)}]
  <2>1. /\ job[r].pc = "sending" /\ left # {} /\ UNCHANGED <<email, posted>>
        /\ job' = [job EXCEPT ![r] = next] \/ job' = [job EXCEPT ![r] = Back(r)]
    BY <1>7 DEF ProviderFails, Moves
  <2>2. First(left) \in left /\ job[r].routes \subseteq Connections /\ job[r].tried \subseteq Connections
    BY <2>1, <1>t, FirstOfChain DEF Job
  <2>3. next \in Job
    BY <2>1, <2>2, <1>t, <1>j, JobMoves
  <2>3a. next.pc = "sending" /\ next.by = job[r].by
    BY <2>1, <1>t DEF Job
  <2>4. Back(r) \in Job
    BY NoJobType, JobMoves DEF Back, JobPC
  <2>5. job[r].by = None
    BY <2>1 DEF OrderInv
  <2> HIDE DEF next
  <2> QED BY <2>1, <2>3, <2>3a, <2>4, <2>5, JobFields, <1>2
<1>8. CASE Answers(r)
  <2> DEFINE type == IF job[r].by = None THEN "mock" ELSE TypeOf[job[r].by]
             new  == [job[r] EXCEPT !.pc = "answered", !.told = type]
  <2>1. job[r].pc = "delivered" /\ job' = [job EXCEPT ![r] = new] /\ UNCHANGED <<email, posted>>
    BY <1>8 DEF Answers, Moves
  <2>2. type \in Types
    BY <1>j DEF Types
  <2>3. new \in Job
    BY <2>2, <1>t, <1>j, JobMoves
  <2>3a. new.pc = "answered" /\ new.by = job[r].by /\ new.routes = job[r].routes
    BY <2>1, <1>t DEF Job
  <2>4. job[r].by # None => job[r].by \in job[r].routes
    BY DEF OrderInv
  <2> HIDE DEF new
  <2> QED BY <2>1, <2>3, <2>3a, <2>4, <1>2
<1>9. CASE AnswerLost(r)
  <2>1. job[r].pc = "answered" /\ job' = [job EXCEPT ![r] = Back(r)] /\ UNCHANGED <<email, posted>>
    BY <1>9 DEF AnswerLost, Moves
  <2>2. Back(r) \in Job
    BY NoJobType, JobMoves DEF Back, JobPC
  <2> QED BY <2>1, <2>2, JobFields, <1>2
<1>10. CASE EngineMisses(r)
  BY <1>10, <1>5 DEF EngineMisses
<1>11. CASE MockTakes(r)
  BY <1>11, <1>5 DEF MockTakes
<1> QED BY <1>1, <1>3, <1>4, <1>6, <1>7, <1>8, <1>9, <1>10, <1>11 DEF JobSteps

(* Every step keeps the order.                                             *)
LEMMA OrderKept ==
  ASSUME GateTypeOK, OrderInv, [GateNext]_gvars
  PROVE  OrderInv'
<1>1. ASSUME NEW r \in Requests, CloudSteps(r)  PROVE OrderInv'
  BY <1>1 DEF CloudSteps, OrderInv
<1>2. CASE MoodSteps
  BY <1>2 DEF MoodSteps, Suppress, Unsuppress, ConnectionTurns, Midnight, KeysAge, EntryExpires, OrderInv
<1>3. CASE UNCHANGED gvars
  BY <1>3 DEF gvars, OrderInv
<1> QED BY <1>1, <1>2, <1>3, RequestOrder, JobOrder DEF GateNext

-----------------------------------------------------------------------------
(***************************************************************************)
(* Quotas: who holds a connection, and whose message it took.              *)
(***************************************************************************)
One(b) == IF b THEN 1 ELSE 0

Holds(j, c) == j.pc \in Underway /\ c \in j.routes
Took(j, c)  == j.pc \in {"delivered", "answered"} /\ j.by = c

(* A set that changes at one request changes its size by that request.     *)
LEMMA SizeMoves ==
  ASSUME NEW S \in SUBSET Requests, NEW T \in SUBSET Requests, NEW r \in Requests,
         \A s \in Requests \ {r} : s \in T <=> s \in S
  PROVE  /\ Cardinality(S) \in Nat /\ Cardinality(T) \in Nat
         /\ Cardinality(T) = Cardinality(S) + One(r \in T) - One(r \in S)
<1>1. Cardinality(S) \in Nat /\ Cardinality(T) \in Nat
  BY RequestsFinite
<1>2. CASE r \in T
  <2>1. T = S \union {r}
    BY <1>2
  <2> QED BY <1>1, <1>2, <2>1, OneMore DEF One
<1>3. CASE r \notin T
  <2>1. T = S \ {r}
    BY <1>3
  <2> QED BY <1>1, <1>3, <2>1, OneLess DEF One
<1> QED BY <1>2, <1>3

(* So the step of a job changes who holds a connection.                    *)
LEMMA HoldersMove ==
  ASSUME job \in [Requests -> Job], NEW r \in Requests, NEW new, NEW c \in Connections,
         job' = [job EXCEPT ![r] = new]
  PROVE  /\ Cardinality(Holders(c)) \in Nat /\ Cardinality(Holders(c)') \in Nat
         /\ Cardinality(Takers(c)) \in Nat /\ Cardinality(Takers(c)') \in Nat
         /\ Cardinality(Holders(c)') = Cardinality(Holders(c)) + One(Holds(new, c)) - One(Holds(job[r], c))
         /\ Cardinality(Takers(c)') = Cardinality(Takers(c)) + One(Took(new, c)) - One(Took(job[r], c))
<1>1. job'[r] = new /\ \A s \in Requests \ {r} : job'[s] = job[s]
  OBVIOUS
<1>2. /\ Holders(c) \in SUBSET Requests /\ Holders(c)' \in SUBSET Requests
      /\ \A s \in Requests \ {r} : s \in Holders(c)' <=> s \in Holders(c)
      /\ r \in Holders(c)' <=> Holds(new, c)
      /\ r \in Holders(c) <=> Holds(job[r], c)
  BY <1>1 DEF Holders, Holds
<1>3. /\ Takers(c) \in SUBSET Requests /\ Takers(c)' \in SUBSET Requests
      /\ \A s \in Requests \ {r} : s \in Takers(c)' <=> s \in Takers(c)
      /\ r \in Takers(c)' <=> Took(new, c)
      /\ r \in Takers(c) <=> Took(job[r], c)
  BY <1>1 DEF Takers, Took
<1>4. Cardinality(Holders(c)') = Cardinality(Holders(c)) + One(r \in Holders(c)') - One(r \in Holders(c))
  BY <1>2, SizeMoves
<1>5. Cardinality(Takers(c)') = Cardinality(Takers(c)) + One(r \in Takers(c)') - One(r \in Takers(c))
  BY <1>3, SizeMoves
<1> QED BY <1>2, <1>3, <1>4, <1>5, RequestsFinite DEF One

(* Where nobody starts or stops to hold, and nobody takes, nothing changes.*)
LEMMA QuotaStays ==
  ASSUME GateTypeOK, QuotaInv, NEW r \in Requests, NEW new, job' = [job EXCEPT ![r] = new],
         UNCHANGED counts,
         \A c \in Connections : /\ Holds(new, c) => Holds(job[r], c)
                                /\ Took(new, c) <=> Took(job[r], c)
  PROVE  QuotaInv'
<1>1. SUFFICES ASSUME NEW c \in Connections
               PROVE  /\ own[c] <= used[c]
                      /\ Cardinality(Holders(c)') <= peak[c]
                      /\ own[c] + Cardinality(Holders(c)') <= (DailyCap - 1) + peak[c]
                      /\ taken[c] <= own[c] + Cardinality(Takers(c)') + missed[c]
  BY DEF QuotaInv
<1>2. /\ Cardinality(Holders(c)) \in Nat /\ Cardinality(Holders(c)') \in Nat
      /\ Cardinality(Takers(c)) \in Nat /\ Cardinality(Takers(c)') \in Nat
      /\ Cardinality(Holders(c)') = Cardinality(Holders(c)) + One(Holds(new, c)) - One(Holds(job[r], c))
      /\ Cardinality(Takers(c)') = Cardinality(Takers(c)) + One(Took(new, c)) - One(Took(job[r], c))
  BY HoldersMove DEF GateTypeOK
<1>3. Cardinality(Holders(c)') <= Cardinality(Holders(c)) /\ Cardinality(Takers(c)') = Cardinality(Takers(c))
  BY <1>2 DEF One
<1>4. /\ own[c] <= used[c]
      /\ Cardinality(Holders(c)) <= peak[c]
      /\ own[c] + Cardinality(Holders(c)) <= (DailyCap - 1) + peak[c]
      /\ taken[c] <= own[c] + Cardinality(Takers(c)) + missed[c]
  BY DEF QuotaInv
<1>5. /\ own[c] \in Nat /\ used[c] \in Nat /\ peak[c] \in Nat /\ taken[c] \in Nat /\ missed[c] \in Nat
      /\ DailyCap \in Nat
  BY GateAssumption DEF GateTypeOK, GateAssumption
<1> QED BY <1>2, <1>3, <1>4, <1>5

(* A job's steps keep the quotas.                                          *)
LEMMA JobQuota ==
  ASSUME GateTypeOK, OrderInv, QuotaInv, NEW r \in Requests, JobSteps(r)
  PROVE  QuotaInv'
<1>t. /\ job \in [Requests -> Job] /\ job[r] \in Job /\ NoJob \in Job
      /\ used \in [Connections -> Nat] /\ taken \in [Connections -> Nat] /\ own \in [Connections -> Nat]
      /\ missed \in [Connections -> Nat] /\ peak \in [Connections -> Nat]
      /\ None \notin Connections /\ DailyCap \in Nat \ {0}
  BY NoJobType, GateAssumption DEF GateTypeOK, GateAssumption
<1>b. /\ job[r].pc \notin {"delivered", "answered"} => job[r].by = None
      /\ job[r].by # None => job[r].by \in job[r].routes
  BY DEF OrderInv
<1>n. ASSUME NEW c \in Connections
      PROVE  /\ ~Holds([NoJob EXCEPT !.pc = "done"], c) /\ ~Took([NoJob EXCEPT !.pc = "done"], c)
             /\ ~Holds(Back(r), c) /\ ~Took(Back(r), c)
  BY JobFields DEF Holds, Took, Underway
<1>q. ASSUME NEW c \in Connections
      PROVE  /\ own[c] <= used[c] /\ Cardinality(Holders(c)) <= peak[c]
             /\ own[c] + Cardinality(Holders(c)) <= (DailyCap - 1) + peak[c]
             /\ taken[c] <= own[c] + Cardinality(Takers(c)) + missed[c]
             /\ own[c] \in Nat /\ used[c] \in Nat /\ peak[c] \in Nat /\ taken[c] \in Nat /\ missed[c] \in Nat
  BY <1>t DEF QuotaInv
<1>1. CASE Resolve(r)
  <2> DEFINE new == [NoJob EXCEPT !.pc = "resolved", !.routes = IF scene.mode = "demo" THEN {} ELSE Eligible]
  <2>1. /\ job[r].pc = "queued" /\ job' = [job EXCEPT ![r] = new]
        /\ UNCHANGED <<used, taken, own, missed>>
        /\ peak' = [c \in Connections |-> Larger(peak[c], Cardinality(Holders(c)'))]
    BY <1>1 DEF Resolve, Moves
  <2>2. new.routes \subseteq Eligible /\ new.by = None
    BY DEF NoJob
  <2> HIDE DEF new
  <2>3. ASSUME NEW c \in Connections
        PROVE  /\ own'[c] <= used'[c] /\ Cardinality(Holders(c)') <= peak'[c]
               /\ own'[c] + Cardinality(Holders(c)') <= (DailyCap - 1) + peak'[c]
               /\ taken'[c] <= own'[c] + Cardinality(Takers(c)') + missed'[c]
    <3>1. /\ Cardinality(Holders(c)) \in Nat /\ Cardinality(Holders(c)') \in Nat
          /\ Cardinality(Takers(c)) \in Nat /\ Cardinality(Takers(c)') \in Nat
          /\ Cardinality(Holders(c)') = Cardinality(Holders(c)) + One(Holds(new, c)) - One(Holds(job[r], c))
          /\ Cardinality(Takers(c)') = Cardinality(Takers(c)) + One(Took(new, c)) - One(Took(job[r], c))
      BY <2>1, <1>t, HoldersMove
    <3>2. ~Took(new, c) /\ ~Took(job[r], c) /\ ~Holds(job[r], c)
      BY <2>1, <2>2, <1>t DEF Took, Holds, Underway
    <3>3. Cardinality(Takers(c)') = Cardinality(Takers(c))
      BY <3>1, <3>2 DEF One
    <3>4. peak'[c] = Larger(peak[c], Cardinality(Holders(c)'))
      BY <2>1
    <3>5. peak'[c] >= peak[c] /\ peak'[c] >= Cardinality(Holders(c)') /\ peak'[c] \in Nat
      BY <3>1, <3>4, <1>q DEF Larger
    <3>6. CASE Holds(new, c)
      <4>1. DailyCap - used[c] >= 1
        BY <3>6, <2>2 DEF Holds, Eligible, HasHeadroom
      <4> QED BY <4>1, <3>1, <3>3, <3>5, <2>1, <1>q, <1>t
    <3>7. CASE ~Holds(new, c)
      <4>1. Cardinality(Holders(c)') = Cardinality(Holders(c))
        BY <3>1, <3>2, <3>7 DEF One
      <4>2. /\ own'[c] = own[c] /\ used'[c] = used[c] /\ taken'[c] = taken[c] /\ missed'[c] = missed[c]
            /\ DailyCap \in Nat
        BY <2>1, <1>t
      <4>3. own'[c] + Cardinality(Holders(c)') <= (DailyCap - 1) + peak'[c]
        <5>1. own[c] + Cardinality(Holders(c)) <= (DailyCap - 1) + peak[c] /\ own[c] \in Nat /\ peak[c] \in Nat
          BY <1>q
        <5> QED BY <5>1, <4>1, <4>2, <3>1, <3>5
      <4> QED BY <4>1, <4>2, <4>3, <3>1, <3>3, <3>5, <1>q
    <3> QED BY <3>6, <3>7
  <2> QED BY <2>3 DEF QuotaInv
<1>2. ASSUME ResolveNone(r) \/ RecipientRefused(r)
      PROVE  QuotaInv'
  <2>1. /\ job[r].pc \in {"queued", "sending"} /\ UNCHANGED counts
        /\ job' = [job EXCEPT ![r] = [NoJob EXCEPT !.pc = "done"]]
    BY <1>2 DEF ResolveNone, RecipientRefused, Moves
  <2>2. \A c \in Connections : ~Took(job[r], c)
    BY <2>1 DEF Took
  <2> QED BY <2>1, <2>2, <1>n, QuotaStays
<1>3. ASSUME EngineReplays(r) \/ EngineMisses(r) \/ MockTakes(r)
      PROVE  QuotaInv'
  <2>1. /\ UNCHANGED counts /\ job[r].pc \in {"resolved", "sending"}
        /\ \/ job' = [job EXCEPT ![r] = [job[r] EXCEPT !.pc = "answered", !.told = stored]]
           \/ \E p \in {"sending", "delivered"} : job' = [job EXCEPT ![r] = [job[r] EXCEPT !.pc = p]]
    BY <1>3 DEF EngineReplays, EngineMisses, MockTakes, Moves
  <2>2. ASSUME NEW new, new.routes = job[r].routes, new.by = job[r].by, job' = [job EXCEPT ![r] = new]
        PROVE  QuotaInv'
    <3>1. \A c \in Connections : /\ Holds(new, c) => Holds(job[r], c)
                                 /\ Took(new, c) <=> Took(job[r], c)
      BY <2>1, <2>2, <1>b, <1>t DEF Holds, Took, Underway
    <3> QED BY <2>1, <2>2, <3>1, QuotaStays
  <2>3. CASE job' = [job EXCEPT ![r] = [job[r] EXCEPT !.pc = "answered", !.told = stored]]
    <3> DEFINE new == [job[r] EXCEPT !.pc = "answered", !.told = stored]
    <3>1. new.routes = job[r].routes /\ new.by = job[r].by
      BY <1>t DEF Job
    <3> QED BY <2>2, <2>3, <3>1
  <2>4. ASSUME NEW p \in {"sending", "delivered"}, job' = [job EXCEPT ![r] = [job[r] EXCEPT !.pc = p]]
        PROVE  QuotaInv'
    <3> DEFINE new == [job[r] EXCEPT !.pc = p]
    <3>1. new.routes = job[r].routes /\ new.by = job[r].by
      BY <1>t DEF Job
    <3> QED BY <2>2, <2>4, <3>1
  <2> QED BY <2>1, <2>3, <2>4
<1>4. CASE Answers(r)
  <2> DEFINE type == IF job[r].by = None THEN "mock" ELSE TypeOf[job[r].by]
             new  == [job[r] EXCEPT !.pc = "answered", !.told = type]
  <2>1. job[r].pc = "delivered" /\ job' = [job EXCEPT ![r] = new] /\ UNCHANGED counts
    BY <1>4 DEF Answers, Moves
  <2>2. new.routes = job[r].routes /\ new.by = job[r].by /\ new.pc = "answered"
    BY <1>t DEF Job
  <2> HIDE DEF new
  <2>3. \A c \in Connections : /\ Holds(new, c) => Holds(job[r], c)
                               /\ Took(new, c) <=> Took(job[r], c)
    BY <2>1, <2>2 DEF Holds, Took, Underway
  <2> QED BY <2>1, <2>3, QuotaStays
<1>5. CASE ProviderFails(r)
  <2> DEFINE left == job[r].routes \ job[r].tried
             next == [job[r] EXCEPT !.tried = job[r].tried \union {First(left)}]
  <2>1. /\ job[r].pc = "sending" /\ UNCHANGED counts
        /\ job' = [job EXCEPT ![r] = next] \/ job' = [job EXCEPT ![r] = Back(r)]
    BY <1>5 DEF ProviderFails, Moves
  <2>2. next.routes = job[r].routes /\ next.by = job[r].by /\ next.pc = job[r].pc
    BY <1>t DEF Job
  <2> HIDE DEF next
  <2>3. \A c \in Connections : /\ Holds(next, c) => Holds(job[r], c)
                               /\ ~Took(next, c) /\ ~Took(job[r], c)
    BY <2>1, <2>2 DEF Holds, Took
  <2> QED BY <2>1, <2>3, <1>n, QuotaStays
<1>6. CASE ProviderTakes(r)
  <2> DEFINE left == job[r].routes \ job[r].tried
             new  == [job[r] EXCEPT !.pc = "delivered", !.by = First(left)]
  <2>1. /\ job[r].pc = "sending" /\ job' = [job EXCEPT ![r] = new] /\ left # {}
        /\ UNCHANGED <<used, own, missed, peak>>
        /\ taken' = [taken EXCEPT ![First(left)] = taken[First(left)] + 1]
    BY <1>6 DEF ProviderTakes, Moves
  <2>2. /\ new.routes = job[r].routes /\ new.by = First(left) /\ new.pc = "delivered"
        /\ job[r].routes \subseteq Connections
    BY <1>t DEF Job
  <2>3. First(left) \in Connections
    BY <2>1, <2>2, FirstOfChain
  <2> HIDE DEF new
  <2>4. ASSUME NEW c \in Connections
        PROVE  /\ own'[c] <= used'[c] /\ Cardinality(Holders(c)') <= peak'[c]
               /\ own'[c] + Cardinality(Holders(c)') <= (DailyCap - 1) + peak'[c]
               /\ taken'[c] <= own'[c] + Cardinality(Takers(c)') + missed'[c]
    <3>1. /\ Cardinality(Holders(c)) \in Nat /\ Cardinality(Holders(c)') \in Nat
          /\ Cardinality(Takers(c)) \in Nat /\ Cardinality(Takers(c)') \in Nat
          /\ Cardinality(Holders(c)') = Cardinality(Holders(c)) + One(Holds(new, c)) - One(Holds(job[r], c))
          /\ Cardinality(Takers(c)') = Cardinality(Takers(c)) + One(Took(new, c)) - One(Took(job[r], c))
      BY <2>1, <1>t, HoldersMove
    <3>2. (Holds(new, c) <=> Holds(job[r], c)) /\ ~Took(job[r], c) /\ (Took(new, c) <=> First(left) = c)
      BY <2>1, <2>2 DEF Took, Holds, Underway
    <3>3. /\ Cardinality(Holders(c)') = Cardinality(Holders(c))
          /\ Cardinality(Takers(c)') = Cardinality(Takers(c)) + One(First(left) = c)
      BY <3>1, <3>2 DEF One
    <3>4. taken'[c] = taken[c] + One(First(left) = c)
      BY <2>1, <2>3, <1>t DEF One
    <3>5. One(First(left) = c) \in Nat
      BY DEF One
    <3> QED BY <3>1, <3>3, <3>4, <3>5, <2>1, <1>q, <1>t
  <2> QED BY <2>4 DEF QuotaInv
<1>7. CASE AnswerLost(r)
  <2>1. /\ job[r].pc = "answered" /\ job' = [job EXCEPT ![r] = Back(r)]
        /\ missed' = [c \in Connections |-> IF c = job[r].by THEN missed[c] + 1 ELSE missed[c]]
        /\ UNCHANGED <<used, own, taken, peak>>
    BY <1>7 DEF AnswerLost, Moves
  <2>2. ASSUME NEW c \in Connections
        PROVE  /\ own'[c] <= used'[c] /\ Cardinality(Holders(c)') <= peak'[c]
               /\ own'[c] + Cardinality(Holders(c)') <= (DailyCap - 1) + peak'[c]
               /\ taken'[c] <= own'[c] + Cardinality(Takers(c)') + missed'[c]
    <3>1. /\ Cardinality(Holders(c)) \in Nat /\ Cardinality(Holders(c)') \in Nat
          /\ Cardinality(Takers(c)) \in Nat /\ Cardinality(Takers(c)') \in Nat
          /\ Cardinality(Holders(c)') = Cardinality(Holders(c)) + One(Holds(Back(r), c)) - One(Holds(job[r], c))
          /\ Cardinality(Takers(c)') = Cardinality(Takers(c)) + One(Took(Back(r), c)) - One(Took(job[r], c))
      BY <2>1, <1>t, HoldersMove
    <3>2. Took(job[r], c) <=> job[r].by = c
      BY <2>1 DEF Took
    <3>3. /\ Cardinality(Holders(c)') <= Cardinality(Holders(c))
          /\ Cardinality(Takers(c)') = Cardinality(Takers(c)) - One(job[r].by = c)
      BY <3>1, <3>2, <1>n DEF One
    <3>4. missed'[c] = missed[c] + One(job[r].by = c)
      BY <2>1, <1>t DEF One
    <3>5. One(job[r].by = c) \in Nat
      BY DEF One
    <3> QED BY <3>1, <3>3, <3>4, <3>5, <2>1, <1>q, <1>t
  <2> QED BY <2>2 DEF QuotaInv
<1>8. CASE CountSend(r)
  <2>1. PICK d : /\ used' = [c \in Connections |-> IF c = d THEN used[c] + 1 ELSE used[c]]
                 /\ own' = [c \in Connections |-> IF c = d /\ c = job[r].by THEN own[c] + 1 ELSE own[c]]
                 /\ missed' = [c \in Connections |-> IF c # d /\ c = job[r].by THEN missed[c] + 1 ELSE missed[c]]
    BY <1>8 DEF CountSend
  <2>2. /\ job[r].pc = "answered" /\ job' = [job EXCEPT ![r] = [NoJob EXCEPT !.pc = "done"]]
        /\ UNCHANGED <<taken, peak>>
    BY <1>8 DEF CountSend, Moves
  <2>3. ASSUME NEW c \in Connections
        PROVE  /\ own'[c] <= used'[c] /\ Cardinality(Holders(c)') <= peak'[c]
               /\ own'[c] + Cardinality(Holders(c)') <= (DailyCap - 1) + peak'[c]
               /\ taken'[c] <= own'[c] + Cardinality(Takers(c)') + missed'[c]
    <3> DEFINE end == [NoJob EXCEPT !.pc = "done"]
    <3> HIDE DEF end
    <3>1. /\ Cardinality(Holders(c)) \in Nat /\ Cardinality(Holders(c)') \in Nat
          /\ Cardinality(Takers(c)) \in Nat /\ Cardinality(Takers(c)') \in Nat
          /\ Cardinality(Holders(c)') = Cardinality(Holders(c)) + One(Holds(end, c)) - One(Holds(job[r], c))
          /\ Cardinality(Takers(c)') = Cardinality(Takers(c)) + One(Took(end, c)) - One(Took(job[r], c))
      BY <2>2, <1>t, HoldersMove DEF end
    <3>2. /\ Took(job[r], c) <=> job[r].by = c
          /\ job[r].by = c => Holds(job[r], c)
      BY <2>2, <1>b, <1>t DEF Took, Holds, Underway
    <3>3. ~Holds(end, c) /\ ~Took(end, c)
      BY <1>n DEF end
    <3>4. /\ Cardinality(Holders(c)') <= Cardinality(Holders(c)) - One(job[r].by = c)
          /\ Cardinality(Takers(c)') = Cardinality(Takers(c)) - One(job[r].by = c)
      BY <3>1, <3>2, <3>3 DEF One
    <3>5. used'[c] = used[c] + One(c = d) /\ own'[c] = own[c] + One(c = d /\ job[r].by = c)
          /\ missed'[c] = missed[c] + One(c # d /\ job[r].by = c)
      BY <2>1, <1>q DEF One
    <3>6. CASE job[r].by = c /\ c = d
      BY <3>1, <3>4, <3>5, <3>6, <2>2, <1>q, <1>t DEF One
    <3>7. CASE job[r].by = c /\ c # d
      BY <3>1, <3>4, <3>5, <3>7, <2>2, <1>q, <1>t DEF One
    <3>8. CASE job[r].by # c
      BY <3>1, <3>4, <3>5, <3>8, <2>2, <1>q, <1>t DEF One
    <3> QED BY <3>6, <3>7, <3>8
  <2> QED BY <2>3 DEF QuotaInv
<1> QED BY <1>1, <1>2, <1>3, <1>4, <1>5, <1>6, <1>7, <1>8 DEF JobSteps

(* A request's steps keep the quotas: a job that is pushed holds nothing.  *)
LEMMA RequestQuota ==
  ASSUME GateTypeOK, OrderInv, QuotaInv, NEW r \in Requests, RequestSteps(r)
  PROVE  QuotaInv'
<1>1. CASE job' = job
  <2>1. UNCHANGED counts
    BY DEF RequestSteps, Ask, McpAdmits, McpRefuses, Replay, LookupMiss, PreflightPasses, PreflightRefuses,
           FindsSuppressed, FindsClear, PlanDenies, Commit, Push, PushFails, Requeue, CountMcp, CountMcpFails
  <2> QED BY <1>1, <2>1 DEF QuotaInv, Holders, Takers
<1>2. ASSUME Push(r) \/ Requeue(r)
      PROVE  QuotaInv'
  <2> DEFINE new == [job[r] EXCEPT !.pc = "queued"]
  <2>1. job' = [job EXCEPT ![r] = new] /\ UNCHANGED counts /\ job[r].pc = "none" /\ job[r] \in Job
    BY <1>2 DEF Push, Requeue, Goes, OrderInv, GateTypeOK
  <2>2. new.pc = "queued"
    BY <2>1 DEF Job
  <2> HIDE DEF new
  <2>3. \A c \in Connections : ~Holds(new, c) /\ ~Took(new, c) /\ ~Took(job[r], c)
    BY <2>1, <2>2 DEF Holds, Took, Underway
  <2> QED BY <2>1, <2>3, QuotaStays
<1> QED BY <1>1, <1>2 DEF RequestSteps, Ask, McpAdmits, McpRefuses, Replay, LookupMiss, PreflightPasses,
           PreflightRefuses, FindsSuppressed, FindsClear, PlanDenies, Commit, PushFails, CountMcp, CountMcpFails

(* Every step keeps the quotas; midnight, since a peak is at least what is *)
(* on the way.                                                             *)
LEMMA QuotaKept ==
  ASSUME GateTypeOK, OrderInv, QuotaInv, [GateNext]_gvars
  PROVE  QuotaInv'
<1>1. ASSUME UNCHANGED <<job, counts>>  PROVE QuotaInv'
  BY <1>1 DEF QuotaInv, Holders, Takers
<1>2. CASE Midnight
  <2>1. ASSUME NEW c \in Connections
        PROVE  /\ own'[c] <= used'[c] /\ Cardinality(Holders(c)') <= peak'[c]
               /\ own'[c] + Cardinality(Holders(c)') <= (DailyCap - 1) + peak'[c]
               /\ taken'[c] <= own'[c] + Cardinality(Takers(c)') + missed'[c]
    <3>1. /\ used'[c] = 0 /\ taken'[c] = 0 /\ own'[c] = 0 /\ missed'[c] = 0 /\ peak' = peak
          /\ Holders(c)' = Holders(c) /\ Takers(c)' = Takers(c)
      BY <1>2 DEF Midnight, Holders, Takers
    <3>2. Cardinality(Holders(c)) \in Nat /\ Cardinality(Takers(c)) \in Nat
      BY RequestsFinite DEF Holders, Takers
    <3>3. Cardinality(Holders(c)) <= peak[c] /\ peak[c] \in Nat /\ DailyCap \in Nat \ {0}
      BY GateAssumption DEF QuotaInv, GateTypeOK, GateAssumption
    <3> QED BY <3>1, <3>2, <3>3
  <2> QED BY <2>1 DEF QuotaInv
<1>3. CASE MoodSteps /\ ~Midnight
  BY <1>1, <1>3 DEF MoodSteps, Suppress, Unsuppress, ConnectionTurns, KeysAge, EntryExpires
<1>4. ASSUME NEW r \in Requests, CloudSteps(r)  PROVE QuotaInv'
  BY <1>1, <1>4 DEF CloudSteps
<1>5. CASE UNCHANGED gvars
  BY <1>1, <1>5 DEF gvars
<1> QED BY <1>2, <1>3, <1>4, <1>5, RequestQuota, JobQuota DEF GateNext

-----------------------------------------------------------------------------
(***************************************************************************)
(* The cap of the MCP connection.                                          *)
(***************************************************************************)
Flies(r) == r \in Via("mcp") /\ pc[r] \in OnTheWay
IsMade(r) == r \in Via("mcp") /\ email[r] \in {"queued", "sent", "failed"}

(* A step of one request changes the two sets by that request.             *)
LEMMA FlightMoves ==
  ASSUME GateTypeOK, NEW r \in Requests, scene' = scene,
         \A s \in Requests \ {r} : pc'[s] = pc[s] /\ email'[s] = email[s]
  PROVE  /\ Cardinality(Flight) \in Nat /\ Cardinality(Flight') \in Nat
         /\ Cardinality(Made) \in Nat /\ Cardinality(Made') \in Nat
         /\ Cardinality(Made \intersect Flight) \in Nat /\ Cardinality((Made \intersect Flight)') \in Nat
         /\ Cardinality(Flight') = Cardinality(Flight) + One(Flies(r)') - One(Flies(r))
         /\ Cardinality(Made') = Cardinality(Made) + One(IsMade(r)') - One(IsMade(r))
         /\ Cardinality((Made \intersect Flight)') = Cardinality(Made \intersect Flight)
              + One((IsMade(r) /\ Flies(r))') - One(IsMade(r) /\ Flies(r))
<1>0. Via("mcp")' = Via("mcp") /\ Via("mcp") \subseteq Requests
  BY DEF Via
<1>1. /\ Flight \in SUBSET Requests /\ Flight' \in SUBSET Requests
      /\ \A s \in Requests \ {r} : s \in Flight' <=> s \in Flight
      /\ (r \in Flight' <=> Flies(r)') /\ (r \in Flight <=> Flies(r))
  BY <1>0 DEF Flight, Flies
<1>2. /\ Made \in SUBSET Requests /\ Made' \in SUBSET Requests
      /\ \A s \in Requests \ {r} : s \in Made' <=> s \in Made
      /\ (r \in Made' <=> IsMade(r)') /\ (r \in Made <=> IsMade(r))
  BY <1>0 DEF Made, IsMade
<1>3. Cardinality(Flight') = Cardinality(Flight) + One(r \in Flight') - One(r \in Flight)
  BY <1>1, SizeMoves
<1>4. Cardinality(Made') = Cardinality(Made) + One(r \in Made') - One(r \in Made)
  BY <1>2, SizeMoves
<1>5. /\ Made \intersect Flight \in SUBSET Requests /\ (Made \intersect Flight)' \in SUBSET Requests
      /\ \A s \in Requests \ {r} : s \in (Made \intersect Flight)' <=> s \in (Made \intersect Flight)
      /\ r \in (Made \intersect Flight)' <=> (IsMade(r) /\ Flies(r))'
      /\ r \in (Made \intersect Flight) <=> IsMade(r) /\ Flies(r)
  BY <1>1, <1>2
<1>6. Cardinality((Made \intersect Flight)') = Cardinality(Made \intersect Flight)
        + One(r \in (Made \intersect Flight)') - One(r \in (Made \intersect Flight))
  BY <1>5, SizeMoves
<1> QED BY <1>1, <1>2, <1>3, <1>4, <1>5, <1>6, RequestsFinite DEF One

(* A request's steps keep the cap.                                         *)
LEMMA RequestMcp ==
  ASSUME GateTypeOK, OrderInv, McpInv, NEW r \in Requests, RequestSteps(r)
  PROVE  McpInv'
<1>t. /\ pc \in [Requests -> GatePC]
      /\ email \in [Requests -> {"none", "queued", "sent", "failed", "suppressed"}]
      /\ total \in Nat /\ flown \in Nat /\ untold \in Nat /\ RunCap \in Nat \ {0}
  BY GateAssumption DEF GateTypeOK, GateAssumption
<1>s. /\ scene' = scene
      /\ \A s \in Requests \ {r} : pc'[s] = pc[s] /\ email'[s] = email[s]
  BY <1>t DEF RequestSteps, Ask, McpAdmits, McpRefuses, Replay, LookupMiss, PreflightPasses, PreflightRefuses,
        FindsSuppressed, FindsClear, PlanDenies, Commit, Push, PushFails, Requeue, CountMcp, CountMcpFails,
        Goes, world, dispatch
<1>v. r \in Via("mcp") <=> scene.via[r] = "mcp"
  BY DEF Via
<1>w. (r \in Via("mcp"))' <=> r \in Via("mcp")
  BY <1>s DEF Via
<1>a. \A s \in Requests : (pc'[s] = "accounting" => s \in Via("mcp")) => (pc'[s] = "accounting" => s \in Via("mcp")')
  BY <1>s DEF Via
<1>m. /\ Cardinality(Flight) \in Nat /\ Cardinality(Flight') \in Nat
      /\ Cardinality(Made) \in Nat /\ Cardinality(Made') \in Nat
      /\ Cardinality(Made \intersect Flight) \in Nat /\ Cardinality((Made \intersect Flight)') \in Nat
      /\ Cardinality(Flight') = Cardinality(Flight) + One(Flies(r)') - One(Flies(r))
      /\ Cardinality(Made') = Cardinality(Made) + One(IsMade(r)') - One(IsMade(r))
      /\ Cardinality((Made \intersect Flight)') = Cardinality(Made \intersect Flight)
           + One((IsMade(r) /\ Flies(r))') - One(IsMade(r) /\ Flies(r))
  BY <1>s, FlightMoves
<1>i. /\ Cardinality(Flight) <= flown
      /\ total + Cardinality(Flight) <= (RunCap - 1) + flown
      /\ Cardinality(Made) <= total + Cardinality(Made \intersect Flight) + untold
  BY DEF McpInv
<1>k. ASSUME pc'[r] = "accounting" => r \in Via("mcp"),
             /\ Cardinality(Flight') <= flown'
             /\ total' + Cardinality(Flight') <= (RunCap - 1) + flown'
             /\ Cardinality(Made') <= total' + Cardinality((Made \intersect Flight)') + untold'
      PROVE  McpInv'
  <2>1. \A s \in Requests : pc'[s] = "accounting" => s \in Via("mcp")
    BY <1>k, <1>s DEF McpInv
  <2> QED BY <2>1, <1>a, <1>k DEF McpInv
<1>1. CASE McpAdmits(r)
  <2>1. /\ r \in Via("mcp") /\ total < RunCap /\ pc[r] = "idle" /\ pc'[r] = "asked"
        /\ flown' = Larger(flown, Cardinality(Flight \union {r}))
        /\ UNCHANGED <<total, untold, email>>
    BY <1>1, <1>t, <1>v DEF McpAdmits, Goes
  <2>2. /\ ~Flies(r) /\ Flies(r)' /\ ~IsMade(r) /\ ~IsMade(r)'
    BY <2>1, <1>w DEF Flies, IsMade, OnTheWay, OrderInv, Early
  <2>3. /\ Cardinality(Flight') = Cardinality(Flight) + 1 /\ Cardinality(Made') = Cardinality(Made)
        /\ Cardinality((Made \intersect Flight)') = Cardinality(Made \intersect Flight)
    BY <2>2, <1>m DEF One
  <2>4. Cardinality(Flight \union {r}) = Cardinality(Flight) + 1
    <3>1. Flight \in SUBSET Requests /\ r \notin Flight
      BY <2>2 DEF Flight, Flies, Via
    <3> QED BY <3>1, OneMore
  <2>5. flown' \in Nat /\ flown' >= flown /\ flown' >= Cardinality(Flight')
    BY <2>1, <2>3, <2>4, <1>m, <1>t DEF Larger
  <2> QED BY <2>1, <2>3, <2>5, <1>i, <1>m, <1>t, <1>k
<1>2. ASSUME UNCHANGED <<total, flown, untold>>,
             pc'[r] = "accounting" => r \in Via("mcp"),
             Flies(r)' => Flies(r),
             IsMade(r)' => IsMade(r) \/ Flies(r)',
             IsMade(r) => IsMade(r)' /\ (Flies(r) => Flies(r)')
      PROVE  McpInv'
  <2>1. Cardinality(Flight') <= Cardinality(Flight)
    BY <1>2, <1>m DEF One
  <2>2. Cardinality(Made') - Cardinality((Made \intersect Flight)')
          <= Cardinality(Made) - Cardinality(Made \intersect Flight)
    BY <1>2, <1>m DEF One
  <2> QED BY <2>1, <2>2, <1>2, <1>i, <1>m, <1>t, <1>k
<1>3. ASSUME Ask(r) \/ McpRefuses(r)
      PROVE  McpInv'
  <2>1. /\ UNCHANGED <<email, total, flown, untold>> /\ pc[r] = "idle"
        /\ pc'[r] \in {"asked", "refused"} /\ (pc'[r] = "asked" => r \notin Via("mcp"))
    BY <1>3, <1>t, <1>v DEF Ask, McpRefuses, Goes
  <2> QED BY <2>1, <1>w, <1>2 DEF Flies, IsMade, OnTheWay, OrderInv, Early
<1>4. ASSUME \/ Replay(r) \/ LookupMiss(r) \/ PreflightPasses(r) \/ PreflightRefuses(r) \/ FindsSuppressed(r)
             \/ FindsClear(r) \/ PlanDenies(r)
      PROVE  McpInv'
  <2>1. /\ UNCHANGED <<total, flown, untold>> /\ pc[r] \in Early \ {"idle"} /\ email[r] = "none"
        /\ email'[r] \in {"none", "suppressed"}
        /\ pc'[r] = "accounting" => r \in Via("mcp")
    BY <1>4, <1>t, <1>v DEF Replay, LookupMiss, PreflightPasses, PreflightRefuses, FindsSuppressed, FindsClear,
                            PlanDenies, Goes, Succeeded, OrderInv, Early
  <2> QED BY <2>1, <1>w, <1>2 DEF Flies, IsMade, OnTheWay, Early
<1>5. ASSUME Commit(r) \/ Push(r)
      PROVE  McpInv'
  <2>1. /\ UNCHANGED <<total, flown, untold>> /\ pc[r] \in OnTheWay
        /\ r \in Via("mcp") => pc'[r] \in OnTheWay
        /\ email[r] = "queued" => email'[r] = "queued"
        /\ email[r] \in {"none", "queued"}
        /\ pc'[r] = "accounting" => r \in Via("mcp")
    BY <1>5, <1>t, <1>v DEF Commit, Push, Goes, Succeeded, OrderInv, Early, OnTheWay
  <2> QED BY <2>1, <1>w, <1>2 DEF Flies, IsMade
<1>6. CASE Requeue(r)
  BY <1>6, <1>w, <1>2 DEF Requeue, Flies, IsMade
<1>7. ASSUME PushFails(r) \/ CountMcpFails(r)
      PROVE  McpInv'
  <2>1. /\ UNCHANGED <<email, total, flown>> /\ pc'[r] = "refused"
        /\ untold' \in Nat /\ untold' >= untold /\ (r \in Via("mcp") => untold' = untold + 1)
    BY <1>7, <1>t, <1>v DEF PushFails, CountMcpFails, Goes
  <2>2. ~Flies(r)' /\ (IsMade(r)' <=> IsMade(r)) /\ (Flies(r) => r \in Via("mcp"))
    BY <2>1, <1>w DEF Flies, IsMade, OnTheWay
  <2>3. /\ Cardinality(Flight') <= Cardinality(Flight) /\ Cardinality(Made') = Cardinality(Made)
        /\ Cardinality((Made \intersect Flight)') = Cardinality(Made \intersect Flight) - One(IsMade(r) /\ Flies(r))
    BY <2>2, <1>m DEF One
  <2>4. untold' >= untold + One(IsMade(r) /\ Flies(r))
    BY <2>1, <2>2, <1>t DEF One
  <2>5. One(IsMade(r) /\ Flies(r)) \in Nat
    BY DEF One
  <2> QED BY <2>1, <2>3, <2>4, <2>5, <1>i, <1>m, <1>t, <1>k
<1>8. CASE CountMcp(r)
  <2>1. /\ UNCHANGED <<email, untold, flown>> /\ pc[r] = "accounting" /\ pc'[r] = "accepted"
        /\ total' = total + 1 /\ r \in Via("mcp")
    BY <1>8, <1>t DEF CountMcp, Goes, McpInv
  <2>2. Flies(r) /\ ~Flies(r)' /\ (IsMade(r)' <=> IsMade(r))
    BY <2>1, <1>w DEF Flies, IsMade, OnTheWay
  <2>3. /\ Cardinality(Flight') = Cardinality(Flight) - 1 /\ Cardinality(Made') = Cardinality(Made)
        /\ Cardinality((Made \intersect Flight)') >= Cardinality(Made \intersect Flight) - 1
    BY <2>2, <1>m DEF One
  <2> QED BY <2>1, <2>3, <1>i, <1>m, <1>t, <1>k
<1> QED BY <1>1, <1>3, <1>4, <1>5, <1>6, <1>7, <1>8 DEF RequestSteps

(* A job changes only the status of an email that was made.                *)
LEMMA JobMcp ==
  ASSUME GateTypeOK, OrderInv, McpInv, NEW r \in Requests, JobSteps(r)
  PROVE  McpInv'
<1>1. ASSUME Made' = Made, UNCHANGED <<pc, total, flown, untold, scene>>
      PROVE  McpInv'
  BY <1>1 DEF McpInv, Flight, Via
<1>2. UNCHANGED <<pc, total, flown, untold, scene>>
  BY DEF JobSteps, Resolve, ResolveNone, EngineReplays, EngineMisses, MockTakes, ProviderTakes,
         ProviderFails, RecipientRefused, Answers, AnswerLost, CountSend
<1>3. CASE email' = email
  BY <1>1, <1>2, <1>3 DEF Made, Via
<1>4. ASSUME ResolveNone(r) \/ RecipientRefused(r) \/ CountSend(r)
      PROVE  McpInv'
  <2>1. /\ job[r].pc \notin {"none", "done"}
        /\ email' = [email EXCEPT ![r] = "sent"] \/ email' = [email EXCEPT ![r] = "failed"]
    BY <1>4 DEF ResolveNone, RecipientRefused, CountSend, Moves, Ends
  <2>2. email[r] = "queued"
    BY <2>1 DEF OrderInv
  <2>3. email'[r] \in {"sent", "failed"} /\ \A s \in Requests \ {r} : email'[s] = email[s]
    BY <2>1 DEF GateTypeOK
  <2>4. Made' = Made
    BY <2>2, <2>3, <1>2 DEF Made, Via
  <2> QED BY <2>4, <1>1, <1>2
<1> QED BY <1>3, <1>4 DEF JobSteps, Resolve, EngineReplays, EngineMisses, MockTakes, ProviderTakes, ProviderFails,
                          Answers, AnswerLost

(* Every step keeps the cap.                                               *)
LEMMA McpKept ==
  ASSUME GateTypeOK, OrderInv, McpInv, [GateNext]_gvars
  PROVE  McpInv'
<1>1. ASSUME UNCHANGED <<pc, email, mcp, scene>>  PROVE McpInv'
  BY <1>1 DEF McpInv, Flight, Made, Via
<1>2. CASE MoodSteps
  BY <1>1, <1>2 DEF MoodSteps, Mood, Suppress, Unsuppress, ConnectionTurns, Midnight, KeysAge, EntryExpires
<1>3. ASSUME NEW r \in Requests, CloudSteps(r)  PROVE McpInv'
  BY <1>1, <1>3 DEF CloudSteps
<1>4. CASE UNCHANGED gvars
  BY <1>1, <1>4 DEF gvars
<1> QED BY <1>2, <1>3, <1>4, RequestMcp, JobMcp DEF GateNext

-----------------------------------------------------------------------------
(***************************************************************************)
(* The suppression list.                                                   *)
(***************************************************************************)
(* Every step keeps it that who goes on to a listed recipient is late.     *)
LEMMA ListKept ==
  ASSUME GateTypeOK, OrderInv, ListInv, [GateNext]_gvars
  PROVE  ListInv'
<1>t. /\ pc \in [Requests -> GatePC] /\ mailed \in [Requests -> SUBSET {"plain", "typed"}]
      /\ email \in [Requests -> {"none", "queued", "sent", "failed", "suppressed"}]
      /\ late \subseteq Requests
  BY DEF GateTypeOK
<1>1. ASSUME UNCHANGED <<pc, email, listed, late, mailed>>  PROVE ListInv'
  BY <1>1 DEF ListInv
<1>2. ASSUME NEW r \in Requests, RequestSteps(r)  PROVE ListInv'
  <2>1. UNCHANGED <<listed, late, mailed>>
    BY <1>2 DEF RequestSteps, Ask, McpAdmits, McpRefuses, Replay, LookupMiss, PreflightPasses, PreflightRefuses,
        FindsSuppressed, FindsClear, PlanDenies, Commit, Push, PushFails, Requeue, CountMcp, CountMcpFails
  <2>2. \A s \in Requests :
          ("plain" \in listed /\ (pc'[s] = "clear" \/ email'[s] = "queued"))
            => pc[s] = "clear" \/ email[s] = "queued"
    BY <1>2, <1>t DEF RequestSteps, Ask, McpAdmits, McpRefuses, Replay, LookupMiss, PreflightPasses, PreflightRefuses,
        FindsSuppressed, FindsClear, PlanDenies, Commit, Push, PushFails, Requeue, CountMcp, CountMcpFails,
        Goes, Succeeded
  <2> QED BY <2>1, <2>2 DEF ListInv
<1>3. ASSUME NEW r \in Requests, JobSteps(r)  PROVE ListInv'
  <2>1. CASE ProviderTakes(r)
    <3>1. email[r] = "queued"
      BY <2>1 DEF ProviderTakes, Moves, OrderInv
    <3>2. /\ UNCHANGED <<pc, email, listed, late>>
          /\ mailed' = [mailed EXCEPT ![r] = mailed[r] \union listed]
      BY <2>1 DEF ProviderTakes
    <3> QED BY <3>1, <3>2, <1>t DEF ListInv
  <2>2. ASSUME ResolveNone(r) \/ RecipientRefused(r) \/ CountSend(r)
        PROVE  ListInv'
    <3>1. /\ UNCHANGED <<pc, listed, late, mailed>>
          /\ email' = [email EXCEPT ![r] = "sent"] \/ email' = [email EXCEPT ![r] = "failed"]
      BY <2>2 DEF ResolveNone, RecipientRefused, CountSend, Ends
    <3> QED BY <3>1, <1>t DEF ListInv
  <2> QED BY <2>1, <2>2, <1>1, <1>3 DEF JobSteps, Resolve, EngineReplays, EngineMisses, MockTakes, ProviderFails,
                          Answers, AnswerLost
<1>4. ASSUME NEW s \in {"plain", "typed"}, Suppress(s)  PROVE ListInv'
  <2>1. /\ UNCHANGED <<pc, email, mailed>> /\ listed' = listed \union {s}
        /\ late' = late \union (IF s # "plain" THEN {} ELSE
                               {r \in Requests : pc[r] \notin {"idle", "asked", "fresh", "eligible"}})
    BY <1>4 DEF Suppress
  <2>2. \A r \in Requests : email[r] = "queued" \/ pc[r] = "clear"
          => pc[r] \notin {"idle", "asked", "fresh", "eligible"}
    BY DEF OrderInv, Early
  <2>3. CASE s = "plain"
    BY <2>1, <2>2, <2>3 DEF ListInv
  <2>4. CASE s = "typed"
    BY <2>1, <2>4 DEF ListInv
  <2> QED BY <2>3, <2>4
<1>5. CASE MoodSteps
  BY <1>1, <1>4, <1>5 DEF MoodSteps, Mood, Unsuppress, ConnectionTurns, Midnight, KeysAge, EntryExpires, ListInv
<1>6. ASSUME NEW r \in Requests, CloudSteps(r)  PROVE ListInv'
  BY <1>1, <1>6 DEF CloudSteps
<1>7. CASE UNCHANGED gvars
  BY <1>1, <1>7 DEF gvars
<1> QED BY <1>2, <1>3, <1>5, <1>6, <1>7 DEF GateNext

-----------------------------------------------------------------------------
(***************************************************************************)
(* The idempotency key.                                                    *)
(***************************************************************************)
Pairs == \A r, s \in Requests :
  (r # s /\ Dispatched(r) /\ Dispatched(s)) => r \in unseen[s] \/ s \in unseen[r]
Engines == \A r, s \in Requests :
  (r # s /\ InEngine(r) /\ InEngine(s)) => forgot \/ r \in beside[s] \/ s \in beside[r]
Entries == \A r \in Requests :
  (scene.keyed[r] /\ r \in posted /\ job[r].pc # "delivered") => forgot \/ stored # None

(* KeyInv is these three.                                                  *)
LEMMA KeyParts == KeyInv <=> Pairs /\ Engines /\ Entries
BY DEF KeyInv, Pairs, Engines, Entries

(* Only a lookup that finds nothing adds to the emails of the key.         *)
LEMMA PairsStay ==
  ASSUME Pairs, UNCHANGED <<unseen, scene>>,
         \A s \in Requests : Dispatched(s)' => Dispatched(s)
  PROVE  Pairs'
BY DEF Pairs

(* A request's steps keep the pairs.                                       *)
LEMMA RequestPairs ==
  ASSUME GateTypeOK, OrderInv, Pairs, NEW r \in Requests, RequestSteps(r)
  PROVE  Pairs'
<1>t. /\ pc \in [Requests -> GatePC] /\ unseen \in [Requests -> SUBSET Requests]
      /\ email \in [Requests -> {"none", "queued", "sent", "failed", "suppressed"}]
  BY DEF GateTypeOK
<1>1. CASE LookupMiss(r)
  <2>1. /\ scene.keyed[r] => Known = {}
        /\ pc[r] = "asked" /\ pc' = [pc EXCEPT ![r] = "fresh"] /\ UNCHANGED <<email, aged, scene>>
        /\ unseen' = [unseen EXCEPT ![r] = aged \union {s \in Requests : pc[s] \in {"fresh", "eligible", "clear"}}]
    BY <1>1 DEF LookupMiss, Goes, world
  <2>2. ASSUME NEW s \in Requests \ {r}, Dispatched(s)', scene.keyed[r]
        PROVE  s \in unseen'[r]
    <3>1. scene.keyed[s] /\ (pc[s] \in {"fresh", "eligible", "clear"} \/ email[s] # "none")
      BY <2>1, <2>2, <1>t DEF Dispatched
    <3>2. CASE email[s] # "none"
      BY <2>1, <2>2, <3>1, <3>2, <1>t DEF Known
    <3>3. CASE pc[s] \in {"fresh", "eligible", "clear"}
      BY <2>1, <3>3, <1>t
    <3> QED BY <3>1, <3>2, <3>3
  <2>3. \A s \in Requests \ {r} : Dispatched(s)' => Dispatched(s)
    BY <2>1, <1>t DEF Dispatched
  <2>4. \A s \in Requests \ {r} : unseen'[s] = unseen[s]
    BY <2>1, <1>t
  <2>5. Dispatched(r)' => scene.keyed[r]
    BY <2>1 DEF Dispatched
  <2>6. ASSUME NEW a \in Requests, NEW b \in Requests, a # b, Dispatched(a)', Dispatched(b)'
        PROVE  a \in unseen'[b] \/ b \in unseen'[a]
    <3>1. CASE a = r
      BY <3>1, <2>2, <2>5, <2>6
    <3>2. CASE b = r
      BY <3>2, <2>2, <2>5, <2>6
    <3>3. CASE a # r /\ b # r
      BY <3>3, <2>3, <2>4, <2>6 DEF Pairs
    <3> QED BY <3>1, <3>2, <3>3
  <2> QED BY <2>6 DEF Pairs
<1>2. CASE ~LookupMiss(r)
  <2>1. UNCHANGED <<unseen, scene>>
    BY <1>2 DEF RequestSteps, Ask, McpAdmits, McpRefuses, Replay, PreflightPasses, PreflightRefuses,
        FindsSuppressed, FindsClear, PlanDenies, Commit, Push, PushFails, Requeue, CountMcp, CountMcpFails
  <2>2. \A s \in Requests : (pc'[s] \in {"fresh", "eligible", "clear"} \/ email'[s] # "none")
                              => pc[s] \in {"fresh", "eligible", "clear"} \/ email[s] # "none"
    BY <1>2, <1>t DEF RequestSteps, Ask, McpAdmits, McpRefuses, Replay, PreflightPasses, PreflightRefuses,
        FindsSuppressed, FindsClear, PlanDenies, Commit, Push, PushFails, Requeue, CountMcp, CountMcpFails,
        Goes, Succeeded
  <2>3. \A s \in Requests : Dispatched(s)' => Dispatched(s)
    BY <2>1, <2>2 DEF Dispatched
  <2> QED BY <2>1, <2>3, PairsStay
<1> QED BY <1>1, <1>2

(* A job's steps keep the pairs.                                           *)
LEMMA JobPairs ==
  ASSUME GateTypeOK, OrderInv, Pairs, NEW r \in Requests, JobSteps(r)
  PROVE  Pairs'
<1>1. UNCHANGED <<pc, unseen, scene>>
  BY DEF JobSteps, Resolve, ResolveNone, EngineReplays, EngineMisses, MockTakes, ProviderTakes,
         ProviderFails, RecipientRefused, Answers, AnswerLost, CountSend
<1>2. \A s \in Requests : email'[s] # "none" => email[s] # "none"
  <2>1. CASE email' = email
    BY <2>1
  <2>2. ASSUME ResolveNone(r) \/ RecipientRefused(r) \/ CountSend(r)
        PROVE  \A s \in Requests : email'[s] # "none" => email[s] # "none"
    <3>1. /\ job[r].pc \notin {"none", "done"}
          /\ email' = [email EXCEPT ![r] = "sent"] \/ email' = [email EXCEPT ![r] = "failed"]
      BY <2>2 DEF ResolveNone, RecipientRefused, CountSend, Moves, Ends
    <3>2. email[r] = "queued"
      BY <3>1 DEF OrderInv
    <3> QED BY <3>1, <3>2 DEF GateTypeOK
  <2> QED BY <2>1, <2>2 DEF JobSteps, Resolve, EngineReplays, EngineMisses, MockTakes, ProviderTakes, ProviderFails,
                          Answers, AnswerLost
<1>3. \A s \in Requests : Dispatched(s)' => Dispatched(s)
  BY <1>1, <1>2 DEF Dispatched
<1> QED BY <1>1, <1>3, PairsStay

(* Only a miss adds to the sends in the engine, and it saw those.          *)
LEMMA EnginesStay ==
  ASSUME Engines, UNCHANGED <<beside, scene>>, forgot => forgot',
         \A s \in Requests : InEngine(s)' => InEngine(s)
  PROVE  Engines'
BY DEF Engines

(* An entry that is not lost stays with the sends that were answered.      *)
LEMMA EntriesStay ==
  ASSUME Entries, UNCHANGED scene, forgot \/ stored # None => forgot' \/ stored' # None,
         \A s \in Requests : (s \in posted' /\ job'[s].pc # "delivered") => s \in posted /\ job[s].pc # "delivered"
  PROVE  Entries'
BY DEF Entries

(* A job's steps keep the engine's part.                                   *)
LEMMA JobEngines ==
  ASSUME GateTypeOK, OrderInv, Engines, Entries, NEW r \in Requests, JobSteps(r)
  PROVE  Engines' /\ Entries'
<1>t. /\ job \in [Requests -> Job] /\ job[r] \in Job /\ posted \subseteq Requests
      /\ beside \in [Requests -> SUBSET Requests] /\ None \notin Types
  BY GateAssumption DEF GateTypeOK, GateAssumption, Types
<1>s. scene' = scene
  BY DEF JobSteps, Resolve, ResolveNone, EngineReplays, EngineMisses, MockTakes, ProviderTakes,
         ProviderFails, RecipientRefused, Answers, AnswerLost, CountSend, Mood, world
<1>1. ASSUME UNCHANGED <<stored, forgot, beside, posted>>, NEW new, job' = [job EXCEPT ![r] = new],
             job[r].pc # "delivered", new.pc \notin {"sending", "delivered"} \/ job[r].pc = "sending",
             new.pc # "delivered"
      PROVE  Engines' /\ Entries'
  <2>1. job'[r] = new /\ \A s \in Requests \ {r} : job'[s] = job[s]
    BY <1>1, <1>t
  <2>2. \A s \in Requests : InEngine(s)' => InEngine(s)
    BY <2>1, <1>1, <1>s DEF InEngine
  <2>3. \A s \in Requests : (s \in posted' /\ job'[s].pc # "delivered") => s \in posted /\ job[s].pc # "delivered"
    BY <2>1, <1>1
  <2> QED BY <2>2, <2>3, <1>1, <1>s, EnginesStay, EntriesStay
<1>2. CASE EngineMisses(r)
  <2> DEFINE new == [job[r] EXCEPT !.pc = "sending"]
  <2>1. /\ job[r].pc = "resolved" /\ job' = [job EXCEPT ![r] = new] /\ UNCHANGED <<stored, posted>>
        /\ forgot' = TRUE \/ forgot' = forgot
        /\ (scene.keyed[r] /\ stored # None) => forgot' = TRUE
        /\ beside' = [beside EXCEPT ![r] = beside[r] \union
                         {s \in Requests : scene.keyed[s] /\ job[s].pc \in {"sending", "delivered"}}]
    BY <1>2 DEF EngineMisses, Moves
  <2>2. new.pc = "sending"
    BY <1>t DEF Job
  <2> HIDE DEF new
  <2>3. job'[r] = new /\ \A s \in Requests \ {r} : job'[s] = job[s]
    BY <2>1, <1>t
  <2>4. \A s \in Requests \ {r} : (InEngine(s)' => InEngine(s)) /\ beside'[s] = beside[s]
    BY <2>1, <2>3, <1>s, <1>t DEF InEngine
  <2>5. ASSUME NEW s \in Requests \ {r}, InEngine(s)', scene.keyed[r]
        PROVE  forgot' \/ s \in beside'[r]
    <3>1. InEngine(s)
      BY <2>4, <2>5
    <3>2. CASE job[s].pc \in {"sending", "delivered"}
      BY <2>1, <3>1, <3>2, <1>t DEF InEngine
    <3>3. CASE job[s].pc \notin {"sending", "delivered"}
      <4>1. forgot \/ stored # None
        BY <3>1, <3>3 DEF InEngine, Entries
      <4> QED BY <4>1, <2>1, <2>5
    <3> QED BY <3>2, <3>3
  <2>6. InEngine(r)' => scene.keyed[r]
    BY <1>s DEF InEngine
  <2>7. ASSUME NEW a \in Requests, NEW b \in Requests, a # b, InEngine(a)', InEngine(b)'
        PROVE  forgot' \/ a \in beside'[b] \/ b \in beside'[a]
    <3>1. CASE a = r
      BY <3>1, <2>5, <2>6, <2>7
    <3>2. CASE b = r
      BY <3>2, <2>5, <2>6, <2>7
    <3>3. CASE a # r /\ b # r
      <4>1. forgot \/ a \in beside[b] \/ b \in beside[a]
        BY <3>3, <2>4, <2>7 DEF Engines
      <4> QED BY <4>1, <3>3, <2>1, <2>4
    <3> QED BY <3>1, <3>2, <3>3
  <2>8. Engines'
    BY <2>7 DEF Engines
  <2>9. forgot \/ stored # None => forgot' \/ stored' # None
    BY <2>1
  <2>10. \A s \in Requests : (s \in posted' /\ job'[s].pc # "delivered") => s \in posted /\ job[s].pc # "delivered"
    BY <2>1, <2>3
  <2> QED BY <2>8, <2>9, <2>10, <1>s, EntriesStay
<1>3. ASSUME MockTakes(r) \/ ProviderTakes(r)
      PROVE  Engines' /\ Entries'
  <2>1. PICK new : new.pc = "delivered" /\ job' = [job EXCEPT ![r] = new]
    <3>1. [job[r] EXCEPT !.pc = "delivered"].pc = "delivered"
      BY <1>t DEF Job
    <3>2. \A c : [job[r] EXCEPT !.pc = "delivered", !.by = c].pc = "delivered"
      BY <1>t DEF Job
    <3> QED BY <1>3, <3>1, <3>2 DEF MockTakes, ProviderTakes, Moves
  <2>2. job[r].pc = "sending" /\ UNCHANGED <<stored, forgot, beside>> /\ posted' = posted \union {r}
    BY <1>3 DEF MockTakes, ProviderTakes, Moves
  <2>3. job'[r] = new /\ \A s \in Requests \ {r} : job'[s] = job[s]
    BY <2>1, <1>t
  <2>4. \A s \in Requests : InEngine(s)' => InEngine(s)
    BY <2>1, <2>2, <2>3, <1>s DEF InEngine
  <2>5. \A s \in Requests : (s \in posted' /\ job'[s].pc # "delivered") => s \in posted /\ job[s].pc # "delivered"
    BY <2>1, <2>2, <2>3
  <2> QED BY <2>2, <2>4, <2>5, <1>s, EnginesStay, EntriesStay
<1>4. CASE Answers(r)
  <2> DEFINE type == IF job[r].by = None THEN "mock" ELSE TypeOf[job[r].by]
             new  == [job[r] EXCEPT !.pc = "answered", !.told = type]
  <2>1. /\ job[r].pc = "delivered" /\ job' = [job EXCEPT ![r] = new] /\ UNCHANGED <<beside, posted>>
        /\ \/ stored' = (IF scene.keyed[r] THEN type ELSE stored) /\ forgot' = forgot
           \/ forgot' = TRUE /\ stored' = stored
    BY <1>4 DEF Answers, Moves
  <2>2. new.pc = "answered"
    BY <1>t DEF Job
  <2>3. type # None
    <3>1. type \in Types
      BY <1>t DEF Types, Job
    <3> QED BY <3>1, <1>t
  <2> HIDE DEF new, type
  <2>4. job'[r] = new /\ \A s \in Requests \ {r} : job'[s] = job[s]
    BY <2>1, <1>t
  <2>5. \A s \in Requests : InEngine(s)' => InEngine(s)
    BY <2>1, <2>2, <2>4, <1>s DEF InEngine
  <2>6. /\ forgot => forgot'
        /\ forgot \/ stored # None => forgot' \/ stored' # None
        /\ scene.keyed[r] => forgot' \/ stored' # None
    BY <2>1, <2>3
  <2>7. Engines'
    BY <2>1, <2>5, <2>6, <1>s, EnginesStay
  <2>8. ASSUME NEW s \in Requests, scene'.keyed[s], s \in posted', job'[s].pc # "delivered"
        PROVE  forgot' \/ stored' # None
    <3>1. CASE s = r
      BY <3>1, <2>6, <2>8, <1>s
    <3>2. CASE s # r
      BY <3>2, <2>1, <2>4, <2>6, <2>8, <1>s DEF Entries
    <3> QED BY <3>1, <3>2
  <2> QED BY <2>7, <2>8 DEF Entries
<1>5. CASE Resolve(r)
  <2> DEFINE new == [NoJob EXCEPT !.pc = "resolved", !.routes = IF scene.mode = "demo" THEN {} ELSE Eligible]
  <2>1. job[r].pc = "queued" /\ job' = [job EXCEPT ![r] = new] /\ UNCHANGED <<stored, forgot, beside, posted>>
    BY <1>5 DEF Resolve, Moves
  <2>2. new.pc = "resolved"
    BY DEF NoJob
  <2> HIDE DEF new
  <2> QED BY <2>1, <2>2, <1>1
<1>6. ASSUME ResolveNone(r) \/ RecipientRefused(r) \/ CountSend(r)
      PROVE  Engines' /\ Entries'
  <2>1. /\ job[r].pc \in {"queued", "sending", "answered"} /\ UNCHANGED <<stored, forgot, beside, posted>>
        /\ job' = [job EXCEPT ![r] = [NoJob EXCEPT !.pc = "done"]]
    BY <1>6 DEF ResolveNone, RecipientRefused, CountSend, Moves
  <2> QED BY <2>1, JobFields, <1>1
<1>7. CASE EngineReplays(r)
  <2> DEFINE new == [job[r] EXCEPT !.pc = "answered", !.told = stored]
  <2>1. job[r].pc = "resolved" /\ job' = [job EXCEPT ![r] = new] /\ UNCHANGED <<stored, forgot, beside, posted>>
    BY <1>7 DEF EngineReplays, Moves
  <2>2. new.pc = "answered"
    BY <1>t DEF Job
  <2> HIDE DEF new
  <2> QED BY <2>1, <2>2, <1>1
<1>8. CASE ProviderFails(r)
  <2> DEFINE next == [job[r] EXCEPT !.tried = job[r].tried \union {First(job[r].routes \ job[r].tried)}]
  <2>1. /\ job[r].pc = "sending" /\ UNCHANGED <<stored, forgot, beside, posted>>
        /\ job' = [job EXCEPT ![r] = next] \/ job' = [job EXCEPT ![r] = Back(r)]
    BY <1>8 DEF ProviderFails, Moves
  <2>2. next.pc = "sending"
    BY <2>1, <1>t DEF Job
  <2> HIDE DEF next
  <2> QED BY <2>1, <2>2, JobFields, <1>1
<1>9. CASE AnswerLost(r)
  <2>1. /\ job[r].pc = "answered" /\ job' = [job EXCEPT ![r] = Back(r)]
        /\ UNCHANGED <<stored, forgot, beside, posted>>
    BY <1>9 DEF AnswerLost, Moves
  <2> QED BY <2>1, JobFields, <1>1
<1> QED BY <1>2, <1>3, <1>4, <1>5, <1>6, <1>7, <1>8, <1>9 DEF JobSteps

(* Every step keeps what the key promises.                                 *)
LEMMA KeyKept ==
  ASSUME GateTypeOK, OrderInv, KeyInv, [GateNext]_gvars
  PROVE  KeyInv'
<1>0. Pairs /\ Engines /\ Entries
  BY KeyParts
<1>1. ASSUME UNCHANGED <<scene, job, beside, posted>>, forgot => forgot',
             forgot \/ stored # None => forgot' \/ stored' # None
      PROVE  Engines' /\ Entries'
  BY <1>0, <1>1 DEF Engines, Entries, InEngine
<1>2. ASSUME UNCHANGED <<pc, email, unseen, scene>>  PROVE Pairs'
  BY <1>0, <1>2 DEF Pairs, Dispatched
<1>3. ASSUME NEW r \in Requests, RequestSteps(r)  PROVE Pairs' /\ Engines' /\ Entries'
  <2>1. Pairs'
    BY <1>0, <1>3, RequestPairs
  <2>2. CASE job' = job
    <3>1. UNCHANGED <<scene, engine>>
      BY <1>3 DEF RequestSteps, Ask, McpAdmits, McpRefuses, Replay, LookupMiss, PreflightPasses, PreflightRefuses,
        FindsSuppressed, FindsClear, PlanDenies, Commit, Push, PushFails, Requeue, CountMcp, CountMcpFails
    <3> QED BY <2>1, <2>2, <3>1, <1>1
  <2>3. ASSUME Push(r) \/ Requeue(r)
        PROVE  Engines' /\ Entries'
    <3> DEFINE new == [job[r] EXCEPT !.pc = "queued"]
    <3>1. job' = [job EXCEPT ![r] = new] /\ UNCHANGED <<scene, engine>> /\ job[r].pc = "none" /\ job[r] \in Job
      BY <2>3 DEF Push, Requeue, Goes, OrderInv, GateTypeOK
    <3>2. new.pc = "queued"
      BY <3>1 DEF Job
    <3> HIDE DEF new
    <3>3. job'[r] = new /\ \A s \in Requests \ {r} : job'[s] = job[s]
      BY <3>1 DEF GateTypeOK
    <3>4. \A s \in Requests : InEngine(s)' => InEngine(s)
      BY <3>1, <3>2, <3>3 DEF InEngine
    <3>5. \A s \in Requests : (s \in posted' /\ job'[s].pc # "delivered") => s \in posted /\ job[s].pc # "delivered"
      BY <3>1, <3>2, <3>3
    <3> QED BY <1>0, <3>1, <3>4, <3>5, EnginesStay, EntriesStay
  <2> QED BY <1>3, <2>1, <2>2, <2>3 DEF RequestSteps, Ask, McpAdmits, McpRefuses, Replay, LookupMiss,
        PreflightPasses, PreflightRefuses, FindsSuppressed, FindsClear, PlanDenies, Commit, PushFails,
        CountMcp, CountMcpFails
<1>4. ASSUME NEW r \in Requests, JobSteps(r)  PROVE Pairs' /\ Engines' /\ Entries'
  BY <1>0, <1>4, JobPairs, JobEngines
<1>5. ASSUME MoodSteps  PROVE Pairs' /\ Engines' /\ Entries'
  <2>1. UNCHANGED <<pc, email, unseen, scene, job, beside, posted>>
    BY <1>5 DEF MoodSteps, Mood, Suppress, Unsuppress, ConnectionTurns, Midnight, KeysAge, EntryExpires
  <2>2. /\ forgot => forgot'
        /\ forgot \/ stored # None => forgot' \/ stored' # None
    BY <1>5 DEF MoodSteps, Mood, Suppress, Unsuppress, ConnectionTurns, Midnight, KeysAge, EntryExpires
  <2>3. Engines' /\ Entries'
    BY <2>1, <2>2, <1>1
  <2>4. Pairs'
    BY <2>1, <1>2
  <2> QED BY <2>3, <2>4
<1>s. ASSUME UNCHANGED <<pc, email, unseen, scene, job, stored, beside, forgot, posted>>
      PROVE  Pairs' /\ Engines' /\ Entries'
  BY <1>0, <1>s DEF Pairs, Engines, Entries, Dispatched, InEngine
<1>6. ASSUME NEW r \in Requests, CloudSteps(r)  PROVE Pairs' /\ Engines' /\ Entries'
  BY <1>s, <1>6 DEF CloudSteps
<1>7. ASSUME UNCHANGED gvars  PROVE Pairs' /\ Engines' /\ Entries'
  BY <1>s, <1>7 DEF gvars
<1>8. Pairs' /\ Engines' /\ Entries'
  BY <1>3, <1>4, <1>5, <1>6, <1>7 DEF GateNext
<1> QED BY <1>8 DEF KeyInv, Pairs, Engines, Entries

-----------------------------------------------------------------------------
(***************************************************************************)
(* Reports to the cloud service.                                           *)
(***************************************************************************)
Truthful(e) ==
  /\ e.pc \in {"claimed", "heard", "failing"} => e.status = "processing"
  /\ e.heard <= e.lost + 1
  /\ (e.status # "processed" /\ e.pc # "heard") => e.heard <= e.lost

(* A retry, and fail!, of a run whose report was not heard, or was lost.   *)
LEMMA RetriedTruthful ==
  ASSUME NEW e \in Report, e.heard <= e.lost
  PROVE  Truthful(Retried(e)) /\ Truthful(Failed(e))
<1>1. ASSUME NEW f \in Report, f.heard <= f.lost  PROVE Truthful(Retried(f))
  <2>1. f.heard \in Nat /\ f.lost \in Nat
    BY DEF Report
  <2>2. Truthful([f EXCEPT !.pc = "queued", !.runs = f.runs + 1]) /\ Truthful([f EXCEPT !.pc = "over"])
    BY <2>1, <1>1 DEF Truthful, Report
  <2> QED BY <2>2 DEF Retried
<1>2. ASSUME NEW s \in ReportStatus  PROVE Truthful(Retried([e EXCEPT !.status = s]))
  <2>1. [e EXCEPT !.status = s] \in Report
    BY StatusMoves
  <2>2. [e EXCEPT !.status = s].heard <= [e EXCEPT !.status = s].lost
    BY DEF Report
  <2> QED BY <2>1, <2>2, <1>1
<1>3. (IF e.attempts >= CloudAttempts THEN "dead" ELSE "pending") \in ReportStatus
  BY DEF ReportStatus
<1> QED BY <1>1, <1>2, <1>3 DEF Failed

(* Each step of a run leaves a truthful report truthful.                   *)
LEMMA ReportTruthful ==
  ASSUME cloud \in [Requests -> Report], NEW r \in Requests, ReportSteps(r), Truthful(cloud[r])
  PROVE  \E new : cloud' = [cloud EXCEPT ![r] = new] /\ Truthful(new)
<1>e. cloud[r] \in Report
  OBVIOUS
<1>f. cloud[r].heard \in Nat /\ cloud[r].lost \in Nat
  BY <1>e DEF Report
<1>1. CASE ReportClaim(r)
  <2> DEFINE new == [cloud[r] EXCEPT !.status = "processing", !.attempts = cloud[r].attempts + 1, !.pc = "claimed"]
  <2>1. cloud' = [cloud EXCEPT ![r] = new] /\ cloud[r].heard <= cloud[r].lost
    BY <1>1 DEF ReportClaim, Step, Truthful
  <2>2. new.pc = "claimed" /\ new.status = "processing" /\ new.heard = cloud[r].heard /\ new.lost = cloud[r].lost
    BY <1>e DEF Report
  <2> HIDE DEF new
  <2>3. Truthful(new)
    BY <2>1, <2>2, <1>f DEF Truthful
  <2> QED BY <2>1, <2>3
<1>2. ASSUME ReportSkip(r) \/ ReportEnd(r)
      PROVE  \E new : cloud' = [cloud EXCEPT ![r] = new] /\ Truthful(new)
  <2> DEFINE new == [cloud[r] EXCEPT !.pc = "over"]
  <2>1. cloud' = [cloud EXCEPT ![r] = new] /\ cloud[r].pc \in {"queued", "completed"}
    BY <1>2 DEF ReportSkip, ReportEnd, Step
  <2>2. new.pc = "over" /\ new.status = cloud[r].status /\ new.heard = cloud[r].heard /\ new.lost = cloud[r].lost
    BY <1>e DEF Report
  <2> HIDE DEF new
  <2>3. Truthful(new)
    BY <2>1, <2>2, <1>f DEF Truthful
  <2> QED BY <2>1, <2>3
<1>3. ASSUME ReportNotReady(r) \/ ReportFail(r) \/ FailFails(r)
      PROVE  \E new : cloud' = [cloud EXCEPT ![r] = new] /\ Truthful(new)
  <2>1. /\ cloud[r].heard <= cloud[r].lost
        /\ cloud' = [cloud EXCEPT ![r] = Failed(cloud[r])] \/ cloud' = [cloud EXCEPT ![r] = Retried(cloud[r])]
    BY <1>3 DEF ReportNotReady, ReportFail, FailFails, Step, Truthful
  <2> QED BY <2>1, <1>e, RetriedTruthful
<1>4. CASE ReportHeard(r)
  <2> DEFINE new == [cloud[r] EXCEPT !.pc = "heard", !.heard = cloud[r].heard + 1]
  <2>1. /\ cloud' = [cloud EXCEPT ![r] = new] /\ cloud[r].status = "processing"
        /\ cloud[r].heard <= cloud[r].lost
    BY <1>4 DEF ReportHeard, Step, Truthful
  <2>2. /\ new.pc = "heard" /\ new.status = cloud[r].status
        /\ new.heard = cloud[r].heard + 1 /\ new.lost = cloud[r].lost
    BY <1>e DEF Report
  <2> HIDE DEF new
  <2>3. Truthful(new)
    BY <2>1, <2>2, <1>f DEF Truthful
  <2> QED BY <2>1, <2>3
<1>5. CASE ReportRefused(r)
  <2> DEFINE new == [cloud[r] EXCEPT !.pc = "failing"]
  <2>1. cloud' = [cloud EXCEPT ![r] = new] /\ cloud[r].pc = "claimed"
    BY <1>5 DEF ReportRefused, Step
  <2>2. new.pc = "failing" /\ new.status = cloud[r].status /\ new.heard = cloud[r].heard /\ new.lost = cloud[r].lost
    BY <1>e DEF Report
  <2> HIDE DEF new
  <2>3. Truthful(new)
    BY <2>1, <2>2, <1>f DEF Truthful
  <2> QED BY <2>1, <2>3
<1>6. CASE ReportComplete(r)
  <2> DEFINE new == [cloud[r] EXCEPT !.pc = "completed", !.status = "processed"]
  <2>1. cloud' = [cloud EXCEPT ![r] = new]
    BY <1>6 DEF ReportComplete, Step
  <2>2. new.pc = "completed" /\ new.status = "processed" /\ new.heard = cloud[r].heard /\ new.lost = cloud[r].lost
    BY <1>e DEF Report
  <2> HIDE DEF new
  <2>3. Truthful(new)
    BY <2>1, <2>2, <1>f DEF Truthful
  <2> QED BY <2>1, <2>3
<1>7. CASE ReportUnnoted(r)
  <2> DEFINE new == [cloud[r] EXCEPT !.pc = "failing", !.lost = cloud[r].lost + 1]
  <2>1. cloud' = [cloud EXCEPT ![r] = new] /\ cloud[r].pc = "heard"
    BY <1>7 DEF ReportUnnoted, Step
  <2>2. /\ new.pc = "failing" /\ new.status = cloud[r].status
        /\ new.heard = cloud[r].heard /\ new.lost = cloud[r].lost + 1
    BY <1>e DEF Report
  <2> HIDE DEF new
  <2>3. Truthful(new)
    BY <2>1, <2>2, <1>f DEF Truthful
  <2> QED BY <2>1, <2>3
<1>8. CASE ReportKilled(r)
  <2> DEFINE e(to) == [cloud[r] EXCEPT !.pc = to, !.lost = IF cloud[r].pc = "heard" THEN cloud[r].lost + 1
                                                           ELSE cloud[r].lost]
  <2>1. PICK to \in {"queued", "over"} : cloud' = [cloud EXCEPT ![r] = e(to)]
    BY <1>8 DEF ReportKilled, Step
  <2>2. /\ e(to).pc = to /\ e(to).status = cloud[r].status /\ e(to).heard = cloud[r].heard
        /\ e(to).lost = IF cloud[r].pc = "heard" THEN cloud[r].lost + 1 ELSE cloud[r].lost
    BY <1>e DEF Report
  <2> HIDE DEF e
  <2>3. Truthful(e(to))
    BY <2>1, <2>2, <1>f DEF Truthful
  <2> QED BY <2>1, <2>3
<1> QED BY <1>1, <1>2, <1>3, <1>4, <1>5, <1>6, <1>7, <1>8 DEF ReportSteps

(* Every step keeps the reports truthful.                                  *)
LEMMA ReportsKept ==
  ASSUME GateTypeOK, OrderInv, ReportInv, [GateNext]_gvars
  PROVE  ReportInv'
<1>t. /\ cloud \in [Requests -> Report]
      /\ email \in [Requests -> {"none", "queued", "sent", "failed", "suppressed"}]
  BY DEF GateTypeOK
<1>0. \A r \in Requests : /\ email[r] \notin {"sent", "failed"} => cloud[r] = NoReport
                          /\ Truthful(cloud[r])
  BY DEF ReportInv, Truthful
<1>1. ASSUME \A r \in Requests : /\ email'[r] \notin {"sent", "failed"} => cloud'[r] = NoReport
                                 /\ Truthful(cloud'[r])
      PROVE  ReportInv'
  BY <1>1 DEF ReportInv, Truthful
<1>2. ASSUME NEW r \in Requests, RequestSteps(r)  PROVE ReportInv'
  <2>1. cloud' = cloud
    BY <1>2 DEF RequestSteps, Ask, McpAdmits, McpRefuses, Replay, LookupMiss, PreflightPasses, PreflightRefuses,
        FindsSuppressed, FindsClear, PlanDenies, Commit, Push, PushFails, Requeue, CountMcp, CountMcpFails
  <2>2. \A s \in Requests : email[s] \in {"sent", "failed"} => email'[s] \in {"sent", "failed"}
    BY <1>2, <1>t DEF RequestSteps, Ask, McpAdmits, McpRefuses, Replay, LookupMiss, PreflightPasses, PreflightRefuses,
        FindsSuppressed, FindsClear, PlanDenies, Commit, Push, PushFails, Requeue, CountMcp, CountMcpFails,
        Goes, OrderInv, Early
  <2> QED BY <2>1, <2>2, <1>0, <1>1
<1>3. ASSUME NEW r \in Requests, JobSteps(r)  PROVE ReportInv'
  <2>1. CASE UNCHANGED <<email, cloud>>
    BY <2>1, <1>0, <1>1
  <2>2. ASSUME ResolveNone(r) \/ RecipientRefused(r) \/ CountSend(r)
        PROVE  ReportInv'
    <3>1. /\ job[r].pc \notin {"none", "done"}
          /\ email' = [email EXCEPT ![r] = "sent"] \/ email' = [email EXCEPT ![r] = "failed"]
          /\ Publish(r) \/ PublishFails(r)
      BY <2>2 DEF ResolveNone, RecipientRefused, CountSend, Moves, Ends
    <3>2. cloud[r] = NoReport
      BY <3>1, <1>0 DEF OrderInv
    <3>3. NoReport \in Report /\ Truthful(NoReport)
      BY DEF NoReport, Report, ReportPC, ReportStatus, Truthful
    <3>4. /\ Truthful([NoReport EXCEPT !.status = "pending", !.pc = "queued"])
          /\ Truthful([NoReport EXCEPT !.status = "pending", !.pc = "over"])
      BY DEF NoReport, Truthful
    <3>5. PICK new : (cloud' = [cloud EXCEPT ![r] = new] \/ cloud' = cloud) /\ Truthful(new)
      <4>1. CASE Publish(r)
        BY <4>1, <3>2, <3>4, <3>3 DEF Publish
      <4>2. CASE PublishFails(r)
        BY <4>2, <3>3, <3>4 DEF PublishFails, Swallowed
      <4> QED BY <3>1, <4>1, <4>2
    <3>6. \A s \in Requests : Truthful(cloud'[s])
      BY <3>5, <1>0, <1>t
    <3>7. \A s \in Requests : email'[s] \notin {"sent", "failed"} => s # r /\ email[s] \notin {"sent", "failed"}
      BY <3>1, <1>t
    <3>8. \A s \in Requests \ {r} : cloud'[s] = cloud[s]
      BY <3>5, <1>t
    <3> QED BY <3>6, <3>7, <3>8, <1>0, <1>1
  <2> QED BY <2>1, <2>2, <1>3 DEF JobSteps, Resolve, EngineReplays, EngineMisses, MockTakes, ProviderTakes,
                          ProviderFails, Answers, AnswerLost
<1>4. ASSUME NEW r \in Requests, CloudSteps(r)  PROVE ReportInv'
  <2>1. ReportSteps(r) /\ email' = email
    BY <1>4 DEF CloudSteps
  <2>2. PICK new : cloud' = [cloud EXCEPT ![r] = new] /\ Truthful(new)
    BY <2>1, <1>0, <1>t, ReportTruthful
  <2>3. \A s \in Requests : Truthful(cloud'[s])
    BY <2>2, <1>0, <1>t
  <2>4. cloud[r] # NoReport
    BY <2>1 DEF ReportSteps, ReportClaim, ReportSkip, ReportNotReady, ReportHeard, ReportRefused, ReportComplete,
        ReportUnnoted, ReportFail, FailFails, ReportEnd, ReportKilled, Step, NoReport
  <2>5. \A s \in Requests : email'[s] \notin {"sent", "failed"} => s # r /\ cloud'[s] = NoReport
    BY <2>1, <2>2, <2>4, <1>0, <1>t
  <2> QED BY <2>3, <2>5, <1>1
<1>5. CASE MoodSteps
  <2>1. UNCHANGED <<email, cloud>>
    BY <1>5 DEF MoodSteps, Suppress, Unsuppress, ConnectionTurns, Midnight, KeysAge, EntryExpires
  <2> QED BY <2>1, <1>0, <1>1
<1>6. CASE UNCHANGED gvars
  BY <1>0, <1>1, <1>6 DEF gvars
<1> QED BY <1>2, <1>3, <1>4, <1>5, <1>6 DEF GateNext

-----------------------------------------------------------------------------
(***************************************************************************)
(* The theorems.                                                           *)
(***************************************************************************)
(* Nothing has been asked for at first.                                    *)
LEMMA GateStart == GateInit => GateInv
<1> SUFFICES ASSUME GateInit  PROVE GateInv
  OBVIOUS
<1>0. scene \in Scene /\ RunCap \in Nat \ {0} /\ DailyCap \in Nat \ {0}
  BY GateAssumption DEF GateInit, GateAssumption
<1>1. /\ Via("mcp") \subseteq Requests
      /\ scene.slips \in Nat /\ scene.moods \in Nat /\ scene.connected \subseteq Connections
  BY <1>0 DEF Scene, Via
<1>2. NoReport \in Report
  BY DEF NoReport, Report, ReportPC, ReportStatus
<1>3. GateTypeOK
  BY <1>1, <1>2, NoJobType DEF GateInit, GateTypeOK, GatePC
<1>4. \A r \in Requests : pc[r] = "idle" /\ email[r] = "none" /\ job[r] = NoJob /\ mailed[r] = {}
  BY DEF GateInit
<1>5. OrderInv
  BY <1>4, JobFields DEF GateInit, OrderInv, Early
<1>6. QuotaInv
  <2>1. ASSUME NEW c \in Connections  PROVE Holders(c) = {} /\ Takers(c) = {}
    BY <1>4, JobFields DEF Holders, Takers, Underway
  <2>2. ASSUME NEW c \in Connections
        PROVE  Cardinality(Holders(c)) = 0 /\ Cardinality(Takers(c)) = 0
               /\ used[c] = 0 /\ own[c] = 0 /\ peak[c] = 0 /\ taken[c] = 0 /\ missed[c] = 0
    BY <2>1, FS_EmptySet DEF GateInit
  <2> QED BY <2>2, <1>0 DEF QuotaInv
<1>7. McpInv
  <2>1. Flight = {} /\ Made = {}
    BY <1>1, <1>4 DEF Flight, Made, OnTheWay
  <2>2. Cardinality(Flight) = 0 /\ Cardinality(Made) = 0 /\ Cardinality(Made \intersect Flight) = 0
    BY <2>1, FS_EmptySet
  <2>3. total = 0 /\ flown = 0 /\ untold = 0
    BY DEF GateInit
  <2>4. \A r \in Requests : pc[r] # "accounting"
    BY <1>4
  <2> QED BY <2>2, <2>3, <2>4, <1>0 DEF McpInv
<1>8. ListInv
  BY <1>4 DEF ListInv
<1>9. KeyInv
  BY <1>4, JobFields DEF GateInit, KeyInv, Dispatched, InEngine
<1>10. ReportInv
  <2>1. \A r \in Requests : cloud[r] = NoReport
    BY DEF GateInit
  <2>2. Truthful(NoReport)
    BY DEF NoReport, Truthful
  <2> QED BY <2>1, <2>2 DEF ReportInv, Truthful
<1> QED BY <1>3, <1>5, <1>6, <1>7, <1>8, <1>9, <1>10 DEF GateInv

(* GateInv is inductive: whatever order requests, jobs, changes of the list*)
(* and failures come in, the counters, the keys and the list agree.        *)
THEOREM GateInvariance == GateSpec => []GateInv
<1>1. GateInv /\ [GateNext]_gvars => GateInv'
  BY TypesKept, OrderKept, QuotaKept, McpKept, ListKept, KeyKept, ReportsKept DEF GateInv
<1> QED BY <1>1, GateStart, PTL DEF GateSpec

(* The day's messages of a connection exceed its cap by no more than what  *)
(* was on the way at once and what was counted elsewhere, for every cap.   *)
THEOREM QuotaStaysBounded == GateSpec => []QuotaBounded
<1>1. GateInv => QuotaBounded
  <2> SUFFICES ASSUME GateInv, NEW c \in Connections
               PROVE  taken[c] <= (DailyCap - 1) + peak[c] + missed[c]
    BY DEF QuotaBounded
  <2>1. /\ own[c] + Cardinality(Holders(c)) <= (DailyCap - 1) + peak[c]
        /\ taken[c] <= own[c] + Cardinality(Takers(c)) + missed[c]
        /\ own[c] \in Nat /\ taken[c] \in Nat /\ peak[c] \in Nat /\ missed[c] \in Nat
        /\ DailyCap \in Nat /\ None \notin Connections
    BY GateAssumption DEF GateInv, QuotaInv, GateTypeOK, GateAssumption
  <2>2. Takers(c) \subseteq Holders(c) /\ Holders(c) \in SUBSET Requests
    BY <2>1 DEF GateInv, OrderInv, Takers, Holders, Underway
  <2>3. Cardinality(Takers(c)) <= Cardinality(Holders(c))
    BY <2>2, NoMore
  <2>4. Cardinality(Takers(c)) \in Nat /\ Cardinality(Holders(c)) \in Nat
    BY <2>2, RequestsFinite
  <2> QED BY <2>1, <2>3, <2>4
<1> QED BY <1>1, GateInvariance, PTL

(* The emails of an MCP connection exceed its cap by no more than what was *)
(* on the way at once and what was answered with an error, for every cap.  *)
THEOREM McpStaysBounded == GateSpec => []McpBounded
<1>1. GateInv => McpBounded
  <2> SUFFICES ASSUME GateInv  PROVE McpBounded
    OBVIOUS
  <2>1. /\ total + Cardinality(Flight) <= (RunCap - 1) + flown
        /\ Cardinality(Made) <= total + Cardinality(Made \intersect Flight) + untold
        /\ total \in Nat /\ flown \in Nat /\ untold \in Nat /\ RunCap \in Nat
    BY GateAssumption DEF GateInv, McpInv, GateTypeOK, GateAssumption
  <2>2. /\ Flight \in SUBSET Requests /\ Made \in SUBSET Requests
        /\ Made \intersect Flight \in SUBSET Flight
    BY DEF Flight, Made, Via
  <2>3. Cardinality(Made \intersect Flight) <= Cardinality(Flight)
    BY <2>2, NoMore
  <2>4. /\ Cardinality(Flight) \in Nat /\ Cardinality(Made) \in Nat
        /\ Cardinality(Made \intersect Flight) \in Nat
    BY <2>2, RequestsFinite
  <2> QED BY <2>1, <2>3, <2>4 DEF McpBounded
<1> QED BY <1>1, GateInvariance, PTL

(* Whoever is on the suppression list when a provider takes a message was  *)
(* put there after the dispatch had asked.                                 *)
THEOREM SuppressionRespected == GateSpec => []SuppressedOnlyLate
<1>1. GateInv => SuppressedOnlyLate
  BY DEF GateInv, ListInv, SuppressedOnlyLate
<1> QED BY <1>1, GateInvariance, PTL

(* One key is sent for twice only past two lookups and past the engine's   *)
(* store.                                                                  *)
THEOREM KeyedOnce == GateSpec => []OneSendPerKey
<1>1. GateInv => OneSendPerKey
  <2> SUFFICES ASSUME GateInv, NEW r \in Requests, NEW s \in Requests,
                      r # s, scene.keyed[r], scene.keyed[s], r \in posted, s \in posted
               PROVE  /\ r \in unseen[s] \/ s \in unseen[r]
                      /\ forgot \/ r \in beside[s] \/ s \in beside[r]
    BY DEF OneSendPerKey
  <2>1. Dispatched(r) /\ Dispatched(s)
    BY DEF GateInv, OrderInv, Dispatched
  <2>2. InEngine(r) /\ InEngine(s)
    BY DEF InEngine
  <2> QED BY <2>1, <2>2 DEF GateInv, KeyInv
<1> QED BY <1>1, GateInvariance, PTL

(* The cloud service hears of one change twice only where its answer, or   *)
(* the note of it, was lost.                                               *)
THEOREM CloudStaysHeardOnce == GateSpec => []CloudHeardOnce
<1>1. GateInv => CloudHeardOnce
  <2> SUFFICES ASSUME GateInv, NEW r \in Requests  PROVE cloud[r].heard <= 1 + cloud[r].lost
    BY DEF CloudHeardOnce
  <2>1. cloud[r].heard <= cloud[r].lost + 1 /\ cloud[r] \in Report
    BY DEF GateInv, ReportInv, GateTypeOK
  <2>2. cloud[r].heard \in Nat /\ cloud[r].lost \in Nat
    BY <2>1 DEF Report
  <2> QED BY <2>1, <2>2
<1> QED BY <1>1, GateInvariance, PTL
=============================================================================
