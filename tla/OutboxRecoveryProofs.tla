------------------------ MODULE OutboxRecoveryProofs ------------------------
(***************************************************************************)
(* Theorems about OutboxRecovery, for every number of emails, events,      *)
(* jobs, requests and reconciliations: RepairInv is inductive.  The        *)
(* pipeline keeps the rows in order, and so do the reconciler and the rake *)
(* tasks.  Every step is, for each email, one of a few moves               *)
(* (RecoveryMoves), and each move leaves the email with one claimant and   *)
(* with its account balanced (MoveKeeps).                                  *)
(***************************************************************************)
EXTENDS OutboxRepair, OutboxTruthProofs
-----------------------------------------------------------------------------
(***************************************************************************)
(* The rows, under the pipeline.                                           *)
(***************************************************************************)
USE PipelineAssumption
USE DEF rows, engine, losses, EmailOf, TypeOK, EventRow, Job, Request, EmailStatus, EventStatus,
        Working, PC, Phase, FreeJob

(* No step takes a row away or gives an event another email.               *)
LEMMA RowsStay ==
  ASSUME TypeOK, WellFormed, Next
  PROVE  /\ \A e \in Emails : email[e] # "none" => email'[e] # "none"
         /\ \A e \in Emails : email[e] \notin {"none", "queued"} => email'[e] # "queued"
         /\ \A o \in Events : event[o].status # "absent" =>
              event'[o].status # "absent" /\ event'[o].email = event[o].email
<1> DEFINE Goal ==
      /\ \A e \in Emails : email[e] # "none" => email'[e] # "none"
      /\ \A e \in Emails : email[e] \notin {"none", "queued"} => email'[e] # "queued"
      /\ \A o \in Events : event[o].status # "absent" =>
           event'[o].status # "absent" /\ event'[o].email = event[o].email
<1> USE DEF WellFormed
<1>1. ASSUME NEW a \in Emails, NEW o \in Events, Dispatch(a, o) PROVE Goal
  BY <1>1 DEF Dispatch
<1>2. ASSUME NEW o \in Events, NEW j \in Jobs, Enqueue(o, j) PROVE Goal
  BY <1>2 DEF Enqueue, Push
<1>3. ASSUME NEW o \in Events, NEW j \in Jobs, RequeueOrphaned(o, j) PROVE Goal
  BY <1>3 DEF RequeueOrphaned, Push
<1>4. ASSUME NEW j \in Jobs, Claim(j) PROVE Goal
  BY <1>4 DEF Claim, Goto
<1>5. ASSUME NEW j \in Jobs, ClaimNothing(j) PROVE Goal
  BY <1>5 DEF ClaimNothing, Leave
<1>6. ASSUME NEW j \in Jobs, LoadIneligible(j) PROVE Goal
  BY <1>6 DEF LoadIneligible, Load
<1>7. ASSUME NEW j \in Jobs, NEW r \in Requests, Post(j, r) PROVE Goal
  BY <1>7 DEF Post, Load
<1>8. ASSUME NEW j \in Jobs, MarkSent(j) PROVE Goal
  BY <1>8 DEF MarkSent, Written
<1>9. ASSUME NEW j \in Jobs, Complete(j) PROVE Goal
  BY <1>9 DEF Complete, Leave, Written
<1>10. ASSUME NEW j \in Jobs, MarkFailed(j) PROVE Goal
  BY <1>10 DEF MarkFailed, Written
<1>11. ASSUME NEW j \in Jobs, KillEvent(j) PROVE Goal
  BY <1>11 DEF KillEvent, Leave, Written
<1>12. ASSUME NEW j \in Jobs, FailEvent(j) PROVE Goal
  BY <1>12 DEF FailEvent, Leave, Written
<1>13. ASSUME NEW j \in Jobs, Reschedule(j) PROVE Goal
  BY <1>13 DEF Reschedule
<1>14. ASSUME NEW j \in Jobs, RetriesExhausted(j) PROVE Goal
  BY <1>14 DEF RetriesExhausted, Leave
<1>15. ASSUME NEW r \in Requests, GoReplay(r) PROVE Goal
  BY <1>15 DEF GoReplay, Answer, IdleRequest
<1>16. ASSUME NEW r \in Requests, GoMiss(r) PROVE Goal
  BY <1>16 DEF GoMiss
<1>17. ASSUME NEW r \in Requests, GoDeclines(r) PROVE Goal
  BY <1>17 DEF GoDeclines, Answer, IdleRequest
<1>18. ASSUME NEW r \in Requests, ProviderAccepts(r) PROVE Goal
  BY <1>18 DEF ProviderAccepts
<1>19. ASSUME NEW r \in Requests, ProviderRefuses(r) PROVE Goal
  BY <1>19 DEF ProviderRefuses, Answer, IdleRequest, Fallback
<1>20. ASSUME NEW r \in Requests, ProviderAnswerLost(r) PROVE Goal
  BY <1>20 DEF ProviderAnswerLost, Answer, IdleRequest, Fallback, Lose
<1>21. ASSUME NEW r \in Requests, GoResponds(r) PROVE Goal
  BY <1>21 DEF GoResponds, Answer, IdleRequest
<1>22. ASSUME NEW j \in Jobs, RaisesBeforeCall(j) PROVE Goal
  BY <1>22 DEF RaisesBeforeCall, Load
<1>23. ASSUME NEW j \in Jobs, Timeout(j) PROVE Goal
  BY <1>23 DEF Timeout, Goto, Disconnect, Lose
<1>24. ASSUME NEW j \in Jobs, WriteFails(j) PROVE Goal
  BY <1>24 DEF WriteFails, Goto
<1>25. ASSUME NEW r \in Requests, GoCrash(r) PROVE Goal
  BY <1>25 DEF GoCrash, Answer, IdleRequest, Lose, Waiting
<1>26. ASSUME NEW o \in Events, EnqueueLost(o) PROVE Goal
  BY <1>26 DEF EnqueueLost
<1>27. ASSUME NEW j \in Jobs, ReleaseFails(j) PROVE Goal
  BY <1>27 DEF ReleaseFails, Leave
<1>28. ASSUME NEW j \in Jobs, Kill(j) PROVE Goal
  BY <1>28 DEF Kill
<1>29. ASSUME NEW j \in Jobs, Shutdown(j) PROVE Goal
  BY <1>29 DEF Shutdown
<1>30. ASSUME NEW j \in Jobs, ClaimRaises(j) PROVE Goal
  BY <1>30 DEF ClaimRaises, Goto
<1>31. QED
  BY <1>1, <1>2, <1>3, <1>4, <1>5, <1>6, <1>7, <1>8, <1>9, <1>10,
     <1>11, <1>12, <1>13, <1>14, <1>15, <1>16, <1>17, <1>18, <1>19, <1>20,
     <1>21, <1>22, <1>23, <1>24, <1>25, <1>26, <1>27, <1>28, <1>29, <1>30
  DEF Next, Running, Dispatching, Perform, Serve, Error, Crash

(* Rows, jobs and requests go on to name rows that exist.                  *)
LEMMA FormStep ==
  ASSUME TypeOK, WellFormed, Next PROVE WellFormed'
<1> USE DEF WellFormed
<1>1. ASSUME NEW a \in Emails, NEW o \in Events, Dispatch(a, o) PROVE WellFormed'
  BY <1>1 DEF Dispatch
<1>2. ASSUME NEW o \in Events, NEW j \in Jobs, Enqueue(o, j) PROVE WellFormed'
  BY <1>2 DEF Enqueue, Push
<1>3. ASSUME NEW o \in Events, NEW j \in Jobs, RequeueOrphaned(o, j) PROVE WellFormed'
  BY <1>3 DEF RequeueOrphaned, Push
<1>4. ASSUME NEW j \in Jobs, Claim(j) PROVE WellFormed'
  BY <1>4 DEF Claim, Goto
<1>5. ASSUME NEW j \in Jobs, ClaimNothing(j) PROVE WellFormed'
  BY <1>5 DEF ClaimNothing, Leave
<1>6. ASSUME NEW j \in Jobs, LoadIneligible(j) PROVE WellFormed'
  BY <1>6 DEF LoadIneligible, Load
<1>7. ASSUME NEW j \in Jobs, NEW r \in Requests, Post(j, r) PROVE WellFormed'
  BY <1>7 DEF Post, Load
<1>8. ASSUME NEW j \in Jobs, MarkSent(j) PROVE WellFormed'
  BY <1>8 DEF MarkSent, Written
<1>9. ASSUME NEW j \in Jobs, Complete(j) PROVE WellFormed'
  BY <1>9 DEF Complete, Leave, Written
<1>10. ASSUME NEW j \in Jobs, MarkFailed(j) PROVE WellFormed'
  BY <1>10 DEF MarkFailed, Written
<1>11. ASSUME NEW j \in Jobs, KillEvent(j) PROVE WellFormed'
  BY <1>11 DEF KillEvent, Leave, Written
<1>12. ASSUME NEW j \in Jobs, FailEvent(j) PROVE WellFormed'
  BY <1>12 DEF FailEvent, Leave, Written
<1>13. ASSUME NEW j \in Jobs, Reschedule(j) PROVE WellFormed'
  BY <1>13 DEF Reschedule
<1>14. ASSUME NEW j \in Jobs, RetriesExhausted(j) PROVE WellFormed'
  BY <1>14 DEF RetriesExhausted, Leave
<1>15. ASSUME NEW r \in Requests, GoReplay(r) PROVE WellFormed'
  BY <1>15 DEF GoReplay, Answer, IdleRequest
<1>16. ASSUME NEW r \in Requests, GoMiss(r) PROVE WellFormed'
  BY <1>16 DEF GoMiss
<1>17. ASSUME NEW r \in Requests, GoDeclines(r) PROVE WellFormed'
  BY <1>17 DEF GoDeclines, Answer, IdleRequest
<1>18. ASSUME NEW r \in Requests, ProviderAccepts(r) PROVE WellFormed'
  BY <1>18 DEF ProviderAccepts
<1>19. ASSUME NEW r \in Requests, ProviderRefuses(r) PROVE WellFormed'
  <2>1. CASE \E pc \in {"rejected", "erring"} : Answer(r, pc)
    <3>1. PICK pc \in {"rejected", "erring"} : Answer(r, pc)
      BY <2>1
    <3>2. UNCHANGED <<rows, unqueued>> /\ request[r].phase = "sending"
      BY <1>19 DEF ProviderRefuses
    <3>3. QED  BY <3>1, <3>2 DEF Answer, IdleRequest
  <2>2. CASE Fallback(r) /\ UNCHANGED job
    BY <1>19, <2>2 DEF ProviderRefuses, Fallback
  <2>3. QED  BY <1>19, <2>1, <2>2 DEF ProviderRefuses
<1>20. ASSUME NEW r \in Requests, ProviderAnswerLost(r) PROVE WellFormed'
  <2>1. CASE Answer(r, "erring")
    BY <1>20, <2>1 DEF ProviderAnswerLost, Answer, IdleRequest
  <2>2. CASE Fallback(r) /\ UNCHANGED job
    BY <1>20, <2>2 DEF ProviderAnswerLost, Fallback
  <2>3. QED  BY <1>20, <2>1, <2>2 DEF ProviderAnswerLost
<1>21. ASSUME NEW r \in Requests, GoResponds(r) PROVE WellFormed'
  BY <1>21 DEF GoResponds, Answer, IdleRequest
<1>22. ASSUME NEW j \in Jobs, RaisesBeforeCall(j) PROVE WellFormed'
  BY <1>22 DEF RaisesBeforeCall, Load
<1>23. ASSUME NEW j \in Jobs, Timeout(j) PROVE WellFormed'
  BY <1>23 DEF Timeout, Goto, Disconnect, Lose
<1>24. ASSUME NEW j \in Jobs, WriteFails(j) PROVE WellFormed'
  BY <1>24 DEF WriteFails, Goto
<1>25. ASSUME NEW r \in Requests, GoCrash(r) PROVE WellFormed'
  BY <1>25 DEF GoCrash, Answer, IdleRequest, Lose, Waiting
<1>26. ASSUME NEW o \in Events, EnqueueLost(o) PROVE WellFormed'
  BY <1>26 DEF EnqueueLost
<1>27. ASSUME NEW j \in Jobs, ReleaseFails(j) PROVE WellFormed'
  BY <1>27 DEF ReleaseFails, Leave
<1>28. ASSUME NEW j \in Jobs, Kill(j) PROVE WellFormed'
  <2>1. /\ job[j].pc # "free" /\ job'[j].pc \notin {"free", "calling"}
        /\ job'[j].event = job[j].event
        /\ \A k \in Jobs : k # j => job'[k] = job[k]
    BY <1>28 DEF Kill, Leave
  <2>2. \A r \in Requests :
          /\ request'[r].phase = request[r].phase /\ request'[r].email = request[r].email
          /\ request'[r].client = IF request[r].client = j THEN None ELSE request[r].client
    BY <1>28 DEF Kill, Disconnect
  <2>3. event' = event /\ unqueued' = unqueued
    BY <1>28 DEF Kill
  <2>4. \A r \in Requests : request[r].client \in Jobs \union {None}
    OBVIOUS
  <2> HIDE DEF TypeOK
  <2>5. QED  BY <2>1, <2>2, <2>3, <2>4
<1>29. ASSUME NEW j \in Jobs, Shutdown(j) PROVE WellFormed'
  <2>1. /\ job[j].pc # "free" /\ job'[j].pc \notin {"free", "calling"}
        /\ job'[j].event = job[j].event
        /\ \A k \in Jobs : k # j => job'[k] = job[k]
    BY <1>29 DEF Shutdown, Leave
  <2>2. \A r \in Requests :
          /\ request'[r].phase = request[r].phase /\ request'[r].email = request[r].email
          /\ request'[r].client = IF request[r].client = j THEN None ELSE request[r].client
    BY <1>29 DEF Shutdown, Disconnect
  <2>3. event' = event /\ unqueued' = unqueued
    BY <1>29 DEF Shutdown
  <2>4. \A r \in Requests : request[r].client \in Jobs \union {None}
    OBVIOUS
  <2> HIDE DEF TypeOK
  <2>5. QED  BY <2>1, <2>2, <2>3, <2>4
<1>30. ASSUME NEW j \in Jobs, ClaimRaises(j) PROVE WellFormed'
  BY <1>30 DEF ClaimRaises, Goto
<1>31. QED
  BY <1>1, <1>2, <1>3, <1>4, <1>5, <1>6, <1>7, <1>8, <1>9, <1>10,
     <1>11, <1>12, <1>13, <1>14, <1>15, <1>16, <1>17, <1>18, <1>19, <1>20,
     <1>21, <1>22, <1>23, <1>24, <1>25, <1>26, <1>27, <1>28, <1>29, <1>30
  DEF Next, Running, Dispatching, Perform, Serve, Error, Crash

(* An outcome stays, and whoever read it finds one.                        *)
LEMMA OutcomesStep ==
  ASSUME TypeOK, WellFormed, OutcomesLast, Next PROVE OutcomesLast'
<1> USE DEF WellFormed, OutcomesLast
<1>1. ASSUME NEW a \in Emails, NEW o \in Events, Dispatch(a, o) PROVE OutcomesLast'
  BY <1>1 DEF Dispatch
<1>2. ASSUME NEW o \in Events, NEW j \in Jobs, Enqueue(o, j) PROVE OutcomesLast'
  BY <1>2 DEF Enqueue, Push
<1>3. ASSUME NEW o \in Events, NEW j \in Jobs, RequeueOrphaned(o, j) PROVE OutcomesLast'
  BY <1>3 DEF RequeueOrphaned, Push
<1>4. ASSUME NEW j \in Jobs, Claim(j) PROVE OutcomesLast'
  BY <1>4 DEF Claim, Goto
<1>5. ASSUME NEW j \in Jobs, ClaimNothing(j) PROVE OutcomesLast'
  BY <1>5 DEF ClaimNothing, Leave
<1>6. ASSUME NEW j \in Jobs, LoadIneligible(j) PROVE OutcomesLast'
  BY <1>6 DEF LoadIneligible, Load
<1>7. ASSUME NEW j \in Jobs, NEW r \in Requests, Post(j, r) PROVE OutcomesLast'
  BY <1>7 DEF Post, Load
<1>8. ASSUME NEW j \in Jobs, MarkSent(j) PROVE OutcomesLast'
  BY <1>8 DEF MarkSent, Written
<1>9. ASSUME NEW j \in Jobs, Complete(j) PROVE OutcomesLast'
  BY <1>9 DEF Complete, Leave, Written
<1>10. ASSUME NEW j \in Jobs, MarkFailed(j) PROVE OutcomesLast'
  BY <1>10 DEF MarkFailed, Written
<1>11. ASSUME NEW j \in Jobs, KillEvent(j) PROVE OutcomesLast'
  BY <1>11 DEF KillEvent, Leave, Written
<1>12. ASSUME NEW j \in Jobs, FailEvent(j) PROVE OutcomesLast'
  BY <1>12 DEF FailEvent, Leave, Written
<1>13. ASSUME NEW j \in Jobs, Reschedule(j) PROVE OutcomesLast'
  BY <1>13 DEF Reschedule
<1>14. ASSUME NEW j \in Jobs, RetriesExhausted(j) PROVE OutcomesLast'
  BY <1>14 DEF RetriesExhausted, Leave
<1>15. ASSUME NEW r \in Requests, GoReplay(r) PROVE OutcomesLast'
  BY <1>15 DEF GoReplay, Answer, IdleRequest
<1>16. ASSUME NEW r \in Requests, GoMiss(r) PROVE OutcomesLast'
  BY <1>16 DEF GoMiss
<1>17. ASSUME NEW r \in Requests, GoDeclines(r) PROVE OutcomesLast'
  BY <1>17 DEF GoDeclines, Answer, IdleRequest
<1>18. ASSUME NEW r \in Requests, ProviderAccepts(r) PROVE OutcomesLast'
  BY <1>18 DEF ProviderAccepts
<1>19. ASSUME NEW r \in Requests, ProviderRefuses(r) PROVE OutcomesLast'
  <2>1. CASE \E pc \in {"rejected", "erring"} : Answer(r, pc)
    <3>1. PICK pc \in {"rejected", "erring"} : Answer(r, pc)
      BY <2>1
    <3>2. UNCHANGED <<rows, unqueued>> /\ request[r].phase = "sending"
      BY <1>19 DEF ProviderRefuses
    <3>3. QED  BY <3>1, <3>2 DEF Answer, IdleRequest
  <2>2. CASE Fallback(r) /\ UNCHANGED job
    BY <1>19, <2>2 DEF ProviderRefuses, Fallback
  <2>3. QED  BY <1>19, <2>1, <2>2 DEF ProviderRefuses
<1>20. ASSUME NEW r \in Requests, ProviderAnswerLost(r) PROVE OutcomesLast'
  <2>1. CASE Answer(r, "erring")
    BY <1>20, <2>1 DEF ProviderAnswerLost, Answer, IdleRequest
  <2>2. CASE Fallback(r) /\ UNCHANGED job
    BY <1>20, <2>2 DEF ProviderAnswerLost, Fallback
  <2>3. QED  BY <1>20, <2>1, <2>2 DEF ProviderAnswerLost
<1>21. ASSUME NEW r \in Requests, GoResponds(r) PROVE OutcomesLast'
  BY <1>21 DEF GoResponds, Answer, IdleRequest
<1>22. ASSUME NEW j \in Jobs, RaisesBeforeCall(j) PROVE OutcomesLast'
  BY <1>22 DEF RaisesBeforeCall, Load
<1>23. ASSUME NEW j \in Jobs, Timeout(j) PROVE OutcomesLast'
  BY <1>23 DEF Timeout, Goto, Disconnect, Lose
<1>24. ASSUME NEW j \in Jobs, WriteFails(j) PROVE OutcomesLast'
  BY <1>24 DEF WriteFails, Goto
<1>25. ASSUME NEW r \in Requests, GoCrash(r) PROVE OutcomesLast'
  BY <1>25 DEF GoCrash, Answer, IdleRequest, Lose, Waiting
<1>26. ASSUME NEW o \in Events, EnqueueLost(o) PROVE OutcomesLast'
  BY <1>26 DEF EnqueueLost
<1>27. ASSUME NEW j \in Jobs, ReleaseFails(j) PROVE OutcomesLast'
  BY <1>27 DEF ReleaseFails, Leave
<1>28. ASSUME NEW j \in Jobs, Kill(j) PROVE OutcomesLast'
  BY <1>28 DEF Kill, Leave, Disconnect
<1>29. ASSUME NEW j \in Jobs, Shutdown(j) PROVE OutcomesLast'
  BY <1>29 DEF Shutdown, Leave, Disconnect
<1>30. ASSUME NEW j \in Jobs, ClaimRaises(j) PROVE OutcomesLast'
  BY <1>30 DEF ClaimRaises, Goto
<1>31. QED
  BY <1>1, <1>2, <1>3, <1>4, <1>5, <1>6, <1>7, <1>8, <1>9, <1>10,
     <1>11, <1>12, <1>13, <1>14, <1>15, <1>16, <1>17, <1>18, <1>19, <1>20,
     <1>21, <1>22, <1>23, <1>24, <1>25, <1>26, <1>27, <1>28, <1>29, <1>30
  DEF Next, Running, Dispatching, Perform, Serve, Error, Crash

HIDE PipelineAssumption
HIDE DEF rows, engine, losses, EmailOf, TypeOK, EventRow, Job, Request, EmailStatus, EventStatus,
         Working, PC, Phase, FreeJob

-----------------------------------------------------------------------------
(***************************************************************************)
(* Rows and readings, under the pipeline and under repair.                 *)
(***************************************************************************)
Shape == RecoveryTypeOK /\ WellFormed /\ CallersMatch /\ ReconWellFormed /\ OutcomesLast

(* A step of the pipeline keeps them, whatever it does to ages.            *)
LEMMA PipelineShape ==
  ASSUME Shape, Next, UNCHANGED repair, old' \in SUBSET Events, abandoned' \in [Emails -> Nat]
  PROVE  Shape'
<1>1. TypeOK /\ TypeOK' /\ WellFormed'
  BY TypeStep, FormStep DEF Shape, RecoveryTypeOK
<1>2. RecoveryTypeOK'
  BY <1>1 DEF Shape, RecoveryTypeOK, repair
<1>3. CallersMatch' /\ OutcomesLast'
  BY <1>1, CallersStep, OutcomesStep DEF Shape
<1>4. ReconWellFormed'
  <2>1. /\ \A e \in Emails : email[e] # "none" => email'[e] # "none"
        /\ \A o \in Events : event[o].status # "absent" =>
             event'[o].status # "absent" /\ event'[o].email = event[o].email
    BY <1>1, RowsStay DEF Shape
  <2>2. ReconWellFormed /\ recon' = recon /\ sweep' = sweep
    BY DEF Shape, repair
  <2>3. QED  BY <2>1, <2>2 DEF ReconWellFormed
<1>5. QED  BY <1>1, <1>2, <1>3, <1>4 DEF Shape

(* A step that changes no row keeps them, if what it reads exists.         *)
LEMMA ReadingShape ==
  ASSUME Shape, UNCHANGED <<vars, resets, hasty, abandoned, rebuilt>>,
         recon' \in [Reconcilers -> Reading],
         old' \in SUBSET Events, sweep' \in {"idle", "stuck"} \union Emails, ReconWellFormed'
  PROVE  Shape'
<1>1. RecoveryTypeOK'
  BY DEF Shape, RecoveryTypeOK, vars, TypeOK
<1>2. WellFormed' /\ CallersMatch' /\ OutcomesLast'
  BY DEF Shape, vars, WellFormed, CallersMatch, Active, OutcomesLast, EmailOf
<1>3. QED  BY <1>1, <1>2 DEF Shape

(* Pushing jobs for events that exist keeps them.                          *)
LEMMA PushShape ==
  ASSUME Shape, job' \in [Jobs -> Job],
         \A k \in Jobs : \/ job'[k] = job[k]
                         \/ /\ job[k].pc = "free" /\ job'[k].pc = "queued"
                            /\ job'[k].event \in Events
                            /\ event[job'[k].event].status # "absent",
         UNCHANGED <<rows, unqueued, engine, losses>>
  PROVE  TypeOK' /\ WellFormed' /\ CallersMatch' /\ OutcomesLast'
<1> USE DEF Shape, rows, engine, losses
<1>1. TypeOK'
  BY DEF RecoveryTypeOK, TypeOK
<1>2. /\ \A k \in Jobs : job[k].pc # "free" => job'[k] = job[k]
      /\ \A k \in Jobs : job'[k].pc \in Working => job'[k] = job[k]
      /\ \A k \in Jobs : job'[k].pc # "free" =>
           job'[k].event \in Events /\ event[job'[k].event].status # "absent"
      /\ \A r \in Requests : request[r].client \in Jobs \union {None}
  BY DEF RecoveryTypeOK, TypeOK, Request, Working, WellFormed
<1>3. WellFormed'
  BY <1>2 DEF WellFormed
<1>4. \A r \in Requests : request[r].client # None => job'[request[r].client] = job[request[r].client]
  BY <1>2 DEF WellFormed
<1>5. CallersMatch'
  BY <1>4 DEF CallersMatch, Active, EmailOf
<1>6. OutcomesLast'
  BY <1>2 DEF OutcomesLast, EmailOf
<1>7. QED  BY <1>1, <1>3, <1>5, <1>6

(* So does writing the status of events that exist.                        *)
LEMMA PendShape ==
  ASSUME Shape, event' \in [Events -> EventRow],
         \A o \in Events : event[o].status # "absent" =>
           event'[o].status # "absent" /\ event'[o].email = event[o].email,
         \A o \in Events : event[o].status = "absent" =>
           event'[o] = event[o],
         UNCHANGED <<email, unqueued, job, engine, losses>>
  PROVE  TypeOK' /\ WellFormed' /\ CallersMatch' /\ OutcomesLast'
<1> USE DEF Shape, engine, losses
<1>1. TypeOK'
  BY DEF RecoveryTypeOK, TypeOK
<1>2. /\ \A k \in Jobs : job[k].pc # "free" =>
           job[k].event \in Events /\ event[job[k].event].status # "absent"
      /\ \A k \in Jobs : job[k].pc # "free" => EmailOf(k)' = EmailOf(k)
  BY DEF WellFormed, EmailOf
<1>3. WellFormed'
  <2>1. unqueued \subseteq Events
    BY DEF RecoveryTypeOK, TypeOK
  <2>2. QED  BY <1>2, <2>1 DEF WellFormed
<1>4. \A r \in Requests : request[r].client # None =>
        request[r].client \in Jobs /\ job[request[r].client].pc # "free"
  BY DEF WellFormed, RecoveryTypeOK, TypeOK, Request
<1>5. CallersMatch'
  BY <1>2, <1>4 DEF CallersMatch, Active
<1>6. \A o \in Events : event'[o].status # "absent" => email'[event'[o].email] # "none"
  BY DEF OutcomesLast
<1>7. OutcomesLast'
  BY <1>2, <1>6 DEF OutcomesLast, Working
<1>8. QED  BY <1>1, <1>3, <1>5, <1>7

(* And so does a new event with its job.                                   *)
LEMMA BirthShape ==
  ASSUME Shape, NEW o \in Events, NEW j \in Jobs, NEW e \in Emails, email[e] # "none",
         event' \in [Events -> EventRow], \A p \in Events : p # o => event'[p] = event[p],
         event[o].status = "absent", event'[o].status = "pending", event'[o].email = e,
         job[j].pc = "free", job'[j].pc = "queued", job'[j].event = o,
         \A k \in Jobs : k # j => job'[k] = job[k], job' \in [Jobs -> Job],
         UNCHANGED <<email, unqueued, engine, losses>>
  PROVE  TypeOK' /\ WellFormed' /\ CallersMatch' /\ OutcomesLast'
<1> USE DEF Shape, engine, losses
<1>1. TypeOK'
  BY DEF RecoveryTypeOK, TypeOK
<1>2. /\ \A k \in Jobs : job[k].pc # "free" => k # j /\ job'[k] = job[k] /\ EmailOf(k)' = EmailOf(k)
      /\ \A k \in Jobs : job'[k].pc # "free" => k = j \/ (job[k].pc # "free" /\ job'[k] = job[k])
      /\ \A p \in Events : event[p].status # "absent" => p # o
  BY DEF WellFormed, EmailOf
<1>3. \A r \in Requests : request[r].client # None =>
        request[r].client \in Jobs /\ job[request[r].client].pc = "calling"
  BY DEF WellFormed, RecoveryTypeOK, TypeOK, Request
<1>4. WellFormed'
  <2>1. unqueued \subseteq Events
    BY DEF RecoveryTypeOK, TypeOK
  <2>2. QED  BY <1>2, <1>3, <2>1 DEF WellFormed
<1>5. CallersMatch'
  BY <1>2, <1>3 DEF CallersMatch, Active
<1>6. \A k \in Jobs : job'[k].pc \in Working => job[k].pc \in Working /\ job'[k] = job[k]
                                                /\ EmailOf(k)' = EmailOf(k)
  BY <1>2 DEF Working
<1>7. OutcomesLast'
  BY <1>2, <1>6 DEF OutcomesLast
<1>8. QED  BY <1>1, <1>4, <1>5, <1>7

(* The bound on trouble bounds the resets.                                 *)
LEMMA ResetsBound ==
  ASSUME RecoveryTypeOK, TypeOK', abandoned' = abandoned, NEW e \in Emails, resets' = resets + 1, Bounded
  PROVE  resets' \in 0..MaxTrouble
<1>1. /\ lost'[e] \in Nat /\ unwritten'[e] \in Nat /\ abandoned'[e] \in Nat
      /\ resets \in Nat /\ MaxTrouble \in Nat
  BY RecoveryAssumption DEF RecoveryTypeOK, TypeOK
<1>2. resets' + lost'[e] + unwritten'[e] + abandoned'[e] <= MaxTrouble
  BY DEF Bounded, Trouble
<1>3. QED  BY <1>1, <1>2

(* What the reconciler does keeps rows and readings.                       *)
LEMMA ReconcileShape ==
  ASSUME Shape, NEW c \in Reconcilers,
         \/ \E e \in Emails : ReconcileStart(c, e)
         \/ ReconcileRead(c) \/ ReconcileReset(c) \/ ReconcileEnqueue(c) \/ ReconcilerDies(c)
  PROVE  Shape'
<1>0. /\ recon \in [Reconcilers -> Reading]
      /\ old \in SUBSET Events /\ sweep \in {"idle", "stuck"} \union Emails
      /\ event \in [Events -> EventRow] /\ email \in [Emails -> EmailStatus]
      /\ job \in [Jobs -> Job] /\ ReconWellFormed
  BY DEF Shape, RecoveryTypeOK, TypeOK
<1>1. ASSUME NEW e \in Emails, ReconcileStart(c, e) PROVE Shape'
  <2>1. recon' \in [Reconcilers -> Reading]
    BY <1>0, <1>1 DEF ReconcileStart, Idle, EventStatus, Reading
  <2>2. ReconWellFormed'
    BY <1>0, <1>1 DEF ReconcileStart, Idle, ReconWellFormed, vars, Reading
  <2>3. QED  BY <1>0, <1>1, <2>1, <2>2, ReadingShape DEF ReconcileStart
<1>2. ASSUME ReconcileRead(c) PROVE Shape'
  <2>1. PICK o \in EventsOf(recon[c].email) \ rebuilt :
          recon' = [recon EXCEPT ![c] =
                     [@ EXCEPT !.pc = IF event[o].status = "pending" THEN "reset" ELSE "read",
                               !.event = o, !.status = event[o].status,
                               !.attempts = event[o].attempts]]
    BY <1>2 DEF ReconcileRead
  <2>2. o \in Events /\ event[o].email = recon[c].email /\ event[o] \in EventRow
    BY <1>0, <2>1 DEF EventsOf
  <2>3. PICK pc \in {"read", "reset"} :
          recon' = [recon EXCEPT ![c] = [@ EXCEPT !.pc = pc, !.event = o, !.status = event[o].status,
                                                  !.attempts = event[o].attempts]]
    <3>1. CASE event[o].status = "pending"
      BY <2>1, <3>1
    <3>2. CASE event[o].status # "pending"
      BY <2>1, <3>2
    <3>3. QED  BY <3>1, <3>2
  <2>8. recon' \in [Reconcilers -> Reading]
    <3>1. recon[c] \in Reading /\ event[o].status \in EventStatus /\ event[o].attempts \in Nat
      BY <1>0, <2>2 DEF EventRow
    <3>2. [recon[c] EXCEPT !.pc = pc, !.event = o, !.status = event[o].status,
                           !.attempts = event[o].attempts] \in Reading
      BY <2>2, <3>1 DEF Reading
    <3>3. QED  BY <1>0, <2>3, <3>2
  <2>4. recon[c].email \in Emails /\ email[recon[c].email] # "none"
    BY <1>0, <1>2 DEF ReconcileRead, ReconWellFormed
  <2>5. event[o].status # "absent"
    BY <2>2, <2>4, PipelineAssumption DEF Shape, OutcomesLast
  <2>6. ReconWellFormed'
    <3>1. /\ \A d \in Reconcilers : d # c => recon'[d] = recon[d]
          /\ recon'[c].event = o /\ recon'[c].email = recon[c].email /\ recon'[c].pc = pc
      BY <1>0, <2>3 DEF Reading
    <3>2. email' = email /\ event' = event /\ sweep' = sweep
      BY <1>2 DEF ReconcileRead, vars
    <3>3. QED  BY <1>0, <2>2, <2>4, <2>5, <3>1, <3>2 DEF ReconWellFormed
  <2>7. QED  BY <1>0, <1>2, <2>6, <2>8, ReadingShape DEF ReconcileRead
<1>3. ASSUME ReconcileReset(c) PROVE Shape'
  <2>1. PICK o \in Events : o = recon[c].event
    BY <1>0, <1>3 DEF ReconcileReset, ReconWellFormed
  <2>2. PICK e \in Emails : e = recon[c].email
    BY <1>0, <1>3 DEF ReconcileReset, ReconWellFormed
  <2>3. event[o].status # "absent" /\ event[o].email = e /\ email[e] # "none"
    BY <1>0, <1>3, <2>1, <2>2 DEF ReconcileReset, ReconWellFormed
  <2>4. /\ event' \in [Events -> EventRow]
        /\ \A p \in Events : p # o => event'[p] = event[p]
        /\ event'[o].status = "pending" /\ event'[o].email = event[o].email
    BY <1>0, <1>3, <2>1 DEF ReconcileReset, Written, EventRow, EventStatus
  <2>5. UNCHANGED <<email, unqueued, job, engine, losses, rebuilt, sweep, abandoned>>
    BY <1>3 DEF ReconcileReset
  <2>6. TypeOK' /\ WellFormed' /\ CallersMatch' /\ OutcomesLast'
    BY <2>3, <2>4, <2>5, PendShape
  <2>7. recon' \in [Reconcilers -> Reading]
    BY <1>0, <1>3 DEF ReconcileReset, Reading
  <2>8. hasty' \in [Emails -> Nat]
    BY <1>3, <2>2 DEF ReconcileReset, NoteHaste, Shape, RecoveryTypeOK
  <2>9. resets' \in 0..MaxTrouble
    BY <1>3, <2>5, <2>6, ResetsBound DEF ReconcileReset, Shape
  <2>10. old' \in SUBSET Events
    BY <1>0, <1>3 DEF ReconcileReset
  <2>11. RecoveryTypeOK'
    BY <2>5, <2>6, <2>7, <2>8, <2>9, <2>10 DEF Shape, RecoveryTypeOK
  <2>12. \A d \in Reconcilers : /\ recon'[d].email = recon[d].email /\ recon'[d].event = recon[d].event
                                /\ recon'[d].pc = "idle" <=> recon[d].pc = "idle"
                                /\ recon'[d].pc \in {"read", "reset"} <=> recon[d].pc \in {"read", "reset"}
    BY <1>0, <1>3 DEF ReconcileReset, Reading
  <2>13. ReconWellFormed'
    <3>1. \A p \in Events : event'[p].email = event[p].email
                           /\ (event[p].status # "absent" => event'[p].status # "absent")
      BY <2>4
    <3>2. QED  BY <1>0, <2>5, <2>12, <3>1 DEF ReconWellFormed
  <2>14. QED  BY <2>6, <2>11, <2>13 DEF Shape
<1>4. ASSUME ReconcileEnqueue(c) PROVE Shape'
  <2>1. PICK o \in Events : o = recon[c].event
    BY <1>0, <1>4 DEF ReconcileEnqueue, ReconWellFormed
  <2>2. event[o].status # "absent"
    BY <1>0, <1>4, <2>1 DEF ReconcileEnqueue, ReconWellFormed
  <2>3. PICK j \in Jobs : Push(o, j)
    BY <1>4, <2>1 DEF ReconcileEnqueue
  <2>4. /\ job[j].pc = "free" /\ job'[j].pc = "queued" /\ job'[j].event = o
        /\ \A k \in Jobs : k # j => job'[k] = job[k]
    BY <1>0, <2>3 DEF Push, Job
  <2>5. TypeOK' /\ WellFormed' /\ CallersMatch' /\ OutcomesLast'
    <3>1. job' \in [Jobs -> Job]
      BY <1>0, <2>3, PushType
    <3>2. QED  BY <1>4, <2>2, <2>4, <3>1, PushShape DEF ReconcileEnqueue
  <2>6. recon' \in [Reconcilers -> Reading]
    BY <1>0, <1>4 DEF ReconcileEnqueue, Idle, EventStatus, Reading
  <2>7. RecoveryTypeOK'
    BY <1>4, <2>5, <2>6 DEF ReconcileEnqueue, Shape, RecoveryTypeOK
  <2>8. ReconWellFormed'
    BY <1>0, <1>4 DEF ReconcileEnqueue, Idle, ReconWellFormed, rows, Reading
  <2>9. QED  BY <2>5, <2>7, <2>8 DEF Shape
<1>5. ASSUME ReconcilerDies(c) PROVE Shape'
  <2>1. recon' \in [Reconcilers -> Reading]
    BY <1>0, <1>5 DEF ReconcilerDies, Idle, EventStatus, Reading
  <2>2. ReconWellFormed'
    BY <1>0, <1>5 DEF ReconcilerDies, Idle, ReconWellFormed, vars, Reading
  <2>3. QED  BY <1>0, <1>5, <2>1, <2>2, ReadingShape DEF ReconcilerDies
<1>6. QED  BY <1>1, <1>2, <1>3, <1>4, <1>5

(* The pushes of recover_stuck_processing, one job to an event.            *)
LEMMA SweepPushes ==
  ASSUME job \in [Jobs -> Job], RecoverStuckEnqueue, NEW j \in Jobs
  PROVE  \/ job'[j] = job[j]
         \/ /\ job[j].pc = "free" /\ job'[j].pc = "queued" /\ job'[j] \in Job
            /\ job'[j].event \in Events /\ event[job'[j].event].status # "absent"
<1> DEFINE fresh == {o \in Events : event[o].status = "pending" /\ o \notin old}
           free  == {k \in Jobs : job[k].pc = "free"}
<1>1. PICK f \in [fresh -> free] :
        job' = [k \in Jobs |-> IF \E o \in fresh : f[o] = k
                               THEN [job[k] EXCEPT !.pc = "queued",
                                                   !.event = CHOOSE o \in fresh : f[o] = k]
                               ELSE job[k]]
  BY DEF RecoverStuckEnqueue
<1>2. CASE \E o \in fresh : f[o] = j
  <2>1. PICK p : p = CHOOSE o \in fresh : f[o] = j
    OBVIOUS
  <2>2. p \in fresh /\ f[p] = j
    BY <1>2, <2>1
  <2>3. job[j].pc = "free" /\ p \in Events /\ event[p].status = "pending"
    BY <2>2
  <2>4. job'[j] = [job[j] EXCEPT !.pc = "queued", !.event = p]
    BY <1>1, <1>2, <2>1
  <2> HIDE DEF fresh, free
  <2>5. QED  BY <2>3, <2>4 DEF Job, PC
<1>3. CASE ~\E o \in fresh : f[o] = j
  BY <1>1, <1>3
<1>4. QED  BY <1>2, <1>3, Zenon

(* What the rake tasks do, too.                                            *)
LEMMA RakeShape ==
  ASSUME Shape, Rake PROVE Shape'
<1>0. /\ recon \in [Reconcilers -> Reading]
      /\ old \in SUBSET Events /\ rebuilt \in SUBSET Events
      /\ hasty \in [Emails -> Nat] /\ abandoned \in [Emails -> Nat]
      /\ resets \in 0..MaxTrouble /\ MaxTrouble \in Nat
      /\ event \in [Events -> EventRow] /\ job \in [Jobs -> Job] /\ ReconWellFormed
  BY RecoveryAssumption DEF Shape, RecoveryTypeOK, TypeOK
<1>1. ASSUME RecoverStuck PROVE Shape'
  <2>1. /\ event' \in [Events -> EventRow]
        /\ \A o \in Events : /\ event'[o].email = event[o].email
                             /\ event[o].status # "absent" => event'[o].status # "absent"
                             /\ event[o].status = "absent" => event'[o] = event[o]
    BY <1>0, <1>1 DEF RecoverStuck, Stuck, EventRow, EventStatus
  <2>2. TypeOK' /\ WellFormed' /\ CallersMatch' /\ OutcomesLast'
    BY <1>1, <2>1, PendShape DEF RecoverStuck
  <2>3. hasty' \in [Emails -> Nat]
    <3>1. ASSUME NEW e \in Emails
          PROVE  Cardinality({o \in EventsOf(e) : Stuck(o) /\ Busy(e, o)}) \in Nat
      <4>1. {o \in EventsOf(e) : Stuck(o) /\ Busy(e, o)} \in SUBSET Events
        BY DEF EventsOf
      <4>2. IsFiniteSet({o \in EventsOf(e) : Stuck(o) /\ Busy(e, o)})
        BY <4>1, RecoveryAssumption, FS_Subset
      <4>3. QED  BY <4>2, FS_CardinalityType
    <3>2. QED  BY <1>0, <1>1, <3>1 DEF RecoverStuck
  <2>4. PICK o \in Events : Stuck(o)
    BY <1>1 DEF RecoverStuck
  <2>5. event[o].email \in Emails
    BY <2>4 DEF Stuck, Shape, WellFormed
  <2>6. resets' \in 0..MaxTrouble
    BY <1>1, <2>2, <2>5, ResetsBound DEF RecoverStuck, Shape
  <2>7. RecoveryTypeOK'
    BY <1>0, <1>1, <2>2, <2>3, <2>6 DEF RecoverStuck, RecoveryTypeOK
  <2>8. ReconWellFormed'
    BY <1>0, <1>1, <2>1, RecoveryAssumption DEF RecoverStuck, ReconWellFormed
  <2>9. QED  BY <2>2, <2>7, <2>8 DEF Shape
<1>2. ASSUME RecoverStuckEnqueue PROVE Shape'
  <2>1. job' = [j \in Jobs |-> job'[j]]
    BY <1>2 DEF RecoverStuckEnqueue
  <2>2. \A j \in Jobs : \/ job'[j] = job[j]
                       \/ /\ job[j].pc = "free" /\ job'[j].pc = "queued" /\ job'[j] \in Job
                          /\ job'[j].event \in Events /\ event[job'[j].event].status # "absent"
    BY <1>0, <1>2, SweepPushes
  <2>3. job' \in [Jobs -> Job]
    <3>1. \A j \in Jobs : job'[j] \in Job
      BY <1>0, <2>2
    <3>2. QED  BY <2>1, <3>1
  <2>4. UNCHANGED <<rows, unqueued, engine, losses, recon, old, rebuilt, resets, hasty, abandoned>>
        /\ sweep' = "idle"
    BY <1>2 DEF RecoverStuckEnqueue
  <2>5. TypeOK' /\ WellFormed' /\ CallersMatch' /\ OutcomesLast'
    BY <2>2, <2>3, <2>4, PushShape
  <2>6. RecoveryTypeOK'
    BY <1>0, <2>4, <2>5 DEF RecoveryTypeOK
  <2>7. ReconWellFormed'
    BY <1>0, <2>4, RecoveryAssumption DEF ReconWellFormed, rows
  <2>8. QED  BY <2>5, <2>6, <2>7 DEF Shape
<1>3. ASSUME NEW e \in Emails, RebuildCheck(e) PROVE Shape'
  <2>1. ReconWellFormed'
    BY <1>0, <1>3 DEF RebuildCheck, ReconWellFormed, vars
  <2>2. QED  BY <1>0, <1>3, <2>1, ReadingShape DEF RebuildCheck
<1>4. ASSUME NEW o \in Events, NEW j \in Jobs, RebuildCreate(o, j) PROVE Shape'
  <2>1. /\ event' \in [Events -> EventRow]
        /\ \A p \in Events : p # o => event'[p] = event[p]
        /\ event'[o].status = "pending" /\ event'[o].email = sweep
        /\ event[o].status = "absent" /\ sweep \in Emails /\ email[sweep] # "none"
    BY <1>0, <1>4 DEF RebuildCreate, EventRow, EventStatus, ReconWellFormed
  <2>2. /\ job[j].pc = "free" /\ job'[j].pc = "queued" /\ job'[j].event = o
        /\ \A k \in Jobs : k # j => job'[k] = job[k]
    BY <1>0, <1>4 DEF RebuildCreate, Push, Job
  <2>3. UNCHANGED <<email, unqueued, engine, losses, recon, abandoned>> /\ sweep' = "idle"
    BY <1>4 DEF RebuildCreate
  <2>4. TypeOK' /\ WellFormed' /\ CallersMatch' /\ OutcomesLast'
    <3>1. job' \in [Jobs -> Job]
      BY <1>0, <1>4, PushType DEF RebuildCreate
    <3>2. QED  BY <2>1, <2>2, <2>3, <3>1, BirthShape
  <2>5. hasty' \in [Emails -> Nat]
    BY <1>0, <1>4 DEF RebuildCreate, NoteHaste
  <2>6. resets' \in 0..MaxTrouble
    BY <1>4, <2>1, <2>3, <2>4, ResetsBound DEF RebuildCreate, Shape
  <2>7. RecoveryTypeOK'
    BY <1>0, <1>4, <2>3, <2>4, <2>5, <2>6 DEF RebuildCreate, RecoveryTypeOK
  <2>8. ReconWellFormed'
    BY <1>0, <2>1, <2>3, RecoveryAssumption DEF ReconWellFormed
  <2>9. QED  BY <2>4, <2>7, <2>8 DEF Shape
<1>5. QED  BY <1>1, <1>2, <1>3, <1>4 DEF Rake

-----------------------------------------------------------------------------
(***************************************************************************)
(* The account of one email.                                               *)
(***************************************************************************)
OneClaimantOf(e) ==
  hasty[e] = 0 =>
    /\ \A o, p \in PendingOf(e) : o = p
    /\ \A j, k \in WorkersOf(e) : j = k
    /\ PendingOf(e) = {} \/ WorkersOf(e) = {}

BalancedOf(e) ==
  /\ Account(e) <= Paid(e) + 1
  /\ Resting(e) => Account(e) <= Paid(e)

FailedOf(e) ==
  email[e] = "failed" /\ Paid(e) = 0 =>
    /\ accepted[e] = 0
    /\ InEngine(e) = {}
    /\ PendingOf(e) = {}
    /\ \A j \in WorkersOf(e) : job[j].pc = "failmarked"

InOrder(e) == OneClaimantOf(e) /\ BalancedOf(e) /\ FailedOf(e)

(* The three of them, of every email.                                      *)
LEMMA OrderOfEach ==
  ASSUME OneClaimant, AccountBalanced, FailedForGood, NEW e \in Emails PROVE InOrder(e)
BY DEF OneClaimant, AccountBalanced, FailedForGood, InOrder, OneClaimantOf, BalancedOf, FailedOf

(* And back, in the next state.                                            *)
LEMMA OrderOfAll ==
  ASSUME \A e \in Emails : InOrder(e)'
  PROVE  OneClaimant' /\ AccountBalanced' /\ FailedForGood'
BY DEF OneClaimant, AccountBalanced, FailedForGood, InOrder, OneClaimantOf, BalancedOf, FailedOf

(* How a set that shrinks or grows by one element counts.                  *)
LEMMA SetCount ==
  ASSUME NEW S, NEW T, IsFiniteSet(S), IsFiniteSet(T)
  PROVE  /\ Cardinality(S) \in Nat
         /\ Cardinality(S) = 0 <=> S = {}
         /\ T \subseteq S => Cardinality(T) <= Cardinality(S)
         /\ \A x : T \subseteq S \union {x} => Cardinality(T) <= Cardinality(S) + 1
         /\ \A x \in S : T \subseteq S \ {x} => Cardinality(T) + 1 <= Cardinality(S)
<1>1. Cardinality(S) \in Nat /\ Cardinality(T) \in Nat
  BY FS_CardinalityType
<1>2. Cardinality(S) = 0 <=> S = {}
  BY FS_EmptySet
<1>3. T \subseteq S => Cardinality(T) <= Cardinality(S)
  BY FS_Subset
<1>4. ASSUME NEW x, T \subseteq S \union {x} PROVE Cardinality(T) <= Cardinality(S) + 1
  <2>1. IsFiniteSet(S \union {x}) /\ Cardinality(S \union {x}) <= Cardinality(S) + 1
    BY <1>1, FS_AddElement
  <2>2. Cardinality(T) <= Cardinality(S \union {x}) /\ Cardinality(S \union {x}) \in Nat
    BY <1>4, <2>1, FS_Subset, FS_CardinalityType
  <2>3. QED  BY <1>1, <2>1, <2>2
<1>5. ASSUME NEW x \in S, T \subseteq S \ {x} PROVE Cardinality(T) + 1 <= Cardinality(S)
  <2>1. IsFiniteSet(S \ {x}) /\ Cardinality(S \ {x}) = Cardinality(S) - 1
    BY FS_RemoveElement
  <2>2. Cardinality(T) <= Cardinality(S \ {x})
    BY <1>5, <2>1, FS_Subset
  <2>3. QED  BY <1>1, <2>1, <2>2
<1>6. QED  BY <1>1, <1>2, <1>3, <1>4, <1>5

(* What an email's account counts is finite, before and after a step,      *)
LEMMA FiniteAccount ==
  ASSUME NEW e \in Emails
  PROVE  /\ IsFiniteSet(PendingOf(e)) /\ IsFiniteSet(TurnOf(e)) /\ IsFiniteSet(InEngine(e))
         /\ IsFiniteSet(PendingOf(e)') /\ IsFiniteSet(TurnOf(e)') /\ IsFiniteSet(InEngine(e)')
<1>1. /\ PendingOf(e) \in SUBSET Events /\ TurnOf(e) \in SUBSET Jobs /\ InEngine(e) \in SUBSET Requests
      /\ PendingOf(e)' \in SUBSET Events /\ TurnOf(e)' \in SUBSET Jobs
      /\ InEngine(e)' \in SUBSET Requests
  BY DEF PendingOf, TurnOf, WorkersOf, InEngine
<1>2. QED  BY <1>1, RecoveryAssumption, FS_Subset

(* and so are its sums.                                                    *)
LEMMA Numbers ==
  ASSUME RecoveryTypeOK, RecoveryTypeOK', NEW e \in Emails
  PROVE  /\ Cardinality(PendingOf(e)) \in Nat /\ Cardinality(PendingOf(e)') \in Nat
         /\ Cardinality(TurnOf(e)) \in Nat /\ Cardinality(TurnOf(e)') \in Nat
         /\ Cardinality(InEngine(e)) \in Nat /\ Cardinality(InEngine(e)') \in Nat
         /\ accepted[e] \in Nat /\ accepted'[e] \in Nat
         /\ Paid(e) \in Nat /\ Paid(e)' \in Nat /\ hasty[e] \in Nat /\ hasty'[e] \in Nat
         /\ Account(e) = accepted[e] + Cardinality(InEngine(e)) + Cardinality(PendingOf(e))
                           + Cardinality(TurnOf(e))
         /\ Account(e)' = accepted'[e] + Cardinality(InEngine(e)') + Cardinality(PendingOf(e)')
                           + Cardinality(TurnOf(e)')
         /\ hasty[e] <= Paid(e) /\ hasty'[e] <= Paid(e)'
<1>1. /\ Cardinality(PendingOf(e)) \in Nat /\ Cardinality(PendingOf(e)') \in Nat
      /\ Cardinality(TurnOf(e)) \in Nat /\ Cardinality(TurnOf(e)') \in Nat
      /\ Cardinality(InEngine(e)) \in Nat /\ Cardinality(InEngine(e)') \in Nat
  BY FiniteAccount, FS_CardinalityType
<1>2. /\ accepted[e] \in Nat /\ accepted'[e] \in Nat /\ hasty[e] \in Nat /\ hasty'[e] \in Nat
      /\ lost[e] \in Nat /\ unwritten[e] \in Nat /\ abandoned[e] \in Nat
      /\ lost'[e] \in Nat /\ unwritten'[e] \in Nat /\ abandoned'[e] \in Nat
  BY DEF RecoveryTypeOK, TypeOK
<1>3. QED  BY <1>1, <1>2 DEF Account, Paid

-----------------------------------------------------------------------------
(***************************************************************************)
(* The moves: what a step can do to the account of an email.               *)
(***************************************************************************)
Fewer(S, T) == \E x \in S : T \subseteq S \ {x}
More(S, T)  == \E x : T \subseteq S \union {x}

SamePaid(e) == Paid(e)' = Paid(e) /\ hasty'[e] = hasty[e]

(* Nothing is added: the email comes to rest only when somebody let go.    *)
Quiet(e) ==
  /\ PendingOf(e)' \subseteq PendingOf(e) /\ WorkersOf(e)' \subseteq WorkersOf(e)
  /\ TurnOf(e)' \subseteq TurnOf(e) /\ InEngine(e)' \subseteq InEngine(e)
  /\ accepted'[e] = accepted[e] /\ Paid(e) <= Paid(e)' /\ hasty[e] <= hasty'[e]
  /\ email'[e] = "failed" => email[e] = "failed"
  /\ \A j \in WorkersOf(e)' : job[j].pc = "failmarked" => job'[j].pc = "failmarked"
  /\ Resting(e)' => \/ Resting(e) \/ PendingOf(e) # {} \/ TurnOf(e) # {}
                    \/ Paid(e) + 1 <= Paid(e)'

(* A pending event passes to a worker.                                     *)
Claimed(e) ==
  /\ SamePaid(e) /\ email'[e] = email[e] /\ accepted'[e] = accepted[e]
  /\ Fewer(PendingOf(e), PendingOf(e)') /\ InEngine(e)' \subseteq InEngine(e)
  /\ \E j \in WorkersOf(e)' : /\ WorkersOf(e)' \subseteq WorkersOf(e) \union {j}
                              /\ TurnOf(e)' \subseteq TurnOf(e) \union {j}

(* A worker passes the email to the engine.                                *)
Posted(e) ==
  /\ SamePaid(e) /\ email'[e] = email[e] /\ accepted'[e] = accepted[e]
  /\ PendingOf(e)' \subseteq PendingOf(e) /\ WorkersOf(e)' \subseteq WorkersOf(e)
  /\ More(InEngine(e), InEngine(e)')
  /\ \E j \in TurnOf(e) : /\ TurnOf(e)' \subseteq TurnOf(e) \ {j}
                          /\ j \in WorkersOf(e)' /\ job[j].pc = "claimed"

(* A worker that was rejected writes the failure.                          *)
Failing(e) ==
  /\ SamePaid(e) /\ accepted'[e] = accepted[e]
  /\ PendingOf(e)' \subseteq PendingOf(e) /\ WorkersOf(e)' \subseteq WorkersOf(e)
  /\ TurnOf(e)' \subseteq TurnOf(e) /\ InEngine(e)' \subseteq InEngine(e)
  /\ \E j \in TurnOf(e) : j \in WorkersOf(e) /\ j \in WorkersOf(e)' /\ job'[j].pc = "failmarked"

(* A worker lets its event go, to pending or dead.                         *)
Released(e) ==
  /\ SamePaid(e) /\ email'[e] = email[e] /\ accepted'[e] = accepted[e]
  /\ InEngine(e)' \subseteq InEngine(e)
  /\ \E o : PendingOf(e)' \subseteq PendingOf(e) \union {o}
  /\ \E j \in TurnOf(e) : /\ TurnOf(e)' \subseteq TurnOf(e) \ {j}
                          /\ WorkersOf(e)' \subseteq WorkersOf(e) \ {j}
                          /\ j \in WorkersOf(e) /\ job[j].pc = "erring"

(* The engine is done with the email without a success.                    *)
Answered(e) ==
  /\ SamePaid(e) /\ email'[e] = email[e] /\ accepted'[e] = accepted[e]
  /\ PendingOf(e)' \subseteq PendingOf(e) /\ WorkersOf(e)' \subseteq WorkersOf(e)
  /\ Fewer(InEngine(e), InEngine(e)') /\ More(TurnOf(e), TurnOf(e)')
  /\ TurnOf(e)' \subseteq WorkersOf(e)'

(* A provider accepts.                                                     *)
Accepts(e) ==
  /\ SamePaid(e) /\ email'[e] = email[e] /\ accepted'[e] = accepted[e] + 1
  /\ PendingOf(e)' \subseteq PendingOf(e) /\ WorkersOf(e)' = WorkersOf(e)
  /\ Fewer(InEngine(e), InEngine(e)') /\ TurnOf(e)' \subseteq TurnOf(e)
  /\ Resting(e)' => Resting(e)

(* An outcome is lost: that pays for one more.                             *)
Lossy(e) ==
  /\ Paid(e) + 1 <= Paid(e)' /\ hasty'[e] = hasty[e]
  /\ PendingOf(e)' \subseteq PendingOf(e) /\ WorkersOf(e)' \subseteq WorkersOf(e)
  /\ Resting(e)' => Resting(e)
  /\ \/ /\ accepted'[e] = accepted[e]
        /\ InEngine(e)' \subseteq InEngine(e) /\ More(TurnOf(e), TurnOf(e)')
     \/ /\ accepted'[e] = accepted[e] + 1
        /\ InEngine(e)' \subseteq InEngine(e) /\ TurnOf(e)' \subseteq TurnOf(e)
     \/ /\ accepted'[e] = accepted[e] + 1
        /\ Fewer(InEngine(e), InEngine(e)') /\ More(TurnOf(e), TurnOf(e)')

(* An email at rest gets a pending event.                                  *)
Added(e) ==
  /\ SamePaid(e) /\ Resting(e) /\ email'[e] # "failed" /\ accepted'[e] = accepted[e]
  /\ \E o : PendingOf(e)' \subseteq {o}
  /\ WorkersOf(e)' \subseteq WorkersOf(e)
  /\ TurnOf(e)' \subseteq TurnOf(e) /\ InEngine(e)' \subseteq InEngine(e)

(* Hasty repair adds events, and notes each.                               *)
Hastened(e) ==
  /\ hasty[e] + 1 <= hasty'[e] /\ Paid(e)' = Paid(e) + (hasty'[e] - hasty[e])
  /\ accepted'[e] = accepted[e]
  /\ Cardinality(PendingOf(e)') + hasty[e] <= Cardinality(PendingOf(e)) + hasty'[e]
  /\ TurnOf(e)' \subseteq TurnOf(e) /\ InEngine(e)' \subseteq InEngine(e)
  /\ Resting(e)' => Resting(e)

Move(e) ==
  \/ Quiet(e) \/ Claimed(e) \/ Posted(e) \/ Failing(e) \/ Released(e) \/ Answered(e)
  \/ Accepts(e) \/ Lossy(e) \/ Added(e) \/ Hastened(e)

-----------------------------------------------------------------------------
(***************************************************************************)
(* Every move keeps the email in order.                                    *)
(***************************************************************************)

(* The claimants stay one.                                                 *)
LEMMA MoveClaimant ==
  ASSUME RecoveryTypeOK, RecoveryTypeOK', NEW e \in Emails, InOrder(e), Move(e)
  PROVE  OneClaimantOf(e)'
<1> USE DEF InOrder, OneClaimantOf
<1>1. hasty[e] \in Nat /\ hasty'[e] \in Nat /\ TurnOf(e) \subseteq WorkersOf(e)
  BY DEF RecoveryTypeOK, TurnOf
<1>2. CASE Quiet(e)
  BY <1>1, <1>2 DEF Quiet
<1>3. CASE Claimed(e)
  BY <1>1, <1>3 DEF Claimed, SamePaid, Fewer
<1>4. CASE Posted(e)
  BY <1>1, <1>4 DEF Posted, SamePaid
<1>5. CASE Failing(e)
  BY <1>1, <1>5 DEF Failing, SamePaid
<1>6. CASE Released(e)
  BY <1>1, <1>6 DEF Released, SamePaid
<1>7. CASE Answered(e)
  BY <1>1, <1>7 DEF Answered, SamePaid
<1>8. CASE Accepts(e)
  BY <1>1, <1>8 DEF Accepts, SamePaid
<1>9. CASE Lossy(e)
  BY <1>1, <1>9 DEF Lossy
<1>10. CASE Added(e)
  BY <1>1, <1>10 DEF Added, SamePaid, Resting
<1>11. CASE Hastened(e)
  BY <1>1, <1>11 DEF Hastened
<1>12. QED
  BY <1>2, <1>3, <1>4, <1>5, <1>6, <1>7, <1>8, <1>9, <1>10, <1>11 DEF Move

(* The account stays balanced.                                             *)
LEMMA MoveBalanced ==
  ASSUME RecoveryTypeOK, RecoveryTypeOK', NEW e \in Emails, InOrder(e), Move(e)
  PROVE  BalancedOf(e)'
<1> DEFINE P == PendingOf(e)  T == TurnOf(e)  I == InEngine(e)
           Q == PendingOf(e)' U == TurnOf(e)' K == InEngine(e)'
<1>1. /\ Cardinality(P) \in Nat /\ Cardinality(Q) \in Nat
      /\ Cardinality(T) \in Nat /\ Cardinality(U) \in Nat
      /\ Cardinality(I) \in Nat /\ Cardinality(K) \in Nat
      /\ accepted[e] \in Nat /\ accepted'[e] \in Nat
      /\ Paid(e) \in Nat /\ Paid(e)' \in Nat /\ hasty[e] \in Nat /\ hasty'[e] \in Nat
      /\ Account(e) = accepted[e] + Cardinality(I) + Cardinality(P) + Cardinality(T)
      /\ Account(e)' = accepted'[e] + Cardinality(K) + Cardinality(Q) + Cardinality(U)
  BY Numbers
<1>2. /\ IsFiniteSet(P) /\ IsFiniteSet(Q) /\ IsFiniteSet(T) /\ IsFiniteSet(U)
      /\ IsFiniteSet(I) /\ IsFiniteSet(K)
  BY FiniteAccount
<1>3. /\ Q \subseteq P => Cardinality(Q) <= Cardinality(P)
      /\ Fewer(P, Q) => Cardinality(Q) + 1 <= Cardinality(P)
      /\ More(P, Q) => Cardinality(Q) <= Cardinality(P) + 1
      /\ Cardinality(Q) = 0 <=> Q = {}
      /\ Cardinality(P) = 0 <=> P = {}
  <2> HIDE DEF P, Q
  <2>1. QED  BY <1>2, SetCount DEF Fewer, More
<1>4. /\ U \subseteq T => Cardinality(U) <= Cardinality(T)
      /\ Fewer(T, U) => Cardinality(U) + 1 <= Cardinality(T)
      /\ More(T, U) => Cardinality(U) <= Cardinality(T) + 1
      /\ Cardinality(U) = 0 <=> U = {}
      /\ Cardinality(T) = 0 <=> T = {}
  <2> HIDE DEF T, U
  <2>1. QED  BY <1>2, SetCount DEF Fewer, More
<1>5. /\ K \subseteq I => Cardinality(K) <= Cardinality(I)
      /\ Fewer(I, K) => Cardinality(K) + 1 <= Cardinality(I)
      /\ More(I, K) => Cardinality(K) <= Cardinality(I) + 1
  <2> HIDE DEF I, K
  <2>1. QED  BY <1>2, SetCount DEF Fewer, More
<1>6. /\ Account(e) <= Paid(e) + 1
      /\ Resting(e) => Account(e) <= Paid(e)
      /\ Resting(e) => P = {} /\ T = {}
      /\ Resting(e)' => Q = {} /\ U = {}
      /\ Resting(e)' => WorkersOf(e)' = {}
  BY DEF InOrder, BalancedOf, Resting, TurnOf
<1>7. Account(e)' <= Paid(e)' + 1 /\ (Resting(e)' => Account(e)' <= Paid(e)')
  <2> HIDE DEF P, Q, T, U, I, K
  <2>1. CASE Quiet(e)
    <3>1. Q \subseteq P /\ U \subseteq T /\ K \subseteq I /\ accepted'[e] = accepted[e]
          /\ Paid(e) <= Paid(e)'
          /\ (Resting(e)' => Resting(e) \/ P # {} \/ T # {} \/ Paid(e) + 1 <= Paid(e)')
      BY <2>1 DEF Quiet, P, Q, T, U, I, K
    <3>2. QED  BY <3>1, <1>1, <1>3, <1>4, <1>5, <1>6
  <2>2. CASE Claimed(e)
    <3>1. Fewer(P, Q) /\ More(T, U) /\ K \subseteq I /\ accepted'[e] = accepted[e]
          /\ Paid(e)' = Paid(e) /\ WorkersOf(e)' # {}
      BY <2>2 DEF Claimed, SamePaid, More, P, Q, T, U, I, K
    <3>2. QED  BY <3>1, <1>1, <1>3, <1>4, <1>5, <1>6
  <2>3. CASE Posted(e)
    <3>1. Q \subseteq P /\ Fewer(T, U) /\ More(I, K) /\ accepted'[e] = accepted[e]
          /\ Paid(e)' = Paid(e) /\ WorkersOf(e)' # {}
      BY <2>3 DEF Posted, SamePaid, Fewer, P, Q, T, U, I, K
    <3>2. QED  BY <3>1, <1>1, <1>3, <1>4, <1>5, <1>6
  <2>4. CASE Failing(e)
    <3>1. Q \subseteq P /\ U \subseteq T /\ K \subseteq I /\ accepted'[e] = accepted[e]
          /\ Paid(e)' = Paid(e) /\ WorkersOf(e)' # {}
      BY <2>4 DEF Failing, SamePaid, P, Q, T, U, I, K
    <3>2. QED  BY <3>1, <1>1, <1>3, <1>4, <1>5, <1>6
  <2>5. CASE Released(e)
    <3>1. More(P, Q) /\ Fewer(T, U) /\ K \subseteq I /\ accepted'[e] = accepted[e]
          /\ Paid(e)' = Paid(e)
      BY <2>5 DEF Released, SamePaid, Fewer, More, P, Q, T, U, I, K
    <3>2. QED  BY <3>1, <1>1, <1>3, <1>4, <1>5, <1>6
  <2>6. CASE Answered(e)
    <3>1. Q \subseteq P /\ More(T, U) /\ Fewer(I, K) /\ accepted'[e] = accepted[e]
          /\ Paid(e)' = Paid(e)
      BY <2>6 DEF Answered, SamePaid, P, Q, T, U, I, K
    <3>2. QED  BY <3>1, <1>1, <1>3, <1>4, <1>5, <1>6
  <2>7. CASE Accepts(e)
    <3>1. Q \subseteq P /\ U \subseteq T /\ Fewer(I, K) /\ accepted'[e] = accepted[e] + 1
          /\ Paid(e)' = Paid(e) /\ (Resting(e)' => Resting(e))
      BY <2>7 DEF Accepts, SamePaid, P, Q, T, U, I, K
    <3>2. QED  BY <3>1, <1>1, <1>3, <1>4, <1>5, <1>6
  <2>8. CASE Lossy(e)
    <3>1. Q \subseteq P /\ Paid(e) + 1 <= Paid(e)' /\ (Resting(e)' => Resting(e))
      BY <2>8 DEF Lossy, P, Q
    <3>2. \/ accepted'[e] = accepted[e] /\ K \subseteq I /\ More(T, U)
          \/ accepted'[e] = accepted[e] + 1 /\ K \subseteq I /\ U \subseteq T
          \/ accepted'[e] = accepted[e] + 1 /\ Fewer(I, K) /\ More(T, U)
      BY <2>8 DEF Lossy, T, U, I, K
    <3>3. Account(e)' <= Account(e) + 1
      BY <3>1, <3>2, <1>1, <1>3, <1>4, <1>5
    <3>4. QED  BY <3>1, <3>3, <1>1, <1>6
  <2>9. CASE Added(e)
    <3>1. More(P, Q) /\ U \subseteq T /\ K \subseteq I /\ accepted'[e] = accepted[e]
          /\ Paid(e)' = Paid(e) /\ Resting(e)
      BY <2>9 DEF Added, SamePaid, More, P, Q, T, U, I, K
    <3>2. QED  BY <3>1, <1>1, <1>3, <1>4, <1>5, <1>6
  <2>10. CASE Hastened(e)
    <3>1. /\ hasty[e] + 1 <= hasty'[e] /\ Paid(e)' = Paid(e) + (hasty'[e] - hasty[e])
          /\ Cardinality(Q) + hasty[e] <= Cardinality(P) + hasty'[e]
          /\ U \subseteq T /\ K \subseteq I /\ accepted'[e] = accepted[e]
          /\ (Resting(e)' => Resting(e))
      BY <2>10 DEF Hastened, P, Q, T, U, I, K
    <3>2. QED  BY <3>1, <1>1, <1>4, <1>5, <1>6
  <2>11. QED
    BY <2>1, <2>2, <2>3, <2>4, <2>5, <2>6, <2>7, <2>8, <2>9, <2>10 DEF Move
<1>8. QED  BY <1>7 DEF BalancedOf

(* An email that failed and was not paid for stays untouched.              *)
LEMMA MoveFailed ==
  ASSUME RecoveryTypeOK, RecoveryTypeOK', NEW e \in Emails, InOrder(e), Move(e)
  PROVE  FailedOf(e)'
<1> SUFFICES ASSUME email'[e] = "failed", Paid(e)' = 0
             PROVE  /\ accepted'[e] = 0 /\ InEngine(e)' = {} /\ PendingOf(e)' = {}
                    /\ \A j \in WorkersOf(e)' : job'[j].pc = "failmarked"
  BY DEF FailedOf
<1>1. /\ Paid(e) \in Nat /\ hasty[e] \in Nat /\ hasty[e] <= Paid(e)
      /\ accepted[e] \in Nat /\ Account(e) \in Nat
      /\ Cardinality(InEngine(e)) \in Nat /\ Cardinality(PendingOf(e)) \in Nat
      /\ Cardinality(TurnOf(e)) \in Nat /\ hasty'[e] \in Nat
      /\ Account(e) = accepted[e] + Cardinality(InEngine(e)) + Cardinality(PendingOf(e))
                        + Cardinality(TurnOf(e))
  BY Numbers
<1>2. /\ TurnOf(e) \subseteq WorkersOf(e) /\ TurnOf(e)' \subseteq WorkersOf(e)'
      /\ \A j \in TurnOf(e) : job[j].pc \in {"claimed", "rejected", "failmarked", "erring"}
  BY DEF TurnOf
<1>3. CASE Quiet(e)
  BY <1>1, <1>2, <1>3 DEF Quiet, InOrder, FailedOf
<1>4. CASE Claimed(e)
  BY <1>4 DEF Claimed, SamePaid, Fewer, InOrder, FailedOf
<1>5. CASE Posted(e)
  BY <1>2, <1>5 DEF Posted, SamePaid, InOrder, FailedOf
<1>6. CASE Failing(e)
  <2>1. Paid(e) = 0 /\ hasty[e] = 0
    BY <1>1, <1>6 DEF Failing, SamePaid
  <2>2. PICK j \in TurnOf(e) : j \in WorkersOf(e) /\ j \in WorkersOf(e)' /\ job'[j].pc = "failmarked"
    BY <1>6 DEF Failing
  <2>3. WorkersOf(e) = {j} /\ PendingOf(e) = {}
    BY <2>1, <2>2 DEF InOrder, OneClaimantOf
  <2>4. Cardinality(TurnOf(e)) # 0 /\ (Cardinality(InEngine(e)) = 0 => InEngine(e) = {})
    BY <2>2, FiniteAccount, FS_EmptySet
  <2>5. accepted[e] = 0 /\ InEngine(e) = {}
    BY <1>1, <2>1, <2>4 DEF InOrder, BalancedOf
  <2>6. QED  BY <1>6, <2>2, <2>3, <2>5 DEF Failing
<1>7. CASE Released(e)
  BY <1>2, <1>7 DEF Released, SamePaid, InOrder, FailedOf
<1>8. CASE Answered(e)
  BY <1>8 DEF Answered, SamePaid, Fewer, InOrder, FailedOf
<1>9. CASE Accepts(e)
  BY <1>9 DEF Accepts, SamePaid, Fewer, InOrder, FailedOf
<1>10. CASE Lossy(e)
  BY <1>1, <1>10 DEF Lossy
<1>11. CASE Added(e)
  BY <1>11 DEF Added
<1>12. CASE Hastened(e)
  BY <1>1, <1>12 DEF Hastened
<1>13. QED
  BY <1>3, <1>4, <1>5, <1>6, <1>7, <1>8, <1>9, <1>10, <1>11, <1>12 DEF Move

(* So the email stays in order.                                            *)
LEMMA MoveKeeps ==
  ASSUME RecoveryTypeOK, RecoveryTypeOK', NEW e \in Emails, InOrder(e), Move(e)
  PROVE  InOrder(e)'
BY MoveClaimant, MoveBalanced, MoveFailed DEF InOrder

-----------------------------------------------------------------------------
(***************************************************************************)
(* What one row changes in an account.                                     *)
(***************************************************************************)
TurnPC == {"claimed", "rejected", "failmarked", "erring"}

(* One job moved, if it works or will, on the event it has:                *)
LEMMA JobStep ==
  ASSUME TypeOK, WellFormed, NEW j \in Jobs, NEW e \in Emails,
         \A k \in Jobs : k # j => job'[k] = job[k],
         \A o \in Events : event[o].status # "absent" => event'[o].email = event[o].email,
         job[j].pc \in Working \/ job'[j].pc \in Working =>
           job'[j].event = job[j].event /\ job[j].pc # "free"
  PROVE  /\ WorkersOf(e)' = IF job'[j].pc \in Working /\ EmailOf(j) = e
                            THEN WorkersOf(e) \union {j} ELSE WorkersOf(e) \ {j}
         /\ TurnOf(e)' = IF job'[j].pc \in TurnPC /\ EmailOf(j) = e
                         THEN TurnOf(e) \union {j} ELSE TurnOf(e) \ {j}
<1>1. ASSUME NEW k \in Jobs, k # j
      PROVE  /\ (job'[k].pc \in Working /\ EmailOf(k)' = e)
                  <=> (job[k].pc \in Working /\ EmailOf(k) = e)
             /\ job'[k].pc = job[k].pc
  <2>1. job'[k] = job[k]
    BY <1>1
  <2>2. job[k].pc \in Working => job[k].event \in Events /\ event[job[k].event].status # "absent"
    BY DEF WellFormed, Working
  <2>3. job[k].pc \in Working => EmailOf(k)' = EmailOf(k)
    BY <2>1, <2>2 DEF EmailOf
  <2>4. QED  BY <2>1, <2>3
<1>2. job'[j].pc \in Working => EmailOf(j)' = EmailOf(j)
  BY DEF WellFormed, EmailOf
<1>3. WorkersOf(e)' = IF job'[j].pc \in Working /\ EmailOf(j) = e
                      THEN WorkersOf(e) \union {j} ELSE WorkersOf(e) \ {j}
  BY <1>1, <1>2 DEF WorkersOf
<1>4. TurnOf(e)' = IF job'[j].pc \in TurnPC /\ EmailOf(j) = e
                   THEN TurnOf(e) \union {j} ELSE TurnOf(e) \ {j}
  BY <1>1, <1>3 DEF TurnOf, TurnPC, WorkersOf, Working
<1>5. QED  BY <1>3, <1>4

(* no job moved:                                                           *)
LEMMA SameJobs ==
  ASSUME TypeOK, WellFormed, NEW e \in Emails, UNCHANGED job,
         \A o \in Events : event[o].status # "absent" => event'[o].email = event[o].email
  PROVE  WorkersOf(e)' = WorkersOf(e) /\ TurnOf(e)' = TurnOf(e)
<1>1. ASSUME NEW k \in Jobs, job[k].pc \in Working PROVE EmailOf(k)' = EmailOf(k)
  BY <1>1 DEF WellFormed, EmailOf, Working
<1>2. QED  BY <1>1 DEF WorkersOf, TurnOf

(* one event moved,                                                        *)
LEMMA EventStep ==
  ASSUME NEW o \in Events, NEW e \in Emails, \A p \in Events : p # o => event'[p] = event[p]
  PROVE  PendingOf(e)' = IF event'[o].status = "pending" /\ event'[o].email = e
                         THEN PendingOf(e) \union {o} ELSE PendingOf(e) \ {o}
BY DEF PendingOf

(* one request moved,                                                      *)
LEMMA RequestStep ==
  ASSUME NEW r \in Requests, NEW e \in Emails, \A s \in Requests : s # r => request'[s] = request[s]
  PROVE  InEngine(e)' = IF request'[r].phase \in {"received", "sending"} /\ request'[r].email = e
                        THEN InEngine(e) \union {r} ELSE InEngine(e) \ {r}
BY DEF InEngine

(* or callers were cut off.                                                *)
LEMMA SameRequests ==
  ASSUME NEW e \in Emails,
         \A r \in Requests : request'[r].phase = request[r].phase /\ request'[r].email = request[r].email
  PROVE  InEngine(e)' = InEngine(e)
BY DEF InEngine

(* A worker j and its event, before and after a step of perform.           *)
AtWork(j, e) ==
  /\ WorkersOf(e)' = IF job'[j].pc \in Working /\ EmailOf(j) = e
                     THEN WorkersOf(e) \union {j} ELSE WorkersOf(e) \ {j}
  /\ TurnOf(e)' = IF job'[j].pc \in TurnPC /\ EmailOf(j) = e
                  THEN TurnOf(e) \union {j} ELSE TurnOf(e) \ {j}
  /\ PendingOf(e)' = IF event'[job[j].event].status = "pending" /\ EmailOf(j) = e
                     THEN PendingOf(e) \union {job[j].event} ELSE PendingOf(e) \ {job[j].event}
  /\ j \in WorkersOf(e) <=> job[j].pc \in Working /\ EmailOf(j) = e
  /\ j \in TurnOf(e) <=> job[j].pc \in TurnPC /\ EmailOf(j) = e
  /\ job[j].event \in PendingOf(e) <=> event[job[j].event].status = "pending" /\ EmailOf(j) = e
  /\ \A k \in WorkersOf(e) : k # j => job'[k] = job[k]

(* A step of perform moves no other.                                       *)
LEMMA WorkerStep ==
  ASSUME TypeOK, WellFormed, NEW j \in Jobs, NEW e \in Emails, job[j].pc # "free",
         \A k \in Jobs : k # j => job'[k] = job[k], job'[j].event = job[j].event,
         \A p \in Events : p # job[j].event => event'[p] = event[p],
         event'[job[j].event].email = event[job[j].event].email
  PROVE  AtWork(j, e)
<1>1. job[j].event \in Events
  BY DEF WellFormed
<1>2. PendingOf(e)' = IF event'[job[j].event].status = "pending" /\ EmailOf(j) = e
                      THEN PendingOf(e) \union {job[j].event} ELSE PendingOf(e) \ {job[j].event}
  BY <1>1, EventStep DEF EmailOf
<1>3. \A o \in Events : event'[o].email = event[o].email
  OBVIOUS
<1>4. /\ WorkersOf(e)' = IF job'[j].pc \in Working /\ EmailOf(j) = e
                         THEN WorkersOf(e) \union {j} ELSE WorkersOf(e) \ {j}
      /\ TurnOf(e)' = IF job'[j].pc \in TurnPC /\ EmailOf(j) = e
                      THEN TurnOf(e) \union {j} ELSE TurnOf(e) \ {j}
  BY <1>3, JobStep
<1>5. /\ j \in WorkersOf(e) <=> job[j].pc \in Working /\ EmailOf(j) = e
      /\ j \in TurnOf(e) <=> job[j].pc \in TurnPC /\ EmailOf(j) = e
      /\ job[j].event \in PendingOf(e) <=> event[job[j].event].status = "pending" /\ EmailOf(j) = e
      /\ \A k \in WorkersOf(e) : k # j => job'[k] = job[k]
  BY <1>1 DEF WorkersOf, TurnOf, TurnPC, PendingOf, EmailOf, Working
<1>6. QED  BY <1>2, <1>4, <1>5 DEF AtWork

(* An answer takes the request out of the engine and moves its caller.     *)
LEMMA AnswerStep ==
  ASSUME TypeOK, WellFormed, NEW r \in Requests, NEW pc \in {"answered", "rejected", "erring"},
         Moved(r, pc), UNCHANGED event, NEW e \in Emails
  PROVE  /\ WorkersOf(e)' = WorkersOf(e)
         /\ InEngine(e)' = InEngine(e) \ {r}
         /\ TurnOf(e)' \subseteq TurnOf(e) \union {request[r].client}
         /\ pc = "answered" \/ request[r].email # e => TurnOf(e)' \subseteq TurnOf(e)
         /\ \A j \in WorkersOf(e) : job[j].pc = "failmarked" => job'[j].pc = "failmarked"
<1>1. /\ \A j \in Jobs : EmailOf(j)' = EmailOf(j)
      /\ \A j \in Jobs : j # request[r].client => job'[j] = job[j]
      /\ \A j \in Jobs : j = request[r].client =>
           job[j].pc = "calling" /\ job'[j].pc = pc /\ EmailOf(j) = request[r].email
  BY DEF Moved, EmailOf
<1>2. \A j \in Jobs : job'[j].pc \in Working <=> job[j].pc \in Working
  BY <1>1 DEF Working
<1>3. WorkersOf(e)' = WorkersOf(e)
  BY <1>1, <1>2 DEF WorkersOf
<1>4. \A j \in TurnOf(e)' : j \in TurnOf(e) \/ j = request[r].client
  BY <1>1, <1>3 DEF TurnOf, WorkersOf
<1>5. ASSUME pc = "answered" \/ request[r].email # e, NEW j \in TurnOf(e)' PROVE j \in TurnOf(e)
  BY <1>1, <1>3, <1>5 DEF TurnOf, WorkersOf
<1>6. InEngine(e)' = InEngine(e) \ {r}
  BY DEF Moved, IdleRequest, InEngine
<1>7. \A j \in WorkersOf(e) : job[j].pc = "failmarked" => job'[j].pc = "failmarked"
  BY <1>1 DEF WorkersOf
<1>8. QED  BY <1>3, <1>4, <1>5, <1>6, <1>7

-----------------------------------------------------------------------------
(***************************************************************************)
(* Every step is one of the moves for each email.                          *)
(***************************************************************************)

(* A worker that only keeps or leaves its place moves quietly.             *)
LEMMA QuietWorker ==
  ASSUME RecoveryTypeOK, RecoveryTypeOK', NEW j \in Jobs, NEW e \in Emails, AtWork(j, e),
         InEngine(e)' = InEngine(e), accepted'[e] = accepted[e], SamePaid(e),
         job'[j].pc \in Working => job[j].pc \in Working,
         job'[j].pc \in TurnPC => job[j].pc \in TurnPC,
         job[j].pc = "failmarked" /\ job'[j].pc \in Working => job'[j].pc = "failmarked",
         event'[job[j].event].status = "pending" => event[job[j].event].status = "pending",
         email'[e] = "failed" => email[e] = "failed",
         EmailOf(j) # e => email'[e] = email[e],
         EmailOf(j) = e /\ job'[j].pc \notin Working =>
           \/ job[j].pc \in TurnPC
           \/ email'[e] \notin {"none", "queued"}
           \/ email'[e] = email[e] /\ job[j].pc \notin Working
  PROVE  Quiet(e)
BY Numbers DEF Quiet, SamePaid, AtWork, Resting, TurnPC, Working

(* So does a push, of any number of jobs, and a step that changes nothing. *)
LEMMA PushMoves ==
  ASSUME RecoveryTypeOK, RecoveryTypeOK', WellFormed, NEW e \in Emails,
         UNCHANGED <<rows, engine, losses, hasty, abandoned>>,
         \A k \in Jobs : job'[k] = job[k] \/ (job[k].pc = "free" /\ job'[k].pc = "queued")
  PROVE  Quiet(e)
<1>1. /\ PendingOf(e)' = PendingOf(e) /\ InEngine(e)' = InEngine(e)
      /\ accepted'[e] = accepted[e] /\ email'[e] = email[e] /\ SamePaid(e) /\ event' = event
  BY DEF rows, engine, losses, PendingOf, InEngine, Paid, SamePaid
<1>2. \A k \in Jobs : job[k].pc \in Working \/ job'[k].pc \in Working => job'[k] = job[k]
  BY DEF Working
<1>3. WorkersOf(e)' = WorkersOf(e) /\ TurnOf(e)' = TurnOf(e)
  <2>1. WorkersOf(e)' = WorkersOf(e)
    BY <1>1, <1>2 DEF WorkersOf, EmailOf
  <2>2. \A k \in WorkersOf(e) : job'[k] = job[k]
    BY <1>2 DEF WorkersOf
  <2>3. QED  BY <2>1, <2>2 DEF TurnOf
<1>4. \A k \in WorkersOf(e) : job'[k] = job[k]
  BY <1>2 DEF WorkersOf
<1>5. QED  BY <1>1, <1>3, <1>4, Numbers DEF Quiet, SamePaid, Resting
(* A request that goes on stays where it was.                              *)
LEMMA SameEngine ==
  ASSUME TypeOK, NEW r \in Requests, NEW e \in Emails, request[r].phase \in {"received", "sending"},
         \/ request' = [request EXCEPT ![r].phase = "sending"]
         \/ request' = [request EXCEPT ![r].left = @ - 1]
  PROVE  InEngine(e)' = InEngine(e)
BY DEF InEngine, TypeOK, Request

(* An answer without success, to the email or to another.                  *)
LEMMA AnsweredMove ==
  ASSUME RecoveryTypeOK, RecoveryTypeOK', WellFormed, NEW e \in Emails, NEW r \in Requests,
         NEW pc \in {"rejected", "erring"}, Moved(r, pc), UNCHANGED event,
         PendingOf(e)' = PendingOf(e), accepted'[e] = accepted[e], email'[e] = email[e], SamePaid(e),
         r \in InEngine(e) <=> request[r].email = e
  PROVE  Quiet(e) \/ Answered(e)
<1>1. /\ WorkersOf(e)' = WorkersOf(e) /\ InEngine(e)' = InEngine(e) \ {r}
      /\ TurnOf(e)' \subseteq TurnOf(e) \union {request[r].client}
      /\ request[r].email # e => TurnOf(e)' \subseteq TurnOf(e)
      /\ \A j \in WorkersOf(e) : job[j].pc = "failmarked" => job'[j].pc = "failmarked"
  BY AnswerStep DEF RecoveryTypeOK
<1>2. TurnOf(e)' \subseteq WorkersOf(e)'
  BY DEF TurnOf
<1>3. CASE request[r].email = e
  BY <1>1, <1>2, <1>3 DEF Answered, Fewer, More
<1>4. CASE request[r].email # e
  BY <1>1, <1>4, Numbers DEF Quiet, SamePaid, Resting
<1>5. QED  BY <1>3, <1>4

(* A step of the pipeline, or a lost push, is one of the moves.            *)
LEMMA PipelineMoves ==
  ASSUME RecoveryTypeOK, RecoveryTypeOK', WellFormed, CallersMatch, OutcomesLast, NEW e \in Emails,
         Running \/ \E o \in Events : EnqueueLost(o), UNCHANGED <<hasty, abandoned>>
  PROVE  Move(e)
<1>1. ASSUME NEW a \in Emails, NEW o \in Events, Dispatch(a, o) PROVE Move(e)
  <2>1. /\ WorkersOf(e)' = WorkersOf(e) /\ TurnOf(e)' = TurnOf(e)
    BY <1>1, SameJobs DEF Dispatch, RecoveryTypeOK, TypeOK
  <2>2. /\ InEngine(e)' = InEngine(e) /\ accepted'[e] = accepted[e] /\ SamePaid(e)
        /\ \A k \in WorkersOf(e) : job'[k].pc = job[k].pc
    BY <1>1 DEF Dispatch, engine, losses, InEngine, Paid, SamePaid
  <2>3. /\ PendingOf(e)' = IF a = e THEN PendingOf(e) \union {o} ELSE PendingOf(e) \ {o}
        /\ o \notin PendingOf(e)
        /\ email'[e] = IF a = e THEN "queued" ELSE email[e]
    BY <1>1, EventStep DEF Dispatch, PendingOf, RecoveryTypeOK, TypeOK, EventRow
  <2>4. CASE a = e
    <3>1. email[e] = "none"
      BY <1>1, <2>4 DEF Dispatch
    <3>2. \A p \in Events : event[p].status # "absent" => event[p].email # e
      BY <3>1 DEF OutcomesLast
    <3>3. PendingOf(e) = {} /\ WorkersOf(e) = {}
      BY <3>2 DEF PendingOf, WorkersOf, WellFormed, EmailOf, Working
    <3>4. Added(e)
      BY <2>1, <2>2, <2>3, <2>4, <3>1, <3>3 DEF Added, Resting
    <3>5. QED  BY <3>4 DEF Move
  <2>5. CASE a # e
    <3>1. Quiet(e)
      BY <2>1, <2>2, <2>3, <2>5, Numbers DEF Quiet, SamePaid, Resting
    <3>2. QED  BY <3>1 DEF Move
  <2>6. QED  BY <2>4, <2>5
<1>2. ASSUME NEW o \in Events, NEW j \in Jobs, Enqueue(o, j) PROVE Move(e)
  <2>1. \A k \in Jobs : job'[k] = job[k] \/ (job[k].pc = "free" /\ job'[k].pc = "queued")
    BY <1>2 DEF Enqueue, Push, RecoveryTypeOK, TypeOK, Job
  <2>2. UNCHANGED <<rows, engine, losses, hasty, abandoned>>
    BY <1>2 DEF Enqueue
  <2>3. QED  BY <2>1, <2>2, PushMoves DEF Move
<1>3. ASSUME NEW o \in Events, NEW j \in Jobs, RequeueOrphaned(o, j) PROVE Move(e)
  <2>1. \A k \in Jobs : job'[k] = job[k] \/ (job[k].pc = "free" /\ job'[k].pc = "queued")
    BY <1>3 DEF RequeueOrphaned, Push, RecoveryTypeOK, TypeOK, Job
  <2>2. UNCHANGED <<rows, engine, losses, hasty, abandoned>>
    BY <1>3 DEF RequeueOrphaned
  <2>3. QED  BY <2>1, <2>2, PushMoves DEF Move
<1>4. ASSUME NEW j \in Jobs, Claim(j) PROVE Move(e)
  <2>1. /\ job[j].pc = "queued" /\ job'[j].pc = "claimed" /\ job'[j].event = job[j].event
        /\ \A k \in Jobs : k # j => job'[k] = job[k]
    BY <1>4 DEF Claim, Goto, RecoveryTypeOK, TypeOK, Job, FreeJob
  <2>2. job[j].event \in Events
    BY <2>1 DEF WellFormed, Working
  <2>3. /\ \A p \in Events : p # job[j].event => event'[p] = event[p]
        /\ event'[job[j].event].email = event[job[j].event].email
        /\ event[job[j].event].status = "pending" /\ event'[job[j].event].status = "processing"
    BY <1>4, <2>1, <2>2 DEF Claim, Goto, rows, RecoveryTypeOK, TypeOK, EventRow
  <2>4. AtWork(j, e)
    BY <2>1, <2>2, <2>3, WorkerStep DEF RecoveryTypeOK, Working
  <2>5. InEngine(e)' = InEngine(e) /\ accepted'[e] = accepted[e]
    BY <1>4, SameRequests DEF Claim, Goto, engine, RecoveryTypeOK, TypeOK, Request
  <2>6. email'[e] = email[e] /\ SamePaid(e)
    BY <1>4 DEF Claim, Goto, rows, losses, Paid, SamePaid, RecoveryTypeOK, TypeOK
  <2>7. CASE EmailOf(j) = e
    <3>1. Claimed(e)
      BY <2>1, <2>3, <2>4, <2>5, <2>6, <2>7 DEF Claimed, Fewer, AtWork, Working, TurnPC
    <3>2. QED  BY <3>1 DEF Move
  <2>8. CASE EmailOf(j) # e
    <3>1. Quiet(e)
      BY <2>1, <2>3, <2>4, <2>5, <2>6, <2>8, Numbers
      DEF Quiet, SamePaid, AtWork, Working, TurnPC, Resting
    <3>2. QED  BY <3>1 DEF Move
  <2>9. QED  BY <2>7, <2>8
<1>5. ASSUME NEW j \in Jobs, ClaimNothing(j) PROVE Move(e)
  <2>1. /\ job[j].pc = "queued" /\ job'[j].pc = "done" /\ job'[j].event = job[j].event
        /\ \A k \in Jobs : k # j => job'[k] = job[k]
    BY <1>5 DEF ClaimNothing, Leave, RecoveryTypeOK, TypeOK, Job, FreeJob
  <2>2. job[j].event \in Events
    BY <2>1 DEF WellFormed, Working
  <2>3. /\ \A p \in Events : p # job[j].event => event'[p] = event[p]
        /\ event'[job[j].event].email = event[job[j].event].email
        /\ event'[job[j].event].status = event[job[j].event].status
    BY <1>5, <2>1, <2>2 DEF ClaimNothing, Leave, rows, RecoveryTypeOK, TypeOK, EventRow
  <2>4. AtWork(j, e)
    BY <2>1, <2>2, <2>3, WorkerStep DEF RecoveryTypeOK, Working
  <2>5. InEngine(e)' = InEngine(e) /\ accepted'[e] = accepted[e]
    BY <1>5, SameRequests DEF ClaimNothing, Leave, engine, RecoveryTypeOK, TypeOK, Request
  <2>6. email'[e] = email[e] /\ SamePaid(e)
    BY <1>5 DEF ClaimNothing, Leave, rows, losses, Paid, SamePaid, RecoveryTypeOK, TypeOK
  <2>7. Quiet(e)
    BY <2>1, <2>3, <2>4, <2>5, <2>6, QuietWorker DEF Working, TurnPC
  <2>8. QED  BY <2>7 DEF Move
<1>6. ASSUME NEW j \in Jobs, LoadIneligible(j) PROVE Move(e)
  <2>1. /\ job[j].pc = "claimed" /\ job'[j].pc = "rejected" /\ job'[j].event = job[j].event
        /\ \A k \in Jobs : k # j => job'[k] = job[k]
    BY <1>6 DEF LoadIneligible, Load, RecoveryTypeOK, TypeOK, Job, FreeJob
  <2>2. job[j].event \in Events
    BY <2>1 DEF WellFormed, Working
  <2>3. /\ \A p \in Events : p # job[j].event => event'[p] = event[p]
        /\ event'[job[j].event].email = event[job[j].event].email
        /\ event'[job[j].event].status = event[job[j].event].status
    BY <1>6, <2>1, <2>2 DEF LoadIneligible, Load, rows, RecoveryTypeOK, TypeOK, EventRow
  <2>4. AtWork(j, e)
    BY <2>1, <2>2, <2>3, WorkerStep DEF RecoveryTypeOK, Working
  <2>5. InEngine(e)' = InEngine(e) /\ accepted'[e] = accepted[e]
    BY <1>6, SameRequests DEF LoadIneligible, Load, engine, RecoveryTypeOK, TypeOK, Request
  <2>6. email'[e] = email[e] /\ SamePaid(e)
    BY <1>6 DEF LoadIneligible, Load, rows, losses, Paid, SamePaid, RecoveryTypeOK, TypeOK
  <2>7. Quiet(e)
    BY <2>1, <2>3, <2>4, <2>5, <2>6, QuietWorker DEF Working, TurnPC
  <2>8. QED  BY <2>7 DEF Move
<1>7. ASSUME NEW j \in Jobs, NEW r \in Requests, Post(j, r) PROVE Move(e)
  <2>1. /\ job[j].pc = "claimed" /\ job'[j].pc = "calling" /\ job'[j].event = job[j].event
        /\ \A k \in Jobs : k # j => job'[k] = job[k]
    BY <1>7 DEF Post, Load, RecoveryTypeOK, TypeOK, Job, FreeJob
  <2>2. job[j].event \in Events
    BY <2>1 DEF WellFormed, Working
  <2>3. /\ \A p \in Events : p # job[j].event => event'[p] = event[p]
        /\ event'[job[j].event].email = event[job[j].event].email
        /\ event'[job[j].event].status = event[job[j].event].status
    BY <1>7, <2>1, <2>2 DEF Post, Load, rows, RecoveryTypeOK, TypeOK, EventRow
  <2>4. AtWork(j, e)
    BY <2>1, <2>2, <2>3, WorkerStep DEF RecoveryTypeOK, Working
  <2>6. email'[e] = email[e] /\ SamePaid(e)
    BY <1>7 DEF Post, Load, rows, losses, Paid, SamePaid, RecoveryTypeOK, TypeOK
  <2>7. /\ InEngine(e)' = IF EmailOf(j) = e THEN InEngine(e) \union {r} ELSE InEngine(e) \ {r}
        /\ r \notin InEngine(e) /\ accepted'[e] = accepted[e]
    BY <1>7, RequestStep DEF Post, InEngine, RecoveryTypeOK, TypeOK, Request
  <2>8. CASE EmailOf(j) = e
    <3>1. Posted(e)
      BY <2>1, <2>3, <2>4, <2>6, <2>7, <2>8 DEF Posted, More, AtWork, Working, TurnPC
    <3>2. QED  BY <3>1 DEF Move
  <2>9. CASE EmailOf(j) # e
    <3>1. InEngine(e)' = InEngine(e)
      BY <2>7, <2>9
    <3>2. Quiet(e)
      BY <2>1, <2>3, <2>4, <2>6, <2>7, <2>9, <3>1, QuietWorker DEF Working, TurnPC
    <3>3. QED  BY <3>2 DEF Move
  <2>10. QED  BY <2>8, <2>9
<1>8. ASSUME NEW j \in Jobs, MarkSent(j) PROVE Move(e)
  <2>1. /\ job[j].pc = "answered" /\ job'[j].pc = "sentmarked" /\ job'[j].event = job[j].event
        /\ \A k \in Jobs : k # j => job'[k] = job[k]
    BY <1>8 DEF MarkSent, Written, RecoveryTypeOK, TypeOK, Job, FreeJob
  <2>2. job[j].event \in Events
    BY <2>1 DEF WellFormed, Working
  <2>3. /\ \A p \in Events : p # job[j].event => event'[p] = event[p]
        /\ event'[job[j].event].email = event[job[j].event].email
        /\ event'[job[j].event].status = event[job[j].event].status
    BY <1>8, <2>1, <2>2 DEF MarkSent, Written, rows, RecoveryTypeOK, TypeOK, EventRow
  <2>4. AtWork(j, e)
    BY <2>1, <2>2, <2>3, WorkerStep DEF RecoveryTypeOK, Working
  <2>5. InEngine(e)' = InEngine(e) /\ accepted'[e] = accepted[e]
    BY <1>8, SameRequests DEF MarkSent, Written, engine, RecoveryTypeOK, TypeOK, Request
  <2>6. (email'[e] = email[e] \/ email'[e] = "sent") /\ (EmailOf(j) # e => email'[e] = email[e]) /\ SamePaid(e)
    BY <1>8 DEF MarkSent, Written, rows, losses, Paid, SamePaid, RecoveryTypeOK, TypeOK
  <2>7. Quiet(e)
    BY <2>1, <2>3, <2>4, <2>5, <2>6, QuietWorker DEF Working, TurnPC
  <2>8. QED  BY <2>7 DEF Move
<1>9. ASSUME NEW j \in Jobs, Complete(j) PROVE Move(e)
  <2>1. /\ job[j].pc = "sentmarked" /\ job'[j].pc = "done" /\ job'[j].event = job[j].event
        /\ \A k \in Jobs : k # j => job'[k] = job[k]
    BY <1>9 DEF Complete, Leave, Written, RecoveryTypeOK, TypeOK, Job, FreeJob
  <2>2. job[j].event \in Events
    BY <2>1 DEF WellFormed, Working
  <2>3. /\ \A p \in Events : p # job[j].event => event'[p] = event[p]
        /\ event'[job[j].event].email = event[job[j].event].email
        /\ (event'[job[j].event].status = "pending" => event[job[j].event].status = "pending")
    BY <1>9, <2>1, <2>2 DEF Complete, Leave, Written, rows, RecoveryTypeOK, TypeOK, EventRow
  <2>4. AtWork(j, e)
    BY <2>1, <2>2, <2>3, WorkerStep DEF RecoveryTypeOK, Working
  <2>5. InEngine(e)' = InEngine(e) /\ accepted'[e] = accepted[e]
    BY <1>9, SameRequests DEF Complete, Leave, Written, engine, RecoveryTypeOK, TypeOK, Request
  <2>6. email'[e] = email[e] /\ SamePaid(e)
    BY <1>9 DEF Complete, Leave, Written, rows, losses, Paid, SamePaid, RecoveryTypeOK, TypeOK
  <2>7. EmailOf(j) = e => email[e] \notin {"none", "queued"}
    BY <2>1, <2>2 DEF OutcomesLast, WellFormed, EmailOf, Working
  <2>8. Quiet(e)
    BY <2>1, <2>3, <2>4, <2>5, <2>6, <2>7, QuietWorker DEF Working, TurnPC
  <2>9. QED  BY <2>8 DEF Move
<1>10. ASSUME NEW j \in Jobs, MarkFailed(j) PROVE Move(e)
  <2>1. /\ job[j].pc = "rejected" /\ job'[j].pc = "failmarked" /\ job'[j].event = job[j].event
        /\ \A k \in Jobs : k # j => job'[k] = job[k]
    BY <1>10 DEF MarkFailed, Written, RecoveryTypeOK, TypeOK, Job, FreeJob
  <2>2. job[j].event \in Events
    BY <2>1 DEF WellFormed, Working
  <2>3. /\ \A p \in Events : p # job[j].event => event'[p] = event[p]
        /\ event'[job[j].event].email = event[job[j].event].email
        /\ event'[job[j].event].status = event[job[j].event].status
    BY <1>10, <2>1, <2>2 DEF MarkFailed, Written, rows, RecoveryTypeOK, TypeOK, EventRow
  <2>4. AtWork(j, e)
    BY <2>1, <2>2, <2>3, WorkerStep DEF RecoveryTypeOK, Working
  <2>5. InEngine(e)' = InEngine(e) /\ accepted'[e] = accepted[e]
    BY <1>10, SameRequests DEF MarkFailed, Written, engine, RecoveryTypeOK, TypeOK, Request
  <2>6. (EmailOf(j) # e => email'[e] = email[e]) /\ SamePaid(e)
    BY <1>10 DEF MarkFailed, Written, rows, losses, Paid, SamePaid, RecoveryTypeOK, TypeOK
  <2>7. CASE EmailOf(j) = e
    <3>1. Failing(e)
      BY <2>1, <2>3, <2>4, <2>5, <2>6, <2>7 DEF Failing, AtWork, Working, TurnPC
    <3>2. QED  BY <3>1 DEF Move
  <2>8. CASE EmailOf(j) # e
    <3>1. Quiet(e)
      BY <2>1, <2>3, <2>4, <2>5, <2>6, <2>8, QuietWorker DEF Working, TurnPC
    <3>2. QED  BY <3>1 DEF Move
  <2>9. QED  BY <2>7, <2>8
<1>11. ASSUME NEW j \in Jobs, KillEvent(j) PROVE Move(e)
  <2>1. /\ job[j].pc = "failmarked" /\ job'[j].pc = "done" /\ job'[j].event = job[j].event
        /\ \A k \in Jobs : k # j => job'[k] = job[k]
    BY <1>11 DEF KillEvent, Leave, Written, RecoveryTypeOK, TypeOK, Job, FreeJob
  <2>2. job[j].event \in Events
    BY <2>1 DEF WellFormed, Working
  <2>3. /\ \A p \in Events : p # job[j].event => event'[p] = event[p]
        /\ event'[job[j].event].email = event[job[j].event].email
        /\ (event'[job[j].event].status = "pending" => event[job[j].event].status = "pending")
    BY <1>11, <2>1, <2>2 DEF KillEvent, Leave, Written, rows, RecoveryTypeOK, TypeOK, EventRow
  <2>4. AtWork(j, e)
    BY <2>1, <2>2, <2>3, WorkerStep DEF RecoveryTypeOK, Working
  <2>5. InEngine(e)' = InEngine(e) /\ accepted'[e] = accepted[e]
    BY <1>11, SameRequests DEF KillEvent, Leave, Written, engine, RecoveryTypeOK, TypeOK, Request
  <2>6. email'[e] = email[e] /\ SamePaid(e)
    BY <1>11 DEF KillEvent, Leave, Written, rows, losses, Paid, SamePaid, RecoveryTypeOK, TypeOK
  <2>7. Quiet(e)
    BY <2>1, <2>3, <2>4, <2>5, <2>6, QuietWorker DEF Working, TurnPC
  <2>8. QED  BY <2>7 DEF Move
<1>12. ASSUME NEW j \in Jobs, FailEvent(j) PROVE Move(e)
  <2>1. /\ job[j].pc = "erring" /\ job'[j].pc = "raised" /\ job'[j].event = job[j].event
        /\ \A k \in Jobs : k # j => job'[k] = job[k]
    BY <1>12 DEF FailEvent, Leave, Written, RecoveryTypeOK, TypeOK, Job, FreeJob
  <2>2. job[j].event \in Events
    BY <2>1 DEF WellFormed, Working
  <2>3. /\ \A p \in Events : p # job[j].event => event'[p] = event[p]
        /\ event'[job[j].event].email = event[job[j].event].email
        /\ TRUE
    BY <1>12, <2>1, <2>2 DEF FailEvent, Leave, Written, rows, RecoveryTypeOK, TypeOK, EventRow
  <2>4. AtWork(j, e)
    BY <2>1, <2>2, <2>3, WorkerStep DEF RecoveryTypeOK, Working
  <2>5. InEngine(e)' = InEngine(e) /\ accepted'[e] = accepted[e]
    BY <1>12, SameRequests DEF FailEvent, Leave, Written, engine, RecoveryTypeOK, TypeOK, Request
  <2>6. email'[e] = email[e] /\ SamePaid(e)
    BY <1>12 DEF FailEvent, Leave, Written, rows, losses, Paid, SamePaid, RecoveryTypeOK, TypeOK
  <2>7. CASE EmailOf(j) = e
    <3>1. Released(e)
      BY <2>1, <2>4, <2>5, <2>6, <2>7 DEF Released, AtWork, Working, TurnPC
    <3>2. QED  BY <3>1 DEF Move
  <2>8. CASE EmailOf(j) # e
    <3>1. Quiet(e)
      BY <2>1, <2>3, <2>4, <2>5, <2>6, <2>8, Numbers
      DEF Quiet, SamePaid, AtWork, Working, TurnPC, Resting
    <3>2. QED  BY <3>1 DEF Move
  <2>9. QED  BY <2>7, <2>8
<1>13. ASSUME NEW j \in Jobs, Reschedule(j) PROVE Move(e)
  <2>1. /\ job[j].pc \in {"raised", "stumbled"} /\ job'[j].pc = "queued" /\ job'[j].event = job[j].event
        /\ \A k \in Jobs : k # j => job'[k] = job[k]
    BY <1>13 DEF Reschedule, RecoveryTypeOK, TypeOK, Job, FreeJob
  <2>2. job[j].event \in Events
    BY <2>1 DEF WellFormed, Working
  <2>3. /\ \A p \in Events : p # job[j].event => event'[p] = event[p]
        /\ event'[job[j].event].email = event[job[j].event].email
        /\ event'[job[j].event].status = event[job[j].event].status
    BY <1>13, <2>1, <2>2 DEF Reschedule, rows, RecoveryTypeOK, TypeOK, EventRow
  <2>4. AtWork(j, e)
    BY <2>1, <2>2, <2>3, WorkerStep DEF RecoveryTypeOK, Working
  <2>5. InEngine(e)' = InEngine(e) /\ accepted'[e] = accepted[e]
    BY <1>13, SameRequests DEF Reschedule, engine, RecoveryTypeOK, TypeOK, Request
  <2>6. email'[e] = email[e] /\ SamePaid(e)
    BY <1>13 DEF Reschedule, rows, losses, Paid, SamePaid, RecoveryTypeOK, TypeOK
  <2>7. Quiet(e)
    BY <2>1, <2>3, <2>4, <2>5, <2>6, QuietWorker DEF Working, TurnPC
  <2>8. QED  BY <2>7 DEF Move
<1>14. ASSUME NEW j \in Jobs, RetriesExhausted(j) PROVE Move(e)
  <2>1. /\ job[j].pc \in {"raised", "stumbled"} /\ job'[j].pc = "done" /\ job'[j].event = job[j].event
        /\ \A k \in Jobs : k # j => job'[k] = job[k]
    BY <1>14 DEF RetriesExhausted, Leave, RecoveryTypeOK, TypeOK, Job, FreeJob
  <2>2. job[j].event \in Events
    BY <2>1 DEF WellFormed, Working
  <2>3. /\ \A p \in Events : p # job[j].event => event'[p] = event[p]
        /\ event'[job[j].event].email = event[job[j].event].email
        /\ (event'[job[j].event].status = "pending" => event[job[j].event].status = "pending")
    BY <1>14, <2>1, <2>2 DEF RetriesExhausted, Leave, rows, RecoveryTypeOK, TypeOK, EventRow
  <2>4. AtWork(j, e)
    BY <2>1, <2>2, <2>3, WorkerStep DEF RecoveryTypeOK, Working
  <2>5. InEngine(e)' = InEngine(e) /\ accepted'[e] = accepted[e]
    BY <1>14, SameRequests DEF RetriesExhausted, Leave, engine, RecoveryTypeOK, TypeOK, Request
  <2>6. email'[e] = email[e] /\ SamePaid(e)
    BY <1>14 DEF RetriesExhausted, Leave, rows, losses, Paid, SamePaid, RecoveryTypeOK, TypeOK
  <2>7. Quiet(e)
    BY <2>1, <2>3, <2>4, <2>5, <2>6, QuietWorker DEF Working, TurnPC
  <2>8. QED  BY <2>7 DEF Move
<1>15. ASSUME NEW r \in Requests, GoReplay(r) PROVE Move(e)
  <2>1. /\ PendingOf(e)' = PendingOf(e) /\ accepted'[e] = accepted[e] /\ email'[e] = email[e]
        /\ SamePaid(e) /\ UNCHANGED event
    BY <1>15 DEF GoReplay, rows, losses, PendingOf, Paid, SamePaid
  <2>2. Moved(r, "answered")
    BY <1>15, AnswerMoves DEF GoReplay, RecoveryTypeOK, PC, Working
  <2>3. Quiet(e)
    BY <2>1, <2>2, AnswerStep, Numbers DEF Quiet, SamePaid, Resting, RecoveryTypeOK
  <2>4. QED  BY <2>3 DEF Move
<1>16. ASSUME NEW r \in Requests, GoMiss(r) PROVE Move(e)
  <2>1. /\ PendingOf(e)' = PendingOf(e) /\ accepted'[e] = accepted[e] /\ email'[e] = email[e]
        /\ SamePaid(e) /\ UNCHANGED event
    BY <1>16 DEF GoMiss, rows, losses, PendingOf, Paid, SamePaid
  <2>2. InEngine(e)' = InEngine(e)
    BY <1>16, SameEngine DEF GoMiss, RecoveryTypeOK
  <2>3. WorkersOf(e)' = WorkersOf(e) /\ TurnOf(e)' = TurnOf(e) /\ job' = job
    BY <1>16, SameJobs DEF GoMiss, rows, RecoveryTypeOK
  <2>4. Quiet(e)
    BY <2>1, <2>2, <2>3, Numbers DEF Quiet, SamePaid, Resting
  <2>5. QED  BY <2>4 DEF Move
<1>17. ASSUME NEW r \in Requests, GoDeclines(r) PROVE Move(e)
  <2>1. /\ PendingOf(e)' = PendingOf(e) /\ accepted'[e] = accepted[e] /\ email'[e] = email[e]
        /\ SamePaid(e) /\ UNCHANGED event
    BY <1>17 DEF GoDeclines, rows, losses, PendingOf, Paid, SamePaid
  <2>2. PICK pc \in {"rejected", "erring"} : Moved(r, pc)
    BY <1>17, AnswerMoves DEF GoDeclines, RecoveryTypeOK, PC, Working
  <2>3. r \in InEngine(e) <=> request[r].email = e
    BY <1>17 DEF GoDeclines, InEngine
  <2>4. Quiet(e) \/ Answered(e)
    BY <2>1, <2>2, <2>3, AnsweredMove
  <2>5. QED  BY <2>4 DEF Move
<1>18. ASSUME NEW r \in Requests, ProviderAccepts(r) PROVE Move(e)
  <2>1. /\ PendingOf(e)' = PendingOf(e) /\ email'[e] = email[e] /\ SamePaid(e)
        /\ accepted'[e] = IF request[r].email = e THEN accepted[e] + 1 ELSE accepted[e]
    BY <1>18 DEF ProviderAccepts, rows, losses, PendingOf, Paid, SamePaid, RecoveryTypeOK, TypeOK
  <2>2. /\ InEngine(e)' = InEngine(e) \ {r}
        /\ r \in InEngine(e) <=> request[r].email = e
    BY <1>18, RequestStep DEF ProviderAccepts, InEngine, RecoveryTypeOK, TypeOK, Request
  <2>3. WorkersOf(e)' = WorkersOf(e) /\ TurnOf(e)' = TurnOf(e) /\ job' = job
    BY <1>18, SameJobs DEF ProviderAccepts, rows, RecoveryTypeOK
  <2>4. CASE request[r].email = e
    <3>1. Accepts(e)
      BY <2>1, <2>2, <2>3, <2>4 DEF Accepts, Fewer, Resting
    <3>2. QED  BY <3>1 DEF Move
  <2>5. CASE request[r].email # e
    <3>1. Quiet(e)
      BY <2>1, <2>2, <2>3, <2>5, Numbers DEF Quiet, SamePaid, Resting
    <3>2. QED  BY <3>1 DEF Move
  <2>6. QED  BY <2>4, <2>5
<1>19. ASSUME NEW r \in Requests, ProviderRefuses(r) PROVE Move(e)
  <2>1. /\ PendingOf(e)' = PendingOf(e) /\ accepted'[e] = accepted[e] /\ email'[e] = email[e]
        /\ SamePaid(e) /\ UNCHANGED event
    BY <1>19 DEF ProviderRefuses, rows, losses, PendingOf, Paid, SamePaid
  <2>2. CASE \E pc \in {"rejected", "erring"} : Answer(r, pc)
    <3>1. PICK pc \in {"rejected", "erring"} : Moved(r, pc)
      BY <2>2, AnswerMoves DEF RecoveryTypeOK, PC, Working
    <3>2. r \in InEngine(e) <=> request[r].email = e
      BY <1>19 DEF ProviderRefuses, InEngine
    <3>3. Quiet(e) \/ Answered(e)
      BY <2>1, <3>1, <3>2, AnsweredMove
    <3>4. QED  BY <3>3 DEF Move
  <2>3. CASE Fallback(r) /\ UNCHANGED job
    <3>1. InEngine(e)' = InEngine(e)
      BY <1>19, <2>3, SameEngine DEF ProviderRefuses, Fallback, RecoveryTypeOK
    <3>2. WorkersOf(e)' = WorkersOf(e) /\ TurnOf(e)' = TurnOf(e)
      BY <2>1, <2>3, SameJobs DEF RecoveryTypeOK
    <3>3. Quiet(e)
      BY <2>1, <2>3, <3>1, <3>2, Numbers DEF Quiet, SamePaid, Resting
    <3>4. QED  BY <3>3 DEF Move
  <2>4. QED  BY <1>19, <2>2, <2>3 DEF ProviderRefuses
<1>20. ASSUME NEW r \in Requests, ProviderAnswerLost(r) PROVE Move(e)
  <2>1. /\ PendingOf(e)' = PendingOf(e) /\ email'[e] = email[e] /\ UNCHANGED event
        /\ hasty'[e] = hasty[e]
        /\ accepted'[e] = (IF request[r].email = e THEN accepted[e] + 1 ELSE accepted[e])
        /\ Paid(e)' = (IF request[r].email = e THEN Paid(e) + 1 ELSE Paid(e))
    <3>1. /\ lost'[e] = (IF request[r].email = e THEN lost[e] + 1 ELSE lost[e])
          /\ lost[e] \in Nat /\ unwritten[e] \in Nat /\ abandoned[e] \in Nat /\ hasty[e] \in Nat
          /\ unwritten' = unwritten
      BY <1>20 DEF ProviderAnswerLost, Lose, RecoveryTypeOK, TypeOK
    <3>2. Paid(e)' = (IF request[r].email = e THEN Paid(e) + 1 ELSE Paid(e))
      BY <3>1 DEF Paid
    <3>3. accepted'[e] = (IF request[r].email = e THEN accepted[e] + 1 ELSE accepted[e])
      BY <1>20 DEF ProviderAnswerLost, RecoveryTypeOK, TypeOK
    <3>4. QED  BY <1>20, <3>2, <3>3 DEF ProviderAnswerLost, rows, PendingOf
  <2>2. r \in InEngine(e) <=> request[r].email = e
    BY <1>20 DEF ProviderAnswerLost, InEngine
  <2>3. CASE Answer(r, "erring")
    <3>1. Moved(r, "erring")
      BY <2>3, AnswerMoves DEF RecoveryTypeOK, PC, Working
    <3>2. /\ WorkersOf(e)' = WorkersOf(e) /\ InEngine(e)' = InEngine(e) \ {r}
          /\ TurnOf(e)' \subseteq TurnOf(e) \union {request[r].client}
          /\ request[r].email # e => TurnOf(e)' \subseteq TurnOf(e)
          /\ \A j \in WorkersOf(e) : job[j].pc = "failmarked" => job'[j].pc = "failmarked"
      BY <2>1, <3>1, AnswerStep DEF RecoveryTypeOK
    <3>3. CASE request[r].email = e
      <4>1. Lossy(e)
        BY <2>1, <2>2, <3>2, <3>3, Numbers DEF Lossy, Fewer, More, Resting
      <4>2. QED  BY <4>1 DEF Move
    <3>4. CASE request[r].email # e
      <4>1. Quiet(e)
        BY <2>1, <2>2, <3>2, <3>4, Numbers DEF Quiet, Resting
      <4>2. QED  BY <4>1 DEF Move
    <3>5. QED  BY <3>3, <3>4
  <2>4. CASE Fallback(r) /\ UNCHANGED job
    <3>1. InEngine(e)' = InEngine(e)
      BY <1>20, <2>4, SameEngine DEF ProviderAnswerLost, Fallback, RecoveryTypeOK
    <3>2. WorkersOf(e)' = WorkersOf(e) /\ TurnOf(e)' = TurnOf(e)
      BY <2>1, <2>4, SameJobs DEF RecoveryTypeOK
    <3>3. CASE request[r].email = e
      <4>1. Lossy(e)
        BY <2>1, <3>1, <3>2, <3>3, Numbers DEF Lossy, Resting
      <4>2. QED  BY <4>1 DEF Move
    <3>4. CASE request[r].email # e
      <4>1. Quiet(e)
        BY <2>1, <2>4, <3>1, <3>2, <3>4, Numbers DEF Quiet, Resting
      <4>2. QED  BY <4>1 DEF Move
    <3>5. QED  BY <3>3, <3>4
  <2>5. QED  BY <1>20, <2>3, <2>4 DEF ProviderAnswerLost
<1>21. ASSUME NEW r \in Requests, GoResponds(r) PROVE Move(e)
  <2>1. /\ PendingOf(e)' = PendingOf(e) /\ accepted'[e] = accepted[e] /\ email'[e] = email[e]
        /\ SamePaid(e) /\ UNCHANGED event
    BY <1>21 DEF GoResponds, rows, losses, PendingOf, Paid, SamePaid
  <2>2. Moved(r, "answered")
    BY <1>21, AnswerMoves DEF GoResponds, RecoveryTypeOK, PC, Working
  <2>3. Quiet(e)
    BY <2>1, <2>2, AnswerStep, Numbers DEF Quiet, SamePaid, Resting, RecoveryTypeOK
  <2>4. QED  BY <2>3 DEF Move
<1>22. ASSUME NEW j \in Jobs, RaisesBeforeCall(j) PROVE Move(e)
  <2>1. /\ job[j].pc = "claimed" /\ job'[j].pc = "erring" /\ job'[j].event = job[j].event
        /\ \A k \in Jobs : k # j => job'[k] = job[k]
    BY <1>22 DEF RaisesBeforeCall, Load, RecoveryTypeOK, TypeOK, Job, FreeJob
  <2>2. job[j].event \in Events
    BY <2>1 DEF WellFormed, Working
  <2>3. /\ \A p \in Events : p # job[j].event => event'[p] = event[p]
        /\ event'[job[j].event].email = event[job[j].event].email
        /\ event'[job[j].event].status = event[job[j].event].status
    BY <1>22, <2>1, <2>2 DEF RaisesBeforeCall, Load, rows, RecoveryTypeOK, TypeOK, EventRow
  <2>4. AtWork(j, e)
    BY <2>1, <2>2, <2>3, WorkerStep DEF RecoveryTypeOK, Working
  <2>5. InEngine(e)' = InEngine(e) /\ accepted'[e] = accepted[e]
    BY <1>22, SameRequests DEF RaisesBeforeCall, Load, engine, RecoveryTypeOK, TypeOK, Request
  <2>6. email'[e] = email[e] /\ SamePaid(e)
    BY <1>22 DEF RaisesBeforeCall, Load, rows, losses, Paid, SamePaid, RecoveryTypeOK, TypeOK
  <2>7. Quiet(e)
    BY <2>1, <2>3, <2>4, <2>5, <2>6, QuietWorker DEF Working, TurnPC
  <2>8. QED  BY <2>7 DEF Move
<1>23. ASSUME NEW j \in Jobs, Timeout(j) PROVE Move(e)
  <2>1. /\ job[j].pc = "calling" /\ job'[j].pc = "erring" /\ job'[j].event = job[j].event
        /\ \A k \in Jobs : k # j => job'[k] = job[k]
    BY <1>23 DEF Timeout, Goto, Disconnect, Lose, RecoveryTypeOK, TypeOK, Job, FreeJob
  <2>2. job[j].event \in Events
    BY <2>1 DEF WellFormed, Working
  <2>3. /\ \A p \in Events : p # job[j].event => event'[p] = event[p]
        /\ event'[job[j].event].email = event[job[j].event].email
        /\ event'[job[j].event].status = event[job[j].event].status
    BY <1>23, <2>1, <2>2 DEF Timeout, Goto, Disconnect, Lose, rows, RecoveryTypeOK, TypeOK, EventRow
  <2>4. AtWork(j, e)
    BY <2>1, <2>2, <2>3, WorkerStep DEF RecoveryTypeOK, Working
  <2>5. InEngine(e)' = InEngine(e) /\ accepted'[e] = accepted[e]
    BY <1>23, SameRequests DEF Timeout, Goto, Disconnect, Lose, engine, RecoveryTypeOK, TypeOK, Request
  <2>6. email'[e] = email[e] /\ hasty'[e] = hasty[e] /\ Paid(e) \in Nat
        /\ Paid(e)' = (IF EmailOf(j) = e THEN Paid(e) + 1 ELSE Paid(e))
    BY <1>23 DEF Timeout, Goto, Disconnect, Lose, rows, losses, Paid, SamePaid, RecoveryTypeOK, TypeOK
  <2>7. CASE EmailOf(j) = e
    <3>1. Lossy(e)
      BY <2>1, <2>3, <2>4, <2>5, <2>6, <2>7 DEF Lossy, More, AtWork, Working, TurnPC, Resting
    <3>2. QED  BY <3>1 DEF Move
  <2>8. CASE EmailOf(j) # e
    <3>1. Quiet(e)
      BY <2>1, <2>3, <2>4, <2>5, <2>6, <2>8, Numbers
      DEF Quiet, SamePaid, AtWork, Working, TurnPC, Resting
    <3>2. QED  BY <3>1 DEF Move
  <2>9. QED  BY <2>7, <2>8
<1>24. ASSUME NEW j \in Jobs, WriteFails(j) PROVE Move(e)
  <2>1. /\ job[j].pc \in {"answered", "sentmarked", "rejected", "failmarked"} /\ job'[j].pc = "erring" /\ job'[j].event = job[j].event
        /\ \A k \in Jobs : k # j => job'[k] = job[k]
    BY <1>24 DEF WriteFails, Goto, RecoveryTypeOK, TypeOK, Job, FreeJob
  <2>2. job[j].event \in Events
    BY <2>1 DEF WellFormed, Working
  <2>3. /\ \A p \in Events : p # job[j].event => event'[p] = event[p]
        /\ event'[job[j].event].email = event[job[j].event].email
        /\ event'[job[j].event].status = event[job[j].event].status
    BY <1>24, <2>1, <2>2 DEF WriteFails, Goto, rows, RecoveryTypeOK, TypeOK, EventRow
  <2>4. AtWork(j, e)
    BY <2>1, <2>2, <2>3, WorkerStep DEF RecoveryTypeOK, Working
  <2>5. InEngine(e)' = InEngine(e) /\ accepted'[e] = accepted[e]
    BY <1>24, SameRequests DEF WriteFails, Goto, engine, RecoveryTypeOK, TypeOK, Request
  <2>6. email'[e] = email[e] /\ hasty'[e] = hasty[e] /\ Paid(e) \in Nat
        /\ Paid(e)' = (IF EmailOf(j) = e THEN Paid(e) + 1 ELSE Paid(e))
    BY <1>24 DEF WriteFails, Goto, rows, losses, Paid, SamePaid, RecoveryTypeOK, TypeOK
  <2>7. CASE EmailOf(j) = e
    <3>1. Lossy(e)
      BY <2>1, <2>3, <2>4, <2>5, <2>6, <2>7 DEF Lossy, More, AtWork, Working, TurnPC, Resting
    <3>2. QED  BY <3>1 DEF Move
  <2>8. CASE EmailOf(j) # e
    <3>1. Quiet(e)
      BY <2>1, <2>3, <2>4, <2>5, <2>6, <2>8, Numbers
      DEF Quiet, SamePaid, AtWork, Working, TurnPC, Resting
    <3>2. QED  BY <3>1 DEF Move
  <2>9. QED  BY <2>7, <2>8
<1>25. ASSUME NEW r \in Requests, GoCrash(r) PROVE Move(e)
  <2>1. /\ PendingOf(e)' = PendingOf(e) /\ email'[e] = email[e] /\ UNCHANGED event
        /\ hasty'[e] = hasty[e] /\ accepted'[e] = accepted[e]
        /\ Paid(e)' = IF Waiting(r) /\ request[r].email = e THEN Paid(e) + 1 ELSE Paid(e)
    BY <1>25 DEF GoCrash, rows, Lose, PendingOf, Paid, RecoveryTypeOK, TypeOK
  <2>2. Moved(r, "erring")
    BY <1>25, AnswerMoves DEF GoCrash, RecoveryTypeOK, PC, Working
  <2>3. /\ WorkersOf(e)' = WorkersOf(e) /\ InEngine(e)' = InEngine(e) \ {r}
        /\ TurnOf(e)' \subseteq TurnOf(e) \union {request[r].client}
        /\ request[r].email # e => TurnOf(e)' \subseteq TurnOf(e)
        /\ \A j \in WorkersOf(e) : job[j].pc = "failmarked" => job'[j].pc = "failmarked"
    BY <2>1, <2>2, AnswerStep DEF RecoveryTypeOK
  <2>4. CASE Waiting(r) /\ request[r].email = e
    <3>1. Paid(e)' = Paid(e) + 1 /\ Paid(e) \in Nat
      BY <2>1, <2>4, Numbers
    <3>2. Resting(e)' => Resting(e)
      BY <2>1, <2>3 DEF Resting
    <3>3. Lossy(e)
      BY <2>1, <2>3, <3>1, <3>2 DEF Lossy, More
    <3>4. QED  BY <3>3 DEF Move
  <2>5. CASE ~(Waiting(r) /\ request[r].email = e)
    <3>1. TurnOf(e)' \subseteq TurnOf(e)
      BY <2>3, <2>5, PipelineAssumption DEF Waiting, TurnOf, WorkersOf
    <3>2. Quiet(e)
      BY <2>1, <2>3, <2>5, <3>1, Numbers DEF Quiet, Resting
    <3>3. QED  BY <3>2 DEF Move
  <2>6. QED  BY <2>4, <2>5
<1>26. ASSUME NEW o \in Events, EnqueueLost(o) PROVE Move(e)
  <2>1. \A k \in Jobs : job'[k] = job[k] \/ (job[k].pc = "free" /\ job'[k].pc = "queued")
    BY <1>26 DEF EnqueueLost, RecoveryTypeOK, TypeOK, Job
  <2>2. UNCHANGED <<rows, engine, losses, hasty, abandoned>>
    BY <1>26 DEF EnqueueLost
  <2>3. QED  BY <2>1, <2>2, PushMoves DEF Move
<1>30. ASSUME NEW j \in Jobs, ClaimRaises(j) PROVE Move(e)
  <2>1. /\ job[j].pc = "queued" /\ job'[j].pc = "stumbled" /\ job'[j].event = job[j].event
        /\ \A k \in Jobs : k # j => job'[k] = job[k]
    BY <1>30 DEF ClaimRaises, Goto, RecoveryTypeOK, TypeOK, Job, FreeJob
  <2>2. job[j].event \in Events
    BY <2>1 DEF WellFormed, Working
  <2>3. /\ \A p \in Events : p # job[j].event => event'[p] = event[p]
        /\ event'[job[j].event].email = event[job[j].event].email
        /\ event'[job[j].event].status = event[job[j].event].status
    BY <1>30, <2>1, <2>2 DEF ClaimRaises, Goto, rows, RecoveryTypeOK, TypeOK, EventRow
  <2>4. AtWork(j, e)
    BY <2>1, <2>2, <2>3, WorkerStep DEF RecoveryTypeOK, Working
  <2>5. InEngine(e)' = InEngine(e) /\ accepted'[e] = accepted[e]
    BY <1>30, SameRequests DEF ClaimRaises, Goto, engine, RecoveryTypeOK, TypeOK, Request
  <2>6. email'[e] = email[e] /\ SamePaid(e)
    BY <1>30 DEF ClaimRaises, Goto, rows, losses, Paid, SamePaid, RecoveryTypeOK, TypeOK
  <2>7. Quiet(e)
    BY <2>1, <2>3, <2>4, <2>5, <2>6, QuietWorker DEF Working, TurnPC
  <2>8. QED  BY <2>7 DEF Move
<1>31. QED
  BY <1>1, <1>2, <1>3, <1>4, <1>5, <1>6, <1>7, <1>8, <1>9, <1>10,
     <1>11, <1>12, <1>13, <1>14, <1>15, <1>16, <1>17, <1>18, <1>19, <1>20,
     <1>21, <1>22, <1>23, <1>24, <1>25, <1>26, <1>30
  DEF Running, Dispatching, Perform, Serve, Error

(* A job that dies leaves its email at rest at most after it had its turn, *)
(* or is put on the account.                                               *)
LEMMA DeathMoves ==
  ASSUME RecoveryTypeOK, RecoveryTypeOK', WellFormed, NEW e \in Emails,
         NEW j \in Jobs, WorkerDies(j)
  PROVE  Move(e)
<1>1. /\ job[j].pc \in Working \union {"queued", "raised", "stumbled"}
      /\ job'[j].pc \in {"raised", "done", "queued"} /\ job'[j].event = job[j].event
      /\ \A k \in Jobs : k # j => job'[k] = job[k]
      /\ event' = event /\ email' = email /\ accepted' = accepted
  <2>1. /\ job[j].pc \in Working \union {"queued", "raised", "stumbled"}
        /\ \E pc \in {"raised", "done", "queued"} : Leave(j, pc)
        /\ event' = event /\ email' = email /\ accepted' = accepted
    BY DEF WorkerDies, Kill, Shutdown, ReleaseFails, rows, engine, Working
  <2>2. job \in [Jobs -> Job]
    BY DEF RecoveryTypeOK, TypeOK
  <2>3. QED  BY <2>1, <2>2 DEF Leave, FreeJob, Job
<1>2. AtWork(j, e)
  BY <1>1, WorkerStep DEF RecoveryTypeOK, Working
<1>3. InEngine(e)' = InEngine(e)
  <2>1. request' \in {request, Disconnect(j)}
    BY DEF WorkerDies, Kill, Shutdown, ReleaseFails, engine
  <2>2. \A r \in Requests : request'[r].phase = request[r].phase /\ request'[r].email = request[r].email
    BY <2>1 DEF Disconnect, RecoveryTypeOK, TypeOK, Request
  <2>3. QED  BY <2>2, SameRequests
<1>4. /\ hasty'[e] = hasty[e] /\ Paid(e) \in Nat /\ Paid(e) <= Paid(e)'
      /\ EmailOf(j) = e /\ job[j].pc \in Working \ TurnPC => Paid(e) + 1 <= Paid(e)'
  <2>1. /\ lost' = lost /\ unwritten' = unwritten /\ hasty' = hasty
        /\ abandoned'[e] = IF job[j].pc \in {"calling", "answered", "sentmarked", "failmarked"}
                              /\ EmailOf(j) = e THEN abandoned[e] + 1 ELSE abandoned[e]
        /\ lost[e] \in Nat /\ unwritten[e] \in Nat /\ hasty[e] \in Nat /\ abandoned[e] \in Nat
    BY DEF WorkerDies, Kill, Shutdown, ReleaseFails, losses, repair, RecoveryTypeOK, TypeOK
  <2>2. QED  BY <2>1 DEF Paid, Working, TurnPC
<1>5. Quiet(e)
  BY <1>1, <1>2, <1>3, <1>4, Numbers DEF Quiet, AtWork, Working, TurnPC, Resting
<1>6. QED  BY <1>5 DEF Move

(* A repair that makes one event pending.                                  *)
LEMMA AddMoves ==
  ASSUME RecoveryTypeOK, RecoveryTypeOK', WellFormed, NEW e \in Emails,
         NEW m \in Emails, NEW o \in Events,
         \A p \in Events : p # o => event'[p] = event[p],
         event'[o].status = "pending", event'[o].email = m,
         event[o].status = "absent" \/ event[o].email = m,
         UNCHANGED <<email, engine, losses, abandoned>>,
         WorkersOf(e)' = WorkersOf(e), TurnOf(e)' = TurnOf(e),
         \A k \in WorkersOf(e) : job'[k] = job[k],
         NoteHaste(m, o)
  PROVE  Move(e)
<1>1. PendingOf(e)' = IF m = e THEN PendingOf(e) \union {o} ELSE PendingOf(e) \ {o}
  BY EventStep
<1>2. InEngine(e)' = InEngine(e) /\ accepted'[e] = accepted[e] /\ email'[e] = email[e]
  BY DEF engine, InEngine
<1>3. CASE m # e
  <2>1. o \notin PendingOf(e)
    BY <1>3 DEF PendingOf
  <2>2. SamePaid(e)
    BY <1>3 DEF SamePaid, Paid, losses, NoteHaste, RecoveryTypeOK
  <2>3. Quiet(e)
    BY <1>1, <1>2, <1>3, <2>1, <2>2, Numbers DEF Quiet, SamePaid, Resting
  <2>4. QED  BY <2>3 DEF Move
<1>4. CASE m = e /\ Busy(e, o)
  <2>1. hasty'[e] = hasty[e] + 1 /\ Paid(e)' = Paid(e) + 1
    <3>1. hasty'[e] = hasty[e] + 1
      BY <1>4 DEF NoteHaste, RecoveryTypeOK
    <3>2. /\ lost' = lost /\ unwritten' = unwritten /\ abandoned' = abandoned
          /\ lost[e] \in Nat /\ unwritten[e] \in Nat /\ hasty[e] \in Nat /\ abandoned[e] \in Nat
      BY DEF losses, RecoveryTypeOK, TypeOK
    <3>3. QED  BY <3>1, <3>2 DEF Paid
  <2>2. Cardinality(PendingOf(e)') <= Cardinality(PendingOf(e)) + 1
    <3>1. PendingOf(e)' \subseteq PendingOf(e) \union {o}
      BY <1>1
    <3>2. \A S, T : IsFiniteSet(S) /\ IsFiniteSet(T) /\ T \subseteq S \union {o}
                      => Cardinality(T) <= Cardinality(S) + 1
      BY SetCount
    <3>3. QED  BY <3>1, <3>2, FiniteAccount
  <2>3. ~Resting(e)'
    BY <1>1, <1>4 DEF Resting
  <2>4. Hastened(e)
    BY <1>2, <2>1, <2>2, <2>3, Numbers DEF Hastened
  <2>5. QED  BY <2>4 DEF Move
<1>5. CASE m = e /\ ~Busy(e, o)
  <2>1. SamePaid(e)
    BY <1>5 DEF SamePaid, Paid, losses, NoteHaste
  <2>2. email[e] = "queued" /\ WorkersOf(e) = {} /\ PendingOf(e) \subseteq {o}
    BY <1>5 DEF Busy, EventsOf, Live, WorkersOf, PendingOf
  <2>3. CASE o \in PendingOf(e)
    <3>1. Quiet(e)
      BY <1>1, <1>2, <1>5, <2>1, <2>2, <2>3, Numbers DEF Quiet, SamePaid, Resting
    <3>2. QED  BY <3>1 DEF Move
  <2>4. CASE o \notin PendingOf(e)
    <3>1. Added(e)
      BY <1>1, <1>2, <1>5, <2>1, <2>2, <2>4 DEF Added, Resting
    <3>2. QED  BY <3>1 DEF Move
  <2>5. QED  BY <2>3, <2>4
<1>6. QED  BY <1>3, <1>4, <1>5

(* The reset of the reconciler,                                            *)
LEMMA ResetMoves ==
  ASSUME RecoveryTypeOK, RecoveryTypeOK', WellFormed, ReconWellFormed, NEW e \in Emails,
         NEW c \in Reconcilers, ReconcileReset(c)
  PROVE  Move(e)
<1>1. PICK o \in Events : o = recon[c].event
  BY DEF ReconcileReset, ReconWellFormed
<1>2. PICK m \in Emails : m = recon[c].email
  BY DEF ReconcileReset, ReconWellFormed
<1>3. event[o].email = m
  BY <1>1, <1>2 DEF ReconcileReset, ReconWellFormed
<1>4. /\ \A p \in Events : p # o => event'[p] = event[p]
      /\ event'[o].status = "pending" /\ event'[o].email = m
  BY <1>1, <1>3 DEF ReconcileReset, RecoveryTypeOK, TypeOK, EventRow
<1>5. \A p \in Events : event'[p].email = event[p].email
  BY <1>3, <1>4
<1>6. UNCHANGED <<email, job, engine, losses, abandoned>> /\ NoteHaste(m, o)
  BY <1>1, <1>2 DEF ReconcileReset
<1>7. WorkersOf(e)' = WorkersOf(e) /\ TurnOf(e)' = TurnOf(e)
  BY <1>5, <1>6, SameJobs DEF RecoveryTypeOK
<1>8. QED  BY <1>3, <1>4, <1>6, <1>7, AddMoves

(* the event of recover_queued,                                            *)
LEMMA RebuildMoves ==
  ASSUME RecoveryTypeOK, RecoveryTypeOK', WellFormed, NEW e \in Emails,
         NEW o \in Events, NEW j \in Jobs, RebuildCreate(o, j)
  PROVE  Move(e)
<1>1. /\ \A p \in Events : p # o => event'[p] = event[p]
      /\ event'[o].status = "pending" /\ event'[o].email = sweep
      /\ event[o].status = "absent" /\ sweep \in Emails
  BY DEF RebuildCreate, RecoveryTypeOK, TypeOK
<1>2. /\ job[j].pc = "free" /\ job'[j].pc = "queued" /\ \A k \in Jobs : k # j => job'[k] = job[k]
  BY DEF RebuildCreate, Push, RecoveryTypeOK, TypeOK, Job
<1>3. /\ TypeOK /\ job[j].pc \notin Working /\ job'[j].pc \notin Working \union TurnPC
      /\ j \notin WorkersOf(e) /\ j \notin TurnOf(e)
  BY <1>2 DEF RecoveryTypeOK, Working, TurnPC, WorkersOf, TurnOf
<1>4. \A p \in Events : event[p].status # "absent" => event'[p].email = event[p].email
  BY <1>1
<1>5. WorkersOf(e)' = WorkersOf(e) \ {j} /\ TurnOf(e)' = TurnOf(e) \ {j}
  BY <1>2, <1>3, <1>4, JobStep
<1>6. /\ WorkersOf(e)' = WorkersOf(e) /\ TurnOf(e)' = TurnOf(e)
      /\ \A k \in WorkersOf(e) : job'[k] = job[k]
  BY <1>2, <1>3, <1>5 DEF WorkersOf
<1>7. UNCHANGED <<email, engine, losses, abandoned>> /\ NoteHaste(sweep, o)
  BY DEF RebuildCreate
<1>8. QED  BY <1>1, <1>6, <1>7, AddMoves

(* and the sweep of recover_stuck_processing, over all events at once.     *)
LEMMA SweepMoves ==
  ASSUME RecoveryTypeOK, RecoveryTypeOK', WellFormed, NEW e \in Emails, RecoverStuck
  PROVE  Move(e)
<1> DEFINE S == {o \in EventsOf(e) : Stuck(o)}
           B == {o \in EventsOf(e) : Stuck(o) /\ Busy(e, o)}
<1>1. PendingOf(e)' = PendingOf(e) \union S /\ PendingOf(e) \intersect S = {}
  BY DEF RecoverStuck, PendingOf, EventsOf, Stuck, RecoveryTypeOK, TypeOK, EventRow
<1>2. /\ InEngine(e)' = InEngine(e) /\ accepted'[e] = accepted[e] /\ email'[e] = email[e]
      /\ job' = job
  BY DEF RecoverStuck, engine, InEngine
<1>3. WorkersOf(e)' = WorkersOf(e) /\ TurnOf(e)' = TurnOf(e)
  <2>1. \A p \in Events : event'[p].email = event[p].email
    BY DEF RecoverStuck, RecoveryTypeOK, TypeOK, EventRow
  <2>2. QED  BY <1>2, <2>1, SameJobs DEF RecoveryTypeOK
<1>4. hasty'[e] = hasty[e] + Cardinality(B)
  BY DEF RecoverStuck
<1>5. IsFiniteSet(S) /\ IsFiniteSet(B)
  BY RecoveryAssumption, FS_Subset DEF EventsOf
<1>6. Paid(e)' = Paid(e) + Cardinality(B) /\ Cardinality(B) \in Nat
  <2>1. /\ lost' = lost /\ unwritten' = unwritten /\ abandoned' = abandoned
        /\ lost[e] \in Nat /\ unwritten[e] \in Nat /\ hasty[e] \in Nat /\ abandoned[e] \in Nat
    BY DEF RecoverStuck, losses, RecoveryTypeOK, TypeOK
  <2>2. Cardinality(B) \in Nat
    BY <1>5, FS_CardinalityType
  <2>3. QED  BY <1>4, <2>1, <2>2 DEF Paid
<1>7. ASSUME NEW o \in S, ~Busy(e, o) PROVE Move(e)
  <2>1. email[e] = "queued" /\ WorkersOf(e) = {} /\ PendingOf(e) = {} /\ S = {o}
    BY <1>1, <1>7 DEF Busy, EventsOf, Live, Stuck, WorkersOf, PendingOf
  <2>2. B = {}
    BY <1>7, <2>1
  <2>3. SamePaid(e)
    <3>1. Cardinality(B) = 0
      BY <2>2, FS_EmptySet
    <3>2. hasty'[e] = hasty[e] + 0 /\ Paid(e)' = Paid(e) + 0
      <4> HIDE DEF B
      <4>1. QED  BY <1>4, <1>6, <3>1
    <3>3. QED  BY <3>2, Numbers DEF SamePaid
  <2>4. Added(e)
    BY <1>1, <1>2, <1>3, <2>1, <2>3 DEF Added, Resting
  <2>5. QED  BY <2>4 DEF Move
<1>8. CASE S = {}
  <2>1. B = {}
    BY <1>8
  <2>2. SamePaid(e)
    <3>1. Cardinality(B) = 0
      BY <2>1, FS_EmptySet
    <3>2. hasty'[e] = hasty[e] + 0 /\ Paid(e)' = Paid(e) + 0
      <4> HIDE DEF B
      <4>1. QED  BY <1>4, <1>6, <3>1
    <3>3. QED  BY <3>2, Numbers DEF SamePaid
  <2>3. Quiet(e)
    BY <1>1, <1>2, <1>3, <1>8, <2>2, Numbers DEF Quiet, SamePaid, Resting
  <2>4. QED  BY <2>3 DEF Move
<1>9. CASE S # {} /\ \A o \in S : Busy(e, o)
  <2>1. B = S
    BY <1>9
  <2>2. Cardinality(PendingOf(e)') = Cardinality(PendingOf(e)) + Cardinality(B)
    <3>1. Cardinality(PendingOf(e) \union S)
            = Cardinality(PendingOf(e)) + Cardinality(S) - Cardinality(PendingOf(e) \intersect S)
      BY <1>5, FiniteAccount, FS_Union
    <3>2. Cardinality(PendingOf(e) \intersect S) = 0
      BY <1>1, FS_EmptySet
    <3>3. Cardinality(PendingOf(e)') = Cardinality(PendingOf(e) \union S)
      BY <1>1
    <3>4. Cardinality(S) = Cardinality(B)
      BY <2>1
    <3> HIDE DEF B, S
    <3>5. QED  BY <1>6, <3>1, <3>2, <3>3, <3>4, Numbers
  <2>3. Cardinality(B) # 0
    BY <1>5, <1>9, <2>1, FS_EmptySet
  <2>4. ~Resting(e)'
    BY <1>1, <1>9 DEF Resting
  <2> HIDE DEF B, S
  <2>5. Hastened(e)
    BY <1>2, <1>3, <1>4, <1>6, <2>2, <2>3, <2>4, Numbers DEF Hastened
  <2>6. QED  BY <2>5 DEF Move
<1>10. QED  BY <1>7, <1>8, <1>9

-----------------------------------------------------------------------------
(***************************************************************************)
(* The invariant of every behaviour under repair.                          *)
(***************************************************************************)

(* The empty tables are a state of RepairInv.                              *)
LEMMA InitRepair == RecoveryInit => RepairInv
<1> SUFFICES ASSUME RecoveryInit PROVE RepairInv
  OBVIOUS
<1>1. TypeOK /\ WellFormed /\ CallersMatch
  BY InitIInv, InitTruth DEF RecoveryInit, IInv, Bookkeeping, TruthInv
<1>2. RecoveryTypeOK
  <2>1. Idle \in Reading
    BY DEF Idle, Reading, EventStatus
  <2>2. MaxTrouble \in Nat
    BY RecoveryAssumption
  <2>3. QED  BY <1>1, <2>1, <2>2 DEF RecoveryInit, RecoveryTypeOK
<1>3. ReconWellFormed
  BY RecoveryAssumption DEF RecoveryInit, Idle, ReconWellFormed
<1>4. OutcomesLast
  BY DEF RecoveryInit, Init, FreeJob, OutcomesLast, Working
<1>5. ASSUME NEW e \in Emails PROVE InOrder(e)
  <2>1. PendingOf(e) = {} /\ WorkersOf(e) = {} /\ TurnOf(e) = {} /\ InEngine(e) = {}
    BY DEF RecoveryInit, Init, PendingOf, WorkersOf, TurnOf, InEngine, FreeJob, IdleRequest, Working
  <2>2. /\ accepted[e] = 0 /\ hasty[e] = 0 /\ lost[e] = 0 /\ unwritten[e] = 0 /\ abandoned[e] = 0
        /\ email[e] = "none"
    BY DEF RecoveryInit, Init
  <2>3. Account(e) = 0 /\ Paid(e) = 0
    BY <2>1, <2>2, FS_EmptySet DEF Account, Paid
  <2>4. QED  BY <2>1, <2>2, <2>3 DEF InOrder, OneClaimantOf, BalancedOf, FailedOf
<1>6. OneClaimant /\ AccountBalanced /\ FailedForGood
  BY <1>5 DEF InOrder, OneClaimantOf, BalancedOf, FailedOf, OneClaimant, AccountBalanced, FailedForGood
<1>7. QED  BY <1>1, <1>2, <1>3, <1>4, <1>6 DEF RepairInv

(* Rows and readings stay in shape under every step,                       *)
LEMMA RecoveryShape ==
  ASSUME Shape, RecoveryNext PROVE Shape'
<1>1. old \in SUBSET Events /\ abandoned \in [Emails -> Nat]
  BY DEF Shape, RecoveryTypeOK
<1>2. CASE PipelineRuns
  <2>1. Next /\ UNCHANGED repair /\ old' \in SUBSET Events /\ abandoned' \in [Emails -> Nat]
    BY <1>1, <1>2 DEF PipelineRuns, Touch, Next
  <2>2. QED  BY <2>1, PipelineShape
<1>3. ASSUME NEW j \in Jobs, WorkerDies(j) PROVE Shape'
  <2>1. Next /\ UNCHANGED repair /\ old' \in SUBSET Events
    BY <1>1, <1>3 DEF WorkerDies, Next, Crash
  <2>2. abandoned' \in [Emails -> Nat]
    <3>1. PICK x : x = EmailOf(j)
      OBVIOUS
    <3>2. abandoned' = abandoned \/ abandoned' = [abandoned EXCEPT ![x] = @ + 1]
      BY <1>3, <3>1 DEF WorkerDies
    <3>3. QED  BY <1>1, <3>2
  <2>3. QED  BY <2>1, <2>2, PipelineShape
<1>4. ASSUME NEW o \in Events, PushLost(o) PROVE Shape'
  <2>1. Next /\ UNCHANGED repair /\ old' \in SUBSET Events /\ abandoned' \in [Emails -> Nat]
    BY <1>1, <1>4 DEF PushLost, Next, Crash
  <2>2. QED  BY <2>1, PipelineShape
<1>5. ASSUME NEW o \in Events, TimePasses(o) PROVE Shape'
  <2>1. UNCHANGED <<vars, resets, hasty, abandoned, rebuilt, recon, sweep>> /\ old' \in SUBSET Events
    BY <1>1, <1>5 DEF TimePasses, repair
  <2>2. ReconWellFormed'
    BY <2>1 DEF Shape, ReconWellFormed, vars
  <2>3. QED  BY <2>1, <2>2, ReadingShape DEF Shape, RecoveryTypeOK
<1>6. CASE Reconcile
  BY <1>6, ReconcileShape DEF Reconcile
<1>7. CASE Rake
  BY <1>7, RakeShape
<1>8. QED  BY <1>2, <1>3, <1>4, <1>5, <1>6, <1>7 DEF RecoveryNext

(* and every step is one of the moves.                                     *)
LEMMA RecoveryMoves ==
  ASSUME Shape, Shape', RecoveryNext, NEW e \in Emails PROVE Move(e)
<1> USE DEF Shape
<1>1. CASE PipelineRuns
  BY <1>1, PipelineMoves DEF PipelineRuns, repair
<1>2. ASSUME NEW j \in Jobs, WorkerDies(j) PROVE Move(e)
  BY <1>2, DeathMoves
<1>3. ASSUME NEW o \in Events, PushLost(o) PROVE Move(e)
  BY <1>3, PipelineMoves DEF PushLost, repair
<1>4. ASSUME UNCHANGED <<rows, engine, losses, hasty, abandoned>>,
             \A k \in Jobs : job'[k] = job[k] \/ (job[k].pc = "free" /\ job'[k].pc = "queued")
      PROVE  Move(e)
  BY <1>4, PushMoves DEF Move
<1>5. ASSUME NEW o \in Events, TimePasses(o) PROVE Move(e)
  BY <1>4, <1>5 DEF TimePasses, vars, rows, engine, losses, repair
<1>6. CASE Reconcile
  <2>1. PICK c \in Reconcilers :
          \/ \E a \in Emails : ReconcileStart(c, a)
          \/ ReconcileRead(c) \/ ReconcileReset(c) \/ ReconcileEnqueue(c) \/ ReconcilerDies(c)
    BY <1>6 DEF Reconcile
  <2>2. CASE (\E a \in Emails : ReconcileStart(c, a)) \/ ReconcileRead(c) \/ ReconcilerDies(c)
    <3>1. UNCHANGED <<vars, hasty, abandoned>>
      BY <2>2 DEF ReconcileStart, ReconcileRead, ReconcilerDies
    <3>2. QED  BY <1>4, <3>1 DEF vars, rows, engine, losses
  <2>3. CASE ReconcileReset(c)
    BY <2>3, ResetMoves
  <2>4. CASE ReconcileEnqueue(c)
    <3>1. UNCHANGED <<rows, engine, losses, hasty, abandoned>> /\ \E j \in Jobs : Push(recon[c].event, j)
      BY <2>4 DEF ReconcileEnqueue
    <3>2. job \in [Jobs -> Job]
      BY DEF RecoveryTypeOK, TypeOK
    <3>3. \A k \in Jobs : job'[k] = job[k] \/ (job[k].pc = "free" /\ job'[k].pc = "queued")
      BY <3>1, <3>2 DEF Push, Job
    <3>4. QED  BY <1>4, <3>1, <3>3
  <2>5. QED  BY <2>1, <2>2, <2>3, <2>4
<1>7. CASE Rake
  <2>1. CASE RecoverStuck
    BY <2>1, SweepMoves
  <2>2. CASE RecoverStuckEnqueue
    <3>1. UNCHANGED <<rows, engine, losses, hasty, abandoned>>
      BY <2>2 DEF RecoverStuckEnqueue
    <3>2. \A k \in Jobs : job'[k] = job[k] \/ (job[k].pc = "free" /\ job'[k].pc = "queued")
      <4>1. job \in [Jobs -> Job]
        BY DEF RecoveryTypeOK, TypeOK
      <4>2. QED  BY <2>2, <4>1, SweepPushes
    <3>3. QED  BY <1>4, <3>1, <3>2
  <2>3. ASSUME NEW a \in Emails, RebuildCheck(a) PROVE Move(e)
    BY <1>4, <2>3 DEF RebuildCheck, vars, rows, engine, losses
  <2>4. ASSUME NEW o \in Events, NEW j \in Jobs, RebuildCreate(o, j) PROVE Move(e)
    BY <2>4, RebuildMoves
  <2>5. QED  BY <1>7, <2>1, <2>2, <2>3, <2>4 DEF Rake
<1>8. QED  BY <1>1, <1>2, <1>3, <1>5, <1>6, <1>7 DEF RecoveryNext

(* A step that changes nothing keeps RepairInv.                            *)
LEMMA StutterRepair == RepairInv /\ UNCHANGED allVars => RepairInv'
<1> SUFFICES ASSUME RepairInv, UNCHANGED allVars PROVE RepairInv'
  OBVIOUS
<1> USE DEF allVars, vars, repair
<1>1. RecoveryTypeOK' /\ WellFormed'
  BY DEF RepairInv, RecoveryTypeOK, TypeOK, WellFormed
<1>2. CallersMatch' /\ ReconWellFormed' /\ OutcomesLast'
  BY DEF RepairInv, CallersMatch, Active, ReconWellFormed, OutcomesLast, EmailOf
<1>3. \A e \in Emails : /\ PendingOf(e)' = PendingOf(e) /\ WorkersOf(e)' = WorkersOf(e)
                        /\ InEngine(e)' = InEngine(e) /\ Account(e)' = Account(e)
                        /\ Paid(e)' = Paid(e) /\ Resting(e)' = Resting(e)
  BY DEF PendingOf, WorkersOf, TurnOf, InEngine, Account, Paid, Resting, EmailOf
<1>4. OneClaimant' /\ AccountBalanced' /\ FailedForGood'
  BY <1>3 DEF RepairInv, OneClaimant, AccountBalanced, FailedForGood
<1>5. QED  BY <1>1, <1>2, <1>4 DEF RepairInv

(* RepairInv holds in every reachable state, however jobs, crashes, the    *)
(* reconciler and the rake tasks interleave.                               *)
THEOREM RepairInvariance == RecoverySpec => []RepairInv
<1>1. RepairInv /\ [RecoveryNext]_allVars => RepairInv'
  <2>1. SUFFICES ASSUME RepairInv, RecoveryNext PROVE RepairInv'
    BY StutterRepair
  <2>2. Shape /\ OneClaimant /\ AccountBalanced /\ FailedForGood
    BY <2>1 DEF RepairInv, Shape
  <2>3. Shape'
    BY <2>1, <2>2, RecoveryShape
  <2>4. ASSUME NEW e \in Emails PROVE InOrder(e)'
    <3>1. InOrder(e) /\ Move(e)
      BY <2>1, <2>2, <2>3, OrderOfEach, RecoveryMoves
    <3>2. QED  BY <2>2, <2>3, <3>1, MoveKeeps DEF Shape
  <2>5. QED  BY <2>3, <2>4, OrderOfAll DEF RepairInv, Shape
<1>2. QED  BY InitRepair, <1>1, PTL DEF RecoverySpec

(* While no repair came hastily, no two jobs send for one email.           *)
THEOREM OneSender == RecoverySpec => []OneSenderUnlessHasty
<1>1. RepairInv => OneSenderUnlessHasty
  <2>1. SUFFICES ASSUME RepairInv, NEW j \in Jobs, NEW k \in Jobs,
                        job[j].pc \in Working, job[k].pc \in Working,
                        EmailOf(j) = EmailOf(k), hasty[EmailOf(j)] = 0
                 PROVE  j = k
    BY DEF OneSenderUnlessHasty
  <2>2. EmailOf(j) \in Emails
    BY <2>1 DEF RepairInv, WellFormed, EmailOf, Working
  <2>3. j \in WorkersOf(EmailOf(j)) /\ k \in WorkersOf(EmailOf(j))
    BY <2>1 DEF WorkersOf
  <2>4. QED  BY <2>1, <2>2, <2>3 DEF RepairInv, OneClaimant
<1>2. QED  BY RepairInvariance, <1>1, PTL

(* Every acceptance past the first is on the account: a lost or unwritten  *)
(* outcome, a job that died with its call made, or a hasty repair.         *)
THEOREM DuplicatesAccounted == RecoverySpec => []DuplicatesExplained
<1>1. RepairInv => DuplicatesExplained
  <2>1. SUFFICES ASSUME RepairInv, NEW e \in Emails
                 PROVE  accepted[e] <= 1 + lost[e] + unwritten[e] + abandoned[e] + hasty[e]
    BY DEF DuplicatesExplained
  <2>2. /\ Cardinality(PendingOf(e)) \in Nat /\ Cardinality(TurnOf(e)) \in Nat
        /\ Cardinality(InEngine(e)) \in Nat
    BY FiniteAccount, FS_CardinalityType
  <2>3. /\ accepted[e] \in Nat /\ lost[e] \in Nat /\ unwritten[e] \in Nat
        /\ abandoned[e] \in Nat /\ hasty[e] \in Nat
    BY <2>1 DEF RepairInv, RecoveryTypeOK, TypeOK
  <2>4. Account(e) <= Paid(e) + 1
    BY <2>1 DEF RepairInv, AccountBalanced
  <2>5. QED  BY <2>2, <2>3, <2>4 DEF Account, Paid
<1>2. QED  BY RepairInvariance, <1>1, PTL

(* An email that says failed, and that no loss or haste befell, was never  *)
(* accepted, however it was repaired.                                      *)
THEOREM RepairTellsTruth == RecoverySpec => []FailedTruthUnderRepair
<1>1. RepairInv => FailedTruthUnderRepair
  BY DEF RepairInv, FailedForGood, FailedTruthUnderRepair, Paid
<1>2. QED  BY RepairInvariance, <1>1, PTL
=============================================================================
