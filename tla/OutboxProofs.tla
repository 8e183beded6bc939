---------------------------- MODULE OutboxProofs ----------------------------
(***************************************************************************)
(* Theorems about OutboxPipeline for every number of emails, events, jobs  *)
(* and requests, every max_attempts and every retry limit.                 *)
(* The argument: IInv is inductive.  TypeStep shows that every action      *)
(* keeps TypeOK, BookkeepingStep that every action keeps the rest.         *)
(***************************************************************************)
EXTENDS OutboxRefinement, TLAPS

USE PipelineAssumption

-----------------------------------------------------------------------------
(***************************************************************************)
(* The ways a job or a request changes keep it well typed.                 *)
(***************************************************************************)

(* update! of an event's status gives an event row. *)
LEMMA StatusType ==
  ASSUME NEW row \in EventRow, NEW s \in EventStatus
  PROVE  [row EXCEPT !.status = s] \in EventRow
BY DEF EventRow

(* A job that moves on within perform is still a job. *)
LEMMA PcType ==
  ASSUME NEW q \in Job, NEW pc \in PC
  PROVE  [q EXCEPT !.pc = pc] \in Job
BY DEF Job

(* So is one that remembers the email's new status. *)
LEMMA SeenType ==
  ASSUME NEW q \in Job, NEW pc \in PC, NEW s \in EmailStatus
  PROVE  [q EXCEPT !.pc = pc, !.seenEmail = s] \in Job
BY DEF Job

(* So is one in the retry set. *)
LEMMA RetryType ==
  ASSUME NEW q \in Job, NEW pc \in PC, NEW n \in Nat
  PROVE  [q EXCEPT !.pc = pc, !.retries = q.retries + 1, !.stumbles = n] \in Job
<1>1. q.retries + 1 \in Nat
  BY DEF Job
<1>2. QED  BY <1>1 DEF Job

(* The claim gives an event row. *)
LEMMA ClaimedType ==
  ASSUME NEW row \in EventRow
  PROVE  [row EXCEPT !.status = "processing", !.attempts = row.attempts + 1] \in EventRow
<1>1. row.attempts + 1 \in Nat
  BY DEF EventRow
<1>2. QED  BY <1>1 DEF EventRow, EventStatus

(* Goto keeps the jobs typed. *)
LEMMA GotoType ==
  ASSUME job \in [Jobs -> Job], NEW j \in Jobs, NEW pc \in PC, Goto(j, pc)
  PROVE  job' \in [Jobs -> Job]
BY PcType DEF Goto

(* update! of an event's status keeps the events typed. *)
LEMMA EventWriteType ==
  ASSUME TypeOK, NEW o \in Events, NEW seen, NEW new \in EventStatus,
         event' = [event EXCEPT ![o].status = Written(seen, new, @)]
  PROVE  event' \in [Events -> EventRow]
<1>1. event[o] \in EventRow
  BY DEF TypeOK
<1>2. Written(seen, new, event[o].status) \in EventStatus
  BY <1>1 DEF EventRow, Written
<1>3. [event[o] EXCEPT !.status = Written(seen, new, event[o].status)] \in EventRow
  BY <1>1, <1>2, StatusType
<1>4. QED  BY <1>3 DEF TypeOK

(* update! of an email's status keeps the emails typed. *)
LEMMA EmailWriteType ==
  ASSUME TypeOK, NEW e \in Emails, NEW seen, NEW new \in EmailStatus,
         email' = [email EXCEPT ![e] = Written(seen, new, @)]
  PROVE  email' \in [Emails -> EmailStatus]
BY DEF TypeOK, Written

(* A return or a raise out of perform keeps the jobs typed. *)
LEMMA LeaveType ==
  ASSUME job \in [Jobs -> Job], NEW j \in Jobs, NEW pc \in PC, Leave(j, pc)
  PROVE  job' \in [Jobs -> Job]
<1>1. [FreeJob EXCEPT !.pc = pc, !.event = job[j].event, !.retries = job[j].retries,
                     !.stumbles = job[j].stumbles] \in Job
  BY DEF Job, FreeJob, EmailStatus, EventStatus
<1>2. QED  BY <1>1 DEF Leave

(* perform_async keeps the jobs typed. *)
LEMMA PushType ==
  ASSUME job \in [Jobs -> Job], NEW j \in Jobs, NEW o \in Events, Push(o, j)
  PROVE  job' \in [Jobs -> Job]
<1>1. [job[j] EXCEPT !.pc = "queued", !.event = o] \in Job
  BY DEF Job, PC
<1>2. QED  BY <1>1 DEF Push

(* Loading the rows into a job keeps the jobs typed. *)
LEMMA LoadType ==
  ASSUME TypeOK, WellFormed, NEW j \in Jobs, NEW pc \in PC, job[j].pc # "free", Load(j, pc)
  PROVE  job' \in [Jobs -> Job]
<1>1. /\ job[j] \in Job
      /\ event[job[j].event] \in EventRow
      /\ event[job[j].event].email \in Emails
      /\ email[event[job[j].event].email] \in EmailStatus
  BY DEF TypeOK, WellFormed
<1>2. event[job[j].event].status \in EventStatus /\ event[job[j].event].attempts \in Nat
  BY <1>1 DEF EventRow
<1>3. [job[j] EXCEPT !.pc = pc, !.seenEmail = email[event[job[j].event].email],
                     !.seenEvent = event[job[j].event].status,
                     !.seenAttempts = event[job[j].event].attempts] \in Job
  BY <1>1, <1>2 DEF Job
<1>4. QED  BY <1>3 DEF Load, TypeOK

(* An answer of the engine keeps jobs and requests typed. *)
LEMMA AnswerType ==
  ASSUME TypeOK, NEW r \in Requests, NEW pc \in PC, Answer(r, pc)
  PROVE  job' \in [Jobs -> Job] /\ request' \in [Requests -> Request]
<1>1. request[r].client \in Jobs \union {None}
  BY DEF TypeOK, Request
<1>2. job' \in [Jobs -> Job]
  <2>1. CASE request[r].client = None
    BY <2>1 DEF Answer, TypeOK
  <2>2. CASE request[r].client # None
    <3>1. [job[request[r].client] EXCEPT !.pc = pc] \in Job
      BY <1>1, <2>2, PcType DEF TypeOK
    <3>2. QED  BY <1>1, <2>2, <3>1 DEF Answer, TypeOK
  <2>3. QED  BY <2>1, <2>2
<1>3. IdleRequest \in Request
  BY DEF IdleRequest, Request, Phase
<1>4. QED  BY <1>2, <1>3 DEF Answer, TypeOK

(* A request that moves on is still a request. *)
LEMMA PhaseType ==
  ASSUME NEW q \in Request, NEW ph \in Phase
  PROVE  [q EXCEPT !.phase = ph] \in Request
BY DEF Request

(* A caller that goes away leaves the requests typed. *)
LEMMA DisconnectType ==
  ASSUME TypeOK, NEW j \in Jobs
  PROVE  Disconnect(j) \in [Requests -> Request]
BY DEF Disconnect, TypeOK, Request

-----------------------------------------------------------------------------
(***************************************************************************)
(* Every action keeps TypeOK.                                              *)
(***************************************************************************)
USE DEF rows, engine, losses

(* No action of the pipeline writes a value out of its type. *)
LEMMA TypeStep == ASSUME TypeOK, WellFormed, Next PROVE TypeOK'
<1>1. ASSUME NEW e \in Emails, NEW o \in Events, Dispatch(e, o) PROVE TypeOK'
  <2>1. email' \in [Emails -> EmailStatus]
    BY <1>1 DEF Dispatch, EmailStatus, TypeOK
  <2>2. event' \in [Events -> EventRow]
    BY <1>1 DEF Dispatch, EventRow, EventStatus, TypeOK
  <2>3. QED  BY <1>1, <2>1, <2>2 DEF TypeOK, Dispatch
<1>2. ASSUME NEW o \in Events, NEW j \in Jobs, Enqueue(o, j) PROVE TypeOK'
  <2>1. job' \in [Jobs -> Job]
    BY <1>2, PushType DEF Enqueue, TypeOK
  <2>2. QED  BY <1>2, <2>1 DEF TypeOK, Enqueue
<1>3. ASSUME NEW o \in Events, NEW j \in Jobs, RequeueOrphaned(o, j) PROVE TypeOK'
  <2>1. job' \in [Jobs -> Job]
    BY <1>3, PushType DEF RequeueOrphaned, TypeOK
  <2>2. QED  BY <1>3, <2>1 DEF TypeOK, RequeueOrphaned
<1>4. ASSUME NEW j \in Jobs, Claim(j) PROVE TypeOK'
  <2>1. job[j].event \in Events /\ event[job[j].event] \in EventRow
    BY <1>4 DEF Claim, WellFormed, TypeOK
  <2>2. [event[job[j].event] EXCEPT !.status = "processing",
                                  !.attempts = event[job[j].event].attempts + 1] \in EventRow
    BY <1>4, <2>1, ClaimedType DEF TypeOK
  <2>3. event' \in [Events -> EventRow]
    BY <1>4, <2>1, <2>2 DEF Claim, TypeOK
  <2>4. job' \in [Jobs -> Job]
    BY <1>4, GotoType DEF Claim, PC, Working, TypeOK
  <2>5. QED  BY <1>4, <2>3, <2>4 DEF TypeOK, Claim
<1>5. ASSUME NEW j \in Jobs, ClaimNothing(j) PROVE TypeOK'
  <2>1. job' \in [Jobs -> Job]
    BY <1>5, LeaveType DEF PC, ClaimNothing, TypeOK
  <2>2. QED  BY <1>5, <2>1 DEF TypeOK, ClaimNothing
<1>6. ASSUME NEW j \in Jobs, LoadIneligible(j) PROVE TypeOK'
  <2>1. job' \in [Jobs -> Job]
    BY <1>6, LoadType DEF LoadIneligible, PC, Working, TypeOK
  <2>2. QED  BY <1>6, <2>1 DEF TypeOK, LoadIneligible
<1>7. ASSUME NEW j \in Jobs, NEW r \in Requests, Post(j, r) PROVE TypeOK'
  <2>1. job' \in [Jobs -> Job]
    BY <1>7, LoadType DEF Post, PC, Working, TypeOK
  <2>2. request' \in [Requests -> Request]
    BY <1>7 DEF Post, EmailOf, WellFormed, Request, Phase, TypeOK
  <2>3. QED  BY <1>7, <2>1, <2>2 DEF TypeOK, Post
<1>8. ASSUME NEW j \in Jobs, MarkSent(j) PROVE TypeOK'
  <2>1. EmailOf(j) \in Emails
    BY <1>8 DEF MarkSent, EmailOf, WellFormed, TypeOK
  <2>2. email' \in [Emails -> EmailStatus]
    BY <1>8, <2>1, EmailWriteType DEF MarkSent, EmailStatus, TypeOK
  <2>3. [job[j] EXCEPT !.pc = "sentmarked", !.seenEmail = "sent"] \in Job
    BY <1>8, SeenType DEF PC, Working, EmailStatus, TypeOK
  <2>4. job' \in [Jobs -> Job]
    BY <1>8, <2>3 DEF MarkSent, TypeOK
  <2>5. QED  BY <1>8, <2>2, <2>4 DEF TypeOK, MarkSent
<1>9. ASSUME NEW j \in Jobs, Complete(j) PROVE TypeOK'
  <2>1. job[j].event \in Events
    BY <1>9 DEF Complete, WellFormed, TypeOK
  <2>2. event' \in [Events -> EventRow]
    BY <1>9, <2>1, EventWriteType DEF Complete, EventStatus, TypeOK
  <2>3. job' \in [Jobs -> Job]
    BY <1>9, LeaveType DEF PC, Complete, TypeOK
  <2>4. QED  BY <1>9, <2>2, <2>3 DEF TypeOK, Complete
<1>10. ASSUME NEW j \in Jobs, MarkFailed(j) PROVE TypeOK'
  <2>1. EmailOf(j) \in Emails
    BY <1>10 DEF MarkFailed, EmailOf, WellFormed, TypeOK
  <2>2. email' \in [Emails -> EmailStatus]
    BY <1>10, <2>1, EmailWriteType DEF MarkFailed, EmailStatus, TypeOK
  <2>3. [job[j] EXCEPT !.pc = "failmarked", !.seenEmail = "failed"] \in Job
    BY <1>10, SeenType DEF PC, Working, EmailStatus, TypeOK
  <2>4. job' \in [Jobs -> Job]
    BY <1>10, <2>3 DEF MarkFailed, TypeOK
  <2>5. QED  BY <1>10, <2>2, <2>4 DEF TypeOK, MarkFailed
<1>11. ASSUME NEW j \in Jobs, KillEvent(j) PROVE TypeOK'
  <2>1. job[j].event \in Events
    BY <1>11 DEF KillEvent, WellFormed, TypeOK
  <2>2. event' \in [Events -> EventRow]
    BY <1>11, <2>1, EventWriteType DEF KillEvent, EventStatus, TypeOK
  <2>3. job' \in [Jobs -> Job]
    BY <1>11, LeaveType DEF PC, KillEvent, TypeOK
  <2>4. QED  BY <1>11, <2>2, <2>3 DEF TypeOK, KillEvent
<1>12. ASSUME NEW j \in Jobs, FailEvent(j) PROVE TypeOK'
  <2>1. job[j].event \in Events
    BY <1>12 DEF FailEvent, WellFormed, TypeOK
  <2>2. event' \in [Events -> EventRow]
    BY <1>12, <2>1, EventWriteType DEF FailEvent, EventStatus, TypeOK
  <2>3. job' \in [Jobs -> Job]
    BY <1>12, LeaveType DEF PC, FailEvent, TypeOK
  <2>4. QED  BY <1>12, <2>2, <2>3 DEF TypeOK, FailEvent
<1>13. ASSUME NEW j \in Jobs, Reschedule(j) PROVE TypeOK'
  <2>1. Stumbles(j) \in Nat
    BY DEF Stumbles, Job, TypeOK
  <2>2. [job[j] EXCEPT !.pc = "queued", !.retries = job[j].retries + 1,
                       !.stumbles = Stumbles(j)] \in Job
    BY <1>13, <2>1, RetryType DEF PC, TypeOK
  <2>3. job' \in [Jobs -> Job]
    BY <1>13, <2>2 DEF Reschedule, TypeOK
  <2>4. QED  BY <1>13, <2>3 DEF TypeOK, Reschedule
<1>14. ASSUME NEW j \in Jobs, RetriesExhausted(j) PROVE TypeOK'
  <2>1. job[j].event \in Events /\ event[job[j].event] \in EventRow
    BY <1>14 DEF RetriesExhausted, WellFormed, TypeOK
  <2>2. event' \in [Events -> EventRow]
    BY <1>14, <2>1, StatusType DEF RetriesExhausted, EventStatus, TypeOK
  <2>3. job' \in [Jobs -> Job]
    BY <1>14, LeaveType DEF PC, RetriesExhausted, TypeOK
  <2>4. QED  BY <1>14, <2>2, <2>3 DEF TypeOK, RetriesExhausted
<1>15. ASSUME NEW r \in Requests, GoReplay(r) PROVE TypeOK'
  <2>1. job' \in [Jobs -> Job] /\ request' \in [Requests -> Request]
    BY <1>15, AnswerType DEF PC, Working, GoReplay, TypeOK
  <2>2. QED  BY <1>15, <2>1 DEF TypeOK, GoReplay
<1>16. ASSUME NEW r \in Requests, GoMiss(r) PROVE TypeOK'
  <2>1. request' \in [Requests -> Request]
    BY <1>16, PhaseType DEF GoMiss, Phase, TypeOK
  <2>2. QED  BY <1>16, <2>1 DEF TypeOK, GoMiss
<1>17. ASSUME NEW r \in Requests, GoDeclines(r) PROVE TypeOK'
  <2>1. job' \in [Jobs -> Job] /\ request' \in [Requests -> Request]
    BY <1>17, AnswerType DEF PC, Working, GoDeclines, TypeOK
  <2>2. QED  BY <1>17, <2>1 DEF TypeOK, GoDeclines
<1>18. ASSUME NEW r \in Requests, ProviderAccepts(r) PROVE TypeOK'
  <2>1. request' \in [Requests -> Request]
    BY <1>18, PhaseType DEF ProviderAccepts, Phase, TypeOK
  <2>2. request[r].email \in Emails
    BY <1>18 DEF ProviderAccepts, WellFormed, TypeOK
  <2>3. accepted' \in [Emails -> Nat]
    BY <1>18, <2>2 DEF ProviderAccepts, TypeOK
  <2>4. QED  BY <1>18, <2>1, <2>3 DEF TypeOK, ProviderAccepts
<1>19. ASSUME NEW r \in Requests, ProviderRefuses(r) PROVE TypeOK'
  <2>1. job' \in [Jobs -> Job] /\ request' \in [Requests -> Request]
    BY <1>19, AnswerType DEF PC, Working, ProviderRefuses, Fallback, Request, TypeOK
  <2>2. QED  BY <1>19, <2>1 DEF TypeOK, ProviderRefuses
<1>20. ASSUME NEW r \in Requests, ProviderAnswerLost(r) PROVE TypeOK'
  <2>1. job' \in [Jobs -> Job] /\ request' \in [Requests -> Request]
    BY <1>20, AnswerType DEF PC, Working, ProviderAnswerLost, Fallback, Request, TypeOK
  <2>2. request[r].email \in Emails
    BY <1>20 DEF ProviderAnswerLost, WellFormed, TypeOK
  <2>3. accepted' \in [Emails -> Nat] /\ lost' \in [Emails -> Nat]
    BY <1>20, <2>2 DEF ProviderAnswerLost, Lose, TypeOK
  <2>4. QED  BY <1>20, <2>1, <2>3 DEF TypeOK, ProviderAnswerLost
<1>21. ASSUME NEW r \in Requests, GoResponds(r) PROVE TypeOK'
  <2>1. job' \in [Jobs -> Job] /\ request' \in [Requests -> Request]
    BY <1>21, AnswerType DEF PC, Working, GoResponds, TypeOK
  <2>2. stored' \in SUBSET Keys
    BY <1>21 DEF GoResponds, Key, Keys, WellFormed, TypeOK
  <2>3. QED  BY <1>21, <2>1, <2>2 DEF TypeOK, GoResponds
<1>22. ASSUME NEW j \in Jobs, RaisesBeforeCall(j) PROVE TypeOK'
  <2>1. job' \in [Jobs -> Job]
    BY <1>22, LoadType DEF RaisesBeforeCall, PC, Working, TypeOK
  <2>2. QED  BY <1>22, <2>1 DEF TypeOK, RaisesBeforeCall
<1>23. ASSUME NEW j \in Jobs, Timeout(j) PROVE TypeOK'
  <2>1. job' \in [Jobs -> Job]
    BY <1>23, GotoType DEF Timeout, PC, Working, TypeOK
  <2>2. request' \in [Requests -> Request]
    BY <1>23, DisconnectType DEF Timeout, TypeOK
  <2>3. lost' \in [Emails -> Nat]
    BY <1>23 DEF Timeout, WellFormed, Lose, EmailOf, TypeOK
  <2>4. QED  BY <1>23, <2>1, <2>2, <2>3 DEF TypeOK, Timeout
<1>24. ASSUME NEW j \in Jobs, WriteFails(j) PROVE TypeOK'
  <2>1. job' \in [Jobs -> Job]
    BY <1>24, GotoType DEF WriteFails, PC, Working, TypeOK
  <2>2. unwritten' \in [Emails -> Nat]
    BY <1>24 DEF WriteFails, WellFormed, EmailOf, TypeOK
  <2>3. QED  BY <1>24, <2>1, <2>2 DEF TypeOK, WriteFails
<1>25. ASSUME NEW r \in Requests, GoCrash(r) PROVE TypeOK'
  <2>1. job' \in [Jobs -> Job] /\ request' \in [Requests -> Request]
    BY <1>25, AnswerType DEF PC, Working, GoCrash, TypeOK
  <2>2. lost' \in [Emails -> Nat]
    BY <1>25 DEF GoCrash, WellFormed, Lose, TypeOK
  <2>3. QED  BY <1>25, <2>1, <2>2 DEF TypeOK, GoCrash
<1>26. ASSUME NEW o \in Events, EnqueueLost(o) PROVE TypeOK'
  BY <1>26 DEF TypeOK, EnqueueLost
<1>27. ASSUME NEW j \in Jobs, ReleaseFails(j) PROVE TypeOK'
  <2>1. job' \in [Jobs -> Job]
    BY <1>27, LeaveType DEF PC, ReleaseFails, TypeOK
  <2>2. QED  BY <1>27, <2>1 DEF TypeOK, ReleaseFails
<1>28. ASSUME NEW j \in Jobs, Kill(j) PROVE TypeOK'
  <2>1. job' \in [Jobs -> Job]
    BY <1>28, LeaveType DEF PC, Kill, TypeOK
  <2>2. request' \in [Requests -> Request]
    BY <1>28, DisconnectType DEF Kill, TypeOK
  <2>3. QED  BY <1>28, <2>1, <2>2 DEF TypeOK, Kill
<1>29. ASSUME NEW j \in Jobs, Shutdown(j) PROVE TypeOK'
  <2>1. job' \in [Jobs -> Job]
    BY <1>29, LeaveType DEF PC, Shutdown, TypeOK
  <2>2. request' \in [Requests -> Request]
    BY <1>29, DisconnectType DEF Shutdown, TypeOK
  <2>3. QED  BY <1>29, <2>1, <2>2 DEF TypeOK, Shutdown
<1>30. ASSUME NEW j \in Jobs, ClaimRaises(j) PROVE TypeOK'
  <2>1. job' \in [Jobs -> Job]
    BY <1>30, GotoType DEF ClaimRaises, PC, TypeOK
  <2>2. QED  BY <1>30, <2>1 DEF TypeOK, ClaimRaises
<1>31. QED  BY <1>1, <1>2, <1>3, <1>4, <1>5, <1>6, <1>7, <1>8, <1>9, <1>10,
        <1>11, <1>12, <1>13, <1>14, <1>15, <1>16, <1>17, <1>18, <1>19, <1>20,
        <1>21, <1>22, <1>23, <1>24, <1>25, <1>26, <1>27, <1>28, <1>29, <1>30
       DEF Next, Running, Dispatching, Perform, Serve, Error, Crash

-----------------------------------------------------------------------------
(***************************************************************************)
(* Every action keeps Bookkeeping.  A step that Claim takes needs a        *)
(* pending event, so no other job holds it; every other write of an event  *)
(* comes from its holder, except that of RetriesExhausted, whose job has   *)
(* outlasted the event: RetriesPaid bounds its retries by the event's      *)
(* attempts and its own raises at the claim.                               *)
(***************************************************************************)
USE DEF TypeOK, EventRow, Job, Request, EmailStatus, EventStatus, Working, PC, Phase,
        Bookkeeping, WellFormed, HolderSeesRow, SingleHolder, AttemptsBounded,
        PendingHasAttemptsLeft, RetriesPaid, FreeIsUntouched, FreeJob

(* A job keeps its event, and never forgets a raise at the claim.          *)
LEMMA StumblesStay ==
  ASSUME TypeOK, WellFormed, Next, NEW j \in Jobs, job[j].pc # "free"
  PROVE  job'[j].event = job[j].event /\ job'[j].stumbles >= job[j].stumbles
<1>1. CASE UNCHANGED job
  BY <1>1
<1>2. ASSUME NEW k \in Jobs, NEW o \in Events, Push(o, k)
      PROVE  job'[j].event = job[j].event /\ job'[j].stumbles >= job[j].stumbles
  BY <1>2 DEF Push
<1>3. ASSUME NEW k \in Jobs, NEW pc \in PC, Goto(k, pc) \/ Load(k, pc) \/ Leave(k, pc)
      PROVE  job'[j].event = job[j].event /\ job'[j].stumbles >= job[j].stumbles
  <2>1. CASE Goto(k, pc)
    BY <2>1 DEF Goto
  <2>2. CASE Load(k, pc)
    BY <2>2 DEF Load
  <2>3. CASE Leave(k, pc)
    BY <2>3 DEF Leave
  <2>4. QED  BY <1>3, <2>1, <2>2, <2>3
<1>4. ASSUME NEW k \in Jobs, MarkSent(k) \/ MarkFailed(k) \/ Reschedule(k)
      PROVE  job'[j].event = job[j].event /\ job'[j].stumbles >= job[j].stumbles
  <2>1. CASE MarkSent(k)
    BY <2>1 DEF MarkSent
  <2>2. CASE MarkFailed(k)
    BY <2>2 DEF MarkFailed
  <2>3. CASE Reschedule(k)
    BY <2>3 DEF Reschedule, Stumbles
  <2>4. QED  BY <1>4, <2>1, <2>2, <2>3
<1>5. ASSUME NEW r \in Requests, NEW pc \in PC, Answer(r, pc)
      PROVE  job'[j].event = job[j].event /\ job'[j].stumbles >= job[j].stumbles
  BY <1>5 DEF Answer
<1>6. ASSUME NEW k \in Jobs,
             \/ Claim(k) \/ ClaimNothing(k) \/ ClaimRaises(k) \/ LoadIneligible(k)
             \/ (\E r \in Requests : Post(k, r)) \/ Complete(k) \/ KillEvent(k)
             \/ FailEvent(k) \/ RetriesExhausted(k) \/ RaisesBeforeCall(k) \/ Timeout(k)
             \/ WriteFails(k) \/ ReleaseFails(k) \/ Kill(k) \/ Shutdown(k)
      PROVE  \E pc \in PC : Goto(k, pc) \/ Load(k, pc) \/ Leave(k, pc)
  BY <1>6 DEF Claim, ClaimNothing, ClaimRaises, LoadIneligible, Post, Complete, KillEvent,
              FailEvent, RetriesExhausted, RaisesBeforeCall, Timeout, WriteFails,
              ReleaseFails, Kill, Shutdown
<1>7. ASSUME NEW r \in Requests, Serve(r) \/ GoCrash(r)
      PROVE  UNCHANGED job \/ \E pc \in PC : Answer(r, pc)
  BY <1>7 DEF Serve, GoReplay, GoMiss, GoDeclines, ProviderAccepts, ProviderRefuses,
              ProviderAnswerLost, GoResponds, GoCrash
<1>8. QED
  BY <1>1, <1>2, <1>3, <1>4, <1>5, <1>6, <1>7
  DEF Next, Running, Dispatching, Perform, Error, Crash, Dispatch, Enqueue, RequeueOrphaned,
      EnqueueLost

(* So an event that was outlasted stays so.                                *)
LEMMA OutlastedStays ==
  ASSUME TypeOK, WellFormed, FreeIsUntouched, Next, NEW o \in Events, Outlasted(o)
  PROVE  Outlasted(o)'
<1>1. PICK j \in Jobs : job[j].event = o /\ job[j].stumbles + MaxAttempts >= MaxRetries
  BY DEF Outlasted
<1>2. job[j].pc # "free"
  BY <1>1
<1>3. job'[j].event = o /\ job'[j].stumbles >= job[j].stumbles
  BY <1>1, <1>2, StumblesStay
<1>4. job'[j].stumbles \in Nat /\ job[j].stumbles \in Nat
  BY TypeStep
<1>5. job'[j].stumbles + MaxAttempts >= MaxRetries
  BY <1>1, <1>3, <1>4
<1>6. QED  BY <1>3, <1>5 DEF Outlasted

(* A job that runs out of retries has outlasted its event.                 *)
LEMMA ExhaustedOutlasted ==
  ASSUME TypeOK, Bookkeeping, NEW j \in Jobs, RetriesExhausted(j)
  PROVE  Outlasted(job[j].event)
<1>1. job[j].pc # "free" /\ job[j].event \in Events /\ job[j].retries >= MaxRetries
  BY DEF RetriesExhausted
<1>2. job[j].retries <= event[job[j].event].attempts + job[j].stumbles
  BY <1>1
<1>3. event[job[j].event].attempts <= MaxAttempts
  BY <1>1
<1>4. /\ job[j].retries \in Nat /\ job[j].stumbles \in Nat
      /\ event[job[j].event].attempts \in Nat
  BY <1>1
<1>5. job[j].stumbles + MaxAttempts >= MaxRetries
  BY <1>1, <1>2, <1>3, <1>4
<1>6. QED  BY <1>5 DEF Outlasted

(* A caller that gets its answer goes on holding its event.                *)
LEMMA AnswerBooks ==
  ASSUME TypeOK, Bookkeeping, NEW r \in Requests,
         NEW pc \in {"answered", "rejected", "erring"}, Answer(r, pc),
         UNCHANGED <<event, unqueued>>,
         \A k \in Jobs : job[k].pc # "free" /\ Outlasted(job[k].event) => Outlasted(job[k].event)'
  PROVE  Bookkeeping'
<1>1. request[r].client # None => request[r].client \in Jobs
  OBVIOUS
<1>2. \A k \in Jobs : job'[k] = job[k] \/ /\ job[k].pc = "calling" /\ request[r].client = k
                                          /\ job'[k] = [job[k] EXCEPT !.pc = pc]
  BY <1>1 DEF Answer
<1>3. \A k \in Jobs :
        /\ \/ job'[k].pc = job[k].pc
           \/ job[k].pc = "calling" /\ job'[k].pc = pc /\ request[r].client = k
        /\ job'[k].event = job[k].event
        /\ job'[k].retries = job[k].retries /\ job'[k].stumbles = job[k].stumbles
        /\ job'[k].seenEvent = job[k].seenEvent /\ job'[k].seenAttempts = job[k].seenAttempts
  <2>1. ASSUME NEW k \in Jobs, job'[k] = [job[k] EXCEPT !.pc = pc]
        PROVE  /\ job'[k].pc = pc /\ job'[k].event = job[k].event
               /\ job'[k].retries = job[k].retries /\ job'[k].stumbles = job[k].stumbles
               /\ job'[k].seenEvent = job[k].seenEvent
               /\ job'[k].seenAttempts = job[k].seenAttempts
    BY <2>1
  <2>2. ASSUME NEW k \in Jobs
        PROVE  /\ \/ job'[k].pc = job[k].pc
                  \/ job[k].pc = "calling" /\ job'[k].pc = pc /\ request[r].client = k
               /\ job'[k].event = job[k].event
               /\ job'[k].retries = job[k].retries /\ job'[k].stumbles = job[k].stumbles
               /\ job'[k].seenEvent = job[k].seenEvent
               /\ job'[k].seenAttempts = job[k].seenAttempts
    <3>1. CASE job'[k] = job[k]
      BY <3>1
    <3>2. CASE job[k].pc = "calling" /\ request[r].client = k /\ job'[k] = [job[k] EXCEPT !.pc = pc]
      BY <2>1, <3>2
    <3>3. QED  BY <1>2, <3>1, <3>2
  <2>3. QED  BY <2>2
<1>4. request'[r].phase = "idle" /\ request'[r].client = None
      /\ \A q \in Requests \ {r} : request'[q] = request[q]
  BY DEF Answer, IdleRequest
<1>5. WellFormed'
  <2>1. \A k \in Jobs : job'[k].pc # "free" =>
          job'[k].event \in Events /\ event'[job'[k].event].status # "absent"
    BY <1>3
  <2>2. \A q, t \in Requests :
          /\ request'[q].phase # "idle" => request'[q].email \in Emails
          /\ request'[q].client # None =>
               q # r /\ request'[q].client \in Jobs /\ request'[q].client # request[r].client
          /\ request'[q].client # None /\ request'[q].client = request'[t].client => q = t
    BY <1>4
  <2>3. \A q \in Requests : request'[q].client # None => job'[request'[q].client].pc = "calling"
    BY <1>3, <1>4, <2>2
  <2>4. QED  BY <2>1, <2>2, <2>3
<1>6. HolderSeesRow'
  <2>1. ASSUME NEW k \in Jobs, job'[k].pc \in Working
        PROVE  /\ job[k].pc \in Working /\ job[k].pc # "free"
               /\ job'[k].pc # "claimed" => job[k].pc # "claimed"
    BY <1>3, <2>1
  <2>2. QED  BY <1>3, <2>1
<1>7. SingleHolder' /\ RetriesPaid'
  <2>1. \A k \in Jobs : /\ job'[k].pc \in Working <=> job[k].pc \in Working
                        /\ job'[k].pc \in {"free", "raised"} <=> job[k].pc \in {"free", "raised"}
                        /\ job'[k].pc = "free" <=> job[k].pc = "free"
    BY <1>3
  <2>2. SingleHolder'
    BY <1>3, <2>1
  <2>3. RetriesPaid'
    BY <1>3, <2>1
  <2>4. QED  BY <2>2, <2>3
<1>8. FreeIsUntouched'
  <2>1. ASSUME NEW k \in Jobs, job'[k].pc = "free" PROVE job'[k] = job[k]
    BY <1>2, <1>3, <2>1
  <2>2. QED  BY <2>1
<1>9. AttemptsBounded' /\ PendingHasAttemptsLeft'
  OBVIOUS
<1>10. QED  BY <1>5, <1>6, <1>7, <1>8, <1>9

(* No action of the pipeline breaks what rows, jobs and requests owe each  *)
(* other.                                                                  *)
LEMMA BookkeepingStep == ASSUME TypeOK, Bookkeeping, Next PROVE Bookkeeping'
<1>0. \A k \in Jobs : job[k].pc # "free" /\ Outlasted(job[k].event) => Outlasted(job[k].event)'
  <2>1. ASSUME NEW k \in Jobs, job[k].pc # "free", Outlasted(job[k].event)
        PROVE  Outlasted(job[k].event)'
    <3>1. PICK o \in Events : o = job[k].event
      BY <2>1
    <3>2. Outlasted(o)'
      BY <2>1, <3>1, OutlastedStays
    <3>3. job'[k].event = o
      BY <2>1, <3>1, StumblesStay
    <3>4. QED  BY <3>2, <3>3
  <2>2. QED  BY <2>1
<1>1. ASSUME NEW e \in Emails, NEW o \in Events, Dispatch(e, o) PROVE Bookkeeping'
  BY <1>0, <1>1 DEF Dispatch
<1>2. ASSUME NEW o \in Events, NEW j \in Jobs, Enqueue(o, j) PROVE Bookkeeping'
  BY <1>0, <1>2 DEF Enqueue, Push
<1>3. ASSUME NEW o \in Events, NEW j \in Jobs, RequeueOrphaned(o, j) PROVE Bookkeeping'
  BY <1>0, <1>3 DEF RequeueOrphaned, Push
<1>4. ASSUME NEW j \in Jobs, Claim(j) PROVE Bookkeeping'
  BY <1>0, <1>4 DEF Claim, Goto
<1>5. ASSUME NEW j \in Jobs, ClaimNothing(j) PROVE Bookkeeping'
  BY <1>0, <1>5 DEF ClaimNothing, Leave
<1>6. ASSUME NEW j \in Jobs, LoadIneligible(j) PROVE Bookkeeping'
  BY <1>0, <1>6 DEF LoadIneligible, Load
<1>7. ASSUME NEW j \in Jobs, NEW r \in Requests, Post(j, r) PROVE Bookkeeping'
  BY <1>0, <1>7 DEF Post, Load, EmailOf
<1>8. ASSUME NEW j \in Jobs, MarkSent(j) PROVE Bookkeeping'
  BY <1>0, <1>8 DEF MarkSent, EmailOf, Written
<1>9. ASSUME NEW j \in Jobs, Complete(j) PROVE Bookkeeping'
  BY <1>0, <1>9 DEF Complete, Leave, Written
<1>10. ASSUME NEW j \in Jobs, MarkFailed(j) PROVE Bookkeeping'
  BY <1>0, <1>10 DEF MarkFailed, EmailOf, Written
<1>11. ASSUME NEW j \in Jobs, KillEvent(j) PROVE Bookkeeping'
  BY <1>0, <1>11 DEF KillEvent, Leave, Written
<1>12. ASSUME NEW j \in Jobs, FailEvent(j) PROVE Bookkeeping'
  BY <1>0, <1>12 DEF FailEvent, Leave, Written
<1>13. ASSUME NEW j \in Jobs, Reschedule(j) PROVE Bookkeeping'
  BY <1>0, <1>13 DEF Reschedule, Stumbles
<1>14. ASSUME NEW j \in Jobs, RetriesExhausted(j) PROVE Bookkeeping'
  <2>1. Outlasted(job[j].event)'
    BY <1>0, <1>14, ExhaustedOutlasted DEF RetriesExhausted
  <2>2. /\ job[j].event \in Events /\ event[job[j].event].status # "absent"
        /\ job[j].pc \in {"raised", "stumbled"}
        /\ event' = [event EXCEPT ![job[j].event].status = "dead"]
    BY <1>14 DEF RetriesExhausted
  <2>3. \A o \in Events : /\ event'[o].attempts = event[o].attempts
                          /\ event'[o].email = event[o].email
                          /\ \/ event'[o].status = event[o].status
                             \/ event'[o].status = "dead" /\ o = job[j].event
    <3>1. ASSUME NEW o \in Events, o # job[j].event PROVE event'[o] = event[o]
      BY <2>2, <3>1
    <3>2. event[job[j].event] \in EventRow
      BY <2>2
    <3>3. event'[job[j].event] = [event[job[j].event] EXCEPT !.status = "dead"]
      BY <2>2
    <3>4. /\ event'[job[j].event].status = "dead"
          /\ event'[job[j].event].attempts = event[job[j].event].attempts
          /\ event'[job[j].event].email = event[job[j].event].email
      BY <3>2, <3>3
    <3>5. QED  BY <3>1, <3>4
  <2>4. /\ job'[j].pc = "done" /\ job'[j].event = job[j].event
        /\ job'[j].retries = job[j].retries /\ job'[j].stumbles = job[j].stumbles
        /\ \A k \in Jobs \ {j} : job'[k] = job[k]
    BY <1>14 DEF RetriesExhausted, Leave
  <2>5. WellFormed'
    <3>1. /\ \A o \in Events : event'[o].status # "absent" => event'[o].email \in Emails
          /\ \A o \in Events : event[o].status # "absent" => event'[o].status # "absent"
      BY <2>2, <2>3
    <3>2. \A k \in Jobs : /\ job'[k].pc # "free" => job[k].pc # "free"
                          /\ job[k].pc = "calling" => job'[k].pc = "calling"
                          /\ job'[k].event = job[k].event
      BY <2>2, <2>4
    <3>3. unqueued' = unqueued /\ request' = request
      BY <1>14 DEF RetriesExhausted
    <3>4. job'[j].pc = "done" /\ job'[j].event \in Events
      BY <2>2, <2>4
    <3>5. \A k \in Jobs : job'[k].pc # "free" =>
            job'[k].event \in Events /\ event'[job'[k].event].status # "absent"
      BY <3>1, <3>2
    <3>6. \A q \in Requests : request'[q].client # None => job'[request'[q].client].pc = "calling"
      BY <3>2, <3>3
    <3>7. /\ \A o \in unqueued' : event'[o].status # "absent"
          /\ \A q \in Requests : request'[q].phase # "idle" => request'[q].email \in Emails
          /\ \A q, t \in Requests :
               request'[q].client # None /\ request'[q].client = request'[t].client => q = t
      BY <3>1, <3>3
    <3>8. QED  BY <3>1, <3>5, <3>6, <3>7
  <2>6. HolderSeesRow'
    <3>1. ASSUME NEW k \in Jobs, job'[k].pc \in Working
          PROVE  k # j /\ job'[k] = job[k] /\ job[k].pc \in Working /\ job[k].event \in Events
      BY <2>4, <3>1
    <3>2. ASSUME NEW k \in Jobs, job'[k].pc \in Working, event'[job[k].event].status = "dead"
          PROVE  Outlasted(job[k].event)'
      <4>1. job'[k] = job[k] /\ job[k].pc \in Working
        BY <3>1, <3>2
      <4>2. CASE job[k].event = job[j].event
        BY <2>1, <2>4, <4>1, <4>2
      <4>3. CASE job[k].event # job[j].event
        <5>1. event[job[k].event].status = "dead"
          BY <2>3, <3>1, <3>2, <4>3
        <5>2. QED  BY <1>0, <4>1, <5>1
      <4>4. QED  BY <4>2, <4>3
    <3>3. QED  BY <2>3, <3>1, <3>2
  <2>7. SingleHolder' /\ RetriesPaid' /\ FreeIsUntouched'
    <3>1. SingleHolder'
      BY <2>4
    <3>2. RetriesPaid'
      <4>1. ASSUME NEW k \in Jobs, job'[k].pc # "free"
            PROVE  /\ job[k].pc # "free" /\ job[k].event \in Events
                   /\ job'[k].event = job[k].event
                   /\ job'[k].retries = job[k].retries /\ job'[k].stumbles = job[k].stumbles
                   /\ job'[k].pc \in Working \union {"raised"} =>
                        job[k].pc \in Working \union {"raised"}
        BY <2>2, <2>4, <4>1
      <4>2. QED  BY <2>3, <4>1
    <3>3. FreeIsUntouched'
      BY <2>2, <2>3, <2>4
    <3>4. QED  BY <3>1, <3>2, <3>3
  <2>8. AttemptsBounded' /\ PendingHasAttemptsLeft'
    BY <2>3
  <2>9. QED  BY <2>5, <2>6, <2>7, <2>8
<1>15. ASSUME NEW r \in Requests, GoReplay(r) PROVE Bookkeeping'
  BY <1>0, <1>15, AnswerBooks DEF GoReplay
<1>16. ASSUME NEW r \in Requests, GoMiss(r) PROVE Bookkeeping'
  BY <1>0, <1>16 DEF GoMiss
<1>17. ASSUME NEW r \in Requests, GoDeclines(r) PROVE Bookkeeping'
  BY <1>0, <1>17, AnswerBooks DEF GoDeclines
<1>18. ASSUME NEW r \in Requests, ProviderAccepts(r) PROVE Bookkeeping'
  BY <1>0, <1>18 DEF ProviderAccepts
<1>19. ASSUME NEW r \in Requests, ProviderRefuses(r) PROVE Bookkeeping'
  <2>1. CASE Answer(r, "rejected")
    BY <1>0, <1>19, <2>1, AnswerBooks DEF ProviderRefuses
  <2>2. CASE request[r].left = 1 /\ Answer(r, "erring")
    BY <1>0, <1>19, <2>2, AnswerBooks DEF ProviderRefuses
  <2>3. CASE request[r].left > 1 /\ Fallback(r) /\ UNCHANGED job
    BY <1>0, <1>19, <2>3 DEF ProviderRefuses, Fallback
  <2>4. QED  BY <1>0, <1>19, <2>1, <2>2, <2>3 DEF ProviderRefuses
<1>20. ASSUME NEW r \in Requests, ProviderAnswerLost(r) PROVE Bookkeeping'
  <2>1. CASE request[r].left = 1 /\ Answer(r, "erring")
    BY <1>0, <1>20, <2>1, AnswerBooks DEF ProviderAnswerLost
  <2>2. CASE request[r].left > 1 /\ Fallback(r) /\ UNCHANGED job
    BY <1>0, <1>20, <2>2 DEF ProviderAnswerLost, Fallback
  <2>3. QED  BY <1>0, <1>20, <2>1, <2>2 DEF ProviderAnswerLost
<1>21. ASSUME NEW r \in Requests, GoResponds(r) PROVE Bookkeeping'
  BY <1>0, <1>21, AnswerBooks DEF GoResponds
<1>22. ASSUME NEW j \in Jobs, RaisesBeforeCall(j) PROVE Bookkeeping'
  BY <1>0, <1>22 DEF RaisesBeforeCall, Load
<1>23. ASSUME NEW j \in Jobs, Timeout(j) PROVE Bookkeeping'
  BY <1>0, <1>23 DEF Timeout, Goto, Disconnect, Lose, EmailOf
<1>24. ASSUME NEW j \in Jobs, WriteFails(j) PROVE Bookkeeping'
  BY <1>0, <1>24 DEF WriteFails, Goto, EmailOf
<1>25. ASSUME NEW r \in Requests, GoCrash(r) PROVE Bookkeeping'
  BY <1>0, <1>25, AnswerBooks DEF GoCrash
<1>26. ASSUME NEW o \in Events, EnqueueLost(o) PROVE Bookkeeping'
  BY <1>0, <1>26 DEF EnqueueLost
<1>27. ASSUME NEW j \in Jobs, ReleaseFails(j) PROVE Bookkeeping'
  BY <1>0, <1>27 DEF ReleaseFails, Leave
<1>28. ASSUME NEW j \in Jobs, Kill(j) PROVE Bookkeeping'
  BY <1>0, <1>28 DEF Kill, Leave, Disconnect
<1>29. ASSUME NEW j \in Jobs, Shutdown(j) PROVE Bookkeeping'
  BY <1>0, <1>29 DEF Shutdown, Leave, Disconnect
<1>30. ASSUME NEW j \in Jobs, ClaimRaises(j) PROVE Bookkeeping'
  BY <1>0, <1>30 DEF ClaimRaises, Goto
<1>31. QED  BY <1>1, <1>2, <1>3, <1>4, <1>5, <1>6, <1>7, <1>8, <1>9, <1>10,
        <1>11, <1>12, <1>13, <1>14, <1>15, <1>16, <1>17, <1>18, <1>19, <1>20,
        <1>21, <1>22, <1>23, <1>24, <1>25, <1>26, <1>27, <1>28, <1>29, <1>30
       DEF Next, Running, Dispatching, Perform, Serve, Error, Crash

HIDE DEF TypeOK, EventRow, Job, Request, EmailStatus, EventStatus, Working, PC, Phase,
         Bookkeeping, WellFormed, HolderSeesRow, SingleHolder, AttemptsBounded,
         PendingHasAttemptsLeft, RetriesPaid, FreeIsUntouched, FreeJob

-----------------------------------------------------------------------------
(***************************************************************************)
(* The invariants of every behaviour.                                      *)
(***************************************************************************)

(* The empty tables are a state of IInv. *)
LEMMA InitIInv == Init => IInv
BY DEF Init, IInv, TypeOK, Bookkeeping, WellFormed, HolderSeesRow, SingleHolder,
       AttemptsBounded, PendingHasAttemptsLeft, RetriesPaid, FreeIsUntouched, FreeJob,
       IdleRequest, EventRow, Job, Request, EmailStatus, EventStatus, Working, PC, Phase

(* A step that changes nothing keeps IInv. *)
LEMMA StutterIInv == IInv /\ UNCHANGED vars => IInv'
BY DEF IInv, TypeOK, Bookkeeping, WellFormed, HolderSeesRow, SingleHolder,
       AttemptsBounded, PendingHasAttemptsLeft, RetriesPaid, FreeIsUntouched, Outlasted, vars

(* IInv, hence each of its parts, holds throughout every behaviour of the  *)
(* pipeline.                                                               *)
THEOREM Invariance == Spec => []IInv
<1>1. IInv /\ [Next]_vars => IInv'
  <2>1. ASSUME IInv, Next PROVE IInv'
    BY <2>1, TypeStep, BookkeepingStep DEF IInv, Bookkeeping
  <2>2. QED  BY <2>1, StutterIInv
<1>2. QED  BY InitIInv, <1>1, PTL DEF Spec

(* Rows, jobs and requests keep their types. *)
THEOREM TypeCorrect == Spec => []TypeOK
<1>1. IInv => TypeOK
  BY DEF IInv
<1>2. QED  BY Invariance, <1>1, PTL

(* No interleaving of jobs, duplicates, retries, crashes and operator      *)
(* requeues has two jobs working on one event (the guarded update of       *)
(* outbox_processor_job.rb:42).                                            *)
THEOREM ExclusiveClaim == Spec => []SingleHolder
<1>1. IInv => SingleHolder
  BY DEF IInv, Bookkeeping
<1>2. QED  BY Invariance, <1>1, PTL

(* Every event is claimed max_attempts times at most (fail! of             *)
(* outbox_event.rb against the increment in outbox_processor_job.rb:42).   *)
THEOREM BoundedAttempts == Spec => []AttemptsBounded
<1>1. IInv => AttemptsBounded
  BY DEF IInv, Bookkeeping
<1>2. QED  BY Invariance, <1>1, PTL

-----------------------------------------------------------------------------
(***************************************************************************)
(* Settled events.                                                         *)
(***************************************************************************)

(* Only Dispatch, Claim, the three writes of a holder and the handler of   *)
(* exhausted retries touch an event, and none but the last finds it        *)
(* settled, unless the last has been there before.                         *)
LEMMA SettledStep ==
  ASSUME IInv, Next, NEW o \in Events, event[o].status \in Settled
  PROVE  event'[o] = event[o] \/ Outlasted(o)
<1> USE DEF Settled
<1>1. event[o].status \notin {"absent", "pending", "processing"}
  OBVIOUS
<1>2. ASSUME NEW e \in Emails, NEW p \in Events, Dispatch(e, p) PROVE event'[o] = event[o]
  BY <1>1, <1>2 DEF Dispatch, IInv, TypeOK
<1>3. ASSUME NEW j \in Jobs, Claim(j) PROVE event'[o] = event[o]
  BY <1>1, <1>3 DEF Claim, IInv, TypeOK
<1>4. ASSUME NEW j \in Jobs, Complete(j) \/ KillEvent(j) \/ FailEvent(j)
      PROVE  event'[o] = event[o] \/ Outlasted(o)
  <2>1. job[j].pc \in Working
    BY <1>4 DEF Complete, KillEvent, FailEvent, Working
  <2>2. job[j].event = o => Outlasted(o)
    BY <1>1, <2>1 DEF IInv, Bookkeeping, HolderSeesRow
  <2>3. QED  BY <1>4, <2>2 DEF Complete, KillEvent, FailEvent, IInv, TypeOK
<1>5. ASSUME NEW j \in Jobs, RetriesExhausted(j)
      PROVE  event'[o] = event[o] \/ Outlasted(o)
  <2>1. Outlasted(job[j].event)
    BY <1>5, ExhaustedOutlasted DEF IInv
  <2>2. CASE job[j].event = o
    BY <2>1, <2>2
  <2>3. CASE job[j].event # o
    BY <1>5, <2>3 DEF RetriesExhausted, IInv, TypeOK
  <2>4. QED  BY <2>2, <2>3
<1>6. CASE UNCHANGED event
  BY <1>6
<1>7. QED
  BY <1>2, <1>3, <1>4, <1>5, <1>6
  DEF Next, Running, Dispatching, Perform, Serve, Error, Crash, Enqueue, EnqueueLost,
      RequeueOrphaned, ClaimNothing, ClaimRaises, LoadIneligible, Post, MarkSent, MarkFailed,
      Reschedule, GoReplay, GoMiss, GoDeclines, ProviderAccepts, ProviderRefuses,
      ProviderAnswerLost, GoResponds, RaisesBeforeCall, Timeout, WriteFails, GoCrash,
      ReleaseFails, Kill, Shutdown

(* Nothing changes a processed or dead event - a job that comes late or    *)
(* twice, or wakes from the retry set, finds no row to update              *)
(* (outbox_processor_job.rb:42-49) - unless a job of it has lost all its   *)
(* retries but MaxAttempts to raises at the claim: the handler of          *)
(* exhausted retries (24-32) writes dead over any status.                  *)
THEOREM SettledStays == Spec => SettledForever
<1>1. IInv /\ [Next]_vars =>
        [\A o \in Events : event[o].status \in Settled =>
           event'[o] = event[o] \/ Outlasted(o)]_vars
  BY SettledStep
<1>2. QED  BY Invariance, <1>1, PTL DEF Spec, SettledForever

-----------------------------------------------------------------------------
(***************************************************************************)
(* The pipeline implements the lease of OutboxLease: Dispatch offers an    *)
(* event, Claim leases it, the moves of its holder end the lease, a job    *)
(* that runs out of retries gives up an event nobody holds, and every      *)
(* other step is invisible to the lease.                                   *)
(***************************************************************************)
USE DEF rows, engine, losses

-----------------------------------------------------------------------------
(***************************************************************************)
(* Reading the mapping in a state of IInv.                                 *)
(***************************************************************************)

(* A job never holds an event alongside another, so the holder the mapping *)
(* chooses is the job that works on it.                                    *)
LEMMA HolderIs ==
  ASSUME IInv, NEW j \in Jobs, job[j].pc \in Working
  PROVE  /\ job[j].event \in Events
         /\ event[job[j].event].status \in {"processing", "dead"}
         /\ Holders(job[j].event) = {j}
<1>1. job[j].event \in Events
  BY DEF IInv, Bookkeeping, WellFormed, Working
<1>2. Holders(job[j].event) = {j}
  BY DEF Holders, IInv, Bookkeeping, SingleHolder
<1>3. event[job[j].event].status \in {"processing", "dead"}
  BY DEF IInv, Bookkeeping, HolderSeesRow
<1>4. QED  BY <1>1, <1>2, <1>3

(* An event nobody has taken has no holder.                                *)
LEMMA NoHolder ==
  ASSUME IInv, NEW o \in Events, event[o].status \notin {"processing", "dead"}
  PROVE  Holders(o) = {}
BY DEF Holders, IInv, Bookkeeping, HolderSeesRow

(* An event whose row and holders stay is leased as before.                *)
LEMMA SameLease ==
  ASSUME NEW o \in Events, event'[o] = event[o], Holders(o)' = Holders(o)
  PROVE  Holder(o)' = Holder(o) /\ StateOf(o)' = StateOf(o)
BY DEF Holder, StateOf

(* So steps that touch neither an event nor who works on it are invisible. *)
LEMMA Invisible ==
  ASSUME UNCHANGED event, \A o \in Events : Holders(o)' = Holders(o)
  PROVE  UNCHANGED Outbox!LeaseVars
<1>1. \A o \in Events : Holder(o)' = Holder(o) /\ StateOf(o)' = StateOf(o)
  BY SameLease
<1>2. holderOf' = holderOf /\ leaseState' = leaseState
  BY <1>1 DEF holderOf, leaseState
<1>3. QED  BY <1>2 DEF Outbox!LeaseVars, leaseCount

(* A job that moves on within perform, or outside of it, stays as much a   *)
(* holder as it was.                                                       *)
LEMMA SameHolders ==
  ASSUME \A j \in Jobs : job'[j].pc \in Working <=> job[j].pc \in Working,
         \A j \in Jobs : job[j].pc \in Working => job'[j].event = job[j].event
  PROVE  \A o \in Events : Holders(o)' = Holders(o)
BY DEF Holders

(* The empty tables are an outbox without tasks.                           *)
LEMMA InitLease == Init => Outbox!LeaseInit
<1> SUFFICES ASSUME Init PROVE Outbox!LeaseInit
  OBVIOUS
<1>1. \A o \in Events : Holders(o) = {}
  BY DEF Init, Holders, FreeJob, Working
<1>2. \A o \in Events : Holder(o) = None /\ StateOf(o) = "absent"
  BY <1>1 DEF Holder, StateOf, Init
<1>3. QED  BY <1>2 DEF Init, Outbox!LeaseInit, leaseState, leaseCount, holderOf

-----------------------------------------------------------------------------
(***************************************************************************)
(* The steps that show.                                                    *)
(***************************************************************************)

(* Dispatch offers the event.                                              *)
LEMMA DispatchOffers ==
  ASSUME IInv, NEW e \in Emails, NEW o \in Events, Dispatch(e, o)
  PROVE  Outbox!Offer(o)
<1>1. /\ event[o].status = "absent" /\ event[o].attempts = 0
      /\ event'[o].status = "pending" /\ event'[o].attempts = 0
      /\ \A p \in Events \ {o} : event'[p] = event[p]
  BY DEF Dispatch, IInv, TypeOK, Bookkeeping, FreeIsUntouched
<1>2. \A p \in Events : Holders(p)' = Holders(p)
  BY DEF Dispatch, Holders
<1>3. Holders(o) = {}
  BY <1>1, NoHolder
<1>4. /\ StateOf(o) = "absent"
      /\ StateOf(o)' = "ready"
      /\ Holder(o)' = Holder(o)
  <2>1. StateOf(o) = "absent"
    BY <1>1, <1>3 DEF StateOf
  <2>2. StateOf(o)' = "ready"
    BY <1>1, <1>2, <1>3 DEF StateOf
  <2>3. Holder(o)' = Holder(o)
    <3>1. Holders(o)' = {}
      BY <1>2, <1>3
    <3>2. QED  BY <1>3, <3>1 DEF Holder
  <2>4. QED  BY <2>1, <2>2, <2>3
<1>5. \A p \in Events \ {o} : StateOf(p)' = StateOf(p) /\ Holder(p)' = Holder(p)
  BY <1>1, <1>2, SameLease
<1>6. leaseState[o] = "absent" /\ leaseState' = [leaseState EXCEPT ![o] = "ready"]
  BY <1>4, <1>5 DEF leaseState
<1>7. UNCHANGED leaseCount
  BY <1>1 DEF leaseCount
<1>8. UNCHANGED holderOf
  BY <1>4, <1>5 DEF holderOf
<1>9. QED  BY <1>6, <1>7, <1>8 DEF Outbox!Offer

(* Claim leases the event to the job, within max_attempts.                 *)
LEMMA ClaimLeases ==
  ASSUME IInv, NEW j \in Jobs, Claim(j), NEW o \in Events, o = job[j].event
  PROVE  Outbox!Lease(o, j)
<1>1. event[o] \in EventRow /\ event[o].status = "pending" /\ event[o].attempts < MaxAttempts
  BY DEF Claim, IInv, TypeOK, Bookkeeping, PendingHasAttemptsLeft
<1>2. /\ event'[o].status = "processing" /\ event'[o].attempts = event[o].attempts + 1
      /\ \A p \in Events \ {o} : event'[p] = event[p]
  BY <1>1 DEF Claim, IInv, TypeOK, EventRow
<1>3. /\ job[j].pc \notin Working /\ job'[j].pc \in Working
      /\ \A k \in Jobs : job'[k].event = job[k].event
      /\ \A k \in Jobs \ {j} : job'[k] = job[k]
  BY DEF Claim, Goto, Working, IInv, TypeOK, Job
<1>4. Holders(o) = {}
  BY <1>1, NoHolder
<1>5. Holders(o)' = {j} /\ \A p \in Events \ {o} : Holders(p)' = Holders(p)
  BY <1>3, <1>4 DEF Holders
<1>6. Holder(o)' = j /\ StateOf(o) = "ready" /\ StateOf(o)' = "leased"
  BY <1>1, <1>2, <1>4, <1>5 DEF Holder, StateOf
<1>7. \A p \in Events \ {o} : Holder(p)' = Holder(p) /\ StateOf(p)' = StateOf(p)
  BY <1>2, <1>5, SameLease
<1>8. leaseState[o] = "ready" /\ leaseState' = [leaseState EXCEPT ![o] = "leased"]
  BY <1>6, <1>7 DEF leaseState
<1>9. holderOf' = [holderOf EXCEPT ![o] = j]
  BY <1>6, <1>7 DEF holderOf
<1>10. leaseCount[o] < MaxAttempts /\ leaseCount' = [leaseCount EXCEPT ![o] = @ + 1]
  BY <1>1, <1>2 DEF leaseCount
<1>11. QED  BY <1>8, <1>9, <1>10 DEF Outbox!Lease

(* A holder that leaves perform ends the lease: it gives the event back,   *)
(* settles it, or, when it dies, loses it.                                 *)
LEMMA LeavingEndsLease ==
  ASSUME IInv, NEW j \in Jobs, job[j].pc \in Working,
         NEW pc \in PC \ Working, Leave(j, pc),
         NEW s \in EventStatus \ {"absent"},
         NEW o \in Events, o = job[j].event,
         event' = [event EXCEPT ![o].status = s]
  PROVE  Outbox!EndLease(o)
<1>1. event[o].status \in {"processing", "dead"} /\ Holders(o) = {j}
  BY HolderIs
<1>2. event[o] \in EventRow
  BY <1>1 DEF IInv, TypeOK
<1>3. /\ event'[o].status = s /\ event'[o].attempts = event[o].attempts
      /\ \A p \in Events \ {o} : event'[p] = event[p]
  BY <1>1, <1>2 DEF IInv, TypeOK, EventRow
<1>4. job'[j].pc \notin Working /\ \A k \in Jobs \ {j} : job'[k] = job[k]
  BY DEF Leave, FreeJob, IInv, TypeOK
<1>5. Holders(o)' = {}
  BY <1>1, <1>4 DEF Holders
<1>6. \A p \in Events \ {o} : Holders(p)' = Holders(p)
  BY <1>4 DEF Holders
<1>7. StateOf(o) = "leased"
  BY <1>1 DEF StateOf
<1>8. Holder(o)' = None /\ StateOf(o)' \in {"ready", "settled", "lost"}
  BY <1>3, <1>5 DEF Holder, StateOf
<1>9. \A p \in Events \ {o} : Holder(p)' = Holder(p) /\ StateOf(p)' = StateOf(p)
  BY <1>3, <1>6, SameLease
<1>10. leaseState[o] = "leased" /\ leaseState' = [leaseState EXCEPT ![o] = StateOf(o)']
  BY <1>1, <1>7, <1>9 DEF leaseState
<1>11. holderOf' = [holderOf EXCEPT ![o] = None]
  BY <1>1, <1>8, <1>9 DEF holderOf
<1>12. UNCHANGED leaseCount
  BY <1>3 DEF leaseCount
<1>13. QED  BY <1>1, <1>8, <1>10, <1>11, <1>12 DEF Outbox!EndLease

-----------------------------------------------------------------------------
(***************************************************************************)
(* Every step.                                                             *)
(***************************************************************************)

(* A job that was not working leaves perform unseen.                       *)
LEMMA IdleLeaveInvisible ==
  ASSUME IInv, NEW j \in Jobs, NEW pc \in PC \ Working, Leave(j, pc),
         job[j].pc \notin Working, UNCHANGED event
  PROVE  UNCHANGED Outbox!LeaseVars
<1>1. job'[j].pc \notin Working /\ \A k \in Jobs \ {j} : job'[k] = job[k]
  BY DEF Leave, FreeJob, IInv, TypeOK
<1>2. \A o \in Events : Holders(o)' = Holders(o)
  BY <1>1 DEF Holders
<1>3. QED  BY <1>2, Invisible

(* A job that dies, shuts down or fails to release loses the event it      *)
(* holds, if it holds one.                                                 *)
LEMMA CrashLoses ==
  ASSUME IInv, NEW j \in Jobs, NEW pc \in PC \ Working, Leave(j, pc),
         job[j].pc # "free", UNCHANGED event
  PROVE  (\E o \in Events : Outbox!EndLease(o)) \/ UNCHANGED Outbox!LeaseVars
<1>1. CASE job[j].pc \in Working
  <2>1. PICK o \in Events : o = job[j].event
    BY <1>1, HolderIs
  <2>2. event[o] \in EventRow /\ event[o].status \in {"processing", "dead"}
    BY <1>1, <2>1, HolderIs DEF IInv, TypeOK
  <2>3. event' = [event EXCEPT ![o].status = event[o].status]
    BY <2>2 DEF IInv, TypeOK, EventRow
  <2>4. Outbox!EndLease(o)
    BY <1>1, <2>1, <2>2, <2>3, LeavingEndsLease DEF EventStatus
  <2>5. QED  BY <2>4
<1>2. CASE job[j].pc \notin Working
  BY <1>2, IdleLeaveInvisible
<1>3. QED  BY <1>1, <1>2

(* The holder that completes, kills or fails its event ends its lease.     *)
LEMMA SettlingEndsLease ==
  ASSUME IInv, NEW j \in Jobs, Complete(j) \/ KillEvent(j) \/ FailEvent(j)
  PROVE  \E o \in Events : Outbox!EndLease(o)
<1>1. job[j].pc \in Working
  BY DEF Complete, KillEvent, FailEvent, Working
<1>2. PICK o \in Events : o = job[j].event
  BY <1>1, HolderIs
<1>3. event[o].status \in EventStatus \ {"absent"}
  BY <1>1, <1>2, HolderIs DEF EventStatus
<1>4. PICK pc \in PC \ Working, s \in EventStatus \ {"absent"} :
        Leave(j, pc) /\ event' = [event EXCEPT ![o].status = s]
  <2>1. CASE Complete(j)
    <3>1. Written(job[j].seenEvent, "processed", event[o].status) \in EventStatus \ {"absent"}
      BY <1>3 DEF Written, EventStatus
    <3>2. QED  BY <1>2, <2>1, <3>1 DEF Complete, PC, Working
  <2>2. CASE KillEvent(j)
    <3>1. Written(job[j].seenEvent, "dead", event[o].status) \in EventStatus \ {"absent"}
      BY <1>3 DEF Written, EventStatus
    <3>2. QED  BY <1>2, <2>2, <3>1 DEF KillEvent, PC, Working
  <2>3. CASE FailEvent(j)
    <3>1. \A new \in {"dead", "pending"} :
            Written(job[j].seenEvent, new, event[o].status) \in EventStatus \ {"absent"}
      BY <1>3 DEF Written, EventStatus
    <3>2. QED  BY <1>2, <2>3, <3>1 DEF FailEvent, PC, Working
  <2>4. QED  BY <2>1, <2>2, <2>3
<1>5. QED  BY <1>1, <1>2, <1>4, LeavingEndsLease

(* A job that runs out of retries gives up an event nobody holds; one that *)
(* is held or settled stays as it is for the lease.                        *)
LEMMA ExhaustedGivesUp ==
  ASSUME IInv, NEW j \in Jobs, RetriesExhausted(j)
  PROVE  (\E o \in Events : Outbox!GiveUp(o)) \/ UNCHANGED Outbox!LeaseVars
<1>1. PICK o \in Events : o = job[j].event /\ event[o].status # "absent"
  BY DEF RetriesExhausted, IInv, Bookkeeping, WellFormed
<1>2. event[o] \in EventRow
  BY DEF IInv, TypeOK
<1>3. /\ event'[o].status = "dead" /\ event'[o].attempts = event[o].attempts
      /\ \A p \in Events \ {o} : event'[p] = event[p]
  BY <1>1, <1>2 DEF RetriesExhausted, IInv, TypeOK, EventRow
<1>4. /\ job[j].pc \notin Working /\ job'[j].pc \notin Working
      /\ \A k \in Jobs \ {j} : job'[k] = job[k]
  BY DEF RetriesExhausted, Leave, FreeJob, Working, IInv, TypeOK
<1>5. \A p \in Events : Holders(p)' = Holders(p) /\ Holder(p)' = Holder(p)
  <2>1. \A p \in Events : Holders(p)' = Holders(p)
    BY <1>4 DEF Holders
  <2>2. ASSUME NEW p \in Events PROVE Holder(p)' = Holder(p)
    <3>1. Holders(p)' = Holders(p)
      BY <2>1
    <3>2. QED  BY <3>1 DEF Holder
  <2>3. QED  BY <2>1, <2>2
<1>6. \A p \in Events \ {o} : StateOf(p)' = StateOf(p)
  BY <1>3, <1>5, SameLease
<1>7. UNCHANGED <<leaseCount, holderOf>>
  BY <1>3, <1>5 DEF leaseCount, holderOf
<1>8. CASE Holders(o) # {} \/ event[o].status \in Settled
  <2>1. StateOf(o)' = StateOf(o)
    BY <1>1, <1>2, <1>3, <1>5, <1>8 DEF StateOf, Settled, EventRow, EventStatus
  <2>2. leaseState' = leaseState
    BY <1>6, <2>1 DEF leaseState
  <2>3. QED  BY <1>7, <2>2 DEF Outbox!LeaseVars
<1>9. CASE Holders(o) = {} /\ event[o].status \notin Settled
  <2>1. StateOf(o) \in {"ready", "lost"} /\ StateOf(o)' = "settled"
    BY <1>1, <1>2, <1>3, <1>5, <1>9 DEF StateOf, Settled, EventRow, EventStatus
  <2>2. leaseState[o] \in {"ready", "lost"} /\ leaseState' = [leaseState EXCEPT ![o] = "settled"]
    BY <1>6, <2>1 DEF leaseState
  <2>3. QED  BY <1>7, <2>2 DEF Outbox!GiveUp
<1>10. QED  BY <1>8, <1>9

(* Moves within perform, pushes and the engine's answers change neither    *)
(* an event nor a holder.                                                  *)
LEMMA MoveInvisible ==
  ASSUME IInv,
         \/ \E o \in Events, j \in Jobs : Enqueue(o, j) \/ RequeueOrphaned(o, j)
         \/ \E o \in Events : EnqueueLost(o)
         \/ \E j \in Jobs : LoadIneligible(j) \/ (\E r \in Requests : Post(j, r))
         \/ \E j \in Jobs : MarkSent(j) \/ MarkFailed(j) \/ Reschedule(j)
         \/ \E j \in Jobs : ClaimRaises(j) \/ RaisesBeforeCall(j) \/ Timeout(j) \/ WriteFails(j)
  PROVE  UNCHANGED Outbox!LeaseVars
<1>1. UNCHANGED event
  BY DEF Enqueue, RequeueOrphaned, EnqueueLost, LoadIneligible, Post, MarkSent, MarkFailed,
         Reschedule, ClaimRaises, RaisesBeforeCall, Timeout, WriteFails
<1>2. UNCHANGED job \/ \E j \in Jobs : /\ \A k \in Jobs \ {j} : job'[k] = job[k]
                                       /\ job'[j].pc \in Working <=> job[j].pc \in Working
                                       /\ job[j].pc \in Working => job'[j].event = job[j].event
  <2>1. ASSUME NEW o \in Events, NEW j \in Jobs, Push(o, j)
        PROVE  /\ \A k \in Jobs \ {j} : job'[k] = job[k]
               /\ job'[j].pc \notin Working /\ job[j].pc \notin Working
    BY <2>1 DEF Push, Working, IInv, TypeOK, Job
  <2>2. ASSUME NEW j \in Jobs,
               LoadIneligible(j) \/ RaisesBeforeCall(j) \/ (\E r \in Requests : Post(j, r))
               \/ MarkSent(j) \/ MarkFailed(j)
        PROVE  /\ \A k \in Jobs \ {j} : job'[k] = job[k]
               /\ job'[j].pc \in Working /\ job[j].pc \in Working
               /\ job'[j].event = job[j].event
    <3>1. job[j] \in Job /\ job \in [Jobs -> Job]
      BY DEF IInv, TypeOK
    <3>2. ASSUME NEW pc \in Working, Load(j, pc)
          PROVE  /\ \A k \in Jobs \ {j} : job'[k] = job[k]
                 /\ job'[j].pc = pc /\ job'[j].event = job[j].event
      BY <3>1, <3>2 DEF Load, Job
    <3>3. CASE LoadIneligible(j) \/ RaisesBeforeCall(j) \/ \E r \in Requests : Post(j, r)
      BY <3>2, <3>3 DEF LoadIneligible, RaisesBeforeCall, Post, Working
    <3>4. CASE MarkSent(j) \/ MarkFailed(j)
      <4>1. ASSUME NEW pc \in Working, NEW new,
                   job' = [job EXCEPT ![j] = [@ EXCEPT !.pc = pc, !.seenEmail = new]]
            PROVE  /\ \A k \in Jobs \ {j} : job'[k] = job[k]
                   /\ job'[j].pc = pc /\ job'[j].event = job[j].event
        BY <3>1, <4>1 DEF Job
      <4>2. QED  BY <3>4, <4>1 DEF MarkSent, MarkFailed, Working
    <3>5. QED  BY <2>2, <3>3, <3>4
  <2>3. ASSUME NEW j \in Jobs, Timeout(j) \/ WriteFails(j)
        PROVE  /\ \A k \in Jobs \ {j} : job'[k] = job[k]
               /\ job'[j].pc \in Working /\ job[j].pc \in Working
               /\ job'[j].event = job[j].event
    BY <2>3 DEF Timeout, WriteFails, Goto, Working, IInv, TypeOK, Job
  <2>4. ASSUME NEW j \in Jobs, Reschedule(j)
        PROVE  /\ \A k \in Jobs \ {j} : job'[k] = job[k]
               /\ job'[j].pc \notin Working /\ job[j].pc \notin Working
    <3>1. job[j] \in Job /\ job \in [Jobs -> Job]
      BY DEF IInv, TypeOK
    <3>2. [job[j] EXCEPT !.pc = "queued", !.retries = job[j].retries + 1,
                         !.stumbles = Stumbles(j)].pc = "queued"
      BY <3>1 DEF Job
    <3>3. QED  BY <2>4, <3>1, <3>2 DEF Reschedule, Working
  <2>5. ASSUME NEW j \in Jobs, ClaimRaises(j)
        PROVE  /\ \A k \in Jobs \ {j} : job'[k] = job[k]
               /\ job'[j].pc \notin Working /\ job[j].pc \notin Working
    BY <2>5 DEF ClaimRaises, Goto, Working, IInv, TypeOK, Job
  <2>6. QED  BY <2>1, <2>2, <2>3, <2>4, <2>5 DEF Enqueue, RequeueOrphaned, EnqueueLost
<1>3. /\ \A j \in Jobs : job'[j].pc \in Working <=> job[j].pc \in Working
      /\ \A j \in Jobs : job[j].pc \in Working => job'[j].event = job[j].event
  BY <1>2
<1>4. QED  BY <1>1, <1>3, SameHolders, Invisible

(* So do the engine's steps.                                               *)
LEMMA ServeInvisible ==
  ASSUME IInv, NEW r \in Requests, Serve(r) \/ GoCrash(r)
  PROVE  UNCHANGED Outbox!LeaseVars
<1>1. UNCHANGED event
  BY DEF Serve, GoReplay, GoMiss, GoDeclines, ProviderAccepts, ProviderRefuses,
         ProviderAnswerLost, GoResponds, GoCrash
<1>2. UNCHANGED job \/ \E pc \in {"answered", "rejected", "erring"} : Answer(r, pc)
  BY DEF Serve, GoReplay, GoMiss, GoDeclines, ProviderAccepts, ProviderRefuses,
         ProviderAnswerLost, GoResponds, GoCrash
<1>3. /\ \A j \in Jobs : job'[j].pc \in Working <=> job[j].pc \in Working
      /\ \A j \in Jobs : job[j].pc \in Working => job'[j].event = job[j].event
  <2>1. request[r].client # None =>
          request[r].client \in Jobs /\ job[request[r].client].pc = "calling"
    BY DEF IInv, TypeOK, Request, Bookkeeping, WellFormed
  <2>2. ASSUME NEW pc \in {"answered", "rejected", "erring"}, Answer(r, pc)
        PROVE  \A j \in Jobs : /\ job'[j].pc \in Working <=> job[j].pc \in Working
                               /\ job'[j].event = job[j].event
    BY <2>1, <2>2 DEF Answer, Working, IInv, TypeOK, Job
  <2>3. QED  BY <1>2, <2>2
<1>4. QED  BY <1>1, <1>3, SameHolders, Invisible

(* Every step of the pipeline is a step of the lease or invisible to it.   *)
LEMMA LeaseStep ==
  ASSUME IInv, [Next]_vars
  PROVE  [Outbox!LeaseNext]_(Outbox!LeaseVars)
<1> USE DEF Outbox!LeaseNext
<1>1. CASE UNCHANGED vars
  <2>1. UNCHANGED event /\ \A o \in Events : Holders(o)' = Holders(o)
    BY <1>1 DEF vars, Holders
  <2>2. QED  BY <2>1, Invisible
<1>2. ASSUME NEW e \in Emails, NEW o \in Events, Dispatch(e, o) PROVE Outbox!LeaseNext
  BY <1>2, DispatchOffers
<1>3. ASSUME NEW j \in Jobs, Claim(j) PROVE Outbox!LeaseNext
  <2>1. PICK o \in Events : o = job[j].event
    BY <1>3 DEF Claim, IInv, Bookkeeping, WellFormed
  <2>2. QED  BY <1>3, <2>1, ClaimLeases
<1>4. ASSUME NEW j \in Jobs, Complete(j) \/ KillEvent(j) \/ FailEvent(j)
      PROVE  Outbox!LeaseNext
  BY <1>4, SettlingEndsLease
<1>5. ASSUME NEW j \in Jobs, ClaimNothing(j) \/ ReleaseFails(j) \/ Kill(j) \/ Shutdown(j)
      PROVE  Outbox!LeaseNext \/ UNCHANGED Outbox!LeaseVars
  <2>1. job[j].pc # "free" /\ UNCHANGED event
    BY <1>5 DEF ClaimNothing, ReleaseFails, Kill, Shutdown, Working
  <2>2. PICK pc \in PC \ Working : Leave(j, pc)
    BY <1>5 DEF ClaimNothing, ReleaseFails, Kill, Shutdown, PC, Working
  <2>3. QED  BY <2>1, <2>2, CrashLoses
<1>6. ASSUME NEW r \in Requests, Serve(r) \/ GoCrash(r) PROVE UNCHANGED Outbox!LeaseVars
  BY <1>6, ServeInvisible
<1>7. ASSUME NEW j \in Jobs, RetriesExhausted(j)
      PROVE  Outbox!LeaseNext \/ UNCHANGED Outbox!LeaseVars
  BY <1>7, ExhaustedGivesUp
<1>8. QED
  BY <1>1, <1>2, <1>3, <1>4, <1>5, <1>6, <1>7, MoveInvisible
  DEF Next, Running, Dispatching, Perform, Error, Crash

(* The pipeline implements the lease: whatever the jobs, the engine, the   *)
(* operator and the crashes do, an event goes to one job at a time, at     *)
(* most max_attempts times, and is never taken up again once it is         *)
(* processed or dead and no job works on it (outbox_processor_job.rb,      *)
(* outbox_event.rb).                                                       *)
THEOREM PipelineImplementsLease == Spec => ImplementsLease
<1>1. Init => Outbox!LeaseInit
  BY InitLease
<1>2. IInv /\ [Next]_vars => [Outbox!LeaseNext]_(Outbox!LeaseVars)
  BY LeaseStep
<1>3. QED  BY <1>1, <1>2, Invariance, PTL DEF Spec, ImplementsLease, Outbox!LeaseSpec
=============================================================================
