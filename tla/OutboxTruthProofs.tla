------------------------- MODULE OutboxTruthProofs --------------------------
(***************************************************************************)
(* Theorems about what the status of an email says, for every number of    *)
(* emails, events, jobs and requests, keyed or not, under a working store  *)
(* or not: TruthInv is inductive beside IInv.  Each of its five parts has  *)
(* a lemma that says every action keeps it.                                *)
(***************************************************************************)
EXTENDS OutboxTruth, OutboxProofs, FiniteSetTheorems

USE PipelineAssumption
USE DEF rows, engine, losses, EmailOf, Active,
        TypeOK, EventRow, Job, Request, EmailStatus, EventStatus, Working, PC, Phase,
        WellFormed, FreeJob

-----------------------------------------------------------------------------
(*****************************************************************************)
(* Callers and events.                                                       *)
(*****************************************************************************)
USE DEF CallersMatch, OneEventEach

(* A caller that is still answered is answered about the email of its      *)
(* event.                                                                  *)
LEMMA CallersStep ==
  ASSUME TypeOK, WellFormed, CallersMatch, Next PROVE CallersMatch'
<1>1. ASSUME NEW e \in Emails, NEW o \in Events, Dispatch(e, o) PROVE CallersMatch'
  BY <1>1 DEF Dispatch
<1>2. ASSUME NEW o \in Events, NEW j \in Jobs, Enqueue(o, j) PROVE CallersMatch'
  BY <1>2 DEF Enqueue, Push
<1>3. ASSUME NEW o \in Events, NEW j \in Jobs, RequeueOrphaned(o, j) PROVE CallersMatch'
  BY <1>3 DEF RequeueOrphaned, Push
<1>4. ASSUME NEW j \in Jobs, Claim(j) PROVE CallersMatch'
  BY <1>4 DEF Claim, Goto
<1>5. ASSUME NEW j \in Jobs, ClaimNothing(j) PROVE CallersMatch'
  BY <1>5 DEF ClaimNothing, Leave
<1>6. ASSUME NEW j \in Jobs, LoadIneligible(j) PROVE CallersMatch'
  BY <1>6 DEF LoadIneligible, Load
<1>7. ASSUME NEW j \in Jobs, NEW r \in Requests, Post(j, r) PROVE CallersMatch'
  BY <1>7 DEF Post, Load
<1>8. ASSUME NEW j \in Jobs, MarkSent(j) PROVE CallersMatch'
  BY <1>8 DEF MarkSent, Written
<1>9. ASSUME NEW j \in Jobs, Complete(j) PROVE CallersMatch'
  BY <1>9 DEF Complete, Leave, Written
<1>10. ASSUME NEW j \in Jobs, MarkFailed(j) PROVE CallersMatch'
  BY <1>10 DEF MarkFailed, Written
<1>11. ASSUME NEW j \in Jobs, KillEvent(j) PROVE CallersMatch'
  BY <1>11 DEF KillEvent, Leave, Written
<1>12. ASSUME NEW j \in Jobs, FailEvent(j) PROVE CallersMatch'
  BY <1>12 DEF FailEvent, Leave, Written
<1>13. ASSUME NEW j \in Jobs, Reschedule(j) PROVE CallersMatch'
  BY <1>13 DEF Reschedule
<1>14. ASSUME NEW j \in Jobs, RetriesExhausted(j) PROVE CallersMatch'
  BY <1>14 DEF RetriesExhausted, Leave
<1>15. ASSUME NEW r \in Requests, GoReplay(r) PROVE CallersMatch'
  BY <1>15 DEF GoReplay, Answer, IdleRequest
<1>16. ASSUME NEW r \in Requests, GoMiss(r) PROVE CallersMatch'
  BY <1>16 DEF GoMiss
<1>17. ASSUME NEW r \in Requests, GoDeclines(r) PROVE CallersMatch'
  BY <1>17 DEF GoDeclines, Answer, IdleRequest
<1>18. ASSUME NEW r \in Requests, ProviderAccepts(r) PROVE CallersMatch'
  BY <1>18 DEF ProviderAccepts
<1>19. ASSUME NEW r \in Requests, ProviderRefuses(r) PROVE CallersMatch'
  BY <1>19 DEF ProviderRefuses, Answer, IdleRequest, Fallback
<1>20. ASSUME NEW r \in Requests, ProviderAnswerLost(r) PROVE CallersMatch'
  BY <1>20 DEF ProviderAnswerLost, Answer, IdleRequest, Fallback, Lose
<1>21. ASSUME NEW r \in Requests, GoResponds(r) PROVE CallersMatch'
  BY <1>21 DEF GoResponds, Answer, IdleRequest
<1>22. ASSUME NEW j \in Jobs, RaisesBeforeCall(j) PROVE CallersMatch'
  BY <1>22 DEF RaisesBeforeCall, Load
<1>23. ASSUME NEW j \in Jobs, Timeout(j) PROVE CallersMatch'
  BY <1>23 DEF Timeout, Goto, Disconnect, Lose
<1>24. ASSUME NEW j \in Jobs, WriteFails(j) PROVE CallersMatch'
  BY <1>24 DEF WriteFails, Goto
<1>25. ASSUME NEW r \in Requests, GoCrash(r) PROVE CallersMatch'
  BY <1>25 DEF GoCrash, Answer, IdleRequest, Lose, Waiting
<1>26. ASSUME NEW o \in Events, EnqueueLost(o) PROVE CallersMatch'
  BY <1>26 DEF EnqueueLost
<1>27. ASSUME NEW j \in Jobs, ReleaseFails(j) PROVE CallersMatch'
  BY <1>27 DEF ReleaseFails, Leave
<1>28. ASSUME NEW j \in Jobs, Kill(j) PROVE CallersMatch'
  BY <1>28 DEF Kill, Leave, Disconnect
<1>29. ASSUME NEW j \in Jobs, Shutdown(j) PROVE CallersMatch'
  BY <1>29 DEF Shutdown, Leave, Disconnect
<1>30. ASSUME NEW j \in Jobs, ClaimRaises(j) PROVE CallersMatch'
  BY <1>30 DEF ClaimRaises, Goto
<1>31. QED  BY <1>1, <1>2, <1>3, <1>4, <1>5, <1>6, <1>7, <1>8, <1>9, <1>10,
        <1>11, <1>12, <1>13, <1>14, <1>15, <1>16, <1>17, <1>18, <1>19, <1>20,
        <1>21, <1>22, <1>23, <1>24, <1>25, <1>26, <1>27, <1>28, <1>29, <1>30
       DEF Next, Running, Dispatching, Perform, Serve, Error, Crash

(* No email gets a second event, and none is accepted before it exists.    *)
LEMMA EventsStep ==
  ASSUME TypeOK, WellFormed, OneEventEach, Next PROVE OneEventEach'
<1>1. ASSUME NEW e \in Emails, NEW o \in Events, Dispatch(e, o) PROVE OneEventEach'
  BY <1>1 DEF Dispatch
<1>2. ASSUME NEW o \in Events, NEW j \in Jobs, Enqueue(o, j) PROVE OneEventEach'
  BY <1>2 DEF Enqueue, Push
<1>3. ASSUME NEW o \in Events, NEW j \in Jobs, RequeueOrphaned(o, j) PROVE OneEventEach'
  BY <1>3 DEF RequeueOrphaned, Push
<1>4. ASSUME NEW j \in Jobs, Claim(j) PROVE OneEventEach'
  BY <1>4 DEF Claim, Goto
<1>5. ASSUME NEW j \in Jobs, ClaimNothing(j) PROVE OneEventEach'
  BY <1>5 DEF ClaimNothing, Leave
<1>6. ASSUME NEW j \in Jobs, LoadIneligible(j) PROVE OneEventEach'
  BY <1>6 DEF LoadIneligible, Load
<1>7. ASSUME NEW j \in Jobs, NEW r \in Requests, Post(j, r) PROVE OneEventEach'
  BY <1>7 DEF Post, Load
<1>8. ASSUME NEW j \in Jobs, MarkSent(j) PROVE OneEventEach'
  BY <1>8 DEF MarkSent, Written
<1>9. ASSUME NEW j \in Jobs, Complete(j) PROVE OneEventEach'
  BY <1>9 DEF Complete, Leave, Written
<1>10. ASSUME NEW j \in Jobs, MarkFailed(j) PROVE OneEventEach'
  BY <1>10 DEF MarkFailed, Written
<1>11. ASSUME NEW j \in Jobs, KillEvent(j) PROVE OneEventEach'
  BY <1>11 DEF KillEvent, Leave, Written
<1>12. ASSUME NEW j \in Jobs, FailEvent(j) PROVE OneEventEach'
  BY <1>12 DEF FailEvent, Leave, Written
<1>13. ASSUME NEW j \in Jobs, Reschedule(j) PROVE OneEventEach'
  BY <1>13 DEF Reschedule
<1>14. ASSUME NEW j \in Jobs, RetriesExhausted(j) PROVE OneEventEach'
  BY <1>14 DEF RetriesExhausted, Leave
<1>15. ASSUME NEW r \in Requests, GoReplay(r) PROVE OneEventEach'
  BY <1>15 DEF GoReplay, Answer, IdleRequest
<1>16. ASSUME NEW r \in Requests, GoMiss(r) PROVE OneEventEach'
  BY <1>16 DEF GoMiss
<1>17. ASSUME NEW r \in Requests, GoDeclines(r) PROVE OneEventEach'
  BY <1>17 DEF GoDeclines, Answer, IdleRequest
<1>18. ASSUME NEW r \in Requests, ProviderAccepts(r) PROVE OneEventEach'
  BY <1>18 DEF ProviderAccepts
<1>19. ASSUME NEW r \in Requests, ProviderRefuses(r) PROVE OneEventEach'
  BY <1>19 DEF ProviderRefuses, Answer, IdleRequest, Fallback
<1>20. ASSUME NEW r \in Requests, ProviderAnswerLost(r) PROVE OneEventEach'
  BY <1>20 DEF ProviderAnswerLost, Answer, IdleRequest, Fallback, Lose
<1>21. ASSUME NEW r \in Requests, GoResponds(r) PROVE OneEventEach'
  BY <1>21 DEF GoResponds, Answer, IdleRequest
<1>22. ASSUME NEW j \in Jobs, RaisesBeforeCall(j) PROVE OneEventEach'
  BY <1>22 DEF RaisesBeforeCall, Load
<1>23. ASSUME NEW j \in Jobs, Timeout(j) PROVE OneEventEach'
  BY <1>23 DEF Timeout, Goto, Disconnect, Lose
<1>24. ASSUME NEW j \in Jobs, WriteFails(j) PROVE OneEventEach'
  BY <1>24 DEF WriteFails, Goto
<1>25. ASSUME NEW r \in Requests, GoCrash(r) PROVE OneEventEach'
  BY <1>25 DEF GoCrash, Answer, IdleRequest, Lose, Waiting
<1>26. ASSUME NEW o \in Events, EnqueueLost(o) PROVE OneEventEach'
  BY <1>26 DEF EnqueueLost
<1>27. ASSUME NEW j \in Jobs, ReleaseFails(j) PROVE OneEventEach'
  BY <1>27 DEF ReleaseFails, Leave
<1>28. ASSUME NEW j \in Jobs, Kill(j) PROVE OneEventEach'
  BY <1>28 DEF Kill, Leave, Disconnect
<1>29. ASSUME NEW j \in Jobs, Shutdown(j) PROVE OneEventEach'
  BY <1>29 DEF Shutdown, Leave, Disconnect
<1>30. ASSUME NEW j \in Jobs, ClaimRaises(j) PROVE OneEventEach'
  BY <1>30 DEF ClaimRaises, Goto
<1>31. QED  BY <1>1, <1>2, <1>3, <1>4, <1>5, <1>6, <1>7, <1>8, <1>9, <1>10,
        <1>11, <1>12, <1>13, <1>14, <1>15, <1>16, <1>17, <1>18, <1>19, <1>20,
        <1>21, <1>22, <1>23, <1>24, <1>25, <1>26, <1>27, <1>28, <1>29, <1>30
       DEF Next, Running, Dispatching, Perform, Serve, Error, Crash

HIDE DEF OneEventEach

-----------------------------------------------------------------------------
(*****************************************************************************)
(* An answer of the engine: the request is gone, and the caller that still   *)
(* waits moves on.                                                           *)
(*****************************************************************************)
(* What an answer changes, caller by caller and request by request.        *)
Moved(r, pc) ==
  /\ \A s \in Requests : request'[s] = IF s = r THEN IdleRequest ELSE request[s]
  /\ \A j \in Jobs : job'[j].event = job[j].event
  /\ \A j \in Jobs : j # request[r].client => job'[j] = job[j]
  /\ \A j \in Jobs : j = request[r].client =>
       /\ job[j].pc = "calling" /\ job'[j].pc = pc /\ job'[j].seenEmail = job[j].seenEmail
       /\ event[job[j].event].email = request[r].email

(* Answer does so.                                                         *)
LEMMA AnswerMoves ==
  ASSUME TypeOK, WellFormed, CallersMatch, NEW r \in Requests, NEW pc \in PC, Answer(r, pc)
  PROVE  Moved(r, pc)
BY DEF Answer, Moved

-----------------------------------------------------------------------------
(*****************************************************************************)
(* Successes go back to an acceptance.                                       *)
(*****************************************************************************)
USE DEF SuccessBacked, Backed, SameKey, Keys

(* An answer keeps it, if one that says success is backed.                 *)
LEMMA SuccessAnswered ==
  ASSUME TypeOK, WellFormed, CallersMatch, SuccessBacked,
         NEW r \in Requests, NEW pc \in {"answered", "rejected", "erring"}, Moved(r, pc),
         UNCHANGED rows,
         \A f \in Emails : accepted[f] > 0 => accepted'[f] > 0,
         \A k \in stored' : \E f \in Emails : accepted'[f] > 0 /\ KeyOf[f] = k,
         pc = "answered" => Backed(request[r].email)
  PROVE  SuccessBacked'
<1>1. ASSUME NEW s \in Requests, request'[s].phase = "delivered" PROVE accepted'[request'[s].email] > 0
  BY <1>1 DEF Moved, IdleRequest
<1>2. \A e \in Emails : Backed(e) => Backed(e)'
  OBVIOUS
<1>3. ASSUME NEW j \in Jobs, job'[j].pc \in {"answered", "sentmarked"} PROVE Backed(EmailOf(j))'
  <2>1. job'[j].event = job[j].event /\ EmailOf(j)' = EmailOf(j)
    BY DEF Moved
  <2>2. Backed(EmailOf(j))
    BY <1>3, <2>1 DEF Moved
  <2>3. job[j].pc # "free"
    BY <1>3 DEF Moved
  <2>4. EmailOf(j) \in Emails
    BY <2>3
  <2>5. QED  BY <1>2, <2>1, <2>2, <2>4
<1>4. ASSUME NEW e \in Emails, email'[e] = "sent" PROVE Backed(e)'
  <2> HIDE DEF Backed, TypeOK, WellFormed, CallersMatch, Moved
  <2>1. email' = email
    BY DEF rows
  <2>2. Backed(e)
    BY ZenonT(20), <1>4, <2>1
  <2>3. QED  BY <1>2, <2>2
<1>5. QED  BY <1>1, <1>3, <1>4

(* So does every action.                                                   *)
LEMMA SuccessStep ==
  ASSUME TypeOK, WellFormed, CallersMatch, SuccessBacked, Next PROVE SuccessBacked'
<1>1. ASSUME NEW e \in Emails, NEW o \in Events, Dispatch(e, o) PROVE SuccessBacked'
  BY <1>1 DEF Dispatch
<1>2. ASSUME NEW o \in Events, NEW j \in Jobs, Enqueue(o, j) PROVE SuccessBacked'
  BY <1>2 DEF Enqueue, Push
<1>3. ASSUME NEW o \in Events, NEW j \in Jobs, RequeueOrphaned(o, j) PROVE SuccessBacked'
  BY <1>3 DEF RequeueOrphaned, Push
<1>4. ASSUME NEW j \in Jobs, Claim(j) PROVE SuccessBacked'
  BY <1>4 DEF Claim, Goto
<1>5. ASSUME NEW j \in Jobs, ClaimNothing(j) PROVE SuccessBacked'
  BY <1>5 DEF ClaimNothing, Leave
<1>6. ASSUME NEW j \in Jobs, LoadIneligible(j) PROVE SuccessBacked'
  BY <1>6 DEF LoadIneligible, Load
<1>7. ASSUME NEW j \in Jobs, NEW r \in Requests, Post(j, r) PROVE SuccessBacked'
  BY <1>7 DEF Post, Load
<1>8. ASSUME NEW j \in Jobs, MarkSent(j) PROVE SuccessBacked'
  BY <1>8 DEF MarkSent, Written
<1>9. ASSUME NEW j \in Jobs, Complete(j) PROVE SuccessBacked'
  BY <1>9 DEF Complete, Leave, Written
<1>10. ASSUME NEW j \in Jobs, MarkFailed(j) PROVE SuccessBacked'
  BY <1>10 DEF MarkFailed, Written
<1>11. ASSUME NEW j \in Jobs, KillEvent(j) PROVE SuccessBacked'
  BY <1>11 DEF KillEvent, Leave, Written
<1>12. ASSUME NEW j \in Jobs, FailEvent(j) PROVE SuccessBacked'
  BY <1>12 DEF FailEvent, Leave, Written
<1>13. ASSUME NEW j \in Jobs, Reschedule(j) PROVE SuccessBacked'
  BY <1>13 DEF Reschedule
<1>14. ASSUME NEW j \in Jobs, RetriesExhausted(j) PROVE SuccessBacked'
  BY <1>14 DEF RetriesExhausted, Leave
<1>15. ASSUME NEW r \in Requests, GoReplay(r) PROVE SuccessBacked'
  <2>1. Moved(r, "answered")
    BY <1>15, AnswerMoves DEF GoReplay
  <2>2. Backed(request[r].email)
    BY <1>15 DEF GoReplay, Key
  <2>3. /\ UNCHANGED rows
        /\ \A f \in Emails : accepted[f] > 0 => accepted'[f] > 0
        /\ \A k \in stored' : \E f \in Emails : accepted'[f] > 0 /\ KeyOf[f] = k
    BY <1>15 DEF GoReplay
  <2> HIDE DEF TypeOK, WellFormed, CallersMatch, SuccessBacked, Backed
  <2>4. QED  BY <2>1, <2>2, <2>3, SuccessAnswered
<1>16. ASSUME NEW r \in Requests, GoMiss(r) PROVE SuccessBacked'
  BY <1>16 DEF GoMiss
<1>17. ASSUME NEW r \in Requests, GoDeclines(r) PROVE SuccessBacked'
  <2>1. PICK pc \in {"rejected", "erring"} : Moved(r, pc)
    BY <1>17, AnswerMoves DEF GoDeclines
  <2>2. QED  BY <1>17, <2>1, SuccessAnswered DEF GoDeclines
<1>18. ASSUME NEW r \in Requests, ProviderAccepts(r) PROVE SuccessBacked'
  BY <1>18 DEF ProviderAccepts
<1>19. ASSUME NEW r \in Requests, ProviderRefuses(r) PROVE SuccessBacked'
  <2>1. CASE \E pc \in {"rejected", "erring"} : Moved(r, pc)
    BY <1>19, <2>1, SuccessAnswered DEF ProviderRefuses
  <2>2. CASE Fallback(r) /\ UNCHANGED job
    BY <1>19, <2>2 DEF ProviderRefuses, Fallback
  <2>3. QED  BY <1>19, <2>1, <2>2, AnswerMoves DEF ProviderRefuses
<1>20. ASSUME NEW r \in Requests, ProviderAnswerLost(r) PROVE SuccessBacked'
  <2>1. \A f \in Emails : accepted[f] > 0 => accepted'[f] > 0
    BY <1>20 DEF ProviderAnswerLost
  <2>2. \A k \in stored' : \E f \in Emails : accepted'[f] > 0 /\ KeyOf[f] = k
    BY <1>20, <2>1 DEF ProviderAnswerLost
  <2>3. CASE Moved(r, "erring")
    BY <1>20, <2>1, <2>2, <2>3, SuccessAnswered DEF ProviderAnswerLost
  <2>4. CASE Fallback(r) /\ UNCHANGED job
    BY <1>20, <2>4 DEF ProviderAnswerLost, Fallback
  <2>5. QED  BY <1>20, <2>3, <2>4, AnswerMoves DEF ProviderAnswerLost
<1>21. ASSUME NEW r \in Requests, GoResponds(r) PROVE SuccessBacked'
  <2>1. Moved(r, "answered")
    BY <1>21, AnswerMoves DEF GoResponds
  <2>2. accepted[request[r].email] > 0
    BY <1>21 DEF GoResponds
  <2>3. \A k \in stored' : \E f \in Emails : accepted'[f] > 0 /\ KeyOf[f] = k
    BY <1>21, <2>2 DEF GoResponds, Key
  <2>4. QED  BY <1>21, <2>1, <2>2, <2>3, SuccessAnswered DEF GoResponds
<1>22. ASSUME NEW j \in Jobs, RaisesBeforeCall(j) PROVE SuccessBacked'
  BY <1>22 DEF RaisesBeforeCall, Load
<1>23. ASSUME NEW j \in Jobs, Timeout(j) PROVE SuccessBacked'
  BY <1>23 DEF Timeout, Goto, Disconnect, Lose
<1>24. ASSUME NEW j \in Jobs, WriteFails(j) PROVE SuccessBacked'
  BY <1>24 DEF WriteFails, Goto
<1>25. ASSUME NEW r \in Requests, GoCrash(r) PROVE SuccessBacked'
  <2>1. Moved(r, "erring")
    BY <1>25, AnswerMoves DEF GoCrash
  <2>2. QED  BY <1>25, <2>1, SuccessAnswered DEF GoCrash
<1>26. ASSUME NEW o \in Events, EnqueueLost(o) PROVE SuccessBacked'
  BY <1>26 DEF EnqueueLost
<1>27. ASSUME NEW j \in Jobs, ReleaseFails(j) PROVE SuccessBacked'
  BY <1>27 DEF ReleaseFails, Leave
<1>28. ASSUME NEW j \in Jobs, Kill(j) PROVE SuccessBacked'
  BY <1>28 DEF Kill, Leave, Disconnect
<1>29. ASSUME NEW j \in Jobs, Shutdown(j) PROVE SuccessBacked'
  BY <1>29 DEF Shutdown, Leave, Disconnect
<1>30. ASSUME NEW j \in Jobs, ClaimRaises(j) PROVE SuccessBacked'
  BY <1>30 DEF ClaimRaises, Goto
<1>31. QED  BY <1>1, <1>2, <1>3, <1>4, <1>5, <1>6, <1>7, <1>8, <1>9, <1>10,
        <1>11, <1>12, <1>13, <1>14, <1>15, <1>16, <1>17, <1>18, <1>19, <1>20,
        <1>21, <1>22, <1>23, <1>24, <1>25, <1>26, <1>27, <1>28, <1>29, <1>30
       DEF Next, Running, Dispatching, Perform, Serve, Error, Crash

HIDE DEF SuccessBacked, Backed, SameKey, Keys

-----------------------------------------------------------------------------
(*****************************************************************************)
(* Failures that lost nothing reached no provider.                           *)
(*****************************************************************************)
USE DEF OneEventEach, FailureClean, Clean, Untouched, HolderSeesRow, SingleHolder

(* An answer keeps it, if one that says failure to a caller found nothing  *)
(* accepted.                                                               *)
LEMMA FailureAnswered ==
  ASSUME TypeOK, WellFormed, CallersMatch, FailureClean,
         NEW r \in Requests, Active(r), NEW a \in Emails, a = request[r].email,
         NEW pc \in {"answered", "rejected", "erring"}, Moved(r, pc), UNCHANGED rows,
         \A e \in Emails : Clean(e)' => Clean(e) /\ accepted'[e] = accepted[e],
         request[r].client # None /\ Clean(a)' => accepted[a] = 0 \/ pc = "answered"
  PROVE  FailureClean'
<1>1. \A s \in Requests : Active(s)' => s # r /\ request'[s] = request[s]
  BY DEF Moved, IdleRequest
<1>2. \A e \in Emails : Untouched(e) /\ Clean(e)' => Untouched(e)'
  BY <1>1
<1>3. ASSUME NEW e \in Emails, Clean(e)', NEW j \in Jobs, job'[j].pc \in Working, EmailOf(j)' = e
      PROVE  /\ job'[j].pc \in {"claimed", "rejected", "failmarked", "erring"} => Untouched(e)'
             /\ job'[j].pc \in {"claimed", "calling", "answered", "rejected", "erring"} =>
                  email'[e] = "queued"
             /\ job'[j].pc \in {"calling", "answered"} => job'[j].seenEmail = "queued"
             /\ job'[j].pc = "sentmarked" => email'[e] = "sent"
             /\ job'[j].pc = "calling" =>
                  \A s \in Requests : Active(s)' /\ request'[s].email = e =>
                    /\ request'[s].client = j
                    /\ request'[s].phase # "delivered" => accepted'[e] = 0
  <2>1. job[j].pc \in Working /\ EmailOf(j) = e /\ Clean(e)
    BY <1>3 DEF Moved
  <2>2. CASE j # request[r].client
    <3>1. job'[j] = job[j]
      BY <2>2 DEF Moved
    <3>2. QED  BY <1>1, <1>2, <1>3, <2>1, <3>1
  <2>3. CASE j = request[r].client
    <3>1. /\ job[j].pc = "calling" /\ job'[j].pc = pc /\ e = a
          /\ job'[j].seenEmail = job[j].seenEmail
      BY <2>1, <2>3 DEF Moved
    <3>2. \A s \in Requests : Active(s) /\ request[s].email = e => s = r
      BY <2>1, <2>3, <3>1
    <3>3. email[e] = "queued" /\ job[j].seenEmail = "queued"
      BY <2>1, <3>1
    <3>4. pc # "answered" => Untouched(e)'
      <4>1. pc # "answered" => accepted'[e] = 0
        BY <1>3, <2>3, <3>1
      <4>2. QED  BY <1>1, <3>2, <4>1
    <3>5. QED  BY <2>1, <3>1, <3>3, <3>4
  <2>4. QED  BY <2>2, <2>3
<1>4. ASSUME NEW e \in Emails, Clean(e)'
      PROVE  /\ email'[e] = "failed" => Untouched(e)'
             /\ \A o \in Events : event'[o].status = "pending" /\ event'[o].email = e =>
                  email'[e] = "queued" /\ Untouched(e)'
  <2> HIDE DEF TypeOK, WellFormed, CallersMatch, Clean, Untouched, Moved
  <2>1. Clean(e) /\ UNCHANGED <<email, event>>
    BY <1>4 DEF rows
  <2>2. /\ email[e] = "failed" => Untouched(e)
        /\ \A o \in Events : event[o].status = "pending" /\ event[o].email = e =>
             email[e] = "queued" /\ Untouched(e)
    BY SMTT(30), <2>1
  <2>3. QED  BY <1>2, <1>4, <2>1, <2>2
<1>5. QED  BY <1>3, <1>4

(* So does every action: who works on an email without losses is the only  *)
(* one.                                                                    *)
LEMMA FailureStep ==
  ASSUME TypeOK, WellFormed, HolderSeesRow, SingleHolder, CallersMatch, OneEventEach,
         FailureClean, Next
  PROVE  FailureClean'
<1>1. ASSUME NEW e \in Emails, NEW o \in Events, Dispatch(e, o) PROVE FailureClean'
  BY <1>1 DEF Dispatch
<1>2. ASSUME NEW o \in Events, NEW j \in Jobs, Enqueue(o, j) PROVE FailureClean'
  BY <1>2 DEF Enqueue, Push
<1>3. ASSUME NEW o \in Events, NEW j \in Jobs, RequeueOrphaned(o, j) PROVE FailureClean'
  BY <1>3 DEF RequeueOrphaned, Push
<1>4. ASSUME NEW j \in Jobs, Claim(j) PROVE FailureClean'
  BY <1>4 DEF Claim, Goto
<1>5. ASSUME NEW j \in Jobs, ClaimNothing(j) PROVE FailureClean'
  BY <1>5 DEF ClaimNothing, Leave
<1>6. ASSUME NEW j \in Jobs, LoadIneligible(j) PROVE FailureClean'
  BY <1>6 DEF LoadIneligible, Load
<1>7. ASSUME NEW j \in Jobs, NEW r \in Requests, Post(j, r) PROVE FailureClean'
  <2>1. PICK a \in Emails : a = EmailOf(j)
    BY <1>7 DEF Post
  <2>2. /\ job[j].pc = "claimed" /\ job'[j].pc = "calling" /\ job'[j].event = job[j].event
        /\ job'[j].seenEmail = email[a]
        /\ \A k \in Jobs : k # j => job'[k] = job[k]
    BY <1>7, <2>1 DEF Post, Load
  <2>3. /\ \A s \in Requests : s # r => request'[s] = request[s]
        /\ request'[r].email = a /\ request'[r].client = j /\ request[r].phase = "idle"
        /\ UNCHANGED <<email, event, accepted, losses>>
    BY <1>7, <2>1 DEF Post
  <2>4. ASSUME NEW k \in Jobs, k # j, job[k].pc \in Working PROVE EmailOf(k) # a
    BY <2>1, <2>2, <2>4
  <2>5. ASSUME NEW o \in Events, event[o].status = "pending" PROVE event[o].email # a
    BY <2>1, <2>2, <2>5
  <2>6. \A e \in Emails : e # a /\ Untouched(e) => Untouched(e)'
    BY <2>3
  <2>7. Clean(a) => email[a] = "queued" /\ Untouched(a)
    BY <2>1, <2>2
  <2>8. \A e \in Emails : Clean(e)' <=> Clean(e)
    BY <2>3
  <2>9. ASSUME NEW e \in Emails, Clean(e)'
        PROVE  /\ email'[e] = "failed" => Untouched(e)'
               /\ \A o \in Events : event'[o].status = "pending" /\ event'[o].email = e =>
                    email'[e] = "queued" /\ Untouched(e)'
    <3>1. CASE e = a
      BY <2>3, <2>5, <2>7, <2>8, <2>9, <3>1
    <3>2. CASE e # a
      <4>1. /\ Clean(e) /\ email'[e] = email[e]
            /\ \A o \in Events : event'[o] = event[o]
            /\ Untouched(e) => Untouched(e)'
        BY <2>3, <2>6, <2>8, <2>9, <3>2
      <4>2. /\ email[e] = "failed" => Untouched(e)
            /\ \A o \in Events : event[o].status = "pending" /\ event[o].email = e =>
                 email[e] = "queued" /\ Untouched(e)
        BY <4>1
      <4> HIDE DEF TypeOK, WellFormed, HolderSeesRow, CallersMatch, OneEventEach, FailureClean,
                   Untouched, SingleHolder
      <4>3. QED  BY <4>1, <4>2
    <3>3. QED  BY <3>1, <3>2
  <2>10. ASSUME NEW e \in Emails, Clean(e)', NEW k \in Jobs, job'[k].pc \in Working, EmailOf(k)' = e
         PROVE  /\ job'[k].pc \in {"claimed", "rejected", "failmarked", "erring"} => Untouched(e)'
                /\ job'[k].pc \in {"claimed", "calling", "answered", "rejected", "erring"} =>
                     email'[e] = "queued"
                /\ job'[k].pc \in {"calling", "answered"} => job'[k].seenEmail = "queued"
                /\ job'[k].pc = "sentmarked" => email'[e] = "sent"
                /\ job'[k].pc = "calling" =>
                     \A s \in Requests : Active(s)' /\ request'[s].email = e =>
                       /\ request'[s].client = k
                       /\ request'[s].phase # "delivered" => accepted'[e] = 0
    <3>1. CASE k = j
      <4>1. e = a
        BY <2>1, <2>2, <2>3, <2>10, <3>1
      <4>2. \A s \in Requests : Active(s)' /\ request'[s].email = a => s = r
        BY <2>3, <2>7, <2>8, <2>10, <4>1
      <4>3. QED  BY <2>2, <2>3, <2>7, <2>8, <2>10, <3>1, <4>1, <4>2
    <3>2. CASE k # j
      <4>1. job'[k] = job[k] /\ EmailOf(k) = e /\ Clean(e)
        BY <2>2, <2>3, <2>8, <2>10, <3>2
      <4>2. e # a
        BY <2>4, <2>10, <3>2, <4>1
      <4>3. \A s \in Requests : Active(s)' /\ request'[s].email = e =>
              Active(s) /\ request[s].email = e /\ request'[s] = request[s]
        BY <2>3, <4>2
      <4>4. job[k].pc = "calling" =>
              \A s \in Requests : Active(s)' /\ request'[s].email = e =>
                /\ request'[s].client = k
                /\ request'[s].phase # "delivered" => accepted'[e] = 0
        BY <2>3, <2>10, <4>1, <4>3
      <4>5. job[k].pc \in {"claimed", "rejected", "failmarked", "erring"} => Untouched(e)'
        BY <2>6, <2>10, <4>1, <4>2
      <4>6. QED  BY <2>3, <2>10, <4>1, <4>4, <4>5
    <3>3. QED  BY <3>1, <3>2
  <2>11. QED  BY <2>9, <2>10
<1>8. ASSUME NEW j \in Jobs, MarkSent(j) PROVE FailureClean'
  <2>1. PICK a \in Emails : a = EmailOf(j)
    BY <1>8 DEF MarkSent
  <2>2. /\ \A e \in Emails : e # a => email'[e] = email[e]
        /\ \A k \in Jobs : k # j => job'[k] = job[k]
        /\ job[j].pc = "answered" /\ job'[j].pc = "sentmarked" /\ job'[j].event = job[j].event
        /\ email'[a] = Written(job[j].seenEmail, "sent", email[a])
        /\ UNCHANGED <<event, request, accepted, losses>>
    BY <1>8, <2>1 DEF MarkSent
  <2>3. Clean(a) => email[a] = "queued" /\ email'[a] = "sent"
    BY <2>1, <2>2 DEF Written
  <2>4. ASSUME NEW k \in Jobs, k # j, job[k].pc \in Working PROVE EmailOf(k) # a
    BY <2>1, <2>2, <2>4
  <2>5. ASSUME NEW o \in Events, event[o].status = "pending" PROVE event[o].email # a
    BY <2>1, <2>2, <2>5
  <2>6. \A e \in Emails : (Clean(e)' <=> Clean(e)) /\ (Untouched(e)' <=> Untouched(e))
    BY <2>2
  <2>7. ASSUME NEW e \in Emails, Clean(e)'
        PROVE  /\ email'[e] = "failed" => Untouched(e)'
               /\ \A o \in Events : event'[o].status = "pending" /\ event'[o].email = e =>
                    email'[e] = "queued" /\ Untouched(e)'
    BY <2>1, <2>2, <2>3, <2>5, <2>6, <2>7
  <2>8. ASSUME NEW e \in Emails, Clean(e)', NEW k \in Jobs, job'[k].pc \in Working, EmailOf(k)' = e
        PROVE  /\ job'[k].pc \in {"claimed", "rejected", "failmarked", "erring"} => Untouched(e)'
               /\ job'[k].pc \in {"claimed", "calling", "answered", "rejected", "erring"} =>
                    email'[e] = "queued"
               /\ job'[k].pc \in {"calling", "answered"} => job'[k].seenEmail = "queued"
               /\ job'[k].pc = "sentmarked" => email'[e] = "sent"
               /\ job'[k].pc = "calling" =>
                    \A r \in Requests : Active(r)' /\ request'[r].email = e =>
                      /\ request'[r].client = k
                      /\ request'[r].phase # "delivered" => accepted'[e] = 0
    <3>1. CASE k = j
      BY <2>1, <2>2, <2>3, <2>8, <3>1
    <3>2. CASE k # j
      BY <2>1, <2>2, <2>4, <2>6, <2>8, <3>2
    <3>3. QED  BY <3>1, <3>2
  <2>9. QED  BY <2>7, <2>8
<1>9. ASSUME NEW j \in Jobs, Complete(j) PROVE FailureClean'
  BY <1>9 DEF Complete, Leave, Written
<1>10. ASSUME NEW j \in Jobs, MarkFailed(j) PROVE FailureClean'
  <2>1. PICK a \in Emails : a = EmailOf(j)
    BY <1>10 DEF MarkFailed
  <2>2. /\ \A e \in Emails : e # a => email'[e] = email[e]
        /\ \A k \in Jobs : k # j => job'[k] = job[k]
        /\ job[j].pc = "rejected" /\ job'[j].pc = "failmarked" /\ job'[j].event = job[j].event
        /\ email'[a] = Written(job[j].seenEmail, "failed", email[a])
        /\ UNCHANGED <<event, request, accepted, losses>>
    BY <1>10, <2>1 DEF MarkFailed
  <2>3. Clean(a) => Untouched(a)
    BY <2>1, <2>2
  <2>4. ASSUME NEW k \in Jobs, k # j, job[k].pc \in Working PROVE EmailOf(k) # a
    BY <2>1, <2>2, <2>4
  <2>5. ASSUME NEW o \in Events, event[o].status = "pending" PROVE event[o].email # a
    BY <2>1, <2>2, <2>5
  <2>6. \A e \in Emails : (Clean(e)' <=> Clean(e)) /\ (Untouched(e)' <=> Untouched(e))
    BY <2>2
  <2>7. ASSUME NEW e \in Emails, Clean(e)'
        PROVE  /\ email'[e] = "failed" => Untouched(e)'
               /\ \A o \in Events : event'[o].status = "pending" /\ event'[o].email = e =>
                    email'[e] = "queued" /\ Untouched(e)'
    <3>1. CASE e = a
      BY <2>2, <2>3, <2>5, <2>6, <2>7, <3>1
    <3>2. CASE e # a
      BY <2>2, <2>6, <2>7, <3>2
    <3>3. QED  BY <3>1, <3>2
  <2>8. ASSUME NEW e \in Emails, Clean(e)', NEW k \in Jobs, job'[k].pc \in Working, EmailOf(k)' = e
        PROVE  /\ job'[k].pc \in {"claimed", "rejected", "failmarked", "erring"} => Untouched(e)'
               /\ job'[k].pc \in {"claimed", "calling", "answered", "rejected", "erring"} =>
                    email'[e] = "queued"
               /\ job'[k].pc \in {"calling", "answered"} => job'[k].seenEmail = "queued"
               /\ job'[k].pc = "sentmarked" => email'[e] = "sent"
               /\ job'[k].pc = "calling" =>
                    \A s \in Requests : Active(s)' /\ request'[s].email = e =>
                      /\ request'[s].client = k
                      /\ request'[s].phase # "delivered" => accepted'[e] = 0
    <3>1. CASE k = j
      BY <2>1, <2>2, <2>3, <2>6, <2>8, <3>1
    <3>2. CASE k # j
      <4>1. job'[k] = job[k] /\ EmailOf(k) = e /\ Clean(e)
        BY <2>2, <2>6, <2>8, <3>2
      <4>2. e # a
        BY <2>4, <2>8, <3>2, <4>1
      <4>3. QED  BY <2>2, <2>6, <2>8, <4>1, <4>2
    <3>3. QED  BY <3>1, <3>2
  <2>9. QED  BY <2>7, <2>8
<1>11. ASSUME NEW j \in Jobs, KillEvent(j) PROVE FailureClean'
  BY <1>11 DEF KillEvent, Leave, Written
<1>12. ASSUME NEW j \in Jobs, FailEvent(j) PROVE FailureClean'
  BY <1>12 DEF FailEvent, Leave, Written
<1>13. ASSUME NEW j \in Jobs, Reschedule(j) PROVE FailureClean'
  BY <1>13 DEF Reschedule
<1>14. ASSUME NEW j \in Jobs, RetriesExhausted(j) PROVE FailureClean'
  BY <1>14 DEF RetriesExhausted, Leave
<1>15. ASSUME NEW r \in Requests, GoReplay(r) PROVE FailureClean'
  <2>1. PICK a \in Emails : a = request[r].email
    BY <1>15 DEF GoReplay
  <2>2. Moved(r, "answered")
    BY <1>15, AnswerMoves DEF GoReplay
  <2>3. QED  BY <1>15, <2>1, <2>2, FailureAnswered DEF GoReplay
<1>16. ASSUME NEW r \in Requests, GoMiss(r) PROVE FailureClean'
  BY <1>16 DEF GoMiss
<1>17. ASSUME NEW r \in Requests, GoDeclines(r) PROVE FailureClean'
  <2>1. PICK a \in Emails : a = request[r].email
    BY <1>17 DEF GoDeclines
  <2>2. PICK pc \in {"rejected", "erring"} : Moved(r, pc)
    BY <1>17, AnswerMoves DEF GoDeclines
  <2>3. request[r].client # None /\ Clean(a) => accepted[a] = 0
    <3>1. SUFFICES ASSUME request[r].client # None, Clean(a) PROVE accepted[a] = 0
      OBVIOUS
    <3>2. PICK j \in Jobs : j = request[r].client /\ job[j].pc = "calling" /\ EmailOf(j) = a
      BY <2>1, <3>1
    <3>3. QED  BY <1>17, <2>1, <3>1, <3>2 DEF GoDeclines
  <2>4. QED  BY <1>17, <2>1, <2>2, <2>3, FailureAnswered DEF GoDeclines
<1>18. ASSUME NEW r \in Requests, ProviderAccepts(r) PROVE FailureClean'
  BY <1>18 DEF ProviderAccepts
<1>19. ASSUME NEW r \in Requests, ProviderRefuses(r) PROVE FailureClean'
  <2>1. PICK a \in Emails : a = request[r].email
    BY <1>19 DEF ProviderRefuses
  <2>2. request[r].client # None /\ Clean(a) => accepted[a] = 0
    <3>1. SUFFICES ASSUME request[r].client # None, Clean(a) PROVE accepted[a] = 0
      OBVIOUS
    <3>2. PICK j \in Jobs : j = request[r].client /\ job[j].pc = "calling" /\ EmailOf(j) = a
      BY <2>1, <3>1
    <3>3. QED  BY <1>19, <2>1, <3>1, <3>2 DEF ProviderRefuses
  <2>3. CASE \E pc \in {"rejected", "erring"} : Moved(r, pc)
    BY <1>19, <2>1, <2>2, <2>3, FailureAnswered DEF ProviderRefuses
  <2>4. CASE Fallback(r) /\ UNCHANGED job
    BY <1>19, <2>4 DEF ProviderRefuses, Fallback
  <2>5. QED  BY <1>19, <2>3, <2>4, AnswerMoves DEF ProviderRefuses
<1>20. ASSUME NEW r \in Requests, ProviderAnswerLost(r) PROVE FailureClean'
  <2>1. PICK a \in Emails : a = request[r].email
    BY <1>20 DEF ProviderAnswerLost
  <2>2. /\ ~Clean(a)'
        /\ \A e \in Emails : Clean(e)' => Clean(e) /\ accepted'[e] = accepted[e]
    BY <1>20, <2>1 DEF ProviderAnswerLost, Lose
  <2>3. CASE Moved(r, "erring")
    BY <1>20, <2>1, <2>2, <2>3, FailureAnswered DEF ProviderAnswerLost
  <2>4. CASE Fallback(r) /\ UNCHANGED job
    BY <1>20, <2>1, <2>2, <2>4 DEF ProviderAnswerLost, Fallback
  <2>5. QED  BY <1>20, <2>3, <2>4, AnswerMoves DEF ProviderAnswerLost
<1>21. ASSUME NEW r \in Requests, GoResponds(r) PROVE FailureClean'
  <2>1. PICK a \in Emails : a = request[r].email
    BY <1>21 DEF GoResponds
  <2>2. Moved(r, "answered")
    BY <1>21, AnswerMoves DEF GoResponds
  <2>3. QED  BY <1>21, <2>1, <2>2, FailureAnswered DEF GoResponds
<1>22. ASSUME NEW j \in Jobs, RaisesBeforeCall(j) PROVE FailureClean'
  BY <1>22 DEF RaisesBeforeCall, Load
<1>23. ASSUME NEW j \in Jobs, Timeout(j) PROVE FailureClean'
  BY <1>23 DEF Timeout, Goto, Disconnect, Lose
<1>24. ASSUME NEW j \in Jobs, WriteFails(j) PROVE FailureClean'
  BY <1>24 DEF WriteFails, Goto
<1>25. ASSUME NEW r \in Requests, GoCrash(r) PROVE FailureClean'
  <2>1. PICK a \in Emails : a = request[r].email
    BY <1>25 DEF GoCrash
  <2>2. Moved(r, "erring")
    BY <1>25, AnswerMoves DEF GoCrash
  <2>3. /\ request[r].client # None => ~Clean(a)'
        /\ \A e \in Emails : Clean(e)' => Clean(e) /\ accepted'[e] = accepted[e]
    BY <1>25, <2>1 DEF GoCrash, Lose, Waiting
  <2>4. QED  BY <1>25, <2>1, <2>2, <2>3, FailureAnswered DEF GoCrash
<1>26. ASSUME NEW o \in Events, EnqueueLost(o) PROVE FailureClean'
  BY <1>26 DEF EnqueueLost
<1>27. ASSUME NEW j \in Jobs, ReleaseFails(j) PROVE FailureClean'
  BY <1>27 DEF ReleaseFails, Leave
<1>28. ASSUME NEW j \in Jobs, Kill(j) PROVE FailureClean'
  BY <1>28 DEF Kill, Leave, Disconnect
<1>29. ASSUME NEW j \in Jobs, Shutdown(j) PROVE FailureClean'
  BY <1>29 DEF Shutdown, Leave, Disconnect
<1>30. ASSUME NEW j \in Jobs, ClaimRaises(j) PROVE FailureClean'
  BY <1>30 DEF ClaimRaises, Goto
<1>31. QED  BY <1>1, <1>2, <1>3, <1>4, <1>5, <1>6, <1>7, <1>8, <1>9, <1>10,
        <1>11, <1>12, <1>13, <1>14, <1>15, <1>16, <1>17, <1>18, <1>19, <1>20,
        <1>21, <1>22, <1>23, <1>24, <1>25, <1>26, <1>27, <1>28, <1>29, <1>30
       DEF Next, Running, Dispatching, Perform, Serve, Error, Crash

HIDE DEF OneEventEach, FailureClean, Clean, Untouched, HolderSeesRow, SingleHolder, CallersMatch

-----------------------------------------------------------------------------
(*****************************************************************************)
(* Acceptances are paid for: counting.                                       *)
(*****************************************************************************)
(* No email has spent more of its allowance than before.                   *)
NoDearer ==
  \A e \in Emails :
    /\ IsFiniteSet(Armed(e)')
    /\ Spent(e)' + Allowance(e) <= Spent(e) + Allowance(e)'

(* The quantities are numbers,                                             *)
LEMMA Counted ==
  ASSUME TypeOK, AcceptancesPaid, NEW e \in Emails
  PROVE  IsFiniteSet(Armed(e)) /\ Cardinality(Armed(e)) \in Nat /\ Spent(e) \in Nat /\ Allowance(e) \in Nat
<1>1. IsFiniteSet(Armed(e))
  BY DEF AcceptancesPaid
<1>2. Cardinality(Armed(e)) \in Nat
  BY <1>1, FS_CardinalityType
<1>3. QED  BY <1>1, <1>2 DEF Spent, Allowance, TypeOK

(* in the next state, too.                                                 *)
LEMMA CountedPrime ==
  ASSUME TypeOK', NEW e \in Emails, IsFiniteSet(Armed(e)')
  PROVE  Spent(e)' \in Nat /\ Allowance(e)' \in Nat /\ Cardinality(Armed(e)') \in Nat
<1>2. Cardinality(Armed(e)') \in Nat
  BY FS_CardinalityType
<1>3. QED  BY <1>2 DEF Spent, Allowance, TypeOK

(* An email that was in order stays so when nothing got dearer.            *)
LEMMA Cheaper ==
  ASSUME TypeOK, TypeOK', AcceptancesPaid, NoDearer, stored \subseteq stored'
  PROVE  \A e \in Emails : /\ IsFiniteSet(Armed(e))' /\ Spent(e)' <= Allowance(e)' + 1
                           /\ Within(e) => Within(e)'
                           /\ IsStored(e) => IsStored(e)'
<1> SUFFICES ASSUME NEW e \in Emails
             PROVE  /\ IsFiniteSet(Armed(e))' /\ Spent(e)' <= Allowance(e)' + 1
                    /\ Within(e) => Within(e)'
                    /\ IsStored(e) => IsStored(e)'
  OBVIOUS
<1>1. IsFiniteSet(Armed(e)') /\ Spent(e)' + Allowance(e) <= Spent(e) + Allowance(e)'
  BY DEF NoDearer
<1>2. Spent(e) \in Nat /\ Allowance(e) \in Nat /\ Spent(e)' \in Nat /\ Allowance(e)' \in Nat
  BY <1>1, Counted, CountedPrime
<1>3. IsStored(e) => IsStored(e)'
  BY DEF IsStored
<1>4. Spent(e) <= Allowance(e) + 1
  BY DEF AcceptancesPaid
<1>5. Within(e) => Within(e)'
  BY <1>1, <1>2, <1>3 DEF Within
<1>6. QED  BY <1>1, <1>2, <1>3, <1>4, <1>5

(* Nothing gets dearer when no request is armed and every acceptance is    *)
(* paid.                                                                   *)
LEMMA ShrinkCheaper ==
  ASSUME TypeOK, TypeOK', AcceptancesPaid,
         \A e \in Emails : Armed(e)' \subseteq Armed(e),
         \A e \in Emails : accepted'[e] + lost[e] <= accepted[e] + lost'[e],
         \A e \in Emails : unwritten'[e] >= unwritten[e]
  PROVE  NoDearer
<1> SUFFICES ASSUME NEW e \in Emails
             PROVE  IsFiniteSet(Armed(e)') /\ Spent(e)' + Allowance(e) <= Spent(e) + Allowance(e)'
  BY DEF NoDearer
<1>1. IsFiniteSet(Armed(e)) /\ Cardinality(Armed(e)) \in Nat
  BY Counted
<1>2. IsFiniteSet(Armed(e)') /\ Cardinality(Armed(e)') <= Cardinality(Armed(e))
  BY <1>1, FS_Subset
<1>3. Cardinality(Armed(e)') \in Nat
  BY <1>2, CountedPrime
<1>4. /\ accepted[e] \in Nat /\ lost[e] \in Nat /\ unwritten[e] \in Nat
      /\ accepted'[e] \in Nat /\ lost'[e] \in Nat /\ unwritten'[e] \in Nat
      /\ accepted'[e] + lost[e] <= accepted[e] + lost'[e] /\ unwritten'[e] >= unwritten[e]
  OBVIOUS
<1> HIDE DEF TypeOK
<1>5. QED  BY <1>1, <1>2, <1>3, <1>4 DEF Spent, Allowance

(* A loss pays for the acceptance that may have come of the request.       *)
LEMMA PaidOff ==
  ASSUME TypeOK, TypeOK', AcceptancesPaid, NEW e \in Emails, IsFiniteSet(Armed(e)'),
         Spent(e)' <= Spent(e), Allowance(e)' >= Allowance(e) + 1
  PROVE  Within(e)'
<1>1. Spent(e) \in Nat /\ Allowance(e) \in Nat /\ Spent(e)' \in Nat /\ Allowance(e)' \in Nat
  BY Counted, CountedPrime
<1>2. Spent(e) <= Allowance(e) + 1
  BY DEF AcceptancesPaid
<1> HIDE DEF TypeOK
<1>3. Spent(e)' <= Allowance(e)'
  BY <1>1, <1>2
<1>4. QED  BY <1>3 DEF Within

(* A request that is disarmed counts no more.                              *)
LEMMA Disarmed ==
  ASSUME TypeOK, TypeOK', AcceptancesPaid, NEW e \in Emails, NEW r \in Armed(e),
         Armed(e)' \subseteq Armed(e) \ {r}
  PROVE  IsFiniteSet(Armed(e)') /\ Cardinality(Armed(e)') + 1 <= Cardinality(Armed(e))
<1>1. IsFiniteSet(Armed(e)) /\ Cardinality(Armed(e)) \in Nat
  BY Counted
<1>2. IsFiniteSet(Armed(e) \ {r}) /\ Cardinality(Armed(e) \ {r}) = Cardinality(Armed(e)) - 1
  BY <1>1, FS_RemoveElement
<1>3. IsFiniteSet(Armed(e)') /\ Cardinality(Armed(e)') <= Cardinality(Armed(e) \ {r})
  BY <1>2, FS_Subset
<1>4. Cardinality(Armed(e)') \in Nat
  BY <1>3, CountedPrime
<1> HIDE DEF TypeOK
<1>5. QED  BY <1>1, <1>2, <1>3, <1>4

(* An answer disarms its request.                                          *)
LEMMA AnswerDisarms ==
  ASSUME TypeOK, NEW r \in Requests, NEW pc, Moved(r, pc), stored \subseteq stored'
  PROVE  \A e \in Emails : Armed(e)' \subseteq Armed(e) \ {r}
BY DEF Moved, IdleRequest, Armed, IsStored

(* Who changes no phase arms and disarms nothing.                          *)
LEMMA SamePhases ==
  ASSUME TypeOK, UNCHANGED stored,
         \A s \in Requests : request'[s].phase = request[s].phase /\ request'[s].email = request[s].email
  PROVE  \A e \in Emails : Armed(e)' = Armed(e)
BY DEF Armed, IsStored

(* A request that ends without an acceptance puts its email in order.      *)
LEMMA Repaid ==
  ASSUME TypeOK, TypeOK', AcceptancesPaid, NEW e \in Emails, NEW r \in Armed(e),
         Armed(e)' \subseteq Armed(e) \ {r}, accepted' = accepted, UNCHANGED losses
  PROVE  Within(e)'
<1>1. IsFiniteSet(Armed(e)') /\ Cardinality(Armed(e)') + 1 <= Cardinality(Armed(e))
  BY Disarmed
<1>2. Spent(e) \in Nat /\ Allowance(e) \in Nat /\ Cardinality(Armed(e)) \in Nat /\ Cardinality(Armed(e)') \in Nat
  BY <1>1, Counted, CountedPrime
<1>3. Spent(e) <= Allowance(e) + 1 /\ accepted[e] \in Nat
  BY DEF AcceptancesPaid
<1>4. Allowance(e)' = Allowance(e)
  BY DEF Allowance
<1> HIDE DEF TypeOK
<1>5. Spent(e)' + 1 <= Spent(e)
  BY <1>1, <1>2, <1>3 DEF Spent
<1>6. Spent(e)' \in Nat
  BY <1>2, <1>3 DEF Spent
<1>7. QED  BY <1>2, <1>3, <1>4, <1>5, <1>6 DEF Within

-----------------------------------------------------------------------------
(*****************************************************************************)
(* Acceptances are paid for: which emails are open.                          *)
(*****************************************************************************)
(* It is enough that an email that opens is in order and that a success    *)
(* has its key stored.                                                     *)
LEMMA PaidKept ==
  ASSUME TypeOK, TypeOK', AcceptancesPaid, NoDearer, stored \subseteq stored',
         \A e \in Emails : Open(e)' => Open(e) \/ Within(e)',
         \A e \in Emails : Succeeded(e)' => Succeeded(e) \/ ~ReliableStore \/ KeyOf[e] = None \/ IsStored(e)'
  PROVE  AcceptancesPaid'
BY Cheaper DEF AcceptancesPaid

(* An answer does so if its own email is treated well.                     *)
LEMMA PaidAnswered ==
  ASSUME TypeOK, TypeOK', WellFormed, CallersMatch, AcceptancesPaid, NoDearer, stored \subseteq stored',
         UNCHANGED rows,
         NEW r \in Requests, NEW a \in Emails, a = request[r].email,
         NEW pc \in {"answered", "rejected", "erring"}, Moved(r, pc),
         pc = "answered" /\ ReliableStore => KeyOf[a] = None \/ IsStored(a)',
         request[r].client # None /\ pc # "answered" => Within(a)'
  PROVE  AcceptancesPaid'
<1>1. ASSUME NEW e \in Emails, NEW j \in Jobs, job'[j].pc \in Working, EmailOf(j)' = e
      PROVE  /\ EmailOf(j) = e
             /\ job'[j] = job[j] \/ (job'[j].pc = pc /\ e = a /\ request[r].client # None)
  BY <1>1 DEF Moved
<1>2. ASSUME NEW e \in Emails, Open(e)' PROVE Open(e) \/ Within(e)'
  BY <1>1, <1>2 DEF Open
<1>3. ASSUME NEW e \in Emails, Succeeded(e)'
      PROVE  Succeeded(e) \/ ~ReliableStore \/ KeyOf[e] = None \/ IsStored(e)'
  BY <1>1, <1>3 DEF Succeeded
<1>4. QED  BY <1>2, <1>3, PaidKept

(* A step that leaves engine and losses alone makes nothing dearer,        *)
LEMMA QuietSame ==
  ASSUME TypeOK, TypeOK', AcceptancesPaid, UNCHANGED <<engine, losses>>
  PROVE  NoDearer
<1>1. \A e \in Emails : Armed(e)' \subseteq Armed(e)
  BY DEF Armed, IsStored
<1>2. \A e \in Emails : accepted'[e] + lost[e] <= accepted[e] + lost'[e] /\ unwritten'[e] >= unwritten[e]
  OBVIOUS
<1>3. QED  BY <1>1, <1>2, ShrinkCheaper

(* and only has to open no email that is not in order.                     *)
LEMMA QuietPaid ==
  ASSUME TypeOK, TypeOK', AcceptancesPaid, UNCHANGED <<engine, losses>>,
         \A e \in Emails : (Open(e)' => Open(e) \/ Within(e)') /\ (Succeeded(e)' => Succeeded(e))
  PROVE  AcceptancesPaid'
BY QuietSame, PaidKept

(* The places of a job at which its email is open.                         *)
OpenPC == {"claimed", "rejected", "failmarked", "erring"}

(* A job that moves within its own event opens nothing new.                *)
LEMMA HolderMoves ==
  ASSUME TypeOK, WellFormed, NEW j \in Jobs, NEW o \in Events, job[j].pc \in Working, o = job[j].event,
         job'[j].event = o, \A k \in Jobs : k # j => job'[k] = job[k],
         event'[o].email = event[o].email, \A p \in Events : p # o => event'[p] = event[p],
         event'[o].status = "pending" => event[o].status = "pending" \/ job[j].pc \in OpenPC,
         job'[j].pc \in OpenPC => job[j].pc \in OpenPC,
         job'[j].pc \in {"answered", "sentmarked"} => job[j].pc \in {"answered", "sentmarked"}
  PROVE  \A e \in Emails : (Open(e)' => Open(e)) /\ (Succeeded(e)' => Succeeded(e))
<1>1. \A p \in Events : event'[p].email = event[p].email
  OBVIOUS
<1>2. \A k \in Jobs : job'[k].event = job[k].event
  OBVIOUS
<1>3. \A k \in Jobs : EmailOf(k)' = EmailOf(k) \/ job[k].pc = "free"
  BY <1>1, <1>2
<1>4. \A k \in Jobs : k # j => job'[k].pc = job[k].pc
  OBVIOUS
<1>5. ASSUME NEW e \in Emails, Open(e)' PROVE Open(e)
  <2>1. CASE \E p \in Events : event'[p].status = "pending" /\ event'[p].email = e
    <3>1. PICK p \in Events : event'[p].status = "pending" /\ event'[p].email = e
      BY <2>1
    <3>2. CASE p = o /\ event[o].status # "pending"
      BY <3>1, <3>2 DEF Open, OpenPC
    <3>3. CASE p # o \/ event[o].status = "pending"
      BY <1>1, <3>1, <3>3 DEF Open
    <3>4. QED  BY <3>2, <3>3
  <2>2. CASE \E k \in Jobs : job'[k].pc \in OpenPC /\ EmailOf(k)' = e
    <3>1. PICK k \in Jobs : job'[k].pc \in OpenPC /\ EmailOf(k)' = e
      BY <2>2
    <3>2. job[k].pc \in OpenPC
      BY <1>4, <3>1
    <3>3. EmailOf(k) = e
      BY <1>3, <3>1, <3>2 DEF OpenPC
    <3>4. QED  BY <3>2, <3>3 DEF Open, OpenPC
  <2>3. QED  BY <1>5, <2>1, <2>2 DEF Open, OpenPC
<1>6. ASSUME NEW e \in Emails, Succeeded(e)' PROVE Succeeded(e)
  BY <1>3, <1>4, <1>6 DEF Succeeded
<1>7. QED  BY <1>5, <1>6

(* A job that loads its rows.                                              *)
LEMMA LoadMoves ==
  ASSUME TypeOK, NEW j \in Jobs, NEW pc, Load(j, pc)
  PROVE  /\ job'[j].pc = pc /\ job'[j].event = job[j].event
         /\ \A k \in Jobs : k # j => job'[k] = job[k]
BY DEF Load

-----------------------------------------------------------------------------
(*****************************************************************************)
(* Every action pays.                                                        *)
(*****************************************************************************)
USE DEF HolderSeesRow

(* A new email owes nothing.                                               *)
LEMMA DispatchPaid ==
  ASSUME TypeOK, TypeOK', WellFormed, HolderSeesRow, SingleHolder, CallersMatch, OneEventEach,
         AcceptancesPaid,
         NEW d \in Emails, NEW o \in Events, Dispatch(d, o)
  PROVE  AcceptancesPaid'
<1> USE DEF SingleHolder, OneEventEach
<1>1. accepted[d] = 0 /\ email[d] = "none"
  BY DEF Dispatch
<1>2. Armed(d) = {}
  BY <1>1 DEF Armed
<1>3. Armed(d)' = {}
  BY <1>2 DEF Armed, IsStored, Dispatch
<1>4. Spent(d)' = 0
  BY <1>1, <1>3, FS_EmptySet DEF Spent, Dispatch
<1>5. Within(d)'
  <2>1. Allowance(d)' \in Nat
    BY DEF Allowance
  <2> HIDE DEF TypeOK
  <2>2. QED  BY <1>4, <2>1 DEF Within
<1>6. ASSUME NEW e \in Emails PROVE (Open(e)' => Open(e) \/ e = d) /\ (Succeeded(e)' => Succeeded(e))
  <2>1. \A p \in Events : p # o => event'[p] = event[p]
    BY DEF Dispatch
  <2>2. event'[o].email = d
    BY DEF Dispatch
  <2>3. \A j \in Jobs : job[j].pc \in Working => EmailOf(j)' = EmailOf(j)
    BY <2>1 DEF Dispatch
  <2>4. job' = job
    BY DEF Dispatch
  <2>5. Open(e)' => Open(e) \/ e = d
    BY <2>1, <2>2, <2>3, <2>4 DEF Open
  <2>6. Succeeded(e)' => Succeeded(e)
    BY <2>3, <2>4 DEF Succeeded
  <2>7. QED  BY <2>5, <2>6
<1>7. QED  BY <1>5, <1>6, QuietPaid DEF Dispatch

(* Who posts holds the only event of the email, which is in order, and     *)
(* closes it.                                                              *)
LEMMA PostPaid ==
  ASSUME TypeOK, TypeOK', WellFormed, HolderSeesRow, SingleHolder, CallersMatch, OneEventEach,
         AcceptancesPaid,
         NEW j \in Jobs, NEW r \in Requests, Post(j, r)
  PROVE  AcceptancesPaid'
<1> USE DEF SingleHolder, OneEventEach
<1>1. PICK a \in Emails : a = EmailOf(j)
  BY DEF Post
<1>2. /\ job[j].pc = "claimed" /\ job'[j].pc = "calling" /\ job'[j].event = job[j].event
      /\ \A k \in Jobs : k # j => job'[k] = job[k]
  BY LoadMoves DEF Post
<1>3. /\ \A s \in Requests : s # r => request'[s] = request[s]
      /\ request'[r].email = a /\ request'[r].phase = "received" /\ request[r].phase = "idle"
      /\ UNCHANGED <<rows, unqueued, stored, accepted, losses>>
  BY <1>1 DEF Post
<1>4. ASSUME NEW e \in Emails, e # a PROVE Armed(e)' = Armed(e)
  <2> HIDE DEF TypeOK, WellFormed, HolderSeesRow, SingleHolder, CallersMatch, OneEventEach
  <2>1. QED  BY <1>3, <1>4 DEF Armed, IsStored
<1>5. Within(a)
  <2>1. Open(a)
    BY <1>1, <1>2 DEF Open
  <2>2. QED  BY <2>1 DEF AcceptancesPaid
<1>6. ~Open(a)'
  <2>1. PICK o \in Events : o = job[j].event /\ event[o].email = a
                            /\ event[o].status \in {"processing", "dead"}
    BY <1>1, <1>2
  <2>2. \A p \in Events : event[p].email = a /\ event[p].status # "absent" => p = o
    BY <2>1
  <2>3. \A k \in Jobs : job[k].pc \in Working /\ EmailOf(k) = a => k = j
    BY <1>2, <2>1, <2>2
  <2>4. ASSUME NEW k \in Jobs, job'[k].pc \in OpenPC, EmailOf(k)' = a PROVE FALSE
    <3>1. k # j /\ job'[k] = job[k]
      BY <1>2, <2>4 DEF OpenPC
    <3>2. EmailOf(k) = a /\ job[k].pc \in Working
      BY <1>3, <2>4, <3>1 DEF OpenPC
    <3>3. QED  BY <2>3, <3>1, <3>2
  <2>5. QED  BY <1>3, <2>1, <2>2, <2>4 DEF Open, OpenPC
<1>7. ASSUME NEW e \in Emails PROVE (Open(e)' => Open(e)) /\ (Succeeded(e)' => Succeeded(e))
  <2>1. \A k \in Jobs : job[k].pc # "free" => EmailOf(k)' = EmailOf(k)
    BY <1>2, <1>3
  <2>2. \A k \in Jobs : k # j => job'[k].pc = job[k].pc
    BY <1>2
  <2> HIDE DEF EmailOf, TypeOK, WellFormed
  <2>3. Open(e)' => Open(e)
    BY <1>2, <1>3, <2>1, <2>2 DEF Open
  <2>4. Succeeded(e)' => Succeeded(e)
    BY <1>2, <2>1, <2>2 DEF Succeeded
  <2>5. QED  BY <2>3, <2>4
<1>8. ASSUME NEW e \in Emails PROVE Allowance(e)' = Allowance(e) /\ (IsStored(e)' <=> IsStored(e))
  BY <1>3 DEF Allowance, IsStored
<1>9. ASSUME NEW e \in Emails, e # a PROVE Spent(e)' = Spent(e) /\ (Within(e)' <=> Within(e))
  BY <1>3, <1>4, <1>8, <1>9 DEF Spent, Within
<1>10. IsFiniteSet(Armed(a)') /\ Spent(a)' <= Allowance(a)' + 1
  <2>1. IsFiniteSet(Armed(a)) /\ Cardinality(Armed(a)) \in Nat /\ Spent(a) \in Nat /\ Allowance(a) \in Nat
    BY Counted
  <2>2. accepted'[a] = accepted[a] /\ accepted[a] \in Nat
    BY <1>3
  <2>3. r \notin Armed(a)
    BY <1>3 DEF Armed
  <2>4. CASE ReliableStore /\ IsStored(a)
    <3>1. Armed(a)' = Armed(a)
      <4>1. IsStored(a)'
        BY <1>8, <2>4
      <4>2. ASSUME NEW s \in Requests PROVE s \in Armed(a)' <=> s \in Armed(a)
        <5>1. CASE s = r
          BY <1>3, <2>3, <2>4, <4>1, <5>1 DEF Armed
        <5>2. CASE s # r
          BY <1>3, <2>4, <4>1, <5>2 DEF Armed
        <5>3. QED  BY <5>1, <5>2
      <4>3. QED  BY <4>2 DEF Armed
    <3>2. Spent(a) <= Allowance(a) + 1
      BY DEF AcceptancesPaid
    <3>3. QED  BY <1>8, <2>1, <2>2, <3>1, <3>2 DEF Spent
  <2>5. CASE ~(ReliableStore /\ IsStored(a))
    <3>1. Armed(a)' = Armed(a) \union {r}
      BY <1>3, <1>8, <2>5 DEF Armed
    <3>2. IsFiniteSet(Armed(a)') /\ Cardinality(Armed(a)') = Cardinality(Armed(a)) + 1
      BY <2>1, <2>3, <3>1, FS_AddElement
    <3>3. Spent(a) <= Allowance(a)
      BY <1>5, <2>5 DEF Within
    <3> HIDE DEF TypeOK
    <3>4. QED  BY <1>8, <2>1, <2>2, <3>2, <3>3 DEF Spent
  <2>6. QED  BY <2>4, <2>5
<1>11. ASSUME NEW e \in Emails
       PROVE  /\ IsFiniteSet(Armed(e)') /\ Spent(e)' <= Allowance(e)' + 1
              /\ Open(e)' => Within(e)'
              /\ Succeeded(e)' /\ ReliableStore => KeyOf[e] = None \/ IsStored(e)'
  <2>1. CASE e = a
    BY <1>6, <1>7, <1>8, <1>10, <2>1 DEF AcceptancesPaid
  <2>2. CASE e # a
    BY <1>4, <1>7, <1>8, <1>9, <2>2 DEF AcceptancesPaid
  <2>3. QED  BY <2>1, <2>2
<1>12. QED  BY <1>11 DEF AcceptancesPaid

(* The event that fail! releases was open in the hands of its job.         *)
LEMMA FailEventPaid ==
  ASSUME TypeOK, TypeOK', WellFormed, HolderSeesRow, SingleHolder, CallersMatch, OneEventEach,
         AcceptancesPaid,
         NEW j \in Jobs, FailEvent(j)
  PROVE  AcceptancesPaid'
<1>1. PICK o \in Events : o = job[j].event
  BY DEF FailEvent
<1>2. /\ job[j].pc = "erring" /\ job'[j].pc = "raised" /\ job'[j].event = o
      /\ \A k \in Jobs : k # j => job'[k] = job[k]
      /\ event'[o].email = event[o].email
      /\ \A p \in Events : p # o => event'[p] = event[p]
  <2> HIDE DEF WellFormed, HolderSeesRow, SingleHolder, CallersMatch, OneEventEach
  <2>1. QED  BY <1>1 DEF FailEvent, Leave
<1> HIDE DEF TypeOK, WellFormed
<1>3. \A e \in Emails : (Open(e)' => Open(e)) /\ (Succeeded(e)' => Succeeded(e))
  BY <1>1, <1>2, HolderMoves DEF OpenPC
<1>4. QED  BY <1>3, QuietPaid DEF FailEvent

(* A replay arms nothing and leaves a stored key.                          *)
LEMMA GoReplayPaid ==
  ASSUME TypeOK, TypeOK', WellFormed, HolderSeesRow, SingleHolder, CallersMatch, OneEventEach,
         AcceptancesPaid,
         NEW r \in Requests, GoReplay(r)
  PROVE  AcceptancesPaid'
<1>1. PICK a \in Emails : a = request[r].email
  BY DEF GoReplay
<1>2. Moved(r, "answered")
  BY AnswerMoves DEF GoReplay
<1>3. NoDearer
  <2>1. \A e \in Emails : Armed(e)' \subseteq Armed(e)
    BY <1>2, AnswerDisarms DEF GoReplay
  <2>2. QED  BY <2>1, ShrinkCheaper DEF GoReplay
<1>4. IsStored(a)'
  BY <1>1 DEF GoReplay, Key, IsStored, Keys
<1>5. QED  BY <1>1, <1>2, <1>3, <1>4, PaidAnswered DEF GoReplay

(* A miss arms nothing that was not.                                       *)
LEMMA GoMissPaid ==
  ASSUME TypeOK, TypeOK', WellFormed, HolderSeesRow, SingleHolder, CallersMatch, OneEventEach,
         AcceptancesPaid,
         NEW r \in Requests, GoMiss(r)
  PROVE  AcceptancesPaid'
<1>1. \A e \in Emails : Armed(e)' \subseteq Armed(e)
  BY DEF GoMiss, Armed, IsStored, Key
<1>2. NoDearer
  BY <1>1, ShrinkCheaper DEF GoMiss
<1>3. ASSUME NEW e \in Emails PROVE (Open(e)' => Open(e)) /\ (Succeeded(e)' => Succeeded(e))
  BY DEF Open, Succeeded, GoMiss
<1>4. QED  BY <1>2, <1>3, PaidKept DEF GoMiss

(* A request that is declined is disarmed, unless the key stops the next.  *)
LEMMA GoDeclinesPaid ==
  ASSUME TypeOK, TypeOK', WellFormed, HolderSeesRow, SingleHolder, CallersMatch, OneEventEach,
         AcceptancesPaid,
         NEW r \in Requests, GoDeclines(r)
  PROVE  AcceptancesPaid'
<1>1. PICK a \in Emails : a = request[r].email
  BY DEF GoDeclines
<1>2. PICK pc \in {"rejected", "erring"} : Moved(r, pc)
  BY AnswerMoves DEF GoDeclines
<1>3. \A e \in Emails : Armed(e)' \subseteq Armed(e) \ {r}
  BY <1>2, AnswerDisarms DEF GoDeclines
<1>4. NoDearer
  BY <1>3, ShrinkCheaper DEF GoDeclines
<1>5. Within(a)'
  <2>1. CASE ReliableStore /\ IsStored(a)
    BY <2>1 DEF Within, IsStored, GoDeclines
  <2>2. CASE ~(ReliableStore /\ IsStored(a))
    <3>1. r \in Armed(a)
      BY <1>1, <2>2 DEF Armed, GoDeclines
    <3>2. QED  BY <1>3, <3>1, Repaid DEF GoDeclines
  <2>3. QED  BY <2>1, <2>2
<1>6. QED  BY <1>1, <1>2, <1>4, <1>5, PaidAnswered DEF GoDeclines

(* A request that is accepted is spent as it was armed.                    *)
LEMMA ProviderAcceptsPaid ==
  ASSUME TypeOK, TypeOK', WellFormed, HolderSeesRow, SingleHolder, CallersMatch, OneEventEach,
         AcceptancesPaid,
         NEW r \in Requests, ProviderAccepts(r)
  PROVE  AcceptancesPaid'
<1>1. PICK a \in Emails : a = request[r].email
  BY DEF ProviderAccepts
<1>2. r \in Armed(a)
  BY <1>1 DEF ProviderAccepts, Armed
<1>3. \A e \in Emails : Armed(e)' \subseteq Armed(e) \ {r}
  BY DEF ProviderAccepts, Armed, IsStored
<1>4. ASSUME NEW e \in Emails
      PROVE  IsFiniteSet(Armed(e)') /\ Spent(e)' + Allowance(e) <= Spent(e) + Allowance(e)'
  <2>1. Allowance(e)' = Allowance(e)
    BY DEF Allowance, ProviderAccepts
  <2>2. CASE e = a
    <3>1. IsFiniteSet(Armed(e)') /\ Cardinality(Armed(e)') + 1 <= Cardinality(Armed(e))
      BY <1>2, <1>3, <2>2, Disarmed
    <3>2. Cardinality(Armed(e)) \in Nat /\ Cardinality(Armed(e)') \in Nat /\ Allowance(e) \in Nat
      BY <3>1, Counted, CountedPrime
    <3>3. accepted[e] \in Nat /\ accepted'[e] = accepted[e] + 1
      BY <1>1, <2>2 DEF ProviderAccepts
    <3> HIDE DEF TypeOK
    <3>4. QED  BY <2>1, <3>1, <3>2, <3>3 DEF Spent
  <2>3. CASE e # a
    <3>1. IsFiniteSet(Armed(e)) /\ Cardinality(Armed(e)) \in Nat /\ Allowance(e) \in Nat
      BY Counted
    <3>2. IsFiniteSet(Armed(e)') /\ Cardinality(Armed(e)') <= Cardinality(Armed(e))
      BY <1>3, <3>1, FS_Subset
    <3>3. Cardinality(Armed(e)') \in Nat
      BY <3>2, CountedPrime
    <3>4. accepted[e] \in Nat /\ accepted'[e] = accepted[e]
      BY <1>1, <2>3 DEF ProviderAccepts
    <3> HIDE DEF TypeOK
    <3>5. QED  BY <2>1, <3>1, <3>2, <3>3, <3>4 DEF Spent
  <2>4. QED  BY <2>2, <2>3
<1>5. NoDearer
  BY <1>4 DEF NoDearer
<1>6. ASSUME NEW e \in Emails PROVE (Open(e)' => Open(e)) /\ (Succeeded(e)' => Succeeded(e))
  BY DEF Open, Succeeded, ProviderAccepts
<1>7. QED  BY <1>5, <1>6, PaidKept DEF ProviderAccepts

(* So is a refusal, and a fallback changes nothing.                        *)
LEMMA ProviderRefusesPaid ==
  ASSUME TypeOK, TypeOK', WellFormed, HolderSeesRow, SingleHolder, CallersMatch, OneEventEach,
         AcceptancesPaid,
         NEW r \in Requests, ProviderRefuses(r)
  PROVE  AcceptancesPaid'
<1>1. PICK a \in Emails : a = request[r].email
  BY DEF ProviderRefuses
<1>2. CASE \E pc \in {"rejected", "erring"} : Moved(r, pc)
  <2>1. PICK pc \in {"rejected", "erring"} : Moved(r, pc)
    BY <1>2
  <2>2. \A e \in Emails : Armed(e)' \subseteq Armed(e) \ {r}
    BY <2>1, AnswerDisarms DEF ProviderRefuses
  <2>3. NoDearer
    BY <2>2, ShrinkCheaper DEF ProviderRefuses
  <2>4. r \in Armed(a)
    BY <1>1 DEF Armed, ProviderRefuses
  <2>5. Within(a)'
    BY <2>2, <2>4, Repaid DEF ProviderRefuses
  <2>6. QED  BY <1>1, <2>1, <2>3, <2>5, PaidAnswered DEF ProviderRefuses
<1>3. CASE Fallback(r) /\ UNCHANGED job
  <2>1. \A e \in Emails : Armed(e)' = Armed(e)
    BY <1>3, SamePhases DEF ProviderRefuses, Fallback
  <2>2. NoDearer
    BY <2>1, ShrinkCheaper DEF ProviderRefuses
  <2>3. ASSUME NEW e \in Emails PROVE (Open(e)' => Open(e)) /\ (Succeeded(e)' => Succeeded(e))
    BY <1>3 DEF Open, Succeeded, ProviderRefuses
  <2>4. QED  BY <2>2, <2>3, PaidKept DEF ProviderRefuses
<1>4. QED  BY <1>2, <1>3, AnswerMoves DEF ProviderRefuses

(* An acceptance the engine does not hear of is paid for by the loss.      *)
LEMMA ProviderAnswerLostPaid ==
  ASSUME TypeOK, TypeOK', WellFormed, HolderSeesRow, SingleHolder, CallersMatch, OneEventEach,
         AcceptancesPaid,
         NEW r \in Requests, ProviderAnswerLost(r)
  PROVE  AcceptancesPaid'
<1>1. PICK a \in Emails : a = request[r].email
  BY DEF ProviderAnswerLost
<1>2. r \in Armed(a)
  BY <1>1 DEF Armed, ProviderAnswerLost
<1>3. \A e \in Emails : accepted'[e] + lost[e] <= accepted[e] + lost'[e] /\ unwritten'[e] >= unwritten[e]
  BY DEF ProviderAnswerLost, Lose
<1>4. CASE Moved(r, "erring")
  <2>1. \A e \in Emails : Armed(e)' \subseteq Armed(e) \ {r}
    BY <1>4, AnswerDisarms DEF ProviderAnswerLost
  <2>2. NoDearer
    BY <1>3, <2>1, ShrinkCheaper DEF ProviderAnswerLost
  <2>3. IsFiniteSet(Armed(a)') /\ Cardinality(Armed(a)') + 1 <= Cardinality(Armed(a))
    BY <1>2, <2>1, Disarmed
  <2>4. Cardinality(Armed(a)) \in Nat /\ Cardinality(Armed(a)') \in Nat
    BY <2>3, Counted, CountedPrime
  <2>5. accepted[a] \in Nat /\ accepted'[a] = accepted[a] + 1
    BY <1>1 DEF ProviderAnswerLost
  <2>6. Allowance(a)' = Allowance(a) + 1
    <3>1. lost[a] \in Nat /\ unwritten[a] \in Nat /\ lost'[a] = lost[a] + 1 /\ unwritten'[a] = unwritten[a]
      BY <1>1 DEF ProviderAnswerLost, Lose
    <3> HIDE DEF TypeOK
    <3>2. QED  BY <3>1 DEF Allowance
  <2>7. Spent(a)' <= Spent(a)
    <3> HIDE DEF TypeOK
    <3>1. QED  BY <2>3, <2>4, <2>5 DEF Spent
  <2>8. Allowance(a)' >= Allowance(a) + 1
    BY <2>6, Counted
  <2>9. Within(a)'
    BY <2>3, <2>7, <2>8, PaidOff
  <2>10. QED  BY <1>1, <1>4, <2>2, <2>9, PaidAnswered DEF ProviderAnswerLost
<1>5. CASE Fallback(r) /\ UNCHANGED job
  <2>1. \A e \in Emails : Armed(e)' = Armed(e)
    BY <1>5, SamePhases DEF ProviderAnswerLost, Fallback
  <2>2. NoDearer
    BY <1>3, <2>1, ShrinkCheaper
  <2>3. ASSUME NEW e \in Emails PROVE (Open(e)' => Open(e)) /\ (Succeeded(e)' => Succeeded(e))
    BY <1>5 DEF Open, Succeeded, ProviderAnswerLost
  <2>4. QED  BY <2>2, <2>3, PaidKept DEF ProviderAnswerLost
<1>6. QED  BY <1>4, <1>5, AnswerMoves DEF ProviderAnswerLost

(* A response leaves its key in the store before the caller has it.        *)
LEMMA GoRespondsPaid ==
  ASSUME TypeOK, TypeOK', WellFormed, HolderSeesRow, SingleHolder, CallersMatch, OneEventEach,
         AcceptancesPaid,
         NEW r \in Requests, GoResponds(r)
  PROVE  AcceptancesPaid'
<1>1. PICK a \in Emails : a = request[r].email
  BY DEF GoResponds
<1>2. Moved(r, "answered") /\ stored \subseteq stored'
  BY AnswerMoves DEF GoResponds
<1>3. NoDearer
  <2>1. \A e \in Emails : Armed(e)' \subseteq Armed(e)
    BY <1>2, AnswerDisarms
  <2>2. QED  BY <2>1, ShrinkCheaper DEF GoResponds
<1>4. ReliableStore => KeyOf[a] = None \/ IsStored(a)'
  BY <1>1 DEF GoResponds, Key, IsStored
<1>5. QED  BY <1>1, <1>2, <1>3, <1>4, PaidAnswered DEF GoResponds

(* A timeout pays for the request it leaves behind.                        *)
LEMMA TimeoutPaid ==
  ASSUME TypeOK, TypeOK', WellFormed, HolderSeesRow, SingleHolder, CallersMatch, OneEventEach,
         AcceptancesPaid,
         NEW j \in Jobs, Timeout(j)
  PROVE  AcceptancesPaid'
<1>1. PICK a \in Emails : a = EmailOf(j)
  BY DEF Timeout
<1>2. \A e \in Emails : Armed(e)' = Armed(e)
  BY SamePhases DEF Timeout, Disconnect
<1>3. \A e \in Emails : accepted'[e] + lost[e] <= accepted[e] + lost'[e] /\ unwritten'[e] >= unwritten[e]
  BY DEF Timeout, Lose
<1>4. NoDearer
  BY <1>2, <1>3, ShrinkCheaper
<1>5. Within(a)'
  <2>1. Spent(a)' = Spent(a) /\ IsFiniteSet(Armed(a)') /\ Spent(a) \in Nat /\ Allowance(a) \in Nat
    BY <1>2, Counted DEF Spent, Timeout
  <2>2. Allowance(a)' = Allowance(a) + 1
    <3>1. lost[a] \in Nat /\ unwritten[a] \in Nat /\ lost'[a] = lost[a] + 1 /\ unwritten'[a] = unwritten[a]
      BY <1>1 DEF Timeout, Lose
    <3> HIDE DEF TypeOK
    <3>2. QED  BY <3>1 DEF Allowance
  <2>3. Spent(a)' <= Spent(a) /\ Allowance(a)' >= Allowance(a) + 1
    <3> HIDE DEF TypeOK
    <3>1. QED  BY <2>1, <2>2
  <2>4. QED  BY <2>1, <2>3, PaidOff
<1>6. ASSUME NEW e \in Emails PROVE (Open(e)' => Open(e) \/ e = a) /\ (Succeeded(e)' => Succeeded(e))
  BY <1>1 DEF Open, Succeeded, Timeout, Goto
<1>7. QED  BY <1>4, <1>5, <1>6, PaidKept DEF Timeout

(* A write that fails is paid for, or the stored key stops the next        *)
(* request.                                                                *)
LEMMA WriteFailsPaid ==
  ASSUME TypeOK, TypeOK', WellFormed, HolderSeesRow, SingleHolder, CallersMatch, OneEventEach,
         AcceptancesPaid,
         NEW j \in Jobs, WriteFails(j)
  PROVE  AcceptancesPaid'
<1>1. PICK a \in Emails : a = EmailOf(j)
  BY DEF WriteFails
<1>2. \A e \in Emails : Armed(e)' = Armed(e)
  BY SamePhases DEF WriteFails
<1>3. \A e \in Emails : accepted'[e] + lost[e] <= accepted[e] + lost'[e] /\ unwritten'[e] >= unwritten[e]
  BY DEF WriteFails
<1>4. NoDearer
  BY <1>2, <1>3, ShrinkCheaper
<1>5. Within(a)'
  <2>1. CASE job[j].pc \in {"rejected", "failmarked"}
    <3>1. Open(a)
      BY <1>1, <2>1 DEF Open
    <3>2. Within(a)
      BY <3>1 DEF AcceptancesPaid
    <3>3. QED  BY <1>4, <3>2, Cheaper DEF WriteFails
  <2>2. CASE job[j].pc \in {"answered", "sentmarked"} /\ ReliableStore /\ KeyOf[a] # None
    <3>1. Succeeded(a)
      BY <1>1, <2>2 DEF Succeeded
    <3>2. IsStored(a)
      BY <2>2, <3>1 DEF AcceptancesPaid
    <3>3. IsStored(a)'
      BY <3>2 DEF IsStored, WriteFails
    <3>4. QED  BY <2>2, <3>3 DEF Within
  <2>3. CASE ~(ReliableStore /\ KeyOf[a] # None)
    <3>1. Spent(a)' = Spent(a) /\ IsFiniteSet(Armed(a)') /\ Spent(a) \in Nat /\ Allowance(a) \in Nat
      BY <1>2, Counted DEF Spent, WriteFails
    <3>2. Allowance(a)' = Allowance(a) + 1
      <4>1. lost[a] \in Nat /\ unwritten[a] \in Nat /\ lost'[a] = lost[a] /\ unwritten'[a] = unwritten[a] + 1
        BY <1>1 DEF WriteFails
      <4> HIDE DEF TypeOK
      <4>2. QED  BY <2>3, <4>1 DEF Allowance
    <3>3. Spent(a)' <= Spent(a) /\ Allowance(a)' >= Allowance(a) + 1
      <4> HIDE DEF TypeOK
      <4>1. QED  BY <3>1, <3>2
    <3>4. QED  BY <3>1, <3>3, PaidOff
  <2>4. QED  BY <2>1, <2>2, <2>3 DEF WriteFails
<1>6. ASSUME NEW e \in Emails PROVE (Open(e)' => Open(e) \/ e = a) /\ (Succeeded(e)' => Succeeded(e))
  BY <1>1 DEF Open, Succeeded, WriteFails, Goto
<1>7. QED  BY <1>4, <1>5, <1>6, PaidKept DEF WriteFails

(* So does the crash of the engine under a waiting caller.                 *)
LEMMA GoCrashPaid ==
  ASSUME TypeOK, TypeOK', WellFormed, HolderSeesRow, SingleHolder, CallersMatch, OneEventEach,
         AcceptancesPaid,
         NEW r \in Requests, GoCrash(r)
  PROVE  AcceptancesPaid'
<1>1. PICK a \in Emails : a = request[r].email
  BY DEF GoCrash
<1>2. Moved(r, "erring")
  BY AnswerMoves DEF GoCrash
<1>3. \A e \in Emails : Armed(e)' \subseteq Armed(e)
  BY <1>2, AnswerDisarms DEF GoCrash
<1>4. \A e \in Emails : accepted'[e] + lost[e] <= accepted[e] + lost'[e] /\ unwritten'[e] >= unwritten[e]
  <2>1. CASE Waiting(r)
    BY <2>1 DEF GoCrash, Lose
  <2>2. CASE ~Waiting(r)
    BY <2>2 DEF GoCrash
  <2>3. QED  BY <2>1, <2>2
<1>5. NoDearer
  BY <1>3, <1>4, ShrinkCheaper
<1>6. ASSUME request[r].client # None PROVE Within(a)'
  <2>1. Cardinality(Armed(a)') <= Cardinality(Armed(a)) /\ IsFiniteSet(Armed(a)')
    BY <1>3, Counted, FS_Subset
  <2>2. Spent(a)' <= Spent(a)
    <3>1. Cardinality(Armed(a)) \in Nat /\ Cardinality(Armed(a)') \in Nat
      BY <2>1, Counted, CountedPrime
    <3>2. accepted' = accepted /\ accepted[a] \in Nat
      BY DEF GoCrash
    <3> HIDE DEF TypeOK
    <3>3. QED  BY <2>1, <3>1, <3>2 DEF Spent
  <2>3. Allowance(a)' = Allowance(a) + 1 /\ Allowance(a) \in Nat
    BY <1>1, <1>6, Counted DEF GoCrash, Waiting, Lose, Allowance
  <2>4. QED  BY <2>1, <2>2, <2>3, PaidOff
<1>7. QED  BY <1>1, <1>2, <1>5, <1>6, PaidAnswered DEF GoCrash

(* A worker that dies leaves its event closed.                             *)
LEMMA KillPaid ==
  ASSUME TypeOK, TypeOK', WellFormed, HolderSeesRow, SingleHolder, CallersMatch, OneEventEach,
         AcceptancesPaid,
         NEW j \in Jobs, Kill(j)
  PROVE  AcceptancesPaid'
<1>1. \A e \in Emails : Armed(e)' = Armed(e)
  BY SamePhases DEF Kill, Disconnect
<1>2. NoDearer
  BY <1>1, ShrinkCheaper DEF Kill
<1>3. ASSUME NEW e \in Emails PROVE (Open(e)' => Open(e)) /\ (Succeeded(e)' => Succeeded(e))
  BY DEF Open, Succeeded, Kill, Leave
<1>4. QED  BY <1>2, <1>3, PaidKept DEF Kill

(* So does one that is shut down.                                          *)
LEMMA ShutdownPaid ==
  ASSUME TypeOK, TypeOK', WellFormed, HolderSeesRow, SingleHolder, CallersMatch, OneEventEach,
         AcceptancesPaid,
         NEW j \in Jobs, Shutdown(j)
  PROVE  AcceptancesPaid'
<1>1. \A e \in Emails : Armed(e)' = Armed(e)
  BY SamePhases DEF Shutdown, Disconnect
<1>2. NoDearer
  BY <1>1, ShrinkCheaper DEF Shutdown
<1>3. ASSUME NEW e \in Emails PROVE (Open(e)' => Open(e)) /\ (Succeeded(e)' => Succeeded(e))
  BY DEF Open, Succeeded, Shutdown, Leave
<1>4. QED  BY <1>2, <1>3, PaidKept DEF Shutdown

(* Every action keeps AcceptancesPaid.                                     *)
LEMMA PaidStep ==
  ASSUME TypeOK, TypeOK', WellFormed, HolderSeesRow, SingleHolder, CallersMatch, OneEventEach,
         AcceptancesPaid, Next
  PROVE  AcceptancesPaid'
<1>1. ASSUME NEW e \in Emails, NEW o \in Events, Dispatch(e, o) PROVE AcceptancesPaid'
  BY <1>1, DispatchPaid
<1>2. ASSUME NEW o \in Events, NEW j \in Jobs, Enqueue(o, j) PROVE AcceptancesPaid'
  <2>1. ASSUME NEW e \in Emails, Open(e)' PROVE Open(e)
    BY <1>2, <2>1 DEF Open, Enqueue, Push
  <2>2. ASSUME NEW e \in Emails, Succeeded(e)' PROVE Succeeded(e)
    BY <1>2, <2>2 DEF Succeeded, Enqueue, Push
  <2> HIDE DEF TypeOK, WellFormed, HolderSeesRow
  <2>3. QED  BY <1>2, <2>1, <2>2, QuietPaid DEF Enqueue
<1>3. ASSUME NEW o \in Events, NEW j \in Jobs, RequeueOrphaned(o, j) PROVE AcceptancesPaid'
  <2>1. ASSUME NEW e \in Emails, Open(e)' PROVE Open(e)
    BY <1>3, <2>1 DEF Open, RequeueOrphaned, Push
  <2>2. ASSUME NEW e \in Emails, Succeeded(e)' PROVE Succeeded(e)
    BY <1>3, <2>2 DEF Succeeded, RequeueOrphaned, Push
  <2> HIDE DEF TypeOK, WellFormed, HolderSeesRow
  <2>3. QED  BY <1>3, <2>1, <2>2, QuietPaid DEF RequeueOrphaned
<1>4. ASSUME NEW j \in Jobs, Claim(j) PROVE AcceptancesPaid'
  <2>1. PICK o \in Events : o = job[j].event /\ event[o].status = "pending"
    BY <1>4 DEF Claim
  <2>2. /\ \A p \in Events : p # o => event'[p] = event[p]
        /\ event'[o].status = "processing" /\ event'[o].email = event[o].email
        /\ \A k \in Jobs : job'[k].event = job[k].event
        /\ \A k \in Jobs : k # j => job'[k] = job[k]
        /\ job'[j].pc = "claimed"
    <3> HIDE DEF WellFormed, HolderSeesRow, SingleHolder, CallersMatch, OneEventEach
    <3>1. QED  BY <1>4, <2>1 DEF Claim, Goto
  <2>3. ASSUME NEW k \in Jobs, job'[k].pc \in Working PROVE EmailOf(k)' = EmailOf(k)
    <3> HIDE DEF HolderSeesRow, SingleHolder, CallersMatch, OneEventEach, AcceptancesPaid
    <3>1. job[k].event \in Events
      <4>1. CASE k = j
        BY <2>1, <4>1
      <4>2. CASE k # j
        BY <2>2, <2>3, <4>2 DEF TypeOK, WellFormed
      <4>3. QED  BY <4>1, <4>2
    <3>2. event'[job[k].event].email = event[job[k].event].email
      BY <2>2, <3>1
    <3>3. QED  BY <2>2, <3>2
  <2>4. ASSUME NEW e \in Emails, NEW p \in Events, event'[p].status = "pending", event'[p].email = e
        PROVE  Open(e)
    BY <2>2, <2>4 DEF Open
  <2>5. ASSUME NEW e \in Emails, NEW k \in Jobs, job'[k].pc \in OpenPC, EmailOf(k)' = e
        PROVE  Open(e)
    <3>1. EmailOf(k) = e
      BY <2>3, <2>5 DEF OpenPC
    <3>2. CASE k = j
      BY <2>1, <3>1, <3>2 DEF Open
    <3>3. CASE k # j
      BY <2>2, <2>5, <3>1, <3>3 DEF Open, OpenPC
    <3>4. QED  BY <3>2, <3>3
  <2>6. ASSUME NEW e \in Emails, Open(e)' PROVE Open(e)
    BY <2>4, <2>5, <2>6 DEF Open, OpenPC
  <2>7. ASSUME NEW e \in Emails, Succeeded(e)' PROVE Succeeded(e)
    <3> HIDE DEF TypeOK, WellFormed, HolderSeesRow, Claim
    <3>1. PICK k \in Jobs : job'[k].pc \in {"answered", "sentmarked"} /\ EmailOf(k)' = e
      BY ZenonT(10), <2>7 DEF Succeeded
    <3>2. k # j /\ job'[k].pc \in Working
      BY <2>2, <3>1
    <3>3. job'[k] = job[k]
      BY <2>2, <3>2
    <3>4. EmailOf(k)' = EmailOf(k)
      BY <2>3, <3>2
    <3>5. QED  BY <3>1, <3>3, <3>4 DEF Succeeded
  <2> HIDE DEF TypeOK, WellFormed, HolderSeesRow
  <2>8. QED  BY <1>4, <2>6, <2>7, QuietPaid DEF Claim
<1>5. ASSUME NEW j \in Jobs, ClaimNothing(j) PROVE AcceptancesPaid'
  <2>1. ASSUME NEW e \in Emails, Open(e)' PROVE Open(e)
    BY <1>5, <2>1 DEF Open, ClaimNothing, Leave
  <2>2. ASSUME NEW e \in Emails, Succeeded(e)' PROVE Succeeded(e)
    BY <1>5, <2>2 DEF Succeeded, ClaimNothing, Leave
  <2> HIDE DEF TypeOK, WellFormed, HolderSeesRow
  <2>3. QED  BY <1>5, <2>1, <2>2, QuietPaid DEF ClaimNothing
<1>6. ASSUME NEW j \in Jobs, LoadIneligible(j) PROVE AcceptancesPaid'
  <2>1. PICK o \in Events : o = job[j].event
    BY <1>6 DEF LoadIneligible
  <2>2. /\ job[j].pc = "claimed" /\ job'[j].pc = "rejected" /\ job'[j].event = o
        /\ \A k \in Jobs : k # j => job'[k] = job[k]
        /\ event' = event
    BY <1>6, <2>1, LoadMoves DEF LoadIneligible
  <2>3. \A e \in Emails : (Open(e)' => Open(e)) /\ (Succeeded(e)' => Succeeded(e))
    BY <2>1, <2>2, HolderMoves DEF OpenPC
  <2>4. QED  BY <1>6, <2>3, QuietPaid DEF LoadIneligible
<1>7. ASSUME NEW j \in Jobs, NEW r \in Requests, Post(j, r) PROVE AcceptancesPaid'
  BY <1>7, PostPaid
<1>8. ASSUME NEW j \in Jobs, MarkSent(j) PROVE AcceptancesPaid'
  <2>1. ASSUME NEW e \in Emails, Open(e)' PROVE Open(e)
    BY <1>8, <2>1 DEF Open, MarkSent, Written
  <2>2. ASSUME NEW e \in Emails, Succeeded(e)' PROVE Succeeded(e)
    BY <1>8, <2>2 DEF Succeeded, MarkSent, Written
  <2> HIDE DEF TypeOK, WellFormed, HolderSeesRow
  <2>3. QED  BY <1>8, <2>1, <2>2, QuietPaid DEF MarkSent
<1>9. ASSUME NEW j \in Jobs, Complete(j) PROVE AcceptancesPaid'
  <2>1. job[j].pc = "sentmarked"
    BY <1>9 DEF Complete
  <2>2. PICK o \in Events : o = job[j].event
    BY <2>1
  <2>3. /\ job'[j].pc = "done" /\ job'[j].event = o
        /\ \A k \in Jobs : k # j => job'[k] = job[k]
        /\ event'[o].email = event[o].email
        /\ \A p \in Events : p # o => event'[p] = event[p]
        /\ event'[o].status = "pending" => event[o].status = "pending"
    <3> HIDE DEF WellFormed, HolderSeesRow, SingleHolder, CallersMatch, OneEventEach
    <3>1. QED  BY <1>9, <2>2 DEF Complete, Leave, Written
  <2>4. \A e \in Emails : (Open(e)' => Open(e)) /\ (Succeeded(e)' => Succeeded(e))
    <3> HIDE DEF TypeOK, WellFormed
    <3>1. QED  BY <2>1, <2>2, <2>3, HolderMoves DEF OpenPC
  <2>5. QED  BY <1>9, <2>4, QuietPaid DEF Complete
<1>10. ASSUME NEW j \in Jobs, MarkFailed(j) PROVE AcceptancesPaid'
  <2>1. ASSUME NEW e \in Emails, Open(e)' PROVE Open(e)
    BY <1>10, <2>1 DEF Open, MarkFailed, Written
  <2>2. ASSUME NEW e \in Emails, Succeeded(e)' PROVE Succeeded(e)
    BY <1>10, <2>2 DEF Succeeded, MarkFailed, Written
  <2> HIDE DEF TypeOK, WellFormed, HolderSeesRow
  <2>3. QED  BY <1>10, <2>1, <2>2, QuietPaid DEF MarkFailed
<1>11. ASSUME NEW j \in Jobs, KillEvent(j) PROVE AcceptancesPaid'
  <2>1. job[j].pc = "failmarked"
    BY <1>11 DEF KillEvent
  <2>2. PICK o \in Events : o = job[j].event
    BY <2>1
  <2>3. /\ job'[j].pc = "done" /\ job'[j].event = o
        /\ \A k \in Jobs : k # j => job'[k] = job[k]
        /\ event'[o].email = event[o].email
        /\ \A p \in Events : p # o => event'[p] = event[p]
        /\ event'[o].status = "pending" => event[o].status = "pending"
    <3> HIDE DEF WellFormed, HolderSeesRow, SingleHolder, CallersMatch, OneEventEach
    <3>1. QED  BY <1>11, <2>2 DEF KillEvent, Leave, Written
  <2>4. \A e \in Emails : (Open(e)' => Open(e)) /\ (Succeeded(e)' => Succeeded(e))
    <3> HIDE DEF TypeOK, WellFormed
    <3>1. QED  BY <2>1, <2>2, <2>3, HolderMoves DEF OpenPC
  <2>5. QED  BY <1>11, <2>4, QuietPaid DEF KillEvent
<1>12. ASSUME NEW j \in Jobs, FailEvent(j) PROVE AcceptancesPaid'
  BY <1>12, FailEventPaid
<1>13. ASSUME NEW j \in Jobs, Reschedule(j) PROVE AcceptancesPaid'
  <2>1. ASSUME NEW e \in Emails, Open(e)' PROVE Open(e)
    BY <1>13, <2>1 DEF Open, Reschedule
  <2>2. ASSUME NEW e \in Emails, Succeeded(e)' PROVE Succeeded(e)
    BY <1>13, <2>2 DEF Succeeded, Reschedule
  <2> HIDE DEF TypeOK, WellFormed, HolderSeesRow
  <2>3. QED  BY <1>13, <2>1, <2>2, QuietPaid DEF Reschedule
<1>14. ASSUME NEW j \in Jobs, RetriesExhausted(j) PROVE AcceptancesPaid'
  <2>0. /\ job'[j].pc = "done"
        /\ \A k \in Jobs : k # j => job'[k] = job[k]
        /\ \A o \in Events : event'[o].email = event[o].email
        /\ \A o \in Events : event'[o].status = "pending" => event[o].status = "pending"
    <3> HIDE DEF WellFormed, HolderSeesRow, SingleHolder, CallersMatch, OneEventEach
    <3>1. QED  BY <1>14 DEF RetriesExhausted, Leave
  <2>1. ASSUME NEW e \in Emails, Open(e)' PROVE Open(e)
    <3>0. \A k \in Jobs : job[k].pc # "free" => job[k].event \in Events
      BY DEF WellFormed
    <3> HIDE DEF TypeOK, WellFormed, HolderSeesRow, SingleHolder, CallersMatch, OneEventEach
    <3>1. CASE \E o \in Events : event'[o].status = "pending" /\ event'[o].email = e
      <4>1. PICK o \in Events : event'[o].status = "pending" /\ event'[o].email = e
        BY <3>1
      <4>2. event[o].status = "pending" /\ event[o].email = e
        BY <2>0, <4>1
      <4>3. QED  BY <4>2 DEF Open
    <3>2. CASE \E k \in Jobs : /\ job'[k].pc \in {"claimed", "rejected", "failmarked", "erring"}
                              /\ EmailOf(k)' = e
      <4>1. PICK k \in Jobs : /\ job'[k].pc \in {"claimed", "rejected", "failmarked", "erring"}
                              /\ EmailOf(k)' = e
        BY <3>2
      <4>2. job'[k] = job[k]
        BY <2>0, <4>1
      <4>3. EmailOf(k) = e
        BY <2>0, <3>0, <4>1, <4>2
      <4>4. job[k].pc \in {"claimed", "rejected", "failmarked", "erring"}
        BY <4>1, <4>2
      <4>5. QED  BY <4>3, <4>4 DEF Open
    <3>3. QED  BY <2>1, <3>1, <3>2 DEF Open
  <2>2. ASSUME NEW e \in Emails, Succeeded(e)' PROVE Succeeded(e)
    BY <1>14, <2>2 DEF Succeeded, RetriesExhausted, Leave
  <2> HIDE DEF TypeOK, WellFormed, HolderSeesRow
  <2>3. QED  BY <1>14, <2>1, <2>2, QuietPaid DEF RetriesExhausted
<1>15. ASSUME NEW r \in Requests, GoReplay(r) PROVE AcceptancesPaid'
  BY <1>15, GoReplayPaid
<1>16. ASSUME NEW r \in Requests, GoMiss(r) PROVE AcceptancesPaid'
  BY <1>16, GoMissPaid
<1>17. ASSUME NEW r \in Requests, GoDeclines(r) PROVE AcceptancesPaid'
  BY <1>17, GoDeclinesPaid
<1>18. ASSUME NEW r \in Requests, ProviderAccepts(r) PROVE AcceptancesPaid'
  BY <1>18, ProviderAcceptsPaid
<1>19. ASSUME NEW r \in Requests, ProviderRefuses(r) PROVE AcceptancesPaid'
  BY <1>19, ProviderRefusesPaid
<1>20. ASSUME NEW r \in Requests, ProviderAnswerLost(r) PROVE AcceptancesPaid'
  BY <1>20, ProviderAnswerLostPaid
<1>21. ASSUME NEW r \in Requests, GoResponds(r) PROVE AcceptancesPaid'
  BY <1>21, GoRespondsPaid
<1>22. ASSUME NEW j \in Jobs, RaisesBeforeCall(j) PROVE AcceptancesPaid'
  <2>1. PICK o \in Events : o = job[j].event
    BY <1>22 DEF RaisesBeforeCall
  <2>2. /\ job[j].pc = "claimed" /\ job'[j].pc = "erring" /\ job'[j].event = o
        /\ \A k \in Jobs : k # j => job'[k] = job[k]
        /\ event' = event
    BY <1>22, <2>1, LoadMoves DEF RaisesBeforeCall
  <2>3. \A e \in Emails : (Open(e)' => Open(e)) /\ (Succeeded(e)' => Succeeded(e))
    BY <2>1, <2>2, HolderMoves DEF OpenPC
  <2>4. QED  BY <1>22, <2>3, QuietPaid DEF RaisesBeforeCall
<1>23. ASSUME NEW j \in Jobs, Timeout(j) PROVE AcceptancesPaid'
  BY <1>23, TimeoutPaid
<1>24. ASSUME NEW j \in Jobs, WriteFails(j) PROVE AcceptancesPaid'
  BY <1>24, WriteFailsPaid
<1>25. ASSUME NEW r \in Requests, GoCrash(r) PROVE AcceptancesPaid'
  BY <1>25, GoCrashPaid
<1>26. ASSUME NEW o \in Events, EnqueueLost(o) PROVE AcceptancesPaid'
  <2>1. ASSUME NEW e \in Emails, Open(e)' PROVE Open(e)
    BY <1>26, <2>1 DEF Open, EnqueueLost
  <2>2. ASSUME NEW e \in Emails, Succeeded(e)' PROVE Succeeded(e)
    BY <1>26, <2>2 DEF Succeeded, EnqueueLost
  <2> HIDE DEF TypeOK, WellFormed, HolderSeesRow
  <2>3. QED  BY <1>26, <2>1, <2>2, QuietPaid DEF EnqueueLost
<1>27. ASSUME NEW j \in Jobs, ReleaseFails(j) PROVE AcceptancesPaid'
  <2>1. ASSUME NEW e \in Emails, Open(e)' PROVE Open(e)
    BY <1>27, <2>1 DEF Open, ReleaseFails, Leave
  <2>2. ASSUME NEW e \in Emails, Succeeded(e)' PROVE Succeeded(e)
    BY <1>27, <2>2 DEF Succeeded, ReleaseFails, Leave
  <2> HIDE DEF TypeOK, WellFormed, HolderSeesRow
  <2>3. QED  BY <1>27, <2>1, <2>2, QuietPaid DEF ReleaseFails
<1>28. ASSUME NEW j \in Jobs, Kill(j) PROVE AcceptancesPaid'
  BY <1>28, KillPaid
<1>29. ASSUME NEW j \in Jobs, Shutdown(j) PROVE AcceptancesPaid'
  BY <1>29, ShutdownPaid
<1>30. ASSUME NEW j \in Jobs, ClaimRaises(j) PROVE AcceptancesPaid'
  <2>1. ASSUME NEW e \in Emails, Open(e)' PROVE Open(e)
    BY <1>30, <2>1 DEF Open, ClaimRaises, Goto
  <2>2. ASSUME NEW e \in Emails, Succeeded(e)' PROVE Succeeded(e)
    BY <1>30, <2>2 DEF Succeeded, ClaimRaises, Goto
  <2> HIDE DEF TypeOK, WellFormed, HolderSeesRow
  <2>3. QED  BY <1>30, <2>1, <2>2, QuietPaid DEF ClaimRaises
<1>31. QED  BY <1>1, <1>2, <1>3, <1>4, <1>5, <1>6, <1>7, <1>8, <1>9, <1>10,
        <1>11, <1>12, <1>13, <1>14, <1>15, <1>16, <1>17, <1>18, <1>19, <1>20,
        <1>21, <1>22, <1>23, <1>24, <1>25, <1>26, <1>27, <1>28, <1>29, <1>30
       DEF Next, Running, Dispatching, Perform, Serve, Error, Crash

HIDE DEF rows, engine, losses, EmailOf, Active,
         TypeOK, EventRow, Job, Request, EmailStatus, EventStatus, Working, PC, Phase,
         WellFormed, FreeJob, HolderSeesRow

-----------------------------------------------------------------------------
(*****************************************************************************)
(* The invariant of every behaviour.                                         *)
(*****************************************************************************)
(* The empty tables are a state of TruthInv.                               *)
LEMMA InitTruth == Init => TruthInv
<1> SUFFICES ASSUME Init PROVE TruthInv
  OBVIOUS
<1>1. CallersMatch /\ OneEventEach
  BY DEF Init, CallersMatch, OneEventEach, Active, IdleRequest
<1>2. SuccessBacked
  BY DEF Init, SuccessBacked, IdleRequest, FreeJob
<1>3. FailureClean
  BY DEF Init, FailureClean, FreeJob, Working
<1>4. ASSUME NEW e \in Emails
      PROVE  /\ IsFiniteSet(Armed(e)) /\ Spent(e) <= Allowance(e) + 1
             /\ ~Open(e) /\ ~Succeeded(e)
  <2>1. Armed(e) = {}
    BY DEF Init, Armed, IdleRequest
  <2>2. Spent(e) = 0 /\ Allowance(e) = 0
    BY <2>1, FS_EmptySet DEF Init, Spent, Allowance
  <2>3. ~Open(e) /\ ~Succeeded(e)
    BY DEF Init, Open, Succeeded, FreeJob
  <2>4. QED  BY <2>1, <2>2, <2>3, FS_EmptySet
<1>5. AcceptancesPaid
  BY <1>4 DEF AcceptancesPaid
<1>6. QED  BY <1>1, <1>2, <1>3, <1>5 DEF TruthInv

(* A step that changes nothing keeps TruthInv.                             *)
LEMMA StutterTruth == TruthInv /\ UNCHANGED vars => TruthInv'
<1> SUFFICES ASSUME TruthInv, UNCHANGED vars PROVE TruthInv'
  OBVIOUS
<1>1. CallersMatch' /\ OneEventEach'
  BY DEF TruthInv, vars, CallersMatch, OneEventEach, Active, EmailOf
<1>2. SuccessBacked'
  BY DEF TruthInv, vars, SuccessBacked, Backed, EmailOf
<1>3. FailureClean'
  BY DEF TruthInv, vars, FailureClean, Clean, Untouched, Active, EmailOf
<1>4. \A e \in Emails : /\ Armed(e)' = Armed(e) /\ Spent(e)' = Spent(e) /\ Allowance(e)' = Allowance(e)
                        /\ (Within(e)' <=> Within(e)) /\ (IsStored(e)' <=> IsStored(e))
                        /\ (Open(e)' <=> Open(e)) /\ (Succeeded(e)' <=> Succeeded(e))
  BY DEF vars, Armed, Spent, Allowance, Within, IsStored, Open, Succeeded, EmailOf
<1>5. AcceptancesPaid'
  BY <1>4 DEF TruthInv, AcceptancesPaid
<1>6. QED  BY <1>1, <1>2, <1>3, <1>5 DEF TruthInv

(* TruthInv holds in every reachable state of the pipeline.                *)
THEOREM TruthInvariance == Spec => []TruthInv
<1>1. IInv /\ IInv' /\ TruthInv /\ [Next]_vars => TruthInv'
  <2>1. SUFFICES ASSUME IInv, IInv', TruthInv, Next PROVE TruthInv'
    BY StutterTruth
  <2>2. /\ TypeOK /\ TypeOK' /\ WellFormed /\ HolderSeesRow /\ SingleHolder
        /\ CallersMatch /\ OneEventEach /\ SuccessBacked /\ FailureClean /\ AcceptancesPaid
    BY <2>1 DEF IInv, Bookkeeping, TruthInv
  <2>3. CallersMatch' /\ OneEventEach' /\ SuccessBacked'
    BY <2>1, <2>2, CallersStep, EventsStep, SuccessStep
  <2>4. FailureClean'
    BY <2>1, <2>2, FailureStep
  <2>5. AcceptancesPaid'
    BY <2>1, <2>2, PaidStep
  <2>6. QED  BY <2>3, <2>4, <2>5 DEF TruthInv
<1>2. QED  BY InitTruth, Invariance, <1>1, PTL DEF Spec

(* However jobs, timeouts, replays and crashes fall, an email that         *)
(* mark_sent! marked was accepted by a provider, or an email with its key  *)
(* was.                                                                    *)
THEOREM SentIsTrue == Spec => []SentWasAccepted
<1>1. TruthInv => SentWasAccepted
  BY DEF TruthInv, SuccessBacked, Backed, SameKey, SentWasAccepted
<1>2. QED  BY TruthInvariance, <1>1, PTL

(* An email that mark_failed! marked, of whose sends no outcome was lost,  *)
(* reached no provider, kills and shutdowns included.                      *)
THEOREM FailedIsTrue == Spec => []FailedWasNotAccepted
<1>1. TruthInv => FailedWasNotAccepted
  BY DEF TruthInv, FailureClean, Clean, Untouched, FailedWasNotAccepted
<1>2. QED  BY TruthInvariance, <1>1, PTL

(* Providers accept an email once and once more for each outcome that was  *)
(* lost; with a key and a working store a success that could not be        *)
(* written costs nothing (the order of send and store in send.go).         *)
THEOREM DuplicatesArePaid == Spec => []DuplicateOnlyAfterLoss
<1>1. IInv /\ TruthInv => DuplicateOnlyAfterLoss
  <2>1. SUFFICES ASSUME IInv, TruthInv, NEW e \in Emails
                 PROVE  accepted[e] <= 1 + lost[e] + (IF KeyOf[e] # None /\ ReliableStore
                                                      THEN 0 ELSE unwritten[e])
    BY DEF DuplicateOnlyAfterLoss
  <2>2. TypeOK /\ AcceptancesPaid
    BY <2>1 DEF IInv, TruthInv
  <2>3. Cardinality(Armed(e)) \in Nat /\ Spent(e) <= Allowance(e) + 1
    BY <2>2, Counted DEF AcceptancesPaid
  <2>4. accepted[e] \in Nat /\ lost[e] \in Nat /\ unwritten[e] \in Nat
    BY <2>2 DEF TypeOK
  <2>5. QED  BY <2>3, <2>4 DEF Spent, Allowance
<1>2. QED  BY Invariance, TruthInvariance, <1>1, PTL
=============================================================================
