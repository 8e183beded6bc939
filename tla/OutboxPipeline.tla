--------------------------- MODULE OutboxPipeline ---------------------------
(***************************************************************************)
(* The send pipeline of the control plane: the transactional outbox, the   *)
(* Sidekiq job that drains it (OutboxProcessorJob), the HTTP call to the   *)
(* Go send engine and the engine's provider chain.                         *)
(*                                                                         *)
(* A job is one entry of Sidekiq: its pc says where in perform it stands,  *)
(* "queued" covering both the Redis list and the retry set.  A request is  *)
(* one POST /v1/send inside the Go engine; it outlives its caller when the *)
(* caller times out or dies.  Every read or write of a shared row is a     *)
(* step of its own; what a job has read it keeps in its seen fields,       *)
(* because ActiveRecord writes only the columns that differ from the copy  *)
(* in memory.                                                              *)
(***************************************************************************)
EXTENDS Naturals, FiniteSets

CONSTANTS
  Emails,       \* rows of the emails table
  Events,       \* rows of outbox_events with destination go_core
  Jobs,         \* Sidekiq jobs that are ever enqueued: a bound of the model
  Requests,     \* requests the Go engine serves at once: a bound
  KeyOf,        \* the idempotency key of each email, or None
  ReliableStore, \* whether the engine's idempotency store never fails
  ChainLength,  \* providers in the chain of a send (provider_routes)
  MaxAttempts,  \* outbox_events.max_attempts
  MaxRetries,   \* sidekiq_options retry
  None

ASSUME PipelineAssumption ==
  /\ None \notin Emails \union Events \union Jobs
  /\ KeyOf \in [Emails -> {KeyOf[e] : e \in Emails}]
  /\ ReliableStore \in BOOLEAN
  /\ ChainLength \in Nat \ {0}
  /\ MaxAttempts \in Nat \ {0}
  /\ MaxRetries \in Nat

VARIABLES
  email,      \* emails.status, "none" while the row does not exist
  event,      \* outbox_events: status, attempt_count, payload email_id
  unqueued,   \* events committed whose perform_async has not run yet
  job,        \* Sidekiq jobs and the state of their execution
  request,    \* requests inside the Go engine
  stored,     \* keys in the Go engine's idempotency store
  accepted,   \* history: messages of this email a provider accepted
  lost,       \* history: answers of a provider or the engine that got lost
  unwritten   \* history: answers that came back and could not be written

rows    == <<email, event>>
engine  == <<request, stored, accepted>>
losses  == <<lost, unwritten>>
vars    == <<email, event, unqueued, job, request, stored, accepted, lost, unwritten>>

Keys == {KeyOf[e] : e \in Emails} \ {None}

EmailStatus == {"none", "queued", "sent", "failed"}
EventStatus == {"absent", "pending", "processing", "processed", "dead"}

(***************************************************************************)
(* Where a job stands.  Between "claimed" and "erring" it works on an      *)
(* event it took from pending to processing; it raised after its claim,    *)
(* or "stumbled" at the claim itself.  Its stumbles are the retries that   *)
(* went on the latter.                                                     *)
(***************************************************************************)
Working == {"claimed", "calling", "answered", "sentmarked", "rejected",
            "failmarked", "erring"}
PC      == Working \union {"free", "queued", "raised", "stumbled", "done"}

Phase == {"idle", "received", "sending", "delivered"}

FreeJob     == [pc |-> "free", event |-> None, retries |-> 0, stumbles |-> 0,
                seenEmail |-> "none", seenEvent |-> "absent", seenAttempts |-> 0]
IdleRequest == [phase |-> "idle", email |-> None, client |-> None, left |-> 0]

EmailOf(j) == event[job[j].event].email

(* update! writes a column only when it differs from the copy in memory. *)
Written(seen, new, stored_value) == IF seen # new THEN new ELSE stored_value

EventRow == [status: EventStatus, attempts: Nat, email: Emails \union {None}]
Job      == [pc: PC, event: Events \union {None}, retries: Nat,
             stumbles: Nat, seenEmail: EmailStatus, seenEvent: EventStatus, seenAttempts: Nat]
Request  == [phase: Phase, email: Emails \union {None}, client: Jobs \union {None},
             left: Nat]

TypeOK ==
  /\ email \in [Emails -> EmailStatus]
  /\ event \in [Events -> EventRow]
  /\ unqueued \in SUBSET Events
  /\ job \in [Jobs -> Job]
  /\ request \in [Requests -> Request]
  /\ stored \in SUBSET Keys
  /\ accepted \in [Emails -> Nat]
  /\ lost \in [Emails -> Nat]
  /\ unwritten \in [Emails -> Nat]

Init ==
  /\ email    = [e \in Emails |-> "none"]
  /\ event    = [o \in Events |-> [status |-> "absent", attempts |-> 0, email |-> None]]
  /\ unqueued = {}
  /\ job      = [j \in Jobs |-> FreeJob]
  /\ request  = [r \in Requests |-> IdleRequest]
  /\ stored   = {}
  /\ accepted = [e \in Emails |-> 0]
  /\ lost     = [e \in Emails |-> 0]
  /\ unwritten = [e \in Emails |-> 0]

-----------------------------------------------------------------------------
(***************************************************************************)
(* Dispatch: one transaction creates the email, its outbox event and the   *)
(* link; perform_async runs only after the commit.                         *)
(***************************************************************************)
Dispatch(e, o) ==
  /\ email[e] = "none"
  /\ event[o].status = "absent"
  /\ email' = [email EXCEPT ![e] = "queued"]
  /\ event' = [event EXCEPT ![o] = [status |-> "pending", attempts |-> 0, email |-> e]]
  /\ unqueued' = unqueued \union {o}
  /\ UNCHANGED <<job, engine, losses>>

Push(o, j) ==
  /\ job[j].pc = "free"
  /\ job' = [job EXCEPT ![j] = [@ EXCEPT !.pc = "queued", !.event = o]]

Enqueue(o, j) ==
  /\ o \in unqueued
  /\ Push(o, j)
  /\ unqueued' = unqueued \ {o}
  /\ UNCHANGED <<rows, engine, losses>>

(* The web process dies, or Redis refuses the push, after the commit. *)
EnqueueLost(o) ==
  /\ o \in unqueued
  /\ unqueued' = unqueued \ {o}
  /\ UNCHANGED <<rows, job, engine, losses>>

(* rake outbox:requeue_orphaned, for one event. *)
RequeueOrphaned(o, j) ==
  /\ event[o].status = "pending"
  /\ event[o].attempts < MaxAttempts
  /\ Push(o, j)
  /\ UNCHANGED <<rows, unqueued, engine, losses>>

-----------------------------------------------------------------------------
(***************************************************************************)
(* OutboxProcessorJob#perform.                                             *)
(***************************************************************************)
Goto(j, pc) == job' = [job EXCEPT ![j].pc = pc]

(* The copies of the rows go when perform returns or raises. *)
Leave(j, pc) ==
  job' = [job EXCEPT ![j] = [FreeJob EXCEPT !.pc = pc, !.event = job[j].event,
                                            !.retries = job[j].retries,
                                            !.stumbles = job[j].stumbles]]

(* Mutant: the update without its condition on the status. *)
ClaimUnguarded(j) ==
  LET o == job[j].event IN
  /\ job[j].pc = "queued"
  /\ event' = [event EXCEPT ![o] = [@ EXCEPT !.status = "processing",
                                             !.attempts = event[o].attempts + 1]]
  /\ Goto(j, "claimed")
  /\ UNCHANGED <<email, unqueued, engine, losses>>

(* The atomic pending -> processing update. *)
Claim(j) ==
  LET o == job[j].event IN
  /\ job[j].pc = "queued"
  /\ event[o].status = "pending"
  /\ event' = [event EXCEPT ![o] = [@ EXCEPT !.status = "processing",
                                             !.attempts = event[o].attempts + 1]]
  /\ Goto(j, "claimed")
  /\ UNCHANGED <<email, unqueued, engine, losses>>

(* The update matched no row: return, and the job has succeeded. *)
ClaimNothing(j) ==
  /\ job[j].pc = "queued"
  /\ event[job[j].event].status # "pending"
  /\ Leave(j, "done")
  /\ UNCHANGED <<rows, unqueued, engine, losses>>

(* The update raises before it changed anything.  There is no event to     *)
(* fail!, and the error goes on to Sidekiq.                                *)
ClaimRaises(j) ==
  /\ job[j].pc = "queued"
  /\ Goto(j, "stumbled")
  /\ UNCHANGED <<rows, unqueued, engine, losses>>

(* OutboxEvent.find, Email.find_by: the copies the rest of perform uses. *)
Load(j, pc) ==
  LET o == job[j].event IN
  job' = [job EXCEPT ![j] = [@ EXCEPT !.pc = pc,
                                      !.seenEmail = email[event[o].email],
                                      !.seenEvent = event[o].status,
                                      !.seenAttempts = event[o].attempts]]

(* No eligible connection any more: a definitive failure. *)
LoadIneligible(j) ==
  /\ job[j].pc = "claimed"
  /\ Load(j, "rejected")
  /\ UNCHANGED <<rows, unqueued, engine, losses>>

Post(j, r) ==
  /\ job[j].pc = "claimed"
  /\ request[r].phase = "idle"
  /\ Load(j, "calling")
  /\ request' = [request EXCEPT ![r] = [phase |-> "received", email |-> EmailOf(j),
                                        client |-> j, left |-> ChainLength]]
  /\ UNCHANGED <<rows, unqueued, stored, accepted, losses>>

(* 2xx: email.mark_sent!, then event.complete!, in two transactions. *)
MarkSent(j) ==
  LET e == EmailOf(j) IN
  /\ job[j].pc = "answered"
  /\ email' = [email EXCEPT ![e] = Written(job[j].seenEmail, "sent", @)]
  /\ job' = [job EXCEPT ![j] = [@ EXCEPT !.pc = "sentmarked", !.seenEmail = "sent"]]
  /\ UNCHANGED <<event, unqueued, engine, losses>>

Complete(j) ==
  LET o == job[j].event IN
  /\ job[j].pc = "sentmarked"
  /\ event' = [event EXCEPT ![o].status = Written(job[j].seenEvent, "processed", @)]
  /\ Leave(j, "done")
  /\ UNCHANGED <<email, unqueued, engine, losses>>

(* Any other 4xx, or no eligible connection: mark_failed!, then dead. *)
MarkFailed(j) ==
  LET e == EmailOf(j) IN
  /\ job[j].pc = "rejected"
  /\ email' = [email EXCEPT ![e] = Written(job[j].seenEmail, "failed", @)]
  /\ job' = [job EXCEPT ![j] = [@ EXCEPT !.pc = "failmarked", !.seenEmail = "failed"]]
  /\ UNCHANGED <<event, unqueued, engine, losses>>

KillEvent(j) ==
  LET o == job[j].event IN
  /\ job[j].pc = "failmarked"
  /\ event' = [event EXCEPT ![o].status = Written(job[j].seenEvent, "dead", @)]
  /\ Leave(j, "done")
  /\ UNCHANGED <<email, unqueued, engine, losses>>

(* Mutant: fail! ignores max_attempts. *)
FailEventForever(j) ==
  /\ job[j].pc = "erring"
  /\ event' = [event EXCEPT ![job[j].event].status = Written(job[j].seenEvent, "pending", @)]
  /\ Leave(j, "raised")
  /\ UNCHANGED <<email, unqueued, engine, losses>>

(* Mutant: the error is not raised again, so Sidekiq sees a clean return   *)
(* (the defect lib/tasks/outbox.rake:6 tells of).                          *)
FailEventSwallowed(j) ==
  LET o   == job[j].event
      new == IF job[j].seenAttempts >= MaxAttempts THEN "dead" ELSE "pending" IN
  /\ job[j].pc = "erring"
  /\ event' = [event EXCEPT ![o].status = Written(job[j].seenEvent, new, @)]
  /\ Leave(j, "done")
  /\ UNCHANGED <<email, unqueued, engine, losses>>

(* OutboxEvent#fail!, then the error is raised to Sidekiq. *)
FailEvent(j) ==
  LET o   == job[j].event
      new == IF job[j].seenAttempts >= MaxAttempts THEN "dead" ELSE "pending" IN
  /\ job[j].pc = "erring"
  /\ event' = [event EXCEPT ![o].status = Written(job[j].seenEvent, new, @)]
  /\ Leave(j, "raised")
  /\ UNCHANGED <<email, unqueued, engine, losses>>

Stumbles(j) == IF job[j].pc = "stumbled" THEN job[j].stumbles + 1 ELSE job[j].stumbles

(* Sidekiq puts a job that raised into its retry set. *)
Reschedule(j) ==
  /\ job[j].pc \in {"raised", "stumbled"}
  /\ job[j].retries < MaxRetries
  /\ job' = [job EXCEPT ![j] = [@ EXCEPT !.pc = "queued",
                                         !.retries = job[j].retries + 1,
                                         !.stumbles = Stumbles(j)]]
  /\ UNCHANGED <<rows, unqueued, engine, losses>>

(* sidekiq_retries_exhausted: the event is written dead whatever it is. *)
RetriesExhausted(j) ==
  /\ job[j].pc \in {"raised", "stumbled"}
  /\ job[j].retries >= MaxRetries
  /\ event' = [event EXCEPT ![job[j].event].status = "dead"]
  /\ Leave(j, "done")
  /\ UNCHANGED <<email, unqueued, engine, losses>>

-----------------------------------------------------------------------------
(***************************************************************************)
(* The Go engine: POST /v1/send.  An answer reaches the caller only while  *)
(* the caller still waits.                                                 *)
(***************************************************************************)
Answer(r, pc) ==
  LET j == request[r].client IN
  /\ job' = IF j = None THEN job ELSE [job EXCEPT ![j].pc = pc]
  /\ request' = [request EXCEPT ![r] = IdleRequest]

Waiting(r) == request[r].client # None

Key(r) == KeyOf[request[r].email]

Lose(e) == lost' = [lost EXCEPT ![e] = @ + 1]

(* A cached response: nothing is sent. *)
GoReplay(r) ==
  /\ request[r].phase = "received"
  /\ Key(r) \in stored
  /\ Answer(r, "answered")
  /\ UNCHANGED <<rows, unqueued, stored, accepted, losses>>

(* A store that cannot be read counts as a miss. *)
GoMiss(r) ==
  /\ request[r].phase = "received"
  /\ ReliableStore => Key(r) \notin stored
  /\ request' = [request EXCEPT ![r].phase = "sending"]
  /\ UNCHANGED <<rows, unqueued, job, stored, accepted, losses>>

(* Mutant: an error body under a 2xx status. *)
GoDeclinesAsSuccess(r) ==
  /\ request[r].phase = "received"
  /\ \E pc \in {"answered", "erring"} : Answer(r, pc)
  /\ UNCHANGED <<rows, unqueued, stored, accepted, losses>>

(* 400 for an invalid request or template; 429 from the rate limiter. *)
GoDeclines(r) ==
  /\ request[r].phase = "received"
  /\ \E pc \in {"rejected", "erring"} : Answer(r, pc)
  /\ UNCHANGED <<rows, unqueued, stored, accepted, losses>>

ProviderAccepts(r) ==
  /\ request[r].phase = "sending"
  /\ accepted' = [accepted EXCEPT ![request[r].email] = @ + 1]
  /\ request' = [request EXCEPT ![r].phase = "delivered"]
  /\ UNCHANGED <<rows, unqueued, job, stored, losses>>

Fallback(r) == request' = [request EXCEPT ![r].left = @ - 1]

(* A recipient_permanent error stops the chain (422); any other error goes *)
(* to the next provider, and the last one decides between 422 and 429/502. *)
ProviderRefuses(r) ==
  /\ request[r].phase = "sending"
  /\ \/ Answer(r, "rejected")
     \/ request[r].left = 1 /\ Answer(r, "erring")
     \/ request[r].left > 1 /\ Fallback(r) /\ UNCHANGED job
  /\ UNCHANGED <<rows, unqueued, stored, accepted, losses>>

(* The provider took the message but its answer did not reach the engine,  *)
(* which sees a transient error.                                           *)
ProviderAnswerLost(r) ==
  /\ request[r].phase = "sending"
  /\ accepted' = [accepted EXCEPT ![request[r].email] = @ + 1]
  /\ Lose(request[r].email)
  /\ \/ request[r].left = 1 /\ Answer(r, "erring")
     \/ request[r].left > 1 /\ Fallback(r) /\ UNCHANGED job
  /\ UNCHANGED <<rows, unqueued, stored, unwritten>>

(* Mutant: the response of a send is not stored. *)
GoRespondsUnstored(r) ==
  /\ request[r].phase = "delivered"
  /\ Answer(r, "answered")
  /\ UNCHANGED <<rows, unqueued, stored, accepted, losses>>

(* The response is stored under the key (a failing store is ignored) only  *)
(* now, after the provider call.                                           *)
GoResponds(r) ==
  /\ request[r].phase = "delivered"
  /\ \/ stored' = stored \union ({Key(r)} \ {None})
     \/ ~ReliableStore /\ UNCHANGED stored
  /\ Answer(r, "answered")
  /\ UNCHANGED <<rows, unqueued, accepted, losses>>

-----------------------------------------------------------------------------
(***************************************************************************)
(* What goes wrong around a job.                                           *)
(***************************************************************************)
Disconnect(j) ==
  [r \in Requests |-> IF request[r].client = j
                      THEN [request[r] EXCEPT !.client = None] ELSE request[r]]

(* Faraday raises; the engine goes on with the request. *)
Timeout(j) ==
  /\ job[j].pc = "calling"
  /\ Goto(j, "erring")
  /\ request' = Disconnect(j)
  /\ Lose(EmailOf(j))
  /\ UNCHANGED <<rows, unqueued, stored, accepted, unwritten>>

(* A read, the resolver or the connection raises before the engine has the *)
(* request.                                                                *)
RaisesBeforeCall(j) ==
  /\ job[j].pc = "claimed"
  /\ Load(j, "erring")
  /\ UNCHANGED <<rows, unqueued, engine, losses>>

(* mark_sent!, complete!, mark_failed! or the write of dead raises: the    *)
(* rescue clause treats it as a transient error.                           *)
WriteFails(j) ==
  /\ job[j].pc \in {"answered", "sentmarked", "rejected", "failmarked"}
  /\ Goto(j, "erring")
  /\ unwritten' = [unwritten EXCEPT ![EmailOf(j)] = @ + 1]
  /\ UNCHANGED <<rows, unqueued, engine, lost>>

(* find raises, so the rescue clause has no event; or fail! itself raises. *)
ReleaseFails(j) ==
  /\ job[j].pc \in {"claimed", "erring"}
  /\ Leave(j, "raised")
  /\ UNCHANGED <<rows, unqueued, engine, losses>>

(* The worker process is killed: Sidekiq's basic fetch loses the job. *)
Kill(j) ==
  /\ job[j].pc \in Working \union {"queued", "raised", "stumbled"}
  /\ Leave(j, "done")
  /\ request' = Disconnect(j)
  /\ UNCHANGED <<rows, unqueued, stored, accepted, losses>>

(* The worker shuts down past its timeout: the job goes back to its queue. *)
Shutdown(j) ==
  /\ job[j].pc \in Working \union {"raised", "stumbled"}
  /\ Leave(j, "queued")
  /\ request' = Disconnect(j)
  /\ UNCHANGED <<rows, unqueued, stored, accepted, losses>>

(* The engine dies with the request in hand. *)
GoCrash(r) ==
  /\ request[r].phase # "idle"
  /\ Answer(r, "erring")
  /\ IF Waiting(r) THEN Lose(request[r].email) ELSE UNCHANGED lost
  /\ UNCHANGED <<rows, unqueued, stored, accepted, unwritten>>

-----------------------------------------------------------------------------
Dispatching ==
  \/ \E e \in Emails, o \in Events : Dispatch(e, o)
  \/ \E o \in Events, j \in Jobs : Enqueue(o, j) \/ RequeueOrphaned(o, j)

Perform(j) ==
  \/ Claim(j) \/ ClaimNothing(j) \/ LoadIneligible(j)
  \/ \E r \in Requests : Post(j, r)
  \/ MarkSent(j) \/ Complete(j) \/ MarkFailed(j) \/ KillEvent(j)
  \/ FailEvent(j) \/ Reschedule(j) \/ RetriesExhausted(j)

Serve(r) ==
  \/ GoReplay(r) \/ GoMiss(r) \/ GoDeclines(r)
  \/ ProviderAccepts(r) \/ ProviderRefuses(r) \/ ProviderAnswerLost(r)
  \/ GoResponds(r)

(* Errors the code means to survive. *)
Error ==
  \/ \E j \in Jobs : ClaimRaises(j) \/ RaisesBeforeCall(j) \/ Timeout(j) \/ WriteFails(j)
  \/ \E r \in Requests : GoCrash(r)

(* Failures that leave work behind. *)
Crash ==
  \/ \E o \in Events : EnqueueLost(o)
  \/ \E j \in Jobs : ReleaseFails(j) \/ Kill(j) \/ Shutdown(j)

Running ==
  \/ Dispatching
  \/ \E j \in Jobs : Perform(j)
  \/ \E r \in Requests : Serve(r)
  \/ Error

Next == Running \/ Crash

Spec == Init /\ [][Next]_vars

(* Redis hands every queued job to a worker and every worker runs on; the  *)
(* engine answers every request.  Nothing makes the client dispatch or the *)
(* operator requeue.                                                       *)
Fairness ==
  /\ \A o \in Events : WF_vars(\E j \in Jobs : Enqueue(o, j))
  /\ \A j \in Jobs : WF_vars(Perform(j))
  /\ \A r \in Requests : WF_vars(Serve(r))

(* Every failure but those that leave work behind. *)
LiveSpec == Init /\ [][Running]_vars /\ Fairness

-----------------------------------------------------------------------------
(***************************************************************************)
(* Properties.                                                             *)
(***************************************************************************)
Settled == {"processed", "dead"}

(* Two jobs never work on one event at the same time, however often it was *)
(* enqueued: the guard of outbox_processor_job.rb:42.                      *)
SingleHolder ==
  \A j, k \in Jobs :
    job[j].pc \in Working /\ job[k].pc \in Working /\ job[j].event = job[k].event
      => j = k

(* No event is claimed more than max_attempts times, whatever Sidekiq's    *)
(* retries, the duplicate jobs and the operator do.                        *)
AttemptsBounded == \A o \in Events : event[o].attempts <= MaxAttempts

(* A job of the event has spent on raises at the claim all its retries but *)
(* MaxAttempts, 20 of the 25 of sidekiq_options.                           *)
Outlasted(o) ==
  \E j \in Jobs : job[j].event = o /\ job[j].stumbles + MaxAttempts >= MaxRetries

(* A processed or dead event is never taken up again: no job left in a     *)
(* queue, a retry set or a handler changes its row.  The exception is      *)
(* sidekiq_retries_exhausted (outbox_processor_job.rb:24-32), which writes *)
(* dead over any status: max_attempts runs out before a job's retries do,  *)
(* unless some MaxRetries - MaxAttempts of them went on raises at the      *)
(* claim statement itself, which takes no attempt.                         *)
SettledForever ==
  [][\A o \in Events : event[o].status \in Settled =>
       event'[o] = event[o] \/ Outlasted(o)]_vars

(* A provider takes the message of an email a second time only after the   *)
(* answer to an earlier attempt was lost (a timeout, a provider's answer   *)
(* that did not arrive, an engine crash) or could not be written; under an *)
(* idempotency key and a working store the latter is harmless.             *)
DuplicateOnlyAfterLoss ==
  \A e \in Emails :
    accepted[e] <= 1 + lost[e] + (IF KeyOf[e] # None /\ ReliableStore
                                  THEN 0 ELSE unwritten[e])

(* An email marked sent was accepted by a provider, or shares its key with *)
(* one that was.                                                           *)
SentWasAccepted ==
  \A e \in Emails : email[e] = "sent" =>
    \E f \in Emails : accepted[f] > 0 /\ (f = e \/ (KeyOf[f] # None /\ KeyOf[f] = KeyOf[e]))

(* As long as no outcome was lost the tenant reads the truth: a failed     *)
(* email reached no provider, and its event is settled or about to be.     *)
FailedWasNotAccepted ==
  \A e \in Emails : email[e] = "failed" /\ lost[e] = 0 /\ unwritten[e] = 0 => accepted[e] = 0

(* Without crashes every accepted email's event is settled in the end:     *)
(* Sidekiq's retries outlast max_attempts.                                 *)
EventuallySettled ==
  \A o \in Events : event[o].status = "pending" ~> event[o].status \in Settled

-----------------------------------------------------------------------------
(***************************************************************************)
(* What the comments and the docs say of this code, and it does not do.    *)
(***************************************************************************)

(* outbox_processor_job.rb:12: transient failures must keep retrying for   *)
(* all of Sidekiq's retries; only a definitive rejection ends the email.   *)
(* So an event is dead under a queued email only when a job ran out of     *)
(* retries.                                                                *)
OnlyExhaustionBuries ==
  \A o \in Events :
    event[o].status = "dead" /\ email[event[o].email] = "queued" =>
      \E j \in Jobs : job[j].event = o /\ job[j].retries >= MaxRetries

(* docs/INTERNAL_ARCHITECTURE.md:249: after a process crash in the middle  *)
(* of a send the job is queued again by Sidekiq and the send resumes: an   *)
(* event does not stay in processing.                                      *)
CrashedSendResumes ==
  \A o \in Events : event[o].status = "processing" ~> event[o].status # "processing"

(* A worker that shuts down, as the only crash. *)
ShutdownSpec ==
  /\ Init
  /\ [][Running \/ \E j \in Jobs : Shutdown(j)]_vars
  /\ Fairness

(* docs/API_REFERENCE.md:665: keys are unique per tenant.  So an email     *)
(* marked sent was itself accepted by a provider, even when another        *)
(* tenant's email carries the same key.                                    *)
SentWasItselfAccepted ==
  \A e \in Emails : email[e] = "sent" => accepted[e] > 0

=============================================================================
