--------------------------- MODULE OutboxRecovery ---------------------------
(***************************************************************************)
(* What repairs the pipeline of OutboxPipeline: the reconciler of queued   *)
(* emails (EmailReconciliationService, through the API, its job and rake   *)
(* emails:reconcile_stale) and the rake tasks of lib/tasks/outbox.rake.    *)
(* All run only when somebody asks, next to the jobs they repair.          *)
(*                                                                         *)
(* An email's age is left out: every threshold on created_at can have      *)
(* passed.  Every queued email has an outbox event, because dispatch       *)
(* creates both in one transaction, so the branch for a missing one is     *)
(* left out too.                                                           *)
(***************************************************************************)
EXTENDS OutboxPipeline

CONSTANTS
  Reconcilers,  \* reconciliations that run at once
  MaxTrouble    \* resets, rebuilds, lost outcomes and a job's raises at the
                \* claim over a behaviour: a bound

ASSUME RecoveryAssumption ==
  /\ None \notin Reconcilers
  /\ {"idle", "stuck"} \intersect Emails = {}
  /\ MaxTrouble \in Nat
  /\ IsFiniteSet(Events) /\ IsFiniteSet(Jobs) /\ IsFiniteSet(Requests)

VARIABLES
  recon,      \* what each reconciliation has read
  old,        \* events whose updated_at is over five minutes ago; the others
              \* were updated within the last minute
  rebuilt,    \* events made by recover_queued: no email links to them
  sweep,      \* the rake task that stands between its two statements
  resets,     \* resets and rebuilds so far
  hasty,      \* history: resets of an email something was still working on
  abandoned   \* history: jobs that died with a call made and not recorded

repair  == <<recon, rebuilt, sweep, resets, hasty>>
allVars == <<vars, repair, old, abandoned>>

Idle == [pc |-> "idle", email |-> None, event |-> None, status |-> "absent", attempts |-> 0]

(* The copies a reconciliation has in memory. *)
Reading == [pc: {"idle", "started", "read", "reset"}, email: Emails \union {None},
            event: Events \union {None}, status: EventStatus, attempts: Nat]

RecoveryTypeOK ==
  /\ TypeOK
  /\ recon \in [Reconcilers -> Reading]
  /\ old \in SUBSET Events
  /\ rebuilt \in SUBSET Events
  /\ sweep \in {"idle", "stuck"} \union Emails
  /\ resets \in 0..MaxTrouble
  /\ hasty \in [Emails -> Nat]
  /\ abandoned \in [Emails -> Nat]

RecoveryInit ==
  /\ Init
  /\ recon     = [c \in Reconcilers |-> Idle]
  /\ old       = {}
  /\ rebuilt   = {}
  /\ sweep     = "idle"
  /\ resets    = 0
  /\ hasty     = [e \in Emails |-> 0]
  /\ abandoned = [e \in Emails |-> 0]

-----------------------------------------------------------------------------
(* update! and create! set updated_at; update_all, which claims, does not. *)
Touch ==
  old' = {o \in old : event'[o] = event[o] \/ event'[o].status = "processing"}

Trouble(e) == resets + lost[e] + unwritten[e] + abandoned[e]

Bounded ==
  \A e \in Emails :
    /\ Trouble(e)' <= MaxTrouble
    /\ \A j \in Jobs : Trouble(e)' + job'[j].stumbles <= MaxTrouble

PipelineRuns == Running /\ Touch /\ UNCHANGED <<repair, abandoned>> /\ Bounded

(* A job that dies after the call was made leaves its outcome unrecorded. *)
WorkerDies(j) ==
  /\ Kill(j) \/ Shutdown(j) \/ ReleaseFails(j)
  /\ abandoned' = IF job[j].pc \in {"calling", "answered", "sentmarked", "failmarked"}
                  THEN [abandoned EXCEPT ![EmailOf(j)] = @ + 1] ELSE abandoned
  /\ UNCHANGED <<repair, old>>
  /\ Bounded

PushLost(o) == EnqueueLost(o) /\ UNCHANGED <<repair, old, abandoned>>

TimePasses(o) ==
  /\ event[o].status \in {"pending", "processing"}
  /\ old' = old \union {o}
  /\ UNCHANGED <<vars, repair, abandoned>>

-----------------------------------------------------------------------------
EventsOf(e) == {o \in Events : event[o].email = e}
Live(o)     == event[o].status \in {"pending", "processing"}

(* Something else still acts for the email of event o. *)
Busy(e, o) ==
  \/ email[e] # "queued"
  \/ \E j \in Jobs : job[j].pc \in Working /\ EmailOf(j) = e
  \/ \E other \in EventsOf(e) \ {o} : Live(other)

NoteHaste(e, o) == hasty' = IF Busy(e, o) THEN [hasty EXCEPT ![e] = @ + 1] ELSE hasty

(* EmailReconciliationService: the email row is read, ... *)
ReconcileStart(c, e) ==
  /\ recon[c].pc = "idle"
  /\ email[e] = "queued"
  /\ recon' = [recon EXCEPT ![c] = [Idle EXCEPT !.pc = "started", !.email = e]]
  /\ UNCHANGED <<vars, old, rebuilt, sweep, resets, hasty, abandoned>>

(* ... then the event the email links to, whatever its status, ... *)
ReconcileRead(c) ==
  /\ recon[c].pc = "started"
  /\ \E o \in EventsOf(recon[c].email) \ rebuilt :
       recon' = [recon EXCEPT ![c] =
                  [@ EXCEPT !.pc = IF event[o].status = "pending" THEN "reset" ELSE "read",
                            !.event = o, !.status = event[o].status,
                            !.attempts = event[o].attempts]]
  /\ UNCHANGED <<vars, old, rebuilt, sweep, resets, hasty, abandoned>>

(* ... an event that is not pending is reset from the copy just read, ... *)
ReconcileReset(c) ==
  LET o == recon[c].event IN
  /\ recon[c].pc = "read"
  /\ event' = [event EXCEPT ![o].status   = "pending",
                            ![o].attempts = Written(recon[c].attempts, 0, @)]
  /\ old' = old \ {o}
  /\ recon' = [recon EXCEPT ![c].pc = "reset"]
  /\ resets' = resets + 1
  /\ NoteHaste(recon[c].email, o)
  /\ UNCHANGED <<email, unqueued, job, engine, losses, rebuilt, sweep, abandoned>>
  /\ Bounded

(* ... and a job is pushed in every case. *)
ReconcileEnqueue(c) ==
  /\ recon[c].pc = "reset"
  /\ \E j \in Jobs : Push(recon[c].event, j)
  /\ recon' = [recon EXCEPT ![c] = Idle]
  /\ UNCHANGED <<rows, unqueued, engine, losses, old, rebuilt, sweep, resets, hasty, abandoned>>

(* The process that reconciles dies between two of its statements. *)
ReconcilerDies(c) ==
  /\ recon[c].pc # "idle"
  /\ recon' = [recon EXCEPT ![c] = Idle]
  /\ UNCHANGED <<vars, old, rebuilt, sweep, resets, hasty, abandoned>>

-----------------------------------------------------------------------------
Stuck(o) == event[o].status = "processing" /\ o \in old

(* rake outbox:recover_stuck_processing.  Its update_all resets every old  *)
(* processing event, whether or not a worker holds it, and leaves          *)
(* updated_at alone; ...                                                   *)
RecoverStuck ==
  /\ sweep = "idle"
  /\ \E o \in Events : Stuck(o)
  /\ event' = [o \in Events |-> IF Stuck(o) THEN [event[o] EXCEPT !.status = "pending"]
                                            ELSE event[o]]
  /\ hasty' = [e \in Emails |-> hasty[e] + Cardinality({o \in EventsOf(e) : Stuck(o) /\ Busy(e, o)})]
  /\ resets' = resets + 1
  /\ sweep' = "stuck"
  /\ UNCHANGED <<email, unqueued, job, engine, losses, recon, old, rebuilt, abandoned>>
  /\ Bounded

(* ... then it enqueues the pending events touched within the last minute. *)
RecoverStuckEnqueue ==
  LET fresh == {o \in Events : event[o].status = "pending" /\ o \notin old}
      free  == {j \in Jobs : job[j].pc = "free"} IN
  /\ sweep = "stuck"
  /\ \E f \in [fresh -> free] :
       /\ \A o, p \in fresh : f[o] = f[p] => o = p
       /\ job' = [j \in Jobs |-> IF \E o \in fresh : f[o] = j
                                 THEN [job[j] EXCEPT !.pc = "queued",
                                                     !.event = CHOOSE o \in fresh : f[o] = j]
                                 ELSE job[j]]
  /\ sweep' = "idle"
  /\ UNCHANGED <<rows, unqueued, engine, losses, recon, old, rebuilt, resets, hasty, abandoned>>

(* rake emails:recover_queued: an email found queued with no live event    *)
(* gets a new event, which it does not link to.                            *)
RebuildCheck(e) ==
  /\ sweep = "idle"
  /\ email[e] = "queued"
  /\ \A o \in EventsOf(e) : ~Live(o)
  /\ sweep' = e
  /\ UNCHANGED <<vars, recon, old, rebuilt, resets, hasty, abandoned>>

(* Mutant: the event takes over the email's status word. *)
RebuildCreateQueued(o, j) ==
  /\ sweep \in Emails
  /\ event[o].status = "absent"
  /\ event' = [event EXCEPT ![o] = [status |-> "queued", attempts |-> 0, email |-> sweep]]
  /\ Push(o, j)
  /\ old' = old \ {o}
  /\ rebuilt' = rebuilt \union {o}
  /\ NoteHaste(sweep, o)
  /\ resets' = resets + 1
  /\ sweep' = "idle"
  /\ UNCHANGED <<email, unqueued, engine, losses, recon, abandoned>>
  /\ Bounded

RebuildCreate(o, j) ==
  /\ sweep \in Emails
  /\ event[o].status = "absent"
  /\ event' = [event EXCEPT ![o] = [status |-> "pending", attempts |-> 0, email |-> sweep]]
  /\ Push(o, j)
  /\ old' = old \ {o}
  /\ rebuilt' = rebuilt \union {o}
  /\ NoteHaste(sweep, o)
  /\ resets' = resets + 1
  /\ sweep' = "idle"
  /\ UNCHANGED <<email, unqueued, engine, losses, recon, abandoned>>
  /\ Bounded

-----------------------------------------------------------------------------
Reconcile ==
  \E c \in Reconcilers :
    \/ \E e \in Emails : ReconcileStart(c, e)
    \/ ReconcileRead(c) \/ ReconcileReset(c) \/ ReconcileEnqueue(c) \/ ReconcilerDies(c)

Rake ==
  \/ RecoverStuck \/ RecoverStuckEnqueue
  \/ \E e \in Emails : RebuildCheck(e)
  \/ \E o \in Events, j \in Jobs : RebuildCreate(o, j)

RecoveryNext ==
  \/ PipelineRuns
  \/ \E j \in Jobs : WorkerDies(j)
  \/ \E o \in Events : PushLost(o) \/ TimePasses(o)
  \/ Reconcile
  \/ Rake

RecoverySpec == RecoveryInit /\ [][RecoveryNext]_allVars

-----------------------------------------------------------------------------
(* Two jobs send for one email at the same time only after a reset or a    *)
(* rebuild that came while something was still working on it: repairing    *)
(* what nobody works on keeps the claim exclusive.                         *)
OneSenderUnlessHasty ==
  \A j, k \in Jobs :
    /\ job[j].pc \in Working /\ job[k].pc \in Working
    /\ EmailOf(j) = EmailOf(k)
    /\ hasty[EmailOf(j)] = 0
    => j = k

(* Under repair too, every further acceptance by a provider is paid for by *)
(* a lost or unwritten answer, a job that died with its call unrecorded,   *)
(* or a hasty reset.                                                       *)
DuplicatesExplained ==
  \A e \in Emails :
    accepted[e] <= 1 + lost[e] + unwritten[e] + abandoned[e] + hasty[e]

(* Repair never tells a tenant an untruth on its own: a failed email was   *)
(* accepted only if an outcome got lost or a reset came hastily.           *)
FailedTruthUnderRepair ==
  \A e \in Emails :
    email[e] = "failed" /\ lost[e] + unwritten[e] + abandoned[e] + hasty[e] = 0
      => accepted[e] = 0

(* email_reconciliation_service.rb:11: the job's own atomic guard makes    *)
(* the reconciler safe to call repeatedly.  So without any failure no      *)
(* email is sent twice.                                                    *)
ReconcileIsSafe == \A e \in Emails : lost[e] + unwritten[e] = 0 => accepted[e] <= 1

(* Pipeline and reconciler only: no crash, no rake task. *)
ReconcileSpec == RecoveryInit /\ [][PipelineRuns \/ Reconcile]_allVars
=============================================================================
