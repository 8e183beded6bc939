---------------------------- MODULE CloudEvents ----------------------------
(***************************************************************************)
(* Reports to the cloud service: the second user of outbox_events.  A      *)
(* status change of an email writes one event and enqueues one             *)
(* CloudEventJob; cloud says, for each email, where both stand.  runs      *)
(* counts Sidekiq's retries, heard what the service took, lost (history)   *)
(* what it took without the event saying so.                               *)
(***************************************************************************)
EXTENDS Naturals

CONSTANTS
  Requests,      \* sends asked for, and the emails they make
  CloudRetries,  \* sidekiq_options retry
  CloudAttempts  \* max_attempts of a cloud event

ASSUME CloudAssumption == CloudRetries \in Nat /\ CloudAttempts \in Nat \ {0}

VARIABLES
  cloud,
  slips   \* failures still to come: a bound

ReportStatus == {"none", "pending", "processing", "processed", "dead"}
ReportPC     == {"none", "queued", "claimed", "heard", "failing", "completed", "over"}
Report       == [status : ReportStatus, attempts : Nat, pc : ReportPC,
                 runs : Nat, heard : Nat, lost : Nat]

NoReport == [status |-> "none", attempts |-> 0, pc |-> "none", runs |-> 0,
             heard |-> 0, lost |-> 0]

\* publish_cloud_event: a rescue swallows what fails, the row or the push
Swallowed == {NoReport, [NoReport EXCEPT !.status = "pending", !.pc = "over"]}

Slip == slips > 0 /\ slips' = slips - 1

Step(r, from, new) == cloud[r].pc = from /\ cloud' = [cloud EXCEPT ![r] = new]

\* Sidekiq takes a job that raised up again, until its retries are used up.
Retried(e) == IF e.runs < CloudRetries THEN [e EXCEPT !.pc = "queued", !.runs = @ + 1]
              ELSE [e EXCEPT !.pc = "over"]

\* fail! in the rescue clauses, which then raise
Failed(e) == Retried([e EXCEPT !.status = IF e.attempts >= CloudAttempts THEN "dead" ELSE "pending"])

ReportClaim(r) ==
  /\ cloud[r].status = "pending"
  /\ Step(r, "queued", [cloud[r] EXCEPT !.status = "processing", !.attempts = @ + 1,
                                        !.pc = "claimed"])
  /\ slips' = slips

\* Mutant: whatever the event is, the job is retried.
ReportSkipNever(r) ==
  /\ cloud[r].status \in {"processed", "dead"}
  /\ Step(r, "queued", Failed(cloud[r]))
  /\ slips' = slips

ReportSkip(r) ==
  /\ cloud[r].status \in {"processed", "dead"}
  /\ Step(r, "queued", [cloud[r] EXCEPT !.pc = "over"])
  /\ slips' = slips

\* The event of a run that was killed: the job raises, and its own rescue
\* releases the event for the next run.
ReportNotReady(r) ==
  /\ cloud[r].status = "processing"
  /\ Step(r, "queued", Failed(cloud[r]))
  /\ slips' = slips

ReportHeard(r) ==
  /\ Step(r, "claimed", [cloud[r] EXCEPT !.pc = "heard", !.heard = @ + 1])
  /\ slips' = slips

\* not reached, or an answer other than 2xx
ReportRefused(r) == Slip /\ Step(r, "claimed", [cloud[r] EXCEPT !.pc = "failing"])

ReportComplete(r) ==
  /\ Step(r, "heard", [cloud[r] EXCEPT !.pc = "completed", !.status = "processed"])
  /\ slips' = slips

\* the answer does not arrive, or complete! raises
ReportUnnoted(r) == Slip /\ Step(r, "heard", [cloud[r] EXCEPT !.pc = "failing", !.lost = @ + 1])

ReportFail(r)  == Step(r, "failing", Failed(cloud[r])) /\ slips' = slips
\* fail! raises too: the event stays in processing
FailFails(r)   == Slip /\ Step(r, "failing", Retried(cloud[r]))
ReportEnd(r)   == Step(r, "completed", [cloud[r] EXCEPT !.pc = "over"]) /\ slips' = slips

\* The process ends: Sidekiq pushes the job back, or loses it.
ReportKilled(r) ==
  /\ Slip
  /\ cloud[r].pc \in {"claimed", "heard", "failing", "completed"}
  /\ \E to \in {"queued", "over"} :
       Step(r, cloud[r].pc, [cloud[r] EXCEPT !.pc = to,
                               !.lost = IF cloud[r].pc = "heard" THEN @ + 1 ELSE @])

ReportSteps(r) ==
  \/ ReportClaim(r) \/ ReportSkip(r) \/ ReportNotReady(r) \/ ReportHeard(r) \/ ReportRefused(r)
  \/ ReportComplete(r) \/ ReportUnnoted(r) \/ ReportFail(r) \/ FailFails(r) \/ ReportEnd(r)
  \/ ReportKilled(r)

-----------------------------------------------------------------------------
\* The service hears of one change twice only where its answer, or the note of
\* it, was lost (CloudEventJob: update_all claims, processed is left alone).
CloudHeardOnce == \A r \in Requests : cloud[r].heard <= 1 + cloud[r].lost
=============================================================================
