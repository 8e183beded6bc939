-------------------------- MODULE OutboxRefinement --------------------------
(***************************************************************************)
(* The pipeline of OutboxPipeline seen as the leasing of OutboxLease: the  *)
(* holder of an event is the job that works on it, and what the row says   *)
(* while a job works on it is not yet the outcome.                         *)
(***************************************************************************)
EXTENDS OutboxPipeline

Holders(o) == {j \in Jobs : job[j].pc \in Working /\ job[j].event = o}

Holder(o) == IF Holders(o) = {} THEN None ELSE CHOOSE j \in Holders(o) : TRUE

StateOf(o) ==
  IF Holders(o) # {} THEN "leased"
  ELSE CASE event[o].status = "absent"     -> "absent"
         [] event[o].status = "pending"    -> "ready"
         [] event[o].status = "processing" -> "lost"
         [] OTHER                          -> "settled"

holderOf   == [o \in Events |-> Holder(o)]
leaseState == [o \in Events |-> StateOf(o)]
leaseCount == [o \in Events |-> event[o].attempts]

Outbox == INSTANCE OutboxLease
          WITH Tasks <- Events, Workers <- Jobs, MaxLeases <- MaxAttempts, NoWorker <- None,
               state <- leaseState, leases <- leaseCount, holder <- holderOf

(* Every step of the pipeline, crashes and duplicate jobs included, is a   *)
(* step of the lease or leaves it alone (perform of                        *)
(* outbox_processor_job.rb, fail! of outbox_event.rb).                     *)
ImplementsLease == Outbox!LeaseSpec

-----------------------------------------------------------------------------
(***************************************************************************)
(* The inductive invariant behind the safety properties of OutboxPipeline. *)
(***************************************************************************)

(* Rows that exist name rows that exist, and a caller that the engine      *)
(* still answers waits for exactly one request.                            *)
WellFormed ==
  /\ \A o \in Events : event[o].status # "absent" => event[o].email \in Emails
  /\ \A o \in unqueued : event[o].status # "absent"
  /\ \A j \in Jobs : job[j].pc # "free" =>
       job[j].event \in Events /\ event[job[j].event].status # "absent"
  /\ \A r \in Requests : request[r].phase # "idle" => request[r].email \in Emails
  /\ \A r \in Requests : request[r].client # None => job[request[r].client].pc = "calling"
  /\ \A r, s \in Requests : request[r].client # None /\ request[r].client = request[s].client
       => r = s

(* A job that works on an event holds it in processing, unless a duplicate *)
(* that ran out of retries buried it meanwhile, and the copies it loaded   *)
(* are still what the row says.                                            *)
HolderSeesRow ==
  \A j \in Jobs : job[j].pc \in Working =>
    LET row == event[job[j].event] IN
    /\ row.status \in {"processing", "dead"}
    /\ row.status = "dead" => Outlasted(job[j].event)
    /\ job[j].pc # "claimed" => /\ job[j].seenEvent \in {"processing", row.status}
                                /\ job[j].seenAttempts = row.attempts

(* Every retry of a job was paid for by a claim of its event, or by a      *)
(* raise at the claim.                                                     *)
RetriesPaid ==
  \A j \in Jobs : job[j].pc # "free" =>
    LET paid == event[job[j].event].attempts + job[j].stumbles IN
    /\ job[j].retries <= paid
    /\ job[j].pc \in Working \union {"raised"} => job[j].retries < paid

PendingHasAttemptsLeft ==
  \A o \in Events : event[o].status = "pending" => event[o].attempts < MaxAttempts

FreeIsUntouched ==
  /\ \A j \in Jobs : job[j].pc = "free" => job[j] = FreeJob
  /\ \A o \in Events : event[o].status = "absent" => event[o].attempts = 0

(* What the rows, the jobs and the requests owe each other.                *)
Bookkeeping ==
  /\ WellFormed /\ HolderSeesRow /\ SingleHolder /\ AttemptsBounded
  /\ PendingHasAttemptsLeft /\ RetriesPaid /\ FreeIsUntouched

(* The conjunction is inductive: no step of the pipeline, crashes and      *)
(* duplicate jobs included, leads out of it.                               *)
IInv == TypeOK /\ Bookkeeping
=============================================================================
