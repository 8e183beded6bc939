---------------------------- MODULE OutboxRepair ----------------------------
(***************************************************************************)
(* What makes repair safe in OutboxRecovery: the inductive invariant       *)
(* behind OneSenderUnlessHasty, DuplicatesExplained and                    *)
(* FailedTruthUnderRepair.  Nothing here is said of the key: the           *)
(* account holds for emails without one.                                   *)
(***************************************************************************)
EXTENDS OutboxRecovery, OutboxTruth

(* What the repairers have read names rows that exist.                     *)
ReconWellFormed ==
  /\ \A c \in Reconcilers : recon[c].pc # "idle" =>
       recon[c].email \in Emails /\ email[recon[c].email] # "none"
  /\ \A c \in Reconcilers : recon[c].pc \in {"read", "reset"} =>
       /\ recon[c].event \in Events
       /\ event[recon[c].event].status # "absent"
       /\ event[recon[c].event].email = recon[c].email
  /\ sweep \in Emails => email[sweep] # "none"

(* An event comes with its email, and a job that read or wrote an outcome  *)
(* finds the email past queued.                                            *)
OutcomesLast ==
  /\ \A o \in Events : IF event[o].status = "absent" THEN event[o].email = None
                       ELSE email[event[o].email] # "none"
  /\ \A j \in Jobs : job[j].pc \in Working \ {"claimed"} =>
       /\ job[j].seenEmail # "none"
       /\ job[j].seenEmail # "queued" => email[EmailOf(j)] # "queued"
       /\ job[j].pc = "sentmarked" => job[j].seenEmail = "sent"

-----------------------------------------------------------------------------
(***************************************************************************)
(* Who may hand an email to a provider.                                    *)
(***************************************************************************)
PendingOf(e) == {o \in Events : event[o].status = "pending" /\ event[o].email = e}
WorkersOf(e) == {j \in Jobs : job[j].pc \in Working /\ EmailOf(j) = e}

(* The workers that have not posted, or got no success.                    *)
TurnOf(e) ==
  {j \in WorkersOf(e) : job[j].pc \in {"claimed", "rejected", "failmarked", "erring"}}

(* The requests that may still reach a provider.                           *)
InEngine(e) ==
  {r \in Requests : request[r].phase \in {"received", "sending"} /\ request[r].email = e}

(* Without haste there is one pending event of an email or one worker.     *)
OneClaimant ==
  \A e \in Emails : hasty[e] = 0 =>
    /\ \A o, p \in PendingOf(e) : o = p
    /\ \A j, k \in WorkersOf(e) : j = k
    /\ PendingOf(e) = {} \/ WorkersOf(e) = {}

-----------------------------------------------------------------------------
(***************************************************************************)
(* The account of an email: what was accepted, may be, and may be posted.  *)
(***************************************************************************)
Account(e) ==
  accepted[e] + Cardinality(InEngine(e)) + Cardinality(PendingOf(e)) + Cardinality(TurnOf(e))

Paid(e) == lost[e] + unwritten[e] + abandoned[e] + hasty[e]

(* Nobody acts for an email without an outcome: repair is not hasty.       *)
Resting(e) == email[e] \in {"none", "queued"} /\ PendingOf(e) = {} /\ WorkersOf(e) = {}

(* One more than was paid for, unless the email rests: then a repair may   *)
(* still add one.                                                          *)
AccountBalanced ==
  \A e \in Emails :
    /\ Account(e) <= Paid(e) + 1
    /\ Resting(e) => Account(e) <= Paid(e)

(* A failed email that nothing befell is over.                             *)
FailedForGood ==
  \A e \in Emails : email[e] = "failed" /\ Paid(e) = 0 =>
    /\ accepted[e] = 0
    /\ InEngine(e) = {}
    /\ PendingOf(e) = {}
    /\ \A j \in WorkersOf(e) : job[j].pc = "failmarked"

-----------------------------------------------------------------------------
(* Whatever repair does beside the jobs, rows and readings fit together,   *)
(* an email has one claimant and its account is balanced, as long as no    *)
(* repair is hasty; each hasty one is on the account.                      *)
RepairInv ==
  /\ RecoveryTypeOK /\ WellFormed /\ CallersMatch /\ ReconWellFormed /\ OutcomesLast
  /\ OneClaimant /\ AccountBalanced /\ FailedForGood
=============================================================================
