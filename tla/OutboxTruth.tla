---------------------------- MODULE OutboxTruth ----------------------------
(***************************************************************************)
(* What makes the status of an email in OutboxPipeline true: the inductive *)
(* invariants behind SentWasAccepted, FailedWasNotAccepted and             *)
(* DuplicateOnlyAfterLoss.                                                 *)
(***************************************************************************)
EXTENDS OutboxRefinement

Active(r) == request[r].phase # "idle"

(* A caller the engine still answers asked for the email of its event.     *)
CallersMatch ==
  \A r \in Requests : request[r].client # None =>
    /\ Active(r)
    /\ request[r].email = EmailOf(request[r].client)

(* An email has at most one event, written with it.                        *)
OneEventEach ==
  /\ \A o \in Events : event[o].status # "absent" => email[event[o].email] # "none"
  /\ \A o, p \in Events :
       event[o].status # "absent" /\ event[p].status # "absent"
         /\ event[o].email = event[p].email => o = p
  /\ \A r \in Requests : Active(r) => email[request[r].email] # "none"
  /\ \A e \in Emails : email[e] = "none" => accepted[e] = 0

-----------------------------------------------------------------------------
(***************************************************************************)
(* A success goes back to a provider that accepted.                        *)
(***************************************************************************)
SameKey(e, f) == f = e \/ (KeyOf[f] # None /\ KeyOf[f] = KeyOf[e])

Backed(e) == \E f \in Emails : accepted[f] > 0 /\ SameKey(e, f)

(* Every carrier of a success on its way to the email - a request that     *)
(* delivered, a stored key, an answered job - goes back to an acceptance.  *)
SuccessBacked ==
  /\ \A r \in Requests : request[r].phase = "delivered" => accepted[request[r].email] > 0
  /\ \A k \in stored : \E f \in Emails : accepted[f] > 0 /\ KeyOf[f] = k
  /\ \A j \in Jobs : job[j].pc \in {"answered", "sentmarked"} => Backed(EmailOf(j))
  /\ \A e \in Emails : email[e] = "sent" => Backed(e)

-----------------------------------------------------------------------------
(***************************************************************************)
(* A failure that lost nothing reached no provider.                        *)
(***************************************************************************)
Clean(e) == lost[e] = 0 /\ unwritten[e] = 0

(* No provider took the email and the engine does not work on it.          *)
Untouched(e) ==
  /\ accepted[e] = 0
  /\ \A r \in Requests : Active(r) => request[r].email # e

(* Unless an outcome was lost, an email that may yet be sent is queued and *)
(* untouched, one that waits for an answer has no other request out, and   *)
(* one that failed is untouched.                                           *)
FailureClean ==
  \A e \in Emails : Clean(e) =>
    /\ email[e] = "failed" => Untouched(e)
    /\ \A o \in Events : event[o].status = "pending" /\ event[o].email = e =>
         email[e] = "queued" /\ Untouched(e)
    /\ \A j \in Jobs : job[j].pc \in Working /\ EmailOf(j) = e =>
         /\ job[j].pc \in {"claimed", "rejected", "failmarked", "erring"} => Untouched(e)
         /\ job[j].pc \in {"claimed", "calling", "answered", "rejected", "erring"} =>
              email[e] = "queued"
         /\ job[j].pc \in {"calling", "answered"} => job[j].seenEmail = "queued"
         /\ job[j].pc = "sentmarked" => email[e] = "sent"
         /\ job[j].pc = "calling" =>
              \A r \in Requests : Active(r) /\ request[r].email = e =>
                /\ request[r].client = j
                /\ request[r].phase # "delivered" => accepted[e] = 0

-----------------------------------------------------------------------------
(***************************************************************************)
(* Every acceptance past the first is paid for by a loss.                  *)
(***************************************************************************)
IsStored(e) == KeyOf[e] # None /\ KeyOf[e] \in stored

(* The requests that may still hand the email to a provider: with a        *)
(* working store, one that has not looked its key up is harmless once the  *)
(* key is stored.                                                          *)
Armed(e) ==
  {r \in Requests :
     /\ request[r].email = e
     /\ \/ request[r].phase = "sending"
        \/ request[r].phase = "received" /\ ~(ReliableStore /\ IsStored(e))}

Allowance(e) ==
  lost[e] + (IF KeyOf[e] # None /\ ReliableStore THEN 0 ELSE unwritten[e])

Spent(e) == accepted[e] + Cardinality(Armed(e))

(* The next request will find the account in order: within the allowance,  *)
(* or stopped by the stored key.                                           *)
Within(e) == Spent(e) <= Allowance(e) \/ (ReliableStore /\ IsStored(e))

(* The email may be posted again: its event is pending, or in the hands of *)
(* a job that has not posted or got no success.                            *)
Open(e) ==
  \/ \E o \in Events : event[o].status = "pending" /\ event[o].email = e
  \/ \E j \in Jobs : /\ job[j].pc \in {"claimed", "rejected", "failmarked", "erring"}
                     /\ EmailOf(j) = e

Succeeded(e) ==
  \E j \in Jobs : job[j].pc \in {"answered", "sentmarked"} /\ EmailOf(j) = e

(* What was accepted and may yet be stays within the allowance and one,    *)
(* and is in order for an open email; a success leaves its key behind.     *)
AcceptancesPaid ==
  \A e \in Emails :
    /\ IsFiniteSet(Armed(e))
    /\ Spent(e) <= Allowance(e) + 1
    /\ Open(e) => Within(e)
    /\ Succeeded(e) /\ ReliableStore => KeyOf[e] = None \/ IsStored(e)

-----------------------------------------------------------------------------
(* Callers, events, successes, failures and acceptances fit together       *)
(* after every step of jobs, engine, crashes and operator: what the status *)
(* of an email says rests on it.                                           *)
TruthInv ==
  CallersMatch /\ OneEventEach /\ SuccessBacked /\ FailureClean /\ AcceptancesPaid
=============================================================================
