---------------------------- MODULE OutboxLease ----------------------------
(***************************************************************************)
(* What the outbox promises, without rows, jobs or an engine: a task is    *)
(* leased to one worker at a time, at most MaxLeases times in all, and     *)
(* never again once it is settled.  A lease whose worker disappears is     *)
(* lost: nothing in the send path takes the task up again.  A task nobody  *)
(* holds may also be given up.                                             *)
(***************************************************************************)
EXTENDS Naturals

CONSTANTS Tasks, Workers, MaxLeases, NoWorker

VARIABLES
  state,    \* the state of each task
  leases,   \* how often each task was leased
  holder    \* the worker a task is leased to

LeaseVars == <<state, leases, holder>>

LeaseInit ==
  /\ state  = [t \in Tasks |-> "absent"]
  /\ leases = [t \in Tasks |-> 0]
  /\ holder = [t \in Tasks |-> NoWorker]

Offer(t) ==
  /\ state[t] = "absent"
  /\ state' = [state EXCEPT ![t] = "ready"]
  /\ UNCHANGED <<leases, holder>>

Lease(t, w) ==
  /\ state[t] = "ready"
  /\ leases[t] < MaxLeases
  /\ state'  = [state EXCEPT ![t] = "leased"]
  /\ leases' = [leases EXCEPT ![t] = @ + 1]
  /\ holder' = [holder EXCEPT ![t] = w]

(* The holder gives the task back, finishes it, or disappears. *)
EndLease(t) ==
  /\ state[t] = "leased"
  /\ \E new \in {"ready", "settled", "lost"} : state' = [state EXCEPT ![t] = new]
  /\ holder' = [holder EXCEPT ![t] = NoWorker]
  /\ UNCHANGED leases

GiveUp(t) ==
  /\ state[t] \in {"ready", "lost"}
  /\ state' = [state EXCEPT ![t] = "settled"]
  /\ UNCHANGED <<leases, holder>>

LeaseNext ==
  \/ \E t \in Tasks : Offer(t) \/ EndLease(t) \/ GiveUp(t)
  \/ \E t \in Tasks, w \in Workers : Lease(t, w)

LeaseSpec == LeaseInit /\ [][LeaseNext]_LeaseVars
=============================================================================
