--------------------------- MODULE TenantWebhooks ---------------------------
(***************************************************************************)
(* WebhookDeliveryJob: what ProviderEvents pushes is posted to the         *)
(* tenant's endpoint, one delivery row for each attempt, retried by        *)
(* Sidekiq when perform raises.                                            *)
(*                                                                         *)
(* Job i is the i-th one pushed.  The tenant has one endpoint; endpoints   *)
(* do not interact.                                                        *)
(***************************************************************************)
EXTENDS ProviderEvents

CONSTANTS
  MaxHookRetries,  \* sidekiq_options retry
  MaxSwitches      \* changes of is_active over a behaviour: a bound

ASSUME HooksAssumption ==
  /\ MaxHookRetries \in Nat
  /\ MaxSwitches \in Nat

VARIABLES
  switches,   \* changes of is_active so far
  hook,       \* the jobs: where each stands in perform and its retries
  deliveries, \* webhook_deliveries of each job: their success, in order
  heard,      \* history: posts of each job the endpoint took
  lost        \* history: acknowledgements of each job that were not recorded

hvars == <<switches, hook, deliveries, heard, lost>>
wvars == <<evars, hvars>>

\* There are at most as many webhooks as reports handled.
HookIds == 1..MaxRequests
HookPC  == {"queued", "posting", "acked", "refused", "raised", "done", "dead", "killed"}

HooksTypeOK ==
  /\ EventsTypeOK
  /\ switches \in 0..MaxSwitches
  /\ hook \in [HookIds -> [pc: HookPC, retries: 0..MaxHookRetries]]
  /\ deliveries \in [HookIds -> Seq(BOOLEAN)]
  /\ heard \in [HookIds -> Nat]
  /\ lost \in [HookIds -> Nat]

HooksInit ==
  /\ EventsInit
  /\ switches   = 0
  /\ hook       = [i \in HookIds |-> [pc |-> "queued", retries |-> 0]]
  /\ deliveries = [i \in HookIds |-> <<>>]
  /\ heard      = [i \in HookIds |-> 0]
  /\ lost       = [i \in HookIds |-> 0]

Goto(i, pc) == hook' = [hook EXCEPT ![i].pc = pc]

\* An attempt updates the row it created.
SetRow(i, ok) == deliveries' = [deliveries EXCEPT ![i][Len(deliveries[i])] = ok]

Bump(f, i) == [f EXCEPT ![i] = @ + 1]

-----------------------------------------------------------------------------
EventsRun == EventsNext /\ UNCHANGED hvars

\* PATCH /api/v1/webhook_endpoints/:id
Switch ==
  /\ switches < MaxSwitches
  /\ switches' = switches + 1
  /\ active' = ~active
  /\ UNCHANGED <<row, senders, reports, worker, log, suppressed, pushed, requests,
                 disturbed, hook, deliveries, heard, lost>>

\* An inactive endpoint ends the job, an active one gets a row and the post
\* goes out.
Begin(i) ==
  /\ i \in DOMAIN pushed
  /\ hook[i].pc = "queued"
  /\ active
  /\ deliveries' = [deliveries EXCEPT ![i] = Append(@, FALSE)]
  /\ Goto(i, "posting")
  /\ UNCHANGED <<evars, switches, heard, lost>>

Skip(i) ==
  /\ i \in DOMAIN pushed
  /\ hook[i].pc = "queued"
  /\ ~active
  /\ Goto(i, "done")
  /\ UNCHANGED <<evars, switches, deliveries, heard, lost>>

\* validate_webhook_url! raises, or the insert of the row does
BeginRaises(i) ==
  /\ i \in DOMAIN pushed
  /\ hook[i].pc = "queued"
  /\ active
  /\ Goto(i, "raised")
  /\ UNCHANGED <<evars, switches, deliveries, heard, lost>>

EndpointTakes(i) ==
  /\ hook[i].pc = "posting"
  /\ heard' = Bump(heard, i)
  /\ Goto(i, "acked")
  /\ UNCHANGED <<evars, switches, deliveries, lost>>

EndpointRefuses(i) ==
  /\ hook[i].pc = "posting"
  /\ Goto(i, "refused")
  /\ UNCHANGED <<evars, switches, deliveries, heard, lost>>

\* Faraday::Error before the endpoint took it
Unreachable(i) ==
  /\ hook[i].pc = "posting"
  /\ SetRow(i, FALSE)
  /\ Goto(i, "raised")
  /\ UNCHANGED <<evars, switches, heard, lost>>

\* Faraday::Error after it: the acknowledgement came late or never
AckLost(i) ==
  /\ hook[i].pc = "acked"
  /\ SetRow(i, FALSE)
  /\ lost' = Bump(lost, i)
  /\ Goto(i, "raised")
  /\ UNCHANGED <<evars, switches, heard>>

\* Mutant: perform raises after a recorded success.
RecordSuccessRaising(i) ==
  /\ hook[i].pc = "acked"
  /\ SetRow(i, TRUE)
  /\ Goto(i, "raised")
  /\ UNCHANGED <<evars, switches, heard, lost>>

RecordSuccess(i) ==
  /\ hook[i].pc = "acked"
  /\ SetRow(i, TRUE)
  /\ Goto(i, "done")
  /\ UNCHANGED <<evars, switches, heard, lost>>

\* Mutant: the row says success whatever the endpoint answered.
RecordRefusalAsSuccess(i) ==
  /\ hook[i].pc = "refused"
  /\ SetRow(i, TRUE)
  /\ Goto(i, "raised")
  /\ UNCHANGED <<evars, switches, heard, lost>>

RecordRefusal(i) ==
  /\ hook[i].pc = "refused"
  /\ SetRow(i, FALSE)
  /\ Goto(i, "raised")
  /\ UNCHANGED <<evars, switches, heard, lost>>

\* delivery.update! itself raises: the row stays as it was created
RecordRaises(i) ==
  /\ hook[i].pc \in {"acked", "refused"}
  /\ lost' = IF hook[i].pc = "acked" THEN Bump(lost, i) ELSE lost
  /\ Goto(i, "raised")
  /\ UNCHANGED <<evars, switches, deliveries, heard>>

\* Mutants: retries without a limit, and retries that are not counted.
RetryEndless(i) ==
  /\ hook[i].pc = "raised"
  /\ hook' = [hook EXCEPT ![i] = [pc |-> "queued", retries |-> hook[i].retries + 1]]
  /\ UNCHANGED <<evars, switches, deliveries, heard, lost>>

RetryUncounted(i) ==
  /\ hook[i].pc = "raised"
  /\ Goto(i, "queued")
  /\ UNCHANGED <<evars, switches, deliveries, heard, lost>>

\* Sidekiq: five retries, then the dead set; a killed worker loses its job.
Retry(i) ==
  /\ hook[i].pc = "raised"
  /\ hook[i].retries < MaxHookRetries
  /\ hook' = [hook EXCEPT ![i] = [pc |-> "queued", retries |-> hook[i].retries + 1]]
  /\ UNCHANGED <<evars, switches, deliveries, heard, lost>>

Bury(i) ==
  /\ hook[i].pc = "raised"
  /\ hook[i].retries = MaxHookRetries
  /\ Goto(i, "dead")
  /\ UNCHANGED <<evars, switches, deliveries, heard, lost>>

KillHook(i) ==
  /\ hook[i].pc \in {"posting", "acked", "refused"}
  /\ Goto(i, "killed")
  /\ UNCHANGED <<evars, switches, deliveries, heard, lost>>

Performs(i) ==
  \/ Begin(i) \/ Skip(i) \/ BeginRaises(i)
  \/ EndpointTakes(i) \/ EndpointRefuses(i) \/ Unreachable(i) \/ AckLost(i)
  \/ RecordSuccess(i) \/ RecordRefusal(i) \/ RecordRaises(i)
  \/ Retry(i) \/ Bury(i)

HooksNext ==
  \/ EventsRun
  \/ Switch
  \/ \E i \in HookIds : Performs(i) \/ KillHook(i)

\* Sidekiq runs what is queued and schedules what raised; a post that is out
\* ends by its timeout.
HooksSpec == HooksInit /\ [][HooksNext]_wvars /\ \A i \in HookIds : WF_wvars(Performs(i))

-----------------------------------------------------------------------------
(***************************************************************************)
(* Properties.                                                             *)
(***************************************************************************)
\* The endpoint takes a webhook again only after an acknowledgement of it was
\* lost or could not be recorded: a retry follows a raise, and an attempt that
\* was recorded as a success does not raise.
HeardAgainOnlyAfterLoss ==
  \A i \in HookIds : heard[i] <= lost[i] + 1

\* The rows the tenant sees tell the truth: a success was taken by the endpoint,
\* it is the last attempt, and a job that is done without one was skipped or
\* never taken up by the endpoint except for lost acknowledgements.
RowsTellTheTruth ==
  \A i \in HookIds : LET rows == deliveries[i] IN
    /\ \A n \in DOMAIN rows : rows[n] => n = Len(rows) /\ heard[i] > lost[i]
    /\ hook[i].pc = "done" /\ heard[i] > lost[i] => \E n \in DOMAIN rows : rows[n]

\* Every webhook pushed ends: recorded, skipped, given up or lost with its worker.
HooksEnd ==
  \A i \in HookIds :
    i \in DOMAIN pushed ~> hook[i].pc \in {"done", "dead", "killed"}

-----------------------------------------------------------------------------
(***************************************************************************)
(* What TenantWebhooksProofs proves inductive.                             *)
(***************************************************************************)
\* Where a job stands says how many of its posts the endpoint took more than
\* were lost: the one that is not recorded yet, that was, or that died with
\* its worker.
LossesPaid ==
  \A i \in HookIds :
    /\ hook[i].pc = "acked" => heard[i] = lost[i] + 1
    /\ hook[i].pc \in {"done", "killed"} => heard[i] <= lost[i] + 1
    /\ hook[i].pc \notin {"acked", "done", "killed"} => heard[i] = lost[i]

\* An attempt on its way has its row, and only a job that is done has a row
\* that says success.
RowsFollow ==
  \A i \in HookIds :
    /\ hook[i].pc \in {"posting", "acked", "refused"} => Len(deliveries[i]) > 0
    /\ \A n \in DOMAIN deliveries[i] : deliveries[i][n] => hook[i].pc = "done"

\* The rows, jobs and history of WebhookDeliveryJob have their types, message ids
\* are not shared (EventsTypeOK rests on it), and where a job stands says what the
\* endpoint took of it and what its rows may say.
HooksInv == HooksTypeOK /\ OwnMessages /\ LossesPaid /\ RowsFollow /\ RowsTellTheTruth
=============================================================================
