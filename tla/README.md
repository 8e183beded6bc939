# CourierX, verified

TLA+ models of the CourierX email sending system and of its dashboard, checked with
TLC; the send pipeline, its recovery, provider events, tenant webhooks, the gates of a
dispatch and the dashboard are also proved about with TLAPS. Paths below are relative to the repository; `CP`
stands for `backend/control-plane` (Rails, Sidekiq), `GO` for `backend/core-go` (the
send engine) and `UI` for `frontend/dashboard/src` (the dashboard, Next.js).

## The system

A tenant's call to `POST /api/v1/emails`, or an agent's call of the MCP tool
`send_email`, runs `EmailDispatchService`. It looks the idempotency key up, asks
whether some provider connection can send, whether the recipient is suppressed and
whether the plan allows it. Then it writes
an email (`queued`) and an outbox event (`pending`) in one transaction and, after
the commit, pushes an `OutboxProcessorJob`. The job claims the event with one
guarded `UPDATE`, loads the rows, posts the email to the Go engine and writes the
outcome back: email, then event. The engine looks the idempotency key up, tries
the tenant's providers in order, and answers with a status that tells the job
whether to retry. Providers report delivery later through webhooks. Reconciler
and rake tasks repair what got stuck. The dashboard is a client of the same API: it
keeps lists in a query cache, sends a mutation for each button, and fetches the
lists again that the mutation made old.

| component | state | operations | who it talks to | what is hard | what must hold |
|---|---|---|---|---|---|
| Dispatch (`CP/app/services/email_dispatch_service.rb`) | emails, outbox_events | create both, push a job | resolver, suppressions, plan limits, Sidekiq | the push is outside the transaction; the key lookup is a check before an insert | no accepted email without an event; one email per key |
| Send pipeline (`CP/app/jobs/outbox_processor_job.rb`, `CP/app/models/outbox_event.rb`) | event status, attempts; Sidekiq's queue and retry set | claim, load, call, mark, complete, fail, exhaust | engine (HTTP), Postgres, Redis | duplicates, timeouts, partial writes, killed workers | one worker per event; bounded attempts; a settled event stays so; duplicates only where an answer was lost |
| Go engine (`GO/internal/api`, `GO/internal/providers`, `GO/internal/middleware`) | requests in flight, idempotency store, rate limiter | Send, BulkSend, fallback over the chain | providers, Redis | the caller gives up while the send goes on; a provider's answer is lost | an answer of success means a provider accepted it |
| Recovery (`CP/app/services/email_reconciliation_service.rb`, `CP/lib/tasks/*.rake`) | nothing of its own | reset events, rebuild them, push jobs | the rows of the pipeline | it races the jobs it repairs | it sends twice only where it interferes |
| Provider events (`CP/app/services/provider_event_processor.rb`, `provider_status_poller.rb`, webhook controllers) | email status, email_events, suppressions | record, move the status, suppress | provider webhooks and APIs | events early, late, twice, out of order | a final status is not undone |
| Tenant webhooks (`CP/app/jobs/webhook_delivery_job.rb`) | deliveries | post, record, retry | tenant endpoints | delivered and retried | each delivery ends |
| Cloud events (`CP/app/models/concerns/publishes_cloud_events.rb`, `CP/app/jobs/cloud_event_job.rb`) | outbox_events for the cloud | publish, claim, deliver | the cloud service | a rescue that puts back an event the cloud has heard; failures swallowed at the source | heard again only after a lost acknowledgement |
| Provider choice, quotas (`CP/app/services/eligible_connections_resolver.rb`, `CP/app/models/provider_quota*.rb`) | usage counters | resolve, increment | health checks | caps read before and counted after, for a connection the engine does not name | caps not overshot beyond what is on the way or counted wrongly |
| MCP tools (`CP/app/services/mcp_tools`) | the connection's count | send_email, queries | dispatch | a cap checked before and counted after | not overshot beyond what is on the way |
| Domains, provider verification (`CP/app/jobs/domain_verification_job.rb`) | domain status per provider | verify, poll | DNS, provider APIs | turns verified while somebody looks at it | the page shows it |
| Invitations, API keys, sessions (`CP/app/controllers/api/v1`) | rows | create, accept, revoke, use | users, agents | check-then-act on tokens | a session's data stay its own |
| Dashboard (`UI`) | the query cache, the state of a page, token and tenant in localStorage | dialogs, forms, mutations, fetches, timers | the API, other tabs | two requests in flight; a page left under a call; a dialog reopened under a timer; a session that changes | lists settle on what the server has; a form makes one row; nothing of one session reaches another |
| Usage, metrics; SDKs; docs, deployment | | | the API | | not modelled |

## What is modelled

**`OutboxPipeline`** is the core. `email` and `event` are the rows (`emails.status`;
`outbox_events.status`, `attempt_count` and the email the payload names).
`unqueued` holds events that are committed and not pushed yet. `job` is
Sidekiq: `queued` covers the Redis list, `raised` is a job that raised and waits
for its retry, `stumbled` one that raised at the claim statement itself, where
`perform` has no event to fail (`ClaimRaises`; `stumbles` counts the retries that
went on it), `claimed` to `erring` are the places inside `perform` between two
steps another process can see. `request` is a `POST /v1/send` inside the engine;
it outlives its caller, whose `client` field is then `None`. `stored` is the
engine's idempotency store. `accepted`, `lost` and `unwritten` are history: what
providers accepted, which answers got lost, which outcomes could not be written.

Every statement that reads or writes a shared row is a step. ActiveRecord's
`update!` writes only the columns that differ from the copy in memory; jobs
therefore keep what they loaded (`seenEmail`, `seenEvent`, `seenAttempts`), and
`Written` leaves a column alone when the copy already says so. Actions named after methods
are those methods; `FailEvent` covers the two calls of `fail!` that a transient
answer makes (the branch and the rescue clause), since the second one writes
only `last_error`.

`KeyOf` gives each email its key or none, `ReliableStore` says whether the
engine's Redis always answers; with `FALSE` a lookup may miss and a store may be
dropped, which is what the code does with a Redis error. `ChainLength`,
`MaxAttempts` (`max_attempts`, default 5) and `MaxRetries` (`retry: 25`) are the
limits of the code.

**`OutboxRecovery`** puts `EmailReconciliationService` (for queued emails) and the
tasks of `lib/tasks/outbox.rake` beside the pipeline, each split where the code
makes separate statements. `old` are the events whose `updated_at` is past five
minutes; `update!` makes an event young again and `update_all`, which the claim
and `recover_stuck_processing` use, does not. `hasty` counts resets and rebuilds
of an email something still acted for; `abandoned` counts jobs that died with a
call made. **`OutboxRepair`** holds `RepairInv`, the inductive invariant behind the
properties of `OutboxRecovery`.

**`OutboxLease`** is what the outbox promises: a task is leased to one worker at a
time, at most `MaxLeases` times, and never after it is settled; a lease whose
worker disappears is lost; what nobody holds may be given up. **`OutboxRefinement`** maps the pipeline to it and
holds the inductive invariant `IInv`; **`OutboxTruth`** holds a second one,
`TruthInv`, which carries what the status of an email says. `MCOutboxPipeline`, `MCOutboxRefinement`
and `MCOutboxRecovery` give the constants their values.

**`ProviderEvents`** follows an email after its dispatch. A `worker` is a Puma
thread in a provider's webhook or a reconciliation of sent emails, and holds the
copy of the email it loaded: `polling` is the call of `ProviderStatusPoller`,
`recorded`, `updated` and `filed` are the places between the statements of
`ProviderEventProcessor`. A `send` is one run of the outbox job seen from the
email, reduced to its load, the acceptance, the write of the status and the end;
that two runs do not overlap is what `OutboxLease` promises. A report (`reports`)
may reach a handler any number of times, in any order, or never. A report is a `Word` of
its provider (`ProviderOf` a message): a bounce that is hard, soft or not said to be
either, a drop, a complaint. `SendGridKind` to `SesKind` are what the five webhook
controllers make of them, `PollKind` what the poller makes of what the provider's API
shows, and they do not agree: Resend's controller takes every bounce for permanent that
is not of subType transient, the others every bounce for temporary that is not said to be
permanent; SendGrid's drop has failed, Mailgun's rejection is a soft bounce when its webhook
tells of it and has failed when a poll finds it; a poll knows no bounce type. Mailgun's controller strips the
angle brackets of the message id, and the row may have them: such a webhook finds no
email (`WebhookUnknown`). Ages are left out: a reconciliation may find any sent email over
one hour or over 72 hours old. As in the pipeline, `Written` leaves a column alone
when the copy already has the value. `disturbed` is history: two copies of an
email were held at once (`overlap`), it was sent again after an earlier send was
written (`resend`), a handler stopped half-way (`slip`).

**`TenantWebhooks`** extends it with `WebhookDeliveryJob`. Job `i` is the `i`-th one
that `fire_tenant_webhooks!` pushed, `deliveries[i]` its rows, one for each attempt.
The tenant has one endpoint, since endpoints do not interact, and may switch it
off and on. `heard` and `lost` count what the endpoint took and which of its
acknowledgements were not recorded. `MCProviderEvents` and `MCTenantWebhooks`
give the constants their values.

**`DispatchGate`** is what stands between a request and a provider. All requests are
of one tenant, for one recipient; the keyed ones share one idempotency key, and each makes at
most one email with one job, so `r` names them all. `pc` is where a request stands:
in `McpTools::SendEmail` before and after the dispatch, and in `EmailDispatchService` between its steps
`asked` (lookup), `fresh` (pre-flight), `eligible` (suppression), `clear` (plan gate,
transaction) and `committed` (push). `job` is the job and its request in the engine
together, reduced to resolve, replay or send, fall back, answer, count. `up` are the
connections that are active and verified for the domain, `used` the counters of the
day, `total` the MCP connection's, `listed` the suppressions of the recipient, as
they were typed or in lower case. The caps, the list, the connections and the clock
change under a request (`Suppress`, `ConnectionTurns`, `Midnight`, `KeysAge`,
`EntryExpires`). How a job holds its event, is retried or dies is the subject of
`OutboxPipeline` and left out here. `late`, `unseen`, `beside`, `forgot`, `peak`, `missed`, `flown`
and `untold` are history: who could not see whom, and how many were on the way.

**`CloudEvents`**, which it extends, is `CloudEventJob`: each email that ends makes
one report. `Swallowed` is what `publish_cloud_event` leaves when it fails; the rescue
clauses of the job are `ReportFail` and `FailFails`.

**`QueryClient`** is one browser tab of the dashboard. `rows` are the control plane's
rows; `cache[t]` is the query of table `t`, with what a fetch on its way has got
already; `calls` are the mutations in the order they were sent, from `sent` over `ok`
(done by the server) and `settling` (the hook's `onSuccess` waits for the lists it
invalidated) to `won` or `lost`, where the handler goes on; `view` is what `useState`
holds. JavaScript runs one handler at a time, and the continuation of a settled promise comes before the next
event (`Awake`). TanStack Query is not under the repository and is modelled from how
the hooks use it: a mounted query is fetched when it is missing or stale; an
invalidation restarts a fetch that runs, unless there are no data yet; a failed fetch
keeps the old data; callbacks given to `mutate` belong to its latest call and to a
mounted component. The content of a row is its state (on, off, or a domain that `failed`;
a domain that is off is pending), a revision, and for the tenant the switches that are
off, in the two groups that the settings page saves (`Saves`): what is missing from its
settings reads as on. A save sends its whole group, the control plane replaces all
settings by it, and a save that fails puts the whole group back to the handler's copy
(`RolledBack`). Names are not modelled: any creation may be refused for a name that is taken, and
two may both go through, as they do under two names. `past.missed` is history: the lists
that changed without a fetch of this tab to follow.

| module | pages | peculiar to them |
|---|---|---|
| `CredentialPages` | API keys, MCP connections, team | a secret that is shown once; the reset that a closed dialog schedules after 300 ms (`ResetFires`) |
| `EndpointPages` | webhooks, suppressions, domains | confirmation in the row; the polling while a domain is pending, not for a failed one (`PollDomains`) |
| `ProviderPages` | providers, their dialogs, routing | one lock for all verifications; the connections are invalidated every two seconds for thirty after a webhook setup (`PollSetup`, `StopPolling`) |
| `TemplatePages` | templates, their form, new template, sending | forms that start from the cache; handlers that go to another page |
| `Sessions` | login, signup, profile, settings | the 401 interceptor, the middleware's cookie, a page that is unloaded, other tabs, switches that are turned before they are saved |

**`Dashboard`** composes them; `Next` is every handler of every page beside the
server, the fetches, the timers and the troubles. **`DashboardTruth`** holds its
inductive invariant `DashInv`: the types, what each page may send (`Offers`), and one named
part for each thing the proofs need to know of calls, forms, lists, saves, sessions and switches. `MCDashboard` and `MCDispatchGate`
give the constants their values.

## Runs

| run | module | what it shows |
|---|---|---|
| `outbox_safety` | `MCOutboxRefinement` | under a key and a working store, with every failure and crash of the model: one worker per event, bounded attempts, settled for good unless a job spent its retries at the claim, a second acceptance only after a lost answer, sent means accepted; refinement; `IInv` and `TruthInv` |
| `outbox_live` | `MCOutboxPipeline` | no key, failing store, Sidekiq's retries ending before `max_attempts`: every pending event settles; a failed email reached no provider unless an outcome was lost |
| `outbox_recovery` | `MCOutboxRecovery` | reconciler and rake tasks against the jobs: two senders or a second acceptance only after a loss or a hasty repair; a failed email that nothing befell was not accepted; `RepairInv` |
| `outbox_dead_queued` | `MCOutboxPipeline` | (violation) five transient failures bury the event and leave the email queued |
| `outbox_shutdown` | `MCOutboxPipeline` | (violation) a job pushed back by a shutdown leaves its event in processing |
| `outbox_shared_key` | `MCOutboxPipeline` | (violation) two tenants' emails with one key: the second is marked sent and never sent |
| `outbox_reconcile` | `MCOutboxRecovery` | (violation) the reconciler alone, without any failure, makes an email go out twice |
| `provider_events` | `MCProviderEvents` | reports in any order and number, two sends, two handlers and a reconciliation: the status only moves forward unless copies overlapped or the email was sent again; it shows the strongest event on record; it claims only what a provider said in its own words; suppression comes before the tenant is told, and only for what the provider itself called permanent, a complaint or an unsubscription, or at Resend a bounce that it did not call transient; `EventsInv` |
| `tenant_webhooks` | `MCTenantWebhooks` | `HooksInv`; the endpoint takes a webhook again only after a lost acknowledgement; the rows tell the truth; every webhook ends |
| `dispatch_gate` | `MCDispatchGate` | how far each check of a dispatch can be overtaken: two emails of one key both go out only where neither lookup could find the other and the engine had both at once or forgot the first; a listed recipient is sent to only when the listing came after the check, or is not in lower case; a connection's cap and an MCP connection's cap are passed by no more than was on the way at once, and what was counted elsewhere or not at all; the cloud hears a report again only after a lost acknowledgement; `GateInv` |
| `dashboard` | `MCDashboard` | a list at rest that missed no change shows what the server has; a new secret is kept in its dialog until the user closes it or leaves; one opening of a form makes one row, but for the connect dialog; an edit starts from the user's own last save; no session shows another's data or is ended by another's 401; the group of switches that was saved last shows what the server has; a save moves the user only off its own page; a domain that is shown pending and was verified is shown so; `DashInv` |
| `expiry_race` | `MCProviderEvents` | (violation) a reconciliation that found nothing writes failed over a delivery that came in while it polled |

Bounds. Two jobs are enough for a race on one event: the guards compare one
event with one job, and a third job repeats what the second does. Two requests
let an orphaned one run beside its retry's. A chain of two has a first and a
last provider. Two attempts have a first and a last; three retries outlast them
unless one goes on a raise at the claim, and in `outbox_live` one retry does not. One email and one event suffice where
events do not interact; they do through a shared key (two of each in
`outbox_shared_key`) and through `recover_queued` (two events in
`outbox_recovery`). `MaxTrouble` bounds resets, rebuilds, lost outcomes and a job's raises at the claim
together; two of them already combine a loss with a repair and a repair with a
repair. Jobs that finished are not used again, so `Jobs` also bounds how many are
ever pushed; the system may then stop, which is why deadlock is not checked. Jobs, and
events, are symmetric in `outbox_recovery`, jobs and requests in `outbox_safety`.

In `provider_events` two messages are an email and its resend, two handlers and
one reconciliation give every pair of kinds of writers, and `MaxRequests` is 2: a
race needs two copies. The first send goes through Resend, the second through Mailgun:
the one provider that takes a bare bounce for permanent and one that has every other
conversion, drops included. The words left out there behave like one that is in:
`soft` as `bare` does at Mailgun, `unsubscribed` suppresses as `complained` does, `opened` and
`delayed` change nothing. Only handlers are symmetric
there; the run has no liveness property. `tenant_webhooks` has one message with two reports, hence
two jobs, and one retry, so that there is an attempt after the first and a last
one; one switch of the endpoint may fall between any two steps of a job.

`dispatch_gate` is a set of scenes (`MCScenes`): each names who asks (the API, an MCP
connection, nobody), who uses the key, the tenant's mode, whether there is a cloud
service, the connections that are up, and how many failures (`slips`) and changes of
the world (`moods`) may fall anywhere. Two requests make a race for a key or for the
MCP cap; three for a cap of one show that the overshoot grows with what is on the
way. Two connections are accounts at one provider, so that a fallback is counted for
the wrong one. Four slips are enough for two rounds of loss and repair of a report;
`CloudRetries` 2 against `CloudAttempts` 4 keeps the code's order of 5 retries and 10
attempts: Sidekiq gives up first, there is no hook for it, and the event then stays
pending without a job.

`dashboard` is a set of tours (`MCTours`): the pages visited, and how many calls,
moves (dialogs opened, pages visited), extra fetches, troubles (lost answers, failed fetches, other clients) and changes of
session there may be. Two calls in flight make every race of handlers that a page
has; two rows are one that is acted on and one beside it; two of the four notification
switches are one that is clicked and one that is put back beside it; two accounts are one after
the other. Every page has a tour of its own with two calls, or with a trouble, or
both, and pages that share a query or hand the user on are visited together. The
initial rows are all that can have been made before.

Neither run checks for deadlock: requests end, and a user may stop.

Fairness (`LiveSpec`). Sidekiq fetches what is queued, runs it and schedules
retries (`Perform`), the web process makes the push it stands before
(`Enqueue`), the engine answers its requests (`Serve`). No fairness is assumed of
clients, operators or failures. `LiveSpec` has timeouts, failed writes and engine
crashes, and leaves out the crashes that leave work behind (a lost push, a
killed or shut down worker, a `fail!` that fails): after those nothing in the send path
takes the event up again, as `outbox_shutdown` shows. `ShutdownSpec` has the
shutdown as its only crash. `HooksSpec` is fair to the steps of each job
(`Performs`): Sidekiq runs what is queued and schedules what raised, and a post
ends by its timeout. It is not fair to a killed worker's job, which counts as
ended: Sidekiq's basic fetch does not return it. `Spec` of `Dashboard` is fair to the
continuation of settled promises, which the browser runs before anything else, to the
answers of fetches (served, denied or failed: `FetchFails` is a trouble, counted and
not needed), and to `PollDomains`: `refetchInterval` fires every five seconds while
the page is looked at. It does not while the window is in the background
(`refetchIntervalInBackground: false`); the model's user looks. Users, mutations,
other clients and the server's work get no fairness. `GateSpec` has none, since only
safety is claimed of it.

## What is proved

`OutboxProofs` proves of `Spec`, for every set of emails, events, jobs and
requests and every limit, that `TypeOK`, `SingleHolder`, `AttemptsBounded` and
`IInv` always hold and that `SettledForever` holds of every step.
It also proves that the pipeline implements `OutboxLease`.

The assumption is `PipelineAssumption` (what the constants are). It does not say that
retries outlast attempts, though the code means them to (25 against 5):
`sidekiq_retries_exhausted` writes `dead` over whatever status the event has, and a
raise at the claim statement costs a retry and no attempt. A duplicate job that
stumbles there often enough buries a processed event, or one another job holds.
`Outlasted` is what that takes, `MaxRetries - MaxAttempts` stumbles of one job, and
`SettledForever` and `HolderSeesRow` make no other exception. The lease is kept even
so: a task that is held stays leased whatever the row says meanwhile, and a row that
goes from processed to dead was settled before.

`SingleHolder` is not inductive alone. That the claim's guard excludes a second
worker needs that a working job's event is in `processing`, or dead for good (`HolderSeesRow`);
that a holder's writes do what they say needs that its copies still equal the row
(`HolderSeesRow` again); `AttemptsBounded` needs that a pending event has attempts
left; what a job that runs out of retries can have gone through needs that each retry
was paid for by a claim or a raise at the claim (`RetriesPaid`); and all of them need that rows and jobs name rows
that exist and that the engine answers a caller through one request only
(`WellFormed`). `IInv` is the conjunction. `TypeStep` shows that every action keeps
`TypeOK`, `BookkeepingStep` that every action keeps the rest. For the refinement,
`HolderIs` shows that the chosen holder is the working job; `Dispatch`, `Claim`
and the exits of a holder are the visible steps, everything else leaves rows and
holders alone.

`OutboxTruthProofs` proves of `Spec`, keyed or not, under a working store or not, and
with kills and shutdowns at any place, that `TruthInv`, `SentWasAccepted`,
`FailedWasNotAccepted` and `DuplicateOnlyAfterLoss` always hold, from the same
assumptions and `IInv`. The status of an email is written from an answer that left
the engine long before, so each part of `TruthInv` follows the answer on its way.
`SuccessBacked`: a delivered request, a stored key and an answered job each go back to
an acceptance of that email or of one with its key, which is why a replayed response
never makes a success out of nothing. `FailureClean`: as long as no outcome of an
email was lost, it has one worker and one request, that request is its worker's, and
whoever is about to fail it knows that no provider has it. `AcceptancesPaid`: the
acceptances and the requests that may still reach a provider (`Armed`) come to no more
than the losses and one, and to no more than the losses while the email may be posted
again (`Open`), unless the stored key will stop the next request; that leaves room for
the one request of the next claim. `CallersMatch` and `OneEventEach` tie requests to
jobs and events to emails. Each part has a lemma with a step for each action; the
answers of the engine share one (`Moved`), and the cardinality of `Armed` has its own.

`OutboxRecoveryProofs` proves of `RecoverySpec`, for every number of emails, events,
jobs, requests and reconciliations, that `RepairInv`, `OneSenderUnlessHasty`,
`DuplicatesExplained` and `FailedTruthUnderRepair` always hold. The assumptions are
`PipelineAssumption` and `RecoveryAssumption` (finite sets, and the two marks of the
sweep are not emails). `IInv` is of no use here: repair breaks it, since it takes a held
event away from its holder. What is left is an account of each email: its acceptances, the
requests in the engine that may still become one, its pending events and its workers
that may post again come to no more than what was paid for (an outcome lost or not
written, a job that died with its call made, a hasty repair) and one, and to no more
than what was paid for while the email is queued and nothing acts for it
(`AccountBalanced`): that leaves room for the one event a repair then adds.
`OneClaimant` says that without haste an email has one pending event or one worker,
`FailedForGood` that an email which failed and was not paid for is over; both need
that an outcome is never taken back (`OutcomesLast`). The proof does not go through the actions
three times: every step is, for each email, one of a few moves (`RecoveryMoves`), and
each move keeps all three (`MoveKeeps`). The account says nothing of the key; with
one, fewer acceptances follow.

`ProviderEventsProofs` proves of `EventsSpec`, for every set of emails, messages,
handlers and reconcilers, that `EventsTypeOK`, `StatusWasReported`,
`ToldIsSuppressed`, `SuppressedForCause`, `StrongestReportShows` and `EventsInv` always
hold and that `ForwardUnlessDisturbed` holds of every step. The assumption is
`EventsAssumption`. The argument: nothing locks the email, so a write is right only
if the copy it was decided on is still the row. `OneCopy` says that an email without
overlap or resend has at most one copy out, `FreshCopy` that this copy equals the
row (and that a send finds `queued`); the lists of `AppliesTo` then do the rest
(`AppliesForward`). `ShownOrDue` adds that an event on the log shows, or
its worker is about to apply it, which needs that a recorded event finds its email past
`queued`: the id it was found by came with the write of `sent` (`Identified`). `SuppressedOrDue`
does the same for suppression: an event that is a cause and on the log has suppressed
the recipient, or its worker is about to. The other
three properties hold whatever overlapped. They need
that a worker past its record works on something that is on the log and that a
provider reported of one of the email's own messages in a word that says as much
(`Evidence`; `Backs` relates the word to what every conversion makes of it), which needs that
message ids are not shared between emails (`OwnMessages`). `TypesKept`, `OwnKept`,
`CopiesKept` and `EvidenceKept` show that every action keeps each part.

`TenantWebhooksProofs` proves of `HooksSpec`, for every number of webhooks, retries and
switches, that `HooksInv`, `HeardAgainOnlyAfterLoss` and `RowsTellTheTruth` always
hold, from `HooksAssumption`. `heard <= lost + 1` is not inductive alone: a post that is
taken adds one to `heard` wherever the job came from, so `LossesPaid` says that a job
about to post has no unpaid delivery (`heard = lost`), and `RowsFollow` that only a job that is done has
a row that says success, so that no later attempt follows one. A step of a webhook leaves
the events alone and the other way round; the first part is then `TypesKept` and `OwnKept`
of `ProviderEventsProofs`.

`DispatchGateProofs` proves of `GateSpec`, for every finite set of requests, any
connections, caps and scenes, that `GateInv`, `QuotaBounded`, `McpBounded`,
`SuppressedOnlyLate`, `OneSendPerKey` and `CloudHeardOnce` always hold. The assumptions are
`GateAssumption` (a finite set of requests, priorities with a first in every set of
connections, positive caps) and `CloudAssumption`. None of the properties is inductive
alone. `OrderInv` ties the request, the email and the job together: an email comes
with the commit, is queued as long as its job is not done, and only a job that
delivered names a connection. `QuotaInv` bounds what was counted for a connection
plus the jobs on the way with it, because a job gets a connection only under the cap
and `peak` remembers how many had it at once; what a connection took is then either
counted for it, about to be, or `missed`. `McpInv` does the same for the MCP
connection with requests in place of jobs. `ListInv` carries the suppression check
forward: who was checked and goes on while the recipient is listed is `late`.
`KeyInv` says, of any two keyed requests past the lookup, that one could not see the other, and
of any two past the engine's store that one was beside the other or the store forgot;
it needs that the entry of an answered send is there or was lost. `ReportInv` says
that only an ended email is reported and that every repetition was paid for by a
loss. `GateInv` is their conjunction; the proof has one lemma for each part and in it
a step for each action that can disturb it, and the properties follow from `GateInv` in a step each.
The cardinality facts (one more job on the way, one fewer) are lemmas at the top.

`DashboardProofs` proves of `Spec` of `Dashboard`, for every set of rows, accounts and
tours (hence any number of calls, moves and troubles on all pages together), that
`DashInv`, its part `Typed`, `ListsSettle`, `SecretKept`, `OneRowPerOpening`,
`EditStartsFromOwnLastSave`, `OneSession` and `SwitchShowsSaved` always hold and that
`NoYank` holds of every step. The assumption is `ClientAssumption`: the first row is a row,
there is an account, the notification switches are not the tracking switches, and `None`
is none of the values it stands beside.

There are more than a hundred handlers, and `DashboardStepsProofs` keeps them out of
the rest. A lemma for each page (`McpMoves` to `SettingsMoves`) shows that every click of
it is one of a few moves: a dialog `Opens` or `Closes`, a call of the page's own `Offers`
is sent (`Sends`, `Credentials`, `ToggleSwitch`), or only locks and confirmations change
(`Clicks`); `HandlerMoves` does the same for what follows an `await`
(`Finishes`). `Steps` lists the moves of the whole system, and lemmas named after the moves (`CreatesIs`,
`RouteIs`, `FetchArrivesIs`) say once what each makes of the calls, the cache and
the view. Each part of `DashInv` then has a step lemma that goes by moves.

None of the properties is inductive alone. `ListsSettle` speaks of lists at rest, so
`ListsTrue` adds that an answer on its way (`fetch = "back"`) is what the server has as long
as the list missed no change and nobody is still to tell this tab otherwise (`Current`): a call the server has done
either still has its `onSuccess` before it or restarted the fetch that was out before, and
`StaleFetched` adds that what is mounted and stale is being fetched. `SecretKept`
and `OneRowPerOpening` come from `Forms`: `OneAtATime` (a form is sent again when its call is over),
`FormClosed` (a form that went well is not shown any more, or was reset), `NoReset`
(no timer is due under a dialog that no reset touched), `SecretShown`, and `SentAgain`: the server
would make a second row for a form that is sent again, so a form that is sent again
must have made nothing the user heard of. All need the
order of calls by opening and visit (`InOrder`) and what a handler was told (`Told`).
`EditStartsFromOwnLastSave` needs `SavesSeen`: while the save settles the template's list is
on its way and no older than the save, and afterwards what is shown is no older either, because
the row's revision only grows. `OneSession` needs `OfToken` (what was fetched is of the
token in the store) and `Undisturbed`, which names the four states a session goes
through (`SigningIn`, `JustSignedIn`, `SignedInHere`, `SignedOff`) and whose calls may be in
flight in each: loading the page between two of them is what stops a late 401.
`SwitchShowsSaved` needs `SwitchesTrue`: saves that are not crowded end in turn (`InTurn`);
if all of them were (`OneByOne`) then, in the group that the server took last (`Right`), the page
shows what a call on its way says, and the row has that or, until the server took it, the
handler's copy (`Pending`), so that a failure puts back what the row has (`Agrees`). `SentFromHere`, `RowsKnown` and
`Shapes` say that a call is of the page that sent it and names rows that exist.
`NoYank` is about one step: of the moves, only `Returns` changes the page when such a
handler ends, and it asks first whether the component is still mounted.

Only model-checked: liveness (`EventuallySettled`, `HooksEnd`, `VerifiedIsShown`), which
the prover does not reach. Every invariant and action property of a passing run is a
theorem.

## Divergences found

The five violation runs each refute a sentence of the repository; PROJECT.json
quotes them. Two more that no run shows: `outbox:recover_stuck_processing` says it
re-enqueues stuck events and its `update_all` leaves `updated_at` old, so its
second statement does not select them (modelled as it is in
`RecoverStuckEnqueue`); `docs/API_REFERENCE.md:655` shows a top-level
`idempotency_key`, which `EmailsController` does not permit.
Three more concern the gates and the dashboard. `docs/API_REFERENCE.md:520` says that
suppressed addresses never receive email: the list is read at dispatch only, and
`POST /suppressions` stores the address as it was typed while `Suppression.suppressed?`
looks for it in lower case (`SuppressedOnlyLate` exempts both). The comment at
`CP/app/jobs/outbox_processor_job.rb:130` says that the first eligible connection of
the returned provider is the right one, since the engine tries the chain in order:
with two accounts at one provider and a fallback it is not (`missed` in
`QuotaBounded`). `UI/app/dashboard/providers/webhook-setup-section.tsx:134` says that
polling refreshes the dialog: opened from the routing page, it holds a snapshot.

What the properties of the dashboard leave out, because the code does it. `ListsSettle`: a list
misses (`past.missed`) the changes of other clients, calls whose answer was lost or came
to a tab that was reloaded, the rules that go with a deleted provider and the tenant
whose switches are saved, for which no hook invalidates; and a change that comes between
the server's answer to a fetch and its arrival, where the fetch is the first of its list or of a page
that was left, since TanStack Query restarts neither. `SecretKept`: a failed fetch of the
list shows its error in place of the page and the dialog, and the dialog comes back
with the list; a reset that was due when the key was asked for loses it.
`OneRowPerOpening`: the connect dialog stays open after a connection that could not be verified, and Back and another
provider or another name make another row. `SwitchShowsSaved`: the group that was not
saved last is reset on the server and shown as it was; the page opened again starts from
the cached tenant. `VerifiedIsShown`: a domain that is shown failed may turn verified
through the provider poll, which goes on for a day after the job gave up, and the page
does not ask.

Observed in the dashboard and kept in the model as they are: the settings page saves one group of
settings and the control plane replaces all of them by it; Escape closes the dialog that
deletes the project while the request is out; an edited template starts
from the version the cache has, whatever other clients did since; closing and
reopening a dialog within 300 ms resets the second one; the handler of
`campaigns/new` moves the user to the campaigns from wherever they are (`NoYank`
exempts it); a deleted provider takes its routing rules along and their list is not
invalidated; `getCurrentUser` stores the tenant even when nobody waits for it any more.

## Not modelled

- The engine's `BulkSend`, its templates, tracking pixels and rate limiter: the
  control plane calls `Send` only, and none of them decides whether an email is sent.
- Monthly caps, which work as daily ones; routing rules by tag; the sync of quotas
  from a provider.
- What `DomainVerificationJob` and the adapters ask of DNS and of providers: external
  services behind a status, which the dashboard's model lets change at any time.
- Accepting an invitation and its races with revocation, resending and expiry
  (`CP/app/controllers/api/v1/invitations_controller.rb`, `UI/app/invite/[token]`).
- Usage, metrics and roll-ups: recomputed from finished rows on every run.
- Pages that only read (analytics, logs, billing, compliance, the overview, lists of
  emails and campaigns beyond their query), onboarding, administration, search and
  filters: no state that another step depends on.
- The SDKs, which keep no state, the documentation and the deployment files.
- In `DispatchGate`: retries, claims and crashes of the job, which are
  `OutboxPipeline`'s; `up` merges "active" with "verified for the domain". In
  `ProviderPages` a connection is on or off, and one in error counts as off but cannot
  be toggled.
