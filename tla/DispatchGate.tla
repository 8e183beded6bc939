---------------------------- MODULE DispatchGate ----------------------------
(***************************************************************************)
(* What stands between a request to send and a provider, for one tenant,   *)
(* one recipient and one idempotency key: the key, the connections with    *)
(* headroom, the suppression list, the plan, the cap of an MCP connection; *)
(* and how a send is counted afterwards.  Each check reads what other      *)
(* requests and jobs are about to change.                                  *)
(*                                                                         *)
(* Every request makes at most one email, with one event and one job: r    *)
(* names them all.  How a job holds its event is OutboxPipeline's subject. *)
(***************************************************************************)
EXTENDS CloudEvents, FiniteSets

CONSTANTS
  Connections,  \* the provider connections of the tenant
  Priority,     \* their order in a chain
  TypeOf,       \* their provider
  DailyCap,     \* provider_quotas.daily_cap, the same for each
  RunCap,       \* mcp_connections.max_emails_per_run
  Scenes,       \* who asks, and what may fail: bounds, see Scene
  None

\* via: the API or an MCP tool; keyed: with the idempotency key; mode: the
\* tenant's; billed: is there a cloud service; connected: what is up at first;
\* slips, moods: failures, and changes of the suppression list, the connections
\* and the day
Scene == [via : [Requests -> {"api", "mcp", "nobody"}], keyed : [Requests -> BOOLEAN],
          mode : {"demo", "byok", "managed"}, billed : BOOLEAN,
          connected : SUBSET Connections, slips : Nat, moods : Nat]

ASSUME GateAssumption ==
  /\ IsFiniteSet(Requests)
  /\ Priority \in [Connections -> Nat]
  /\ \A cs \in SUBSET Connections :
       cs # {} => \E c \in cs : \A d \in cs : Priority[c] <= Priority[d]
  /\ TypeOf \in [Connections -> {TypeOf[c] : c \in Connections}]
  /\ DailyCap \in Nat \ {0} /\ RunCap \in Nat \ {0}
  /\ Scenes \subseteq Scene
  /\ None \notin Connections \union {TypeOf[c] : c \in Connections} \union {"mock"}

VARIABLES
  scene,
  moods,      \* changes still to come: a bound
  pc,         \* where the dispatch of a request stands
  email,      \* emails.status
  aged,       \* emails created more than 24 hours ago
  job,        \* the job of an email, and its request in the engine
  stored,     \* the provider in the response stored under the key
  up,         \* connections that are active and verified for the domain
  used,       \* provider_quota_usages.count of the day
  total,      \* mcp_connections.total_emails_sent
  listed,     \* suppressions of the recipient: "plain" in lower case, "typed" not
  \* history, read by the properties only
  unseen,     \* emails of the key a lookup could not find: not there yet, or aged
  beside,     \* keyed sends in the engine when a send got past its store
  forgot,     \* the store failed, or its entry expired
  posted,     \* emails that a provider took
  late,       \* requests checked before the recipient was listed
  mailed,     \* how the recipient was listed when a provider took the email
  taken,      \* messages a connection took in the day
  own,        \* of these, those counted for it
  missed,     \* and those that will never be
  peak,       \* the most jobs that were on the way with a connection at once
  flown,      \* the most requests the MCP connection had on the way at once
  untold      \* emails made for it and not counted

dispatch == <<pc, email, aged, unseen>>
engine   == <<stored, beside, forgot, mailed, posted>>
sending  == <<job, engine>>
counts   == <<used, taken, own, missed, peak>>
mcp      == <<total, flown, untold>>
world    == <<scene, moods, up, listed, late>>
gvars    == <<dispatch, sending, counts, mcp, world, cloud, slips>>

GatePC == {"idle", "asked", "fresh", "eligible", "clear", "committed", "accounting",
           "accepted", "refused"}
JobPC  == {"none", "queued", "resolved", "sending", "delivered", "answered", "done"}

Types  == {TypeOf[c] : c \in Connections} \union {"mock"}
NoJob  == [pc |-> "none", routes |-> {}, tried |-> {}, by |-> None, told |-> None]
Job    == [pc : JobPC, routes : SUBSET Connections, tried : SUBSET Connections,
           by : Connections \union {None}, told : Types \union {None}]

Via(v) == {r \in Requests : scene.via[r] = v}

GateInit ==
  /\ scene \in Scenes
  /\ moods = scene.moods /\ slips = scene.slips
  /\ pc = [r \in Requests |-> "idle"]
  /\ email = [r \in Requests |-> "none"]
  /\ job = [r \in Requests |-> NoJob]
  /\ aged = {} /\ stored = None /\ forgot = FALSE
  /\ up = scene.connected /\ listed = {}
  /\ used = [c \in Connections |-> 0] /\ total = 0
  /\ unseen = [r \in Requests |-> {}] /\ beside = [r \in Requests |-> {}]
  /\ late = {} /\ posted = {} /\ mailed = [r \in Requests |-> {}]
  /\ taken = [c \in Connections |-> 0] /\ own = [c \in Connections |-> 0]
  /\ missed = [c \in Connections |-> 0] /\ peak = [c \in Connections |-> 0]
  /\ flown = 0 /\ untold = 0
  /\ cloud = [r \in Requests |-> NoReport]

-----------------------------------------------------------------------------
(***************************************************************************)
(* EligibleConnectionsResolver                                             *)
(***************************************************************************)
\* Mutant: one comparison off.
HasHeadroomStill(c) == used[c] <= DailyCap

HasHeadroom(c) == DailyCap - used[c] >= 1

Eligible == {c \in up : HasHeadroom(c)}

First(cs) == CHOOSE c \in cs : \A d \in cs : Priority[c] <= Priority[d]

Larger(m, n) == IF m >= n THEN m ELSE n

-----------------------------------------------------------------------------
(***************************************************************************)
(* A request: the API, or an MCP tool, and EmailDispatchService.           *)
(***************************************************************************)
OnTheWay == {"asked", "fresh", "eligible", "clear", "committed", "accounting"}
Flight   == {r \in Via("mcp") : pc[r] \in OnTheWay}

Goes(r, from, to) == pc[r] = from /\ pc' = [pc EXCEPT ![r] = to]

Ask(r) ==
  /\ scene.via[r] = "api"
  /\ Goes(r, "idle", "asked")
  /\ UNCHANGED <<email, aged, unseen, sending, counts, mcp, world, cloud, slips>>

\* Mutant: the cap is checked after the dispatch has been asked for.
McpAdmitsAll(r) ==
  /\ scene.via[r] = "mcp" /\ total <= RunCap
  /\ Goes(r, "idle", "asked")
  /\ flown' = Larger(flown, Cardinality(Flight \union {r}))
  /\ UNCHANGED <<email, aged, unseen, sending, counts, total, untold, world, cloud, slips>>

\* the connection is loaded when the request is authenticated
McpAdmits(r) ==
  /\ scene.via[r] = "mcp" /\ total < RunCap
  /\ Goes(r, "idle", "asked")
  /\ flown' = Larger(flown, Cardinality(Flight \union {r}))
  /\ UNCHANGED <<email, aged, unseen, sending, counts, total, untold, world, cloud, slips>>

McpRefuses(r) ==
  /\ scene.via[r] = "mcp" /\ total >= RunCap
  /\ Goes(r, "idle", "refused")
  /\ UNCHANGED <<email, aged, unseen, sending, counts, mcp, world, cloud, slips>>

\* Mutant: only an email still in the queue is found.
KnownQueued == {r \in Requests : scene.keyed[r] /\ email[r] = "queued" /\ r \notin aged}

\* emails of the key from the last 24 hours, suppressed and failed ones too
Known == {r \in Requests : scene.keyed[r] /\ email[r] # "none" /\ r \notin aged}

\* what a dispatch that succeeded goes on to
Succeeded(r) == IF scene.via[r] = "mcp" THEN "accounting" ELSE "accepted"

Replay(r) ==
  /\ scene.keyed[r] /\ Known # {}
  /\ Goes(r, "asked", Succeeded(r))
  /\ UNCHANGED <<email, aged, unseen, sending, counts, mcp, world, cloud, slips>>

LookupMiss(r) ==
  /\ scene.keyed[r] => Known = {}
  /\ Goes(r, "asked", "fresh")
  /\ unseen' = [unseen EXCEPT ![r] = aged \union {s \in Requests : pc[s] \in {"fresh", "eligible", "clear"}}]
  /\ UNCHANGED <<email, aged, sending, counts, mcp, world, cloud, slips>>

PreflightPasses(r) ==
  /\ scene.mode = "demo" \/ Eligible # {}
  /\ Goes(r, "fresh", "eligible")
  /\ UNCHANGED <<email, aged, unseen, sending, counts, mcp, world, cloud, slips>>

PreflightRefuses(r) ==
  /\ scene.mode # "demo" /\ Eligible = {}
  /\ Goes(r, "fresh", "refused")
  /\ UNCHANGED <<email, aged, unseen, sending, counts, mcp, world, cloud, slips>>

\* suppressed? looks for the address in lower case; a suppression is stored as
\* it was typed
FindsSuppressed(r) ==
  /\ "plain" \in listed
  /\ Goes(r, "eligible", "refused")
  /\ email' = [email EXCEPT ![r] = "suppressed"]
  /\ UNCHANGED <<aged, unseen, sending, counts, mcp, world, cloud, slips>>

\* Mutant: the address is looked up as the caller wrote it.
FindsClearAsGiven(r) ==
  /\ Goes(r, "eligible", "clear")
  /\ UNCHANGED <<email, aged, unseen, sending, counts, mcp, world, cloud, slips>>

FindsClear(r) ==
  /\ "plain" \notin listed
  /\ Goes(r, "eligible", "clear")
  /\ UNCHANGED <<email, aged, unseen, sending, counts, mcp, world, cloud, slips>>

\* the cloud service denies; unreachable, it allows
PlanDenies(r) ==
  /\ scene.billed /\ scene.mode # "byok"
  /\ Goes(r, "clear", "refused")
  /\ UNCHANGED <<email, aged, unseen, sending, counts, mcp, world, cloud, slips>>

Commit(r) ==
  /\ Goes(r, "clear", "committed")
  /\ email' = [email EXCEPT ![r] = "queued"]
  /\ UNCHANGED <<aged, unseen, sending, counts, mcp, world, cloud, slips>>

Push(r) ==
  /\ Goes(r, "committed", Succeeded(r))
  /\ job' = [job EXCEPT ![r].pc = "queued"]
  /\ UNCHANGED <<email, aged, unseen, engine, counts, mcp, world, cloud, slips>>

\* the rescue answers with an error: of the email that is there the caller
\* hears nothing
PushFails(r) ==
  /\ Slip
  /\ Goes(r, "committed", "refused")
  /\ untold' = IF scene.via[r] = "mcp" THEN untold + 1 ELSE untold
  /\ UNCHANGED <<email, aged, unseen, sending, counts, total, flown, world, cloud>>

\* rake outbox:requeue_orphaned
Requeue(r) ==
  /\ pc[r] = "refused" /\ email[r] = "queued" /\ job[r].pc = "none"
  /\ job' = [job EXCEPT ![r].pc = "queued"]
  /\ UNCHANGED <<dispatch, engine, counts, mcp, world, cloud, slips>>

\* update_column and increment_sent!, for a replay too
CountMcp(r) ==
  /\ Goes(r, "accounting", "accepted")
  /\ total' = total + 1
  /\ UNCHANGED <<email, aged, unseen, sending, counts, flown, untold, world, cloud, slips>>

CountMcpFails(r) ==
  /\ Slip
  /\ Goes(r, "accounting", "refused")
  /\ untold' = untold + 1
  /\ UNCHANGED <<email, aged, unseen, sending, counts, total, flown, world, cloud>>

-----------------------------------------------------------------------------
(***************************************************************************)
(* The job and the engine.  What OutboxPipeline says of claims, retries    *)
(* and crashes is left out: a job runs, or goes back to the queue.         *)
(***************************************************************************)
Underway == {"resolved", "sending", "delivered", "answered"}

\* jobs on the way with a connection, and those it took the message of
Holders(c) == {r \in Requests : job[r].pc \in Underway /\ c \in job[r].routes}
Takers(c)  == {r \in Requests : job[r].pc \in {"delivered", "answered"} /\ job[r].by = c}

Moves(r, from, new) == job[r].pc = from /\ job' = [job EXCEPT ![r] = new]

Back(r) == [NoJob EXCEPT !.pc = "queued"]

Publish(r) == cloud' = IF scene.billed THEN [cloud EXCEPT ![r].status = "pending", ![r].pc = "queued"]
                       ELSE cloud

\* a status change whose report was not written, or not enqueued
PublishFails(r) == /\ scene.billed
                   /\ \E e \in Swallowed : cloud' = [cloud EXCEPT ![r] = e]

Ends(r, status) ==
  /\ email' = [email EXCEPT ![r] = status]
  /\ \/ Publish(r) /\ slips' = slips
     \/ PublishFails(r) /\ Slip

Resolve(r) ==
  /\ scene.mode = "demo" \/ Eligible # {}
  /\ Moves(r, "queued", [NoJob EXCEPT !.pc = "resolved",
                                     !.routes = IF scene.mode = "demo" THEN {} ELSE Eligible])
  /\ peak' = [c \in Connections |-> Larger(peak[c], Cardinality(Holders(c)'))]
  /\ UNCHANGED <<dispatch, engine, used, taken, own, missed, mcp, world, cloud, slips>>

ResolveNone(r) ==
  /\ scene.mode # "demo" /\ Eligible = {}
  /\ Moves(r, "queued", [NoJob EXCEPT !.pc = "done"])
  /\ Ends(r, "failed")
  /\ UNCHANGED <<pc, aged, unseen, engine, counts, mcp, world>>

EngineReplays(r) ==
  /\ scene.keyed[r] /\ stored # None
  /\ Moves(r, "resolved", [job[r] EXCEPT !.pc = "answered", !.told = stored])
  /\ UNCHANGED <<dispatch, engine, counts, mcp, world, cloud, slips>>

\* an error of the store is a miss
EngineMisses(r) ==
  /\ Moves(r, "resolved", [job[r] EXCEPT !.pc = "sending"])
  /\ IF scene.keyed[r] /\ stored # None THEN Slip /\ forgot' = TRUE ELSE UNCHANGED <<slips, forgot>>
  /\ beside' = [beside EXCEPT ![r] = @ \union
                   {s \in Requests : scene.keyed[s] /\ job[s].pc \in {"sending", "delivered"}}]
  /\ UNCHANGED <<dispatch, stored, mailed, posted, counts, mcp, world, cloud>>

\* the mock provider of a tenant in demo mode
MockTakes(r) ==
  /\ scene.mode = "demo"
  /\ Moves(r, "sending", [job[r] EXCEPT !.pc = "delivered"])
  /\ posted' = posted \union {r}
  /\ UNCHANGED <<dispatch, stored, beside, forgot, mailed, counts, mcp, world, cloud, slips>>

ProviderTakes(r) == LET left == job[r].routes \ job[r].tried IN
  /\ left # {}
  /\ Moves(r, "sending", [job[r] EXCEPT !.pc = "delivered", !.by = First(left)])
  /\ taken' = [taken EXCEPT ![First(left)] = @ + 1]
  /\ posted' = posted \union {r}
  /\ mailed' = [mailed EXCEPT ![r] = @ \union listed]
  /\ UNCHANGED <<dispatch, stored, beside, forgot, used, own, missed, peak, mcp, world, cloud, slips>>

\* the next of the chain; after the last one a 5xx, and the job raises
ProviderFails(r) == LET left == job[r].routes \ job[r].tried IN
  /\ left # {} /\ Slip
  /\ Moves(r, "sending", IF Cardinality(left) = 1 THEN Back(r)
                         ELSE [job[r] EXCEPT !.tried = @ \union {First(left)}])
  /\ UNCHANGED <<dispatch, engine, counts, mcp, world, cloud>>

\* 422: the recipient is refused for good
RecipientRefused(r) ==
  /\ Moves(r, "sending", [NoJob EXCEPT !.pc = "done"])
  /\ Ends(r, "failed")
  /\ UNCHANGED <<pc, aged, unseen, engine, counts, mcp, world>>

\* Mutant: the response is not stored.
AnswersUnstored(r) ==
  /\ Moves(r, "delivered", [job[r] EXCEPT !.pc = "answered", !.told = "mock"])
  /\ UNCHANGED <<dispatch, engine, counts, mcp, world, cloud, slips>>

\* the response names the provider, not the connection
Answers(r) == LET type == IF job[r].by = None THEN "mock" ELSE TypeOf[job[r].by] IN
  /\ Moves(r, "delivered", [job[r] EXCEPT !.pc = "answered", !.told = type])
  /\ \/ stored' = (IF scene.keyed[r] THEN type ELSE stored) /\ UNCHANGED <<forgot, slips>>
     \/ scene.keyed[r] /\ Slip /\ forgot' = TRUE /\ stored' = stored
  /\ UNCHANGED <<dispatch, beside, mailed, posted, counts, mcp, world, cloud>>

\* The answer does not arrive, the job raises; nobody counts the message.
AnswerLost(r) ==
  /\ Slip
  /\ Moves(r, "answered", Back(r))
  /\ missed' = [c \in Connections |-> IF c = job[r].by THEN missed[c] + 1 ELSE missed[c]]
  /\ UNCHANGED <<dispatch, engine, used, taken, own, peak, mcp, world, cloud>>

\* The connection a send is counted for: the first of the chain of that
\* provider, or any active one, or none.
Charged(r) == LET same == {c \in job[r].routes : TypeOf[c] = job[r].told}
                  active == {c \in up : TypeOf[c] = job[r].told}
              IN  IF same # {} THEN {First(same)} ELSE IF active # {} THEN active ELSE {None}

\* mark_sent! and increment!, whose failure is swallowed
CountSend(r) == \E c \in Charged(r) \union (IF slips > 0 THEN {None} ELSE {}) :
  /\ Moves(r, "answered", [NoJob EXCEPT !.pc = "done"])
  /\ used' = [d \in Connections |-> IF d = c THEN used[d] + 1 ELSE used[d]]
  /\ own' = [d \in Connections |-> IF d = c /\ d = job[r].by THEN own[d] + 1 ELSE own[d]]
  /\ missed' = [d \in Connections |-> IF d # c /\ d = job[r].by THEN missed[d] + 1 ELSE missed[d]]
  /\ email' = [email EXCEPT ![r] = "sent"]
  /\ \/ c \in Charged(r) /\ Publish(r) /\ slips' = slips
     \/ c \in Charged(r) /\ PublishFails(r) /\ Slip
     \/ c \notin Charged(r) /\ Publish(r) /\ Slip
  /\ UNCHANGED <<pc, aged, unseen, engine, taken, peak, mcp, world>>

-----------------------------------------------------------------------------
(***************************************************************************)
(* The list, the connections and the clock                                 *)
(***************************************************************************)
Mood == moods > 0 /\ moods' = moods - 1 /\ scene' = scene

\* the API, the dashboard, an MCP tool, a report of a bounce
Suppress(s) ==
  /\ Mood
  /\ listed' = listed \union {s}
  /\ late' = late \union (IF s # "plain" THEN {} ELSE
                         {r \in Requests : pc[r] \notin {"idle", "asked", "fresh", "eligible"}})
  /\ UNCHANGED <<dispatch, sending, counts, mcp, up, cloud, slips>>

Unsuppress(s) ==
  /\ Mood /\ s \in listed
  /\ listed' = listed \ {s}
  /\ UNCHANGED <<dispatch, sending, counts, mcp, up, late, cloud, slips>>

\* switched off or on, found unverified or verified, deleted
ConnectionTurns(c) ==
  /\ Mood
  /\ up' = IF c \in up THEN up \ {c} ELSE up \union {c}
  /\ UNCHANGED <<dispatch, sending, counts, mcp, listed, late, cloud, slips>>

\* a new day of the counters, UTC
Midnight ==
  /\ Mood
  /\ used' = [c \in Connections |-> 0]
  /\ taken' = [c \in Connections |-> 0] /\ own' = [c \in Connections |-> 0]
  /\ missed' = [c \in Connections |-> 0]
  /\ UNCHANGED <<dispatch, sending, peak, mcp, up, listed, late, cloud, slips>>

\* 24 hours later; the engine's entry expires by its own clock
KeysAge ==
  /\ Mood
  /\ aged' = {r \in Requests : email[r] # "none"}
  /\ UNCHANGED <<pc, email, unseen, sending, counts, mcp, up, listed, late, cloud, slips>>

EntryExpires ==
  /\ Mood /\ stored # None
  /\ stored' = None /\ forgot' = TRUE
  /\ UNCHANGED <<dispatch, job, beside, mailed, posted, counts, mcp, up, listed, late, cloud, slips>>

-----------------------------------------------------------------------------
RequestSteps(r) ==
  \/ Ask(r) \/ McpAdmits(r) \/ McpRefuses(r) \/ Replay(r) \/ LookupMiss(r)
  \/ PreflightPasses(r) \/ PreflightRefuses(r) \/ FindsSuppressed(r) \/ FindsClear(r)
  \/ PlanDenies(r) \/ Commit(r) \/ Push(r) \/ PushFails(r) \/ Requeue(r)
  \/ CountMcp(r) \/ CountMcpFails(r)

JobSteps(r) ==
  \/ Resolve(r) \/ ResolveNone(r) \/ EngineReplays(r) \/ EngineMisses(r) \/ MockTakes(r)
  \/ ProviderTakes(r) \/ ProviderFails(r) \/ RecipientRefused(r) \/ Answers(r)
  \/ AnswerLost(r) \/ CountSend(r)

CloudSteps(r) == /\ ReportSteps(r)
                 /\ UNCHANGED <<dispatch, sending, counts, mcp, world>>

MoodSteps == \/ \E s \in {"plain", "typed"} : Suppress(s) \/ Unsuppress(s)
             \/ \E c \in Connections : ConnectionTurns(c)
             \/ Midnight \/ KeysAge \/ EntryExpires

GateNext == \/ \E r \in Requests : RequestSteps(r) \/ JobSteps(r) \/ CloudSteps(r)
            \/ MoodSteps

GateSpec == GateInit /\ [][GateNext]_gvars

-----------------------------------------------------------------------------
\* Types: emails have jobs once they are queued, counters only count.
GateTypeOK ==
  /\ scene \in Scenes /\ moods \in Nat /\ slips \in Nat
  /\ pc \in [Requests -> GatePC]
  /\ email \in [Requests -> {"none", "queued", "sent", "failed", "suppressed"}]
  /\ job \in [Requests -> Job]
  /\ stored \in Types \union {None} /\ forgot \in BOOLEAN
  /\ aged \subseteq Requests /\ late \subseteq Requests /\ posted \subseteq Requests
  /\ up \subseteq Connections /\ listed \subseteq {"plain", "typed"}
  /\ unseen \in [Requests -> SUBSET Requests] /\ beside \in [Requests -> SUBSET Requests]
  /\ mailed \in [Requests -> SUBSET {"plain", "typed"}]
  /\ used \in [Connections -> Nat] /\ taken \in [Connections -> Nat]
  /\ own \in [Connections -> Nat] /\ missed \in [Connections -> Nat]
  /\ peak \in [Connections -> Nat]
  /\ total \in Nat /\ flown \in Nat /\ untold \in Nat
  /\ cloud \in [Requests -> Report]

\* In a day a connection takes no more messages than its cap, less one, and the
\* most jobs that were on the way with it at once, and the messages counted for
\* another connection or not at all (ProviderQuota#has_headroom? is read when
\* the chain is built, ProviderQuotaUsage.increment! comes after the send).
QuotaBounded == \A c \in Connections : taken[c] <= (DailyCap - 1) + peak[c] + missed[c]

\* The emails made through an MCP connection exceed max_emails_per_run by no
\* more than the requests, less one, that were between the check and the count
\* at once, and those that were answered with an error (McpTools::SendEmail).
Made == {r \in Via("mcp") : email[r] \in {"queued", "sent", "failed"}}

McpBounded == Cardinality(Made) <= (RunCap - 1) + flown + untold

\* A provider takes a message for a listed recipient only where the listing
\* came after the dispatch had asked, or is not in lower case
\* (EmailDispatchService step 3; OutboxProcessorJob does not ask again).
SuppressedOnlyLate == \A r \in Requests : "plain" \in mailed[r] => r \in late

\* Two emails of one key are both taken by a provider only where neither
\* dispatch could find the other's email, and the engine had both at once or
\* forgot the first (EmailDispatchService step 1, IdempotencyStore).
OneSendPerKey ==
  \A r, s \in Requests :
    (r # s /\ scene.keyed[r] /\ scene.keyed[s] /\ r \in posted /\ s \in posted) =>
      /\ r \in unseen[s] \/ s \in unseen[r]
      /\ forgot \/ r \in beside[s] \/ s \in beside[r]

-----------------------------------------------------------------------------
(***************************************************************************)
(* Why these hold: what is true after every step.                          *)
(***************************************************************************)
Early == {"idle", "asked", "fresh", "eligible", "clear"}

\* An email is made by the commit, only then has a job, and is queued until
\* the job is done.
OrderInv == \A r \in Requests :
  /\ pc[r] \in Early => email[r] = "none"
  /\ pc[r] = "committed" => email[r] = "queued" /\ job[r].pc = "none"
  /\ job[r].pc = "done" => email[r] \in {"sent", "failed"}
  /\ job[r].pc \notin {"none", "done"} => email[r] = "queued"
  /\ job[r].by # None => job[r].pc \in {"delivered", "answered"} /\ job[r].by \in job[r].routes
  /\ r \in posted => email[r] # "none"

\* Jobs on the way were resolved under the cap.
QuotaInv == \A c \in Connections :
  /\ own[c] <= used[c]
  /\ Cardinality(Holders(c)) <= peak[c]
  /\ own[c] + Cardinality(Holders(c)) <= (DailyCap - 1) + peak[c]
  /\ taken[c] <= own[c] + Cardinality(Takers(c)) + missed[c]

\* Requests on the way were admitted under the cap.
McpInv ==
  /\ \A r \in Requests : pc[r] = "accounting" => r \in Via("mcp")
  /\ Cardinality(Flight) <= flown
  /\ total + Cardinality(Flight) <= (RunCap - 1) + flown
  /\ Cardinality(Made) <= total + Cardinality(Made \intersect Flight) + untold

\* Who was checked and goes on, while the recipient is listed, is late.
ListInv == \A r \in Requests :
  /\ "plain" \in mailed[r] => r \in late
  /\ ("plain" \in listed /\ (pc[r] = "clear" \/ email[r] = "queued")) => r \in late

Dispatched(r) == scene.keyed[r] /\ (pc[r] \in {"fresh", "eligible", "clear"} \/ email[r] # "none")
InEngine(r)   == scene.keyed[r] /\ (job[r].pc \in {"sending", "delivered"} \/ r \in posted)

\* The entry of a send that was answered is there, or was lost.
KeyInv ==
  /\ \A r, s \in Requests :
       /\ (r # s /\ Dispatched(r) /\ Dispatched(s)) => r \in unseen[s] \/ s \in unseen[r]
       /\ (r # s /\ InEngine(r) /\ InEngine(s)) => forgot \/ r \in beside[s] \/ s \in beside[r]
  /\ \A r \in Requests :
       (scene.keyed[r] /\ r \in posted /\ job[r].pc # "delivered") => forgot \/ stored # None

\* An email is reported once it has ended, and heard again only after a loss.
ReportInv == \A r \in Requests :
  /\ email[r] \notin {"sent", "failed"} => cloud[r] = NoReport
  /\ cloud[r].pc \in {"claimed", "heard", "failing"} => cloud[r].status = "processing"
  /\ cloud[r].heard <= cloud[r].lost + 1
  /\ (cloud[r].status # "processed" /\ cloud[r].pc # "heard") => cloud[r].heard <= cloud[r].lost

\* The inductive invariant of DispatchGateProofs.
GateInv == GateTypeOK /\ OrderInv /\ QuotaInv /\ McpInv /\ ListInv /\ KeyInv /\ ReportInv
=============================================================================
