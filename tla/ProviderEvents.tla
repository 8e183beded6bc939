--------------------------- MODULE ProviderEvents ---------------------------
(***************************************************************************)
(* What providers report of a message, and what becomes of the email:      *)
(* webhook controllers and the status poller hand reports to               *)
(* ProviderEventProcessor, the outbox job writes sent, the reconciler      *)
(* writes failed when nothing came for 72 hours.  None of them locks the   *)
(* email; each decides on the copy it loaded.                              *)
(*                                                                         *)
(* A worker is a Puma thread in a webhook or a reconciliation.  A send is  *)
(* one run of the outbox job seen from the email: OutboxPipeline has the   *)
(* run in full, and gives what is used here, that the sends of an email do *)
(* not overlap.                                                            *)
(***************************************************************************)
EXTENDS Naturals, Sequences

CONSTANTS
  Emails,       \* rows of the emails table that were dispatched
  Messages,     \* provider message ids, one for each send: a bound
  EmailOf,      \* the email a message is sent for
  ProviderOf,   \* the provider it is sent through
  Handlers,     \* webhook requests served at once
  Reconcilers,  \* reconciliations that run at once
  Subscribed,   \* types of events the tenant's endpoint lists
  Reportable,   \* words the model's providers use
  MaxRequests,  \* webhook requests and polls over a behaviour: a bound
  None

Workers == Handlers \union Reconcilers

Status == {"queued", "sent", "delivered", "bounced", "complained", "failed"}

Provider == {"sendgrid", "resend", "mailgun", "postmark", "ses"}

\* What a provider says of a message.  A bounce is hard or soft when it says so in
\* the field the controller looks at (SendGrid's status 5.., Mailgun's severity,
\* Postmark's Type, the bounceType of SES, Resend's subType, which is only ever
\* looked at for transient); it is bare without, or with another value there.
\* dropped is SendGrid's dropped and Mailgun's rejected, opened is also clicked.
Word == {"delivered", "hard", "soft", "bare", "dropped", "complained", "unsubscribed",
         "opened", "delayed"}

\* What ProviderEventProcessor is given: bounced with bounce_type permanent is a
\* hard bounce, with any other or none a soft one.
Kind == {"delivered", "hard_bounce", "soft_bounce", "complained", "failed",
         "unsubscribed", "opened", "deferred"}

EventType(k) == IF k \in {"hard_bounce", "soft_bounce"} THEN "bounced" ELSE k

ASSUME EventsAssumption ==
  /\ EmailOf \in [Messages -> Emails]
  /\ ProviderOf \in [Messages -> Provider]
  /\ Handlers \intersect Reconcilers = {}
  /\ None \notin Emails \union Messages
  /\ Subscribed \subseteq {EventType(k) : k \in Kind}
  /\ Reportable \subseteq Word
  /\ MaxRequests \in Nat

VARIABLES
  row,         \* emails: status and provider_message_id
  open,        \* emails whose outbox event is neither processed nor dead
  send,        \* each send: how far it is and the status its job loaded
  accepted,    \* messages a provider accepted
  reports,     \* reports the providers have made, as message and word
  worker,      \* each webhook or reconciliation and the copy it works on
  log,         \* email_events: the kinds recorded of each email
  suppressed,  \* emails whose recipient is on the suppression list
  pushed,      \* webhook jobs pushed so far, in order
  active,      \* webhook_endpoints.is_active; TenantWebhooks changes it
  requests,    \* requests and polls so far
  disturbed    \* history: what befell an email, see Take

senders  == <<open, send, accepted>>
outcomes == <<log, suppressed, pushed, active>>
evars    == <<row, open, send, accepted, reports, worker, log, suppressed,
              pushed, active, requests, disturbed>>

EmailRow == [status: Status, msg: Messages \union {None}]
Stage    == {"idle", "loaded", "accepted", "written", "over"}
SendRow  == [stage: Stage, seen: Status]
Report   == [msg: Messages, word: Word]
PC       == {"idle", "polling", "recorded", "updated", "filed"}
Worker   == [pc: PC, email: Emails \union {None}, seen: Status,
             kind: Kind, msg: Messages \union {None}]

Hook     == [email: Emails, kind: Kind]

IdleWorker == [pc |-> "idle", email |-> None, seen |-> "queued",
               kind |-> "opened", msg |-> None]

EventsTypeOK ==
  /\ row \in [Emails -> EmailRow]
  /\ open \in SUBSET Emails
  /\ send \in [Messages -> SendRow]
  /\ accepted \in SUBSET Messages
  /\ reports \in SUBSET Report
  /\ worker \in [Workers -> Worker]
  /\ log \in [Emails -> SUBSET Kind]
  /\ suppressed \in SUBSET Emails
  /\ pushed \in Seq(Hook)
  /\ active \in BOOLEAN
  /\ requests \in 0..MaxRequests
  /\ disturbed \in [Emails -> SUBSET {"overlap", "resend", "slip"}]

EventsInit ==
  /\ row        = [e \in Emails |-> [status |-> "queued", msg |-> None]]
  /\ open       = Emails
  /\ send       = [m \in Messages |-> [stage |-> "idle", seen |-> "queued"]]
  /\ accepted   = {}
  /\ reports    = {}
  /\ worker     = [w \in Workers |-> IdleWorker]
  /\ log        = [e \in Emails |-> {}]
  /\ suppressed = {}
  /\ pushed     = <<>>
  /\ active     = TRUE
  /\ requests   = 0
  /\ disturbed  = [e \in Emails |-> {}]

-----------------------------------------------------------------------------
(***************************************************************************)
(* Copies.  A send holds a copy of its email from its load to its write, a *)
(* worker from its find to its write.                                      *)
(***************************************************************************)
SendHolds(m)   == send[m].stage \in {"loaded", "accepted"}
WorkerHolds(w) == worker[w].pc \in {"polling", "recorded"}

Held(e) == \/ \E m \in Messages : EmailOf[m] = e /\ SendHolds(m)
           \/ \E w \in Workers : worker[w].email = e /\ WorkerHolds(w)

\* History: a copy of e is taken while another is held, or a second send of e
\* starts after one was written; a handler stopped half-way is a "slip".
Take(e, why) ==
  disturbed' = [disturbed EXCEPT ![e] =
                  @ \union why \union (IF Held(e) THEN {"overlap"} ELSE {})]

\* update! writes a column only when it differs from the copy in memory.
Written(seen, new, stored_value) == IF seen # new THEN new ELSE stored_value

WriteStatus(e, seen, new) ==
  row' = [row EXCEPT ![e] = [status |-> Written(seen, new, row[e].status), msg |-> row[e].msg]]

-----------------------------------------------------------------------------
(***************************************************************************)
(* The outbox job.                                                         *)
(***************************************************************************)
SetSend(m, stage, seen) == send' = [send EXCEPT ![m] = [stage |-> stage, seen |-> seen]]

Sends(e) == {m \in Messages : EmailOf[m] = e}

LoadSend(m) == LET e == EmailOf[m] IN
  /\ e \in open
  /\ send[m].stage = "idle"
  /\ \A n \in Sends(e) : send[n].stage \in {"idle", "over"}
  /\ SetSend(m, "loaded", row[e].status)
  /\ Take(e, IF row[e].status # "queued" THEN {"resend"} ELSE {})
  /\ UNCHANGED <<row, open, accepted, reports, worker, outcomes, requests>>

Accept(m) ==
  /\ send[m].stage = "loaded"
  /\ SetSend(m, "accepted", send[m].seen)
  /\ accepted' = accepted \union {m}
  /\ UNCHANGED <<row, open, reports, worker, outcomes, requests, disturbed>>

\* email.mark_sent!
MarkSent(m) == LET e == EmailOf[m] IN
  /\ send[m].stage = "accepted"
  /\ row' = [row EXCEPT ![e] =
               [status |-> Written(send[m].seen, "sent", row[e].status), msg |-> m]]
  /\ SetSend(m, "written", send[m].seen)
  /\ UNCHANGED <<open, accepted, reports, worker, outcomes, requests, disturbed>>

\* email.mark_failed! after a definitive rejection
MarkRejected(m) ==
  /\ send[m].stage = "loaded"
  /\ WriteStatus(EmailOf[m], send[m].seen, "failed")
  /\ SetSend(m, "written", send[m].seen)
  /\ UNCHANGED <<open, accepted, reports, worker, outcomes, requests, disturbed>>

\* event.complete!, or dead after a rejection
Settle(m) ==
  /\ send[m].stage = "written"
  /\ open' = open \ {EmailOf[m]}
  /\ SetSend(m, "over", send[m].seen)
  /\ UNCHANGED <<row, accepted, reports, worker, outcomes, requests, disturbed>>

\* a rescue clause: the answer or a write is lost, the event goes back to pending
GiveUp(m) ==
  /\ send[m].stage \in {"loaded", "accepted", "written"}
  /\ SetSend(m, "over", send[m].seen)
  /\ UNCHANGED <<row, open, accepted, reports, worker, outcomes, requests, disturbed>>

-----------------------------------------------------------------------------
(***************************************************************************)
(* What the controllers make of a provider's words, and the poller of what *)
(* the provider's API shows then.  A word without an entry is ignored.     *)
(***************************************************************************)
SendGridKind == [delivered |-> "delivered", hard |-> "hard_bounce", soft |-> "soft_bounce",
                 bare |-> "soft_bounce", dropped |-> "failed", complained |-> "complained",
                 unsubscribed |-> "unsubscribed", opened |-> "opened"]

\* Any bounce that is not of subType transient is permanent.
ResendKind == [delivered |-> "delivered", soft |-> "soft_bounce", bare |-> "hard_bounce",
               complained |-> "complained", opened |-> "opened", delayed |-> "deferred"]

\* Mutant: any failure that is not of severity temporary is permanent.
MailgunKindUnlessTemporary ==
  [delivered |-> "delivered", hard |-> "hard_bounce", soft |-> "soft_bounce",
   bare |-> "hard_bounce", dropped |-> "hard_bounce", complained |-> "complained",
   unsubscribed |-> "unsubscribed", opened |-> "opened"]

MailgunKind == [delivered |-> "delivered", hard |-> "hard_bounce", soft |-> "soft_bounce",
                bare |-> "soft_bounce", dropped |-> "soft_bounce", complained |-> "complained",
                unsubscribed |-> "unsubscribed", opened |-> "opened"]

PostmarkKind == [delivered |-> "delivered", hard |-> "hard_bounce", soft |-> "soft_bounce",
                 bare |-> "soft_bounce", complained |-> "complained",
                 unsubscribed |-> "unsubscribed", opened |-> "opened"]

SesKind == [delivered |-> "delivered", hard |-> "hard_bounce", soft |-> "soft_bounce",
            bare |-> "soft_bounce", complained |-> "complained", opened |-> "opened"]

WebhookKind == [sendgrid |-> SendGridKind, resend |-> ResendKind, mailgun |-> MailgunKind,
                postmark |-> PostmarkKind, ses |-> SesKind]

\* A poll knows no bounce type; SendGrid's not_delivered is bounced, whatever the
\* reason; a message Mailgun rejected has failed; SES is not polled.
PollKind ==
  [sendgrid |-> [delivered |-> "delivered", hard |-> "soft_bounce", soft |-> "soft_bounce",
                 bare |-> "soft_bounce", dropped |-> "soft_bounce"],
   resend   |-> [delivered |-> "delivered", soft |-> "soft_bounce", bare |-> "soft_bounce",
                 complained |-> "complained"],
   mailgun  |-> [delivered |-> "delivered", hard |-> "soft_bounce", soft |-> "soft_bounce",
                 bare |-> "soft_bounce", dropped |-> "failed", complained |-> "complained"],
   postmark |-> [delivered |-> "delivered", hard |-> "soft_bounce", soft |-> "soft_bounce",
                 bare |-> "soft_bounce", complained |-> "complained"],
   ses      |-> <<>>]

Heard(r)  == WebhookKind[ProviderOf[r.msg]]
Polled(r) == PollKind[ProviderOf[r.msg]]

-----------------------------------------------------------------------------
(***************************************************************************)
(* The providers: a message is dropped, or it is delivered or bounces;     *)
(* what was delivered may still bounce, be complained about or opened.     *)
(* A provider reports what it accepted, whether its answer came back or    *)
(* not, in the words of its own that the controllers know.                 *)
(***************************************************************************)
Reported(m) == {r.word : r \in {x \in reports : x.msg = m}}

MayReport(m, k) ==
  /\ m \in accepted
  /\ k \in DOMAIN WebhookKind[ProviderOf[m]]
  /\ k \notin Reported(m) \union (IF "dropped" \in Reported(m) THEN Word ELSE {})
  /\ k \in {"complained", "unsubscribed", "opened"} => "delivered" \in Reported(m)
  /\ k \in {"dropped", "delivered"} => Reported(m) \subseteq {"soft", "bare", "delayed"}

Emit(m, k) ==
  /\ k \in Reportable
  /\ MayReport(m, k)
  /\ reports' = reports \union {[msg |-> m, word |-> k]}
  /\ UNCHANGED <<row, senders, worker, outcomes, requests, disturbed>>

-----------------------------------------------------------------------------
(***************************************************************************)
(* ProviderEventProcessor, on behalf of a webhook or of a poll.            *)
(***************************************************************************)
\* Mutants: a late delivery undoes a bounce; a bounce after delivery is ignored.
AppliesToBounced(type) == {s \in Status :
  \/ type = "delivered"  /\ s \in {"sent", "queued", "bounced"}
  \/ type = "bounced"    /\ s \in {"sent", "queued", "delivered"}
  \/ type = "complained" /\ s \in {"sent", "delivered"}
  \/ type = "failed"     /\ s \in {"sent", "queued"}}

AppliesToUndelivered(type) == {s \in Status :
  \/ type \in {"delivered", "bounced", "failed"} /\ s \in {"sent", "queued"}
  \/ type = "complained" /\ s \in {"sent", "delivered"}}

\* statuses an event of a type is applied to
AppliesTo(type) == {s \in Status :
  \/ type = "delivered"  /\ s \in {"sent", "queued"}
  \/ type = "bounced"    /\ s \in {"sent", "queued", "delivered"}
  \/ type = "complained" /\ s \in {"sent", "delivered"}
  \/ type = "failed"     /\ s \in {"sent", "queued"}}

ShouldSuppress(k) == k \in {"hard_bounce", "complained", "unsubscribed"}

\* Mutant: the status is moved without a record of the event.
RecordNothing(w, e, k) ==
  /\ worker' = [worker EXCEPT ![w] = [pc |-> "recorded", email |-> e,
                                      seen |-> row[e].status, kind |-> k, msg |-> None]]
  /\ log' = log

\* find_email and email_events.create!
Record(w, e, k) ==
  /\ worker' = [worker EXCEPT ![w] = [pc |-> "recorded", email |-> e,
                                      seen |-> row[e].status, kind |-> k, msg |-> None]]
  /\ log' = [log EXCEPT ![e] = @ \union {k}]

\* a webhook of a provider, first or repeated, in any order
Webhook(w, r) ==
  /\ w \in Handlers
  /\ worker[w].pc = "idle"
  /\ requests < MaxRequests
  /\ requests' = requests + 1
  /\ r.word \in DOMAIN Heard(r)
  /\ \E e \in Emails : /\ row[e].msg = r.msg
                       /\ Record(w, e, Heard(r)[r.word])
                       /\ Take(e, {})
  /\ UNCHANGED <<row, senders, reports, suppressed, pushed, active>>

\* No email has this message id (yet, or any more): the event is dropped.  So are
\* Mailgun's when the row has the id in angle brackets: the controller strips them.
WebhookUnknown(w, r) ==
  /\ w \in Handlers
  /\ worker[w].pc = "idle"
  /\ requests < MaxRequests
  /\ ProviderOf[r.msg] = "mailgun" \/ \A e \in Emails : row[e].msg # r.msg
  /\ requests' = requests + 1
  /\ UNCHANGED <<row, senders, reports, worker, outcomes, disturbed>>

SetPC(w, pc) == worker' = [worker EXCEPT ![w].pc = pc]

\* Mutant: the webhook is fired before the recipient is suppressed.
UpdateEmailStatusOnly(w) ==
  LET e == worker[w].email  type == EventType(worker[w].kind) IN
  /\ worker[w].pc = "recorded"
  /\ IF worker[w].seen \in AppliesTo(type)
     THEN WriteStatus(e, worker[w].seen, type)
     ELSE row' = row
  /\ SetPC(w, "filed")
  /\ UNCHANGED <<senders, reports, outcomes, requests, disturbed>>

UpdateEmailStatus(w) == LET e == worker[w].email  type == EventType(worker[w].kind) IN
  /\ worker[w].pc = "recorded"
  /\ IF worker[w].seen \in AppliesTo(type)
     THEN WriteStatus(e, worker[w].seen, type)
     ELSE row' = row
  /\ SetPC(w, "updated")
  /\ UNCHANGED <<senders, reports, outcomes, requests, disturbed>>

AutoSuppress(w) ==
  /\ worker[w].pc = "updated"
  /\ suppressed' = suppressed \union
       {e \in {worker[w].email} : ShouldSuppress(worker[w].kind)}
  /\ SetPC(w, "filed")
  /\ UNCHANGED <<row, senders, reports, log, pushed, active, requests, disturbed>>

\* Mutant: the payload names the provider's message instead of the email.
FireTenantWebhooksOfMessage(w) ==
  /\ worker[w].pc = "filed"
  /\ pushed' = IF active /\ EventType(worker[w].kind) \in Subscribed
               THEN Append(pushed, [email |-> row[worker[w].email].msg, kind |-> worker[w].kind])
               ELSE pushed
  /\ worker' = [worker EXCEPT ![w] = IdleWorker]
  /\ UNCHANGED <<row, senders, reports, log, suppressed, active, requests, disturbed>>

FireTenantWebhooks(w) ==
  /\ worker[w].pc = "filed"
  /\ pushed' = IF active /\ EventType(worker[w].kind) \in Subscribed
               THEN Append(pushed, [email |-> worker[w].email, kind |-> worker[w].kind])
               ELSE pushed
  /\ worker' = [worker EXCEPT ![w] = IdleWorker]
  /\ UNCHANGED <<row, senders, reports, log, suppressed, active, requests, disturbed>>

\* anything raised after the event was recorded is swallowed, and the provider
\* told that all is well
Fails(w) ==
  /\ worker[w].pc \in {"recorded", "updated", "filed"}
  /\ worker' = [worker EXCEPT ![w] = IdleWorker]
  /\ disturbed' = [disturbed EXCEPT ![worker[w].email] = @ \union {"slip"}]
  /\ UNCHANGED <<row, senders, reports, outcomes, requests>>

-----------------------------------------------------------------------------
(***************************************************************************)
(* EmailReconciliationService for sent emails, and ProviderStatusPoller.   *)
(* Ages are left out: any sent email may be over 1 or over 72 hours old.   *)
(***************************************************************************)
ReconcileSent(w, e) ==
  /\ w \in Reconcilers
  /\ worker[w].pc = "idle"
  /\ requests < MaxRequests
  /\ row[e].status = "sent"
  /\ requests' = requests + 1
  /\ worker' = [worker EXCEPT ![w] = [pc |-> "polling", email |-> e, seen |-> "sent",
                                      kind |-> "opened", msg |-> row[e].msg]]
  /\ Take(e, {})
  /\ UNCHANGED <<row, senders, reports, outcomes>>

\* The provider's API shows a final report, the last one or, at Mailgun, the
\* strongest of those its log has by now: it goes through the processor, which
\* looks the email up again.
PollFinds(w) ==
  /\ worker[w].pc = "polling"
  /\ \E r \in reports, e \in Emails :
       /\ r.msg = worker[w].msg
       /\ r.word \in DOMAIN Polled(r)
       /\ row[e].msg = r.msg
       /\ Record(w, e, Polled(r)[r.word])
  /\ UNCHANGED <<row, senders, reports, suppressed, pushed, active, requests, disturbed>>

\* Nothing found, polling failed, or the email has another message id by now:
\* the email is left for the next run.
PollStops(w) ==
  /\ worker[w].pc = "polling"
  /\ worker' = [worker EXCEPT ![w] = IdleWorker]
  /\ UNCHANGED <<row, senders, reports, outcomes, requests, disturbed>>

\* Nothing found of an email sent over 72 hours ago.
Expire(w) ==
  /\ worker[w].pc = "polling"
  /\ WriteStatus(worker[w].email, worker[w].seen, "failed")
  /\ worker' = [worker EXCEPT ![w] = IdleWorker]
  /\ UNCHANGED <<senders, reports, outcomes, requests, disturbed>>

-----------------------------------------------------------------------------
EventsNext ==
  \/ \E m \in Messages :
       \/ LoadSend(m) \/ Accept(m) \/ MarkSent(m) \/ MarkRejected(m)
       \/ Settle(m) \/ GiveUp(m)
       \/ \E k \in Word : Emit(m, k)
  \/ \E w \in Workers :
       \/ \E r \in reports : Webhook(w, r)
       \/ \E r \in reports : WebhookUnknown(w, r)
       \/ UpdateEmailStatus(w) \/ AutoSuppress(w) \/ FireTenantWebhooks(w) \/ Fails(w)
       \/ \E e \in Emails : ReconcileSent(w, e)
       \/ PollFinds(w) \/ PollStops(w) \/ Expire(w)

EventsSpec == EventsInit /\ [][EventsNext]_evars

-----------------------------------------------------------------------------
(***************************************************************************)
(* Properties.                                                             *)
(***************************************************************************)
Rank == [queued |-> 0, sent |-> 1, delivered |-> 2,
         bounced |-> 3, complained |-> 3, failed |-> 3]

OneWriter(e) == disturbed[e] \intersect {"overlap", "resend"} = {}

\* As long as no two copies of an email overlapped and it was sent once, its
\* status only moves forward, whatever order and number its reports arrive in:
\* the IN-lists of update_email_status! do what a lock would.
ForwardUnlessDisturbed ==
  [][\A e \in Emails : row'[e].status # row[e].status /\ OneWriter(e)'
                         => Rank[row[e].status] < Rank[row'[e].status]]_evars

\* What an event of a type promises of the status.  A failed after delivered
\* is left aside by update_email_status!.
Shows(k) == IF EventType(k) \in {"bounced", "complained"} THEN 3
            ELSE IF k \in {"delivered", "failed"} THEN 2 ELSE 0

\* An email no one is working on, and nothing befell, shows the strongest event
\* recorded of it.
StrongestReportShows ==
  \A e \in Emails : disturbed[e] = {} /\ ~Held(e)
    => \A k \in log[e] : Rank[row[e].status] >= Shows(k)

\* The words a status may go back to.
Saying == [delivered |-> {"delivered"}, bounced |-> {"hard", "soft", "bare", "dropped"},
           complained |-> {"complained"}]

\* A status that claims an event has one on record, and the provider of one of the
\* email's own messages said so in its own words; whatever raced.
StatusWasReported ==
  \A e \in Emails : row[e].status \in DOMAIN Saying
    => /\ \E k \in log[e] : EventType(k) = row[e].status
       /\ \E r \in reports : EmailOf[r.msg] = e /\ r.word \in Saying[row[e].status]

\* What a recipient is never to be written to after.
Damning == {"hard_bounce", "complained", "unsubscribed"}

\* A tenant told of a hard bounce, a complaint or an unsubscription finds the
\* recipient suppressed already: auto_suppress! comes first and a failure of it
\* keeps the webhook from being pushed.
ToldIsSuppressed ==
  \A i \in DOMAIN pushed : pushed[i].kind \in Damning => pushed[i].email \in suppressed

\* What the provider must have said for that.  Resend's controller takes a bounce
\* for permanent unless it is called transient.
Cause(r) == \/ r.word \in {"hard", "complained", "unsubscribed"}
            \/ r.word = "bare" /\ ProviderOf[r.msg] = "resend"

Caused == \A e \in suppressed : \E r \in reports : EmailOf[r.msg] = e /\ Cause(r)

Attends(w, e) == worker[w].email = e /\ worker[w].pc \in {"recorded", "updated"}

\* Nobody is suppressed for less than what the provider of a message of theirs
\* itself called a permanent bounce, a complaint or an unsubscription, or, at
\* Resend alone, a bounce it did not call transient, whichever controller, poll or
\* repetition it came in by.  And once such an event is on record of an email and
\* no handler works on it or stopped half-way, the recipient is suppressed.
SuppressedForCause ==
  /\ Caused
  /\ \A e \in Emails : /\ "slip" \notin disturbed[e]
                       /\ \A w \in Workers : ~Attends(w, e)
                       => (log[e] \intersect Damning # {} => e \in suppressed)

\* "Terminal statuses (delivered/bounced/complained/failed/suppressed) are left
\* alone" (app/services/email_reconciliation_service.rb:24): a reconciliation
\* that finds nothing does not write over one.
Terminal == {"delivered", "bounced", "complained", "failed"}

TerminalLeftAlone ==
  [][\A w \in Reconcilers, e \in Emails :
       /\ worker[w].pc = "polling" /\ worker'[w].pc = "idle"
       /\ row[e].status \in Terminal
       => row'[e].status = row[e].status]_evars

-----------------------------------------------------------------------------
(***************************************************************************)
(* What ProviderEventsProofs proves inductive.                             *)
(***************************************************************************)
SendOn(m, e)   == EmailOf[m] = e /\ SendHolds(m)
WorkerOn(w, e) == worker[w].email = e /\ WorkerHolds(w)

\* A message id names one email only, and a poll keeps the id of its email.
OwnMessages ==
  /\ \A e \in Emails : row[e].msg \in Messages => EmailOf[row[e].msg] = e
  /\ \A w \in Workers : worker[w].pc # "idle" => worker[w].email \in Emails
  /\ \A w \in Workers : worker[w].pc = "polling" =>
       /\ worker[w].seen = "sent"
       /\ worker[w].msg \in Messages => EmailOf[worker[w].msg] = worker[w].email

\* One writer: at most one copy of the email is held.
OneCopy ==
  \A e \in Emails : OneWriter(e) =>
    /\ \A m, n \in Messages : SendOn(m, e) /\ SendOn(n, e) => m = n
    /\ \A v, w \in Workers : WorkerOn(v, e) /\ WorkerOn(w, e) => v = w
    /\ \A m \in Messages, w \in Workers : ~ (SendOn(m, e) /\ WorkerOn(w, e))

\* One writer: the copy is what the row says, and a send finds it queued.
FreshCopy ==
  \A e \in Emails : OneWriter(e) =>
    /\ \A m \in Messages : SendOn(m, e) => send[m].seen = "queued" /\ row[e].status = "queued"
    /\ \A w \in Workers : WorkerOn(w, e) => worker[w].seen = row[e].status

\* A report says what the event made of it claims.
Backs(r, k) ==
  /\ EventType(k) \in DOMAIN Saying => r.word \in Saying[EventType(k)]
  /\ k \in Damning => Cause(r)

\* What a processor works on is on record and was reported by the provider.
Evidence ==
  /\ StatusWasReported
  /\ ToldIsSuppressed
  /\ Caused
  /\ \A w \in Workers : worker[w].pc \in {"recorded", "updated", "filed"} =>
       /\ worker[w].kind \in log[worker[w].email]
       /\ \E r \in reports : EmailOf[r.msg] = worker[w].email /\ Backs(r, worker[w].kind)
  /\ \A w \in Workers : worker[w].pc = "filed" /\ worker[w].kind \in Damning
                          => worker[w].email \in suppressed

\* An email with one writer got its message id together with its status, and
\* what was recorded is of an email with an id.
Identified ==
  /\ \A e \in Emails : OneWriter(e) /\ row[e].msg # None => row[e].status # "queued"
  /\ \A w \in Workers : worker[w].pc = "recorded" => row[worker[w].email].msg # None

\* An event recorded of an undisturbed email shows, or is about to.
ShownOrDue ==
  \A e \in Emails : disturbed[e] = {} =>
    \A k \in log[e] :
      \/ Rank[row[e].status] >= Shows(k)
      \/ \E w \in Workers :
           worker[w].pc = "recorded" /\ worker[w].email = e /\ worker[w].kind = k

\* An event on record that is a cause has suppressed the recipient, or is about to.
SuppressedOrDue ==
  \A e \in Emails : "slip" \notin disturbed[e] =>
    \A k \in log[e] \intersect Damning :
      e \in suppressed \/ \E w \in Workers : Attends(w, e) /\ worker[w].kind = k

EventsInv ==
  /\ EventsTypeOK /\ OwnMessages /\ OneCopy /\ FreshCopy /\ Evidence /\ Identified
  /\ ShownOrDue /\ SuppressedOrDue
=============================================================================
