------------------------ MODULE ProviderEventsProofs ------------------------
(***************************************************************************)
(* Theorems about ProviderEvents for every set of emails, messages,        *)
(* webhooks and reconciliations.  EventsInv is inductive: TypesKept and    *)
(* OwnKept show that every action keeps the types and the message ids,     *)
(* CopiesKept that it keeps what is known of copies, EvidenceKept that it  *)
(* keeps the evidence, IdentifiedKept and ShownKept what the status shows. *)
(***************************************************************************)
EXTENDS ProviderEvents, TLAPS

USE EventsAssumption

-----------------------------------------------------------------------------
(***************************************************************************)
(* The kinds of events.                                                    *)
(***************************************************************************)

(* An event is applied only to a status it moves forward, and becomes it.  *)
LEMMA AppliesForward ==
  ASSUME NEW type, NEW s \in AppliesTo(type)
  PROVE  type \in Status /\ s \in Status /\ s # type /\ Rank[s] < Rank[type]
BY DEF AppliesTo, Status, Rank

(* The statuses that claim an event.                                       *)
LEMMA Claims == DOMAIN Saying = {"delivered", "bounced", "complained"}
BY DEF Saying

(* What a controller makes of a report claims no more than the provider    *)
(* said.                                                                   *)
LEMMA HeardBacked ==
  ASSUME EventsTypeOK, NEW r \in reports, r.word \in DOMAIN Heard(r)
  PROVE  Heard(r)[r.word] \in Kind /\ Backs(r, Heard(r)[r.word])
<1>1. ProviderOf[r.msg] \in Provider
  BY DEF EventsTypeOK, Report
<1> DEFINE p == ProviderOf[r.msg]  word == r.word
<1>2. CASE p = "sendgrid"
  BY <1>2 DEF Heard, WebhookKind, SendGridKind, Kind, Backs, EventType, Saying, Damning, Cause
<1>3. CASE p = "resend"
  BY <1>3 DEF Heard, WebhookKind, ResendKind, Kind, Backs, EventType, Saying, Damning, Cause
<1>4. CASE p = "mailgun"
  BY <1>4 DEF Heard, WebhookKind, MailgunKind, Kind, Backs, EventType, Saying, Damning, Cause
<1>5. CASE p = "postmark"
  BY <1>5 DEF Heard, WebhookKind, PostmarkKind, Kind, Backs, EventType, Saying, Damning, Cause
<1>6. CASE p = "ses"
  BY <1>6 DEF Heard, WebhookKind, SesKind, Kind, Backs, EventType, Saying, Damning, Cause
<1>7. QED  BY <1>1, <1>2, <1>3, <1>4, <1>5, <1>6 DEF Provider

(* Nor does what the poller makes of it.                                   *)
LEMMA PolledBacked ==
  ASSUME EventsTypeOK, NEW r \in reports, r.word \in DOMAIN Polled(r)
  PROVE  Polled(r)[r.word] \in Kind /\ Backs(r, Polled(r)[r.word])
<1>1. ProviderOf[r.msg] \in Provider
  BY DEF EventsTypeOK, Report
<1> DEFINE p == ProviderOf[r.msg]
<1>2. CASE p = "sendgrid"
  BY <1>2 DEF Polled, PollKind, Kind, Backs, EventType, Saying, Damning, Cause
<1>3. CASE p = "resend"
  BY <1>3 DEF Polled, PollKind, Kind, Backs, EventType, Saying, Damning, Cause
<1>4. CASE p = "mailgun"
  BY <1>4 DEF Polled, PollKind, Kind, Backs, EventType, Saying, Damning, Cause
<1>5. CASE p = "postmark"
  BY <1>5 DEF Polled, PollKind, Kind, Backs, EventType, Saying, Damning, Cause
<1>6. CASE p = "ses"
  BY <1>6 DEF Polled, PollKind
<1>7. QED  BY <1>1, <1>2, <1>3, <1>4, <1>5, <1>6 DEF Provider

(* What is never to be written to again is what the processor suppresses.  *)
LEMMA DamningSuppresses ==
  ASSUME NEW k
  PROVE  ShouldSuppress(k) <=> k \in Damning
BY DEF ShouldSuppress, Damning

-----------------------------------------------------------------------------
(***************************************************************************)
(* Types.                                                                  *)
(***************************************************************************)

(* update! of a status keeps the emails typed, and the message ids.        *)
LEMMA WriteStatusType ==
  ASSUME EventsTypeOK, NEW e \in Emails, NEW seen, NEW new \in Status,
         WriteStatus(e, seen, new)
  PROVE  /\ row' \in [Emails -> EmailRow]
         /\ \A d \in Emails : row'[d].msg = row[d].msg
         /\ \A d \in Emails : d # e => row'[d] = row[d]
         /\ row'[e].status = IF seen # new THEN new ELSE row[e].status
BY DEF WriteStatus, Written, EventsTypeOK, EmailRow

(* A worker that moves on is still one, with the same copy.                *)
LEMMA SetPCType ==
  ASSUME EventsTypeOK, NEW w \in Workers, NEW pc \in PC, SetPC(w, pc)
  PROVE  /\ worker' \in [Workers -> Worker]
         /\ \A v \in Workers : v # w => worker'[v] = worker[v]
         /\ worker'[w].pc = pc
         /\ worker'[w].email = worker[w].email
         /\ worker'[w].kind = worker[w].kind
BY DEF SetPC, EventsTypeOK, Worker

(* Recording an event keeps workers and events typed.                      *)
LEMMA RecordType ==
  ASSUME EventsTypeOK, NEW w \in Workers, NEW e \in Emails, NEW k \in Kind, Record(w, e, k)
  PROVE  /\ worker' \in [Workers -> Worker]
         /\ log' \in [Emails -> SUBSET Kind]
BY DEF Record, EventsTypeOK, Worker, EmailRow, PC

(* History keeps its type.                                                 *)
LEMMA TakeType ==
  ASSUME EventsTypeOK, NEW e \in Emails, NEW why \in SUBSET {"resend"}, Take(e, why)
  PROVE  disturbed' \in [Emails -> SUBSET {"overlap", "resend", "slip"}]
BY DEF Take, EventsTypeOK

(* Idle workers are workers.                                               *)
LEMMA IdleType == IdleWorker \in Worker
BY DEF IdleWorker, Worker, PC, Status, Kind

(* A send that moves on is still a send.                                   *)
LEMMA SetSendType ==
  ASSUME EventsTypeOK, NEW m \in Messages, NEW stage \in Stage, NEW seen \in Status,
         SetSend(m, stage, seen)
  PROVE  send' \in [Messages -> SendRow]
BY DEF SetSend, EventsTypeOK, SendRow

(* A send has loaded a status.                                             *)
LEMMA SeenType ==
  ASSUME EventsTypeOK, NEW m \in Messages
  PROVE  send[m].seen \in Status
BY DEF EventsTypeOK, SendRow

(* Every action keeps the types.                                           *)
LEMMA TypesKept ==
  ASSUME EventsTypeOK, OwnMessages, EventsNext
  PROVE  EventsTypeOK'
<1> USE DEF senders, outcomes
<1>1. ASSUME NEW m \in Messages, LoadSend(m) PROVE EventsTypeOK'
  <2>1. EmailOf[m] \in Emails /\ row[EmailOf[m]].status \in Status
    BY DEF EventsTypeOK, EmailRow
  <2>2. disturbed' \in [Emails -> SUBSET {"overlap", "resend", "slip"}]
    BY <1>1, <2>1, TakeType DEF LoadSend
  <2>3. send' \in [Messages -> SendRow]
    BY <1>1, <2>1, SetSendType DEF LoadSend, Stage
  <2>4. QED  BY <1>1, <2>2, <2>3 DEF LoadSend, EventsTypeOK
<1>2. ASSUME NEW m \in Messages, Accept(m) PROVE EventsTypeOK'
  <2>1. send' \in [Messages -> SendRow]
    BY <1>2, SeenType, SetSendType DEF Accept, Stage
  <2>2. QED  BY <1>2, <2>1 DEF Accept, EventsTypeOK
<1>3. ASSUME NEW m \in Messages, MarkSent(m) PROVE EventsTypeOK'
  <2>1. send' \in [Messages -> SendRow]
    BY <1>3, SeenType, SetSendType DEF MarkSent, Stage
  <2>2. row' \in [Emails -> EmailRow]
    BY <1>3 DEF MarkSent, EventsTypeOK, EmailRow, Written, Status
  <2>3. QED  BY <1>3, <2>1, <2>2 DEF MarkSent, EventsTypeOK
<1>4. ASSUME NEW m \in Messages, MarkRejected(m) PROVE EventsTypeOK'
  <2>1. row' \in [Emails -> EmailRow]
    BY <1>4, WriteStatusType DEF MarkRejected, Status
  <2>2. send' \in [Messages -> SendRow]
    BY <1>4, SeenType, SetSendType DEF MarkRejected, Stage
  <2>3. QED  BY <1>4, <2>1, <2>2 DEF MarkRejected, EventsTypeOK
<1>5. ASSUME NEW m \in Messages, Settle(m) \/ GiveUp(m) PROVE EventsTypeOK'
  <2>1. send' \in [Messages -> SendRow]
    BY <1>5, SeenType, SetSendType DEF Settle, GiveUp, Stage
  <2>2. QED  BY <1>5, <2>1 DEF Settle, GiveUp, EventsTypeOK
<1>6. ASSUME NEW m \in Messages, NEW k \in Word, Emit(m, k) PROVE EventsTypeOK'
  BY <1>6 DEF Emit, EventsTypeOK, Report
<1>7. ASSUME NEW w \in Workers, NEW r \in reports, Webhook(w, r) PROVE EventsTypeOK'
  <2>1. Heard(r)[r.word] \in Kind
    BY <1>7, HeardBacked DEF Webhook
  <2>2. PICK e \in Emails : Record(w, e, Heard(r)[r.word]) /\ Take(e, {})
    BY <1>7 DEF Webhook
  <2>3. disturbed' \in [Emails -> SUBSET {"overlap", "resend", "slip"}]
    BY <2>2, TakeType
  <2>4. QED  BY <1>7, <2>1, <2>2, <2>3, RecordType DEF Webhook, EventsTypeOK
<1>8. ASSUME NEW w \in Workers, NEW r \in reports, WebhookUnknown(w, r) PROVE EventsTypeOK'
  BY <1>8 DEF WebhookUnknown, EventsTypeOK
<1>9. ASSUME NEW w \in Workers, UpdateEmailStatus(w) PROVE EventsTypeOK'
  <2>1. worker[w].email \in Emails
    BY <1>9 DEF OwnMessages, UpdateEmailStatus
  <2>2. row' \in [Emails -> EmailRow]
    BY <1>9, <2>1, AppliesForward, WriteStatusType DEF UpdateEmailStatus, EventsTypeOK
  <2>3. worker' \in [Workers -> Worker]
    BY <1>9, SetPCType DEF UpdateEmailStatus, PC
  <2>4. QED  BY <1>9, <2>2, <2>3 DEF UpdateEmailStatus, EventsTypeOK
<1>10. ASSUME NEW w \in Workers, AutoSuppress(w) PROVE EventsTypeOK'
  <2>1. worker[w].email \in Emails
    BY <1>10 DEF OwnMessages, AutoSuppress
  <2>2. worker' \in [Workers -> Worker]
    BY <1>10, SetPCType DEF AutoSuppress, PC
  <2>3. QED  BY <1>10, <2>1, <2>2 DEF AutoSuppress, EventsTypeOK
<1>11. ASSUME NEW w \in Workers, FireTenantWebhooks(w) PROVE EventsTypeOK'
  <2>1. [email |-> worker[w].email, kind |-> worker[w].kind] \in Hook
    BY <1>11 DEF OwnMessages, FireTenantWebhooks, EventsTypeOK, Worker, Hook
  <2>2. pushed' \in Seq(Hook)
    BY <1>11, <2>1 DEF FireTenantWebhooks, EventsTypeOK
  <2>3. QED  BY <1>11, <2>2, IdleType DEF FireTenantWebhooks, EventsTypeOK
<1>12. ASSUME NEW w \in Workers, Fails(w) PROVE EventsTypeOK'
  BY <1>12, IdleType DEF Fails, EventsTypeOK
<1>13. ASSUME NEW w \in Workers, NEW e \in Emails, ReconcileSent(w, e) PROVE EventsTypeOK'
  <2>1. disturbed' \in [Emails -> SUBSET {"overlap", "resend", "slip"}]
    BY <1>13, TakeType DEF ReconcileSent
  <2>2. worker' \in [Workers -> Worker]
    BY <1>13 DEF ReconcileSent, EventsTypeOK, Worker, EmailRow, PC, Status, Kind
  <2>3. QED  BY <1>13, <2>1, <2>2 DEF ReconcileSent, EventsTypeOK
<1>14. ASSUME NEW w \in Workers, PollFinds(w) PROVE EventsTypeOK'
  <2>1. PICK r \in reports, e \in Emails :
          r.word \in DOMAIN Polled(r) /\ Record(w, e, Polled(r)[r.word])
    BY <1>14 DEF PollFinds
  <2>2. Polled(r)[r.word] \in Kind
    BY <2>1, PolledBacked
  <2>3. QED  BY <1>14, <2>1, <2>2, RecordType DEF PollFinds, EventsTypeOK
<1>15. ASSUME NEW w \in Workers, PollStops(w) PROVE EventsTypeOK'
  BY <1>15, IdleType DEF PollStops, EventsTypeOK
<1>16. ASSUME NEW w \in Workers, Expire(w) PROVE EventsTypeOK'
  <2>1. row' \in [Emails -> EmailRow]
    BY <1>16, WriteStatusType DEF Expire, OwnMessages, Status
  <2>2. QED  BY <1>16, <2>1, IdleType DEF Expire, EventsTypeOK
<1>17. QED
  BY <1>1, <1>2, <1>3, <1>4, <1>5, <1>6, <1>7, <1>8, <1>9, <1>10, <1>11, <1>12,
     <1>13, <1>14, <1>15, <1>16 DEF EventsNext

-----------------------------------------------------------------------------
(***************************************************************************)
(* Message ids.                                                            *)
(***************************************************************************)

(* Every action keeps message ids and the email a worker works on.         *)
LEMMA OwnKept ==
  ASSUME EventsTypeOK, OwnMessages, EventsNext
  PROVE  OwnMessages'
<1> USE DEF OwnMessages
<1>1. ASSUME NEW m \in Messages, LoadSend(m) \/ Accept(m) \/ Settle(m) \/ GiveUp(m)
      PROVE  OwnMessages'
  BY <1>1 DEF LoadSend, Accept, Settle, GiveUp
<1>2. ASSUME NEW m \in Messages, MarkSent(m) PROVE OwnMessages'
  BY <1>2 DEF MarkSent, EventsTypeOK
<1>3. ASSUME NEW m \in Messages, MarkRejected(m) PROVE OwnMessages'
  BY <1>3, WriteStatusType DEF MarkRejected, Status
<1>4. ASSUME NEW m \in Messages, NEW k \in Word, Emit(m, k) PROVE OwnMessages'
  BY <1>4 DEF Emit
<1>5. ASSUME NEW w \in Workers, NEW r \in reports, Webhook(w, r) PROVE OwnMessages'
  BY <1>5 DEF Webhook, Record, EventsTypeOK
<1>6. ASSUME NEW w \in Workers, NEW r \in reports, WebhookUnknown(w, r) PROVE OwnMessages'
  BY <1>6 DEF WebhookUnknown
<1>7. ASSUME NEW w \in Workers, UpdateEmailStatus(w) PROVE OwnMessages'
  <2>1. \A e \in Emails : row'[e].msg = row[e].msg
    BY <1>7, AppliesForward, WriteStatusType DEF UpdateEmailStatus
  <2>2. QED  BY <1>7, <2>1, SetPCType DEF UpdateEmailStatus, PC
<1>8. ASSUME NEW w \in Workers, AutoSuppress(w) PROVE OwnMessages'
  BY <1>8, SetPCType DEF AutoSuppress, PC
<1>9. ASSUME NEW w \in Workers, FireTenantWebhooks(w) \/ Fails(w) \/ PollStops(w)
      PROVE  OwnMessages'
  BY <1>9 DEF FireTenantWebhooks, Fails, PollStops, EventsTypeOK, IdleWorker
<1>10. ASSUME NEW w \in Workers, NEW e \in Emails, ReconcileSent(w, e) PROVE OwnMessages'
  BY <1>10 DEF ReconcileSent, EventsTypeOK
<1>11. ASSUME NEW w \in Workers, PollFinds(w) PROVE OwnMessages'
  BY <1>11 DEF PollFinds, Record, EventsTypeOK
<1>12. ASSUME NEW w \in Workers, Expire(w) PROVE OwnMessages'
  <2>1. \A e \in Emails : row'[e].msg = row[e].msg
    BY <1>12, WriteStatusType DEF Expire, Status
  <2>2. QED  BY <1>12, <2>1 DEF Expire, EventsTypeOK, IdleWorker
<1>13. QED
  BY <1>1, <1>2, <1>3, <1>4, <1>5, <1>6, <1>7, <1>8, <1>9, <1>10, <1>11, <1>12 DEF EventsNext

-----------------------------------------------------------------------------
(***************************************************************************)
(* Copies.                                                                 *)
(***************************************************************************)
Copies == OneCopy /\ FreshCopy

(* A copy taken while none is held keeps the history clean; any other does *)
(* not, and history is never cleared.                                      *)
LEMMA TakeAlone ==
  ASSUME EventsTypeOK, NEW e \in Emails, NEW why, Take(e, why), NEW d \in Emails, OneWriter(d)'
  PROVE  OneWriter(d) /\ (d = e => ~Held(e) /\ "resend" \notin why)
BY DEF Take, OneWriter, EventsTypeOK

(* A step that takes no copy, gives some back and writes no email whose    *)
(* copy is held by another keeps what is known of copies.                  *)
LEMMA FewerCopies ==
  ASSUME Copies,
         \A e \in Emails : OneWriter(e)' => OneWriter(e),
         \A m \in Messages, e \in Emails :
           SendOn(m, e)' => SendOn(m, e) /\ send'[m].seen = send[m].seen,
         \A w \in Workers, e \in Emails :
           WorkerOn(w, e)' => WorkerOn(w, e) /\ worker'[w].seen = worker[w].seen,
         \A e \in Emails : OneWriter(e) =>
           \/ row'[e].status = row[e].status
           \/ (\A m \in Messages : ~SendOn(m, e)') /\ (\A w \in Workers : ~WorkerOn(w, e)')
  PROVE  Copies'
<1>1. OneCopy'
  BY DEF Copies, OneCopy
<1>2. FreshCopy'
  BY DEF Copies, FreshCopy
<1>3. QED  BY <1>1, <1>2 DEF Copies

(* Every action keeps what is known of copies.                             *)
LEMMA CopiesKept ==
  ASSUME EventsTypeOK, OwnMessages, Copies, EventsNext
  PROVE  Copies'
<1> USE DEF senders, outcomes
<1>1. ASSUME NEW m \in Messages, LoadSend(m) PROVE Copies'
  <2> DEFINE e == EmailOf[m]
  <2>1. /\ e \in Emails /\ worker' = worker /\ row' = row
        /\ Take(e, IF row[e].status # "queued" THEN {"resend"} ELSE {})
    BY <1>1 DEF LoadSend
  <2>2. ASSUME NEW d \in Emails, OneWriter(d)'
        PROVE  OneWriter(d) /\ (d = e => ~Held(e) /\ row[e].status = "queued")
    BY <2>1, <2>2, TakeAlone
  <2>3. \A n \in Messages : n # m => send'[n] = send[n]
    BY <1>1 DEF LoadSend, SetSend, EventsTypeOK
  <2>4. send'[m].seen = row[e].status
    BY <1>1 DEF LoadSend, SetSend, EventsTypeOK
  <2>5. OneCopy'
    BY <2>1, <2>2, <2>3 DEF Copies, OneCopy, SendOn, WorkerOn, SendHolds, WorkerHolds, Held
  <2>6. FreshCopy'
    BY <2>1, <2>2, <2>3, <2>4 DEF Copies, FreshCopy, SendOn, WorkerOn, SendHolds, WorkerHolds
  <2>7. QED  BY <2>5, <2>6 DEF Copies
<1>2. ASSUME NEW m \in Messages, Accept(m) \/ Settle(m) \/ GiveUp(m) PROVE Copies'
  BY <1>2, FewerCopies DEF Accept, Settle, GiveUp, SetSend, EventsTypeOK, OneWriter,
     SendOn, WorkerOn, SendHolds, WorkerHolds
<1>3. ASSUME NEW m \in Messages, MarkSent(m) \/ MarkRejected(m) PROVE Copies'
  <2>1. /\ SendOn(m, EmailOf[m]) /\ ~SendHolds(m)'
        /\ \A n \in Messages : n # m => send'[n] = send[n]
        /\ worker' = worker /\ disturbed' = disturbed
    BY <1>3 DEF MarkSent, MarkRejected, SetSend, EventsTypeOK, SendOn, SendHolds
  <2>2. \A d \in Emails : d # EmailOf[m] => row'[d] = row[d]
    BY <1>3 DEF MarkSent, MarkRejected, WriteStatus, EventsTypeOK
  <2>3. \A e \in Emails : OneWriter(e)' <=> OneWriter(e)
    BY <2>1 DEF OneWriter
  <2>4. OneWriter(EmailOf[m]) => /\ \A n \in Messages : ~SendOn(n, EmailOf[m])'
                                 /\ \A w \in Workers : ~WorkerOn(w, EmailOf[m])'
    BY <2>1 DEF Copies, OneCopy, SendOn, SendHolds, WorkerOn, WorkerHolds
  <2>5. /\ \A n \in Messages, e \in Emails :
             SendOn(n, e)' => SendOn(n, e) /\ send'[n].seen = send[n].seen
        /\ \A w \in Workers, e \in Emails :
             WorkerOn(w, e)' => WorkerOn(w, e) /\ worker'[w].seen = worker[w].seen
    BY <2>1 DEF SendOn, SendHolds, WorkerOn, WorkerHolds
  <2>6. QED  BY <2>2, <2>3, <2>4, <2>5, FewerCopies
<1>4. ASSUME NEW m \in Messages, NEW k \in Word, Emit(m, k) PROVE Copies'
  BY <1>4, FewerCopies DEF Emit, OneWriter, SendOn, WorkerOn, SendHolds, WorkerHolds
<1>5. ASSUME NEW w \in Workers, NEW e \in Emails, NEW pc, NEW k, NEW msg,
             worker' = [worker EXCEPT ![w] = [pc |-> pc, email |-> e, seen |-> row[e].status,
                                              kind |-> k, msg |-> msg]],
             UNCHANGED <<row, send>>,
             \A d \in Emails : OneWriter(d)' => OneWriter(d),
             OneWriter(e)' => ~Held(e) \/ WorkerOn(w, e)
      PROVE  Copies'
  <2>1. \A v \in Workers : v # w => worker'[v] = worker[v]
    BY <1>5 DEF EventsTypeOK
  <2>2. worker'[w].email = e /\ worker'[w].seen = row[e].status
    BY <1>5 DEF EventsTypeOK
  <2>3. OneCopy'
    BY <1>5, <2>1, <2>2 DEF Copies, OneCopy, SendOn, WorkerOn, SendHolds, WorkerHolds, Held
  <2>4. FreshCopy'
    BY <1>5, <2>1, <2>2 DEF Copies, FreshCopy, SendOn, WorkerOn, SendHolds, WorkerHolds
  <2>5. QED  BY <2>3, <2>4 DEF Copies
<1>6. ASSUME NEW w \in Workers, NEW r \in reports, Webhook(w, r) PROVE Copies'
  <2>1. PICK e \in Emails : Record(w, e, Heard(r)[r.word]) /\ Take(e, {})
    BY <1>6 DEF Webhook
  <2>2. /\ \A d \in Emails : OneWriter(d)' => OneWriter(d)
        /\ OneWriter(e)' => ~Held(e)
    BY <2>1, TakeAlone
  <2>3. QED  BY <1>5, <1>6, <2>1, <2>2 DEF Webhook, Record
<1>7. ASSUME NEW w \in Workers, NEW r \in reports, WebhookUnknown(w, r) PROVE Copies'
  BY <1>7, FewerCopies DEF WebhookUnknown, OneWriter, SendOn, WorkerOn, SendHolds, WorkerHolds
<1>8. ASSUME NEW w \in Workers, UpdateEmailStatus(w) PROVE Copies'
  <2> PICK e \in Emails : e = worker[w].email
    BY <1>8 DEF UpdateEmailStatus, OwnMessages
  <2>1. WorkerOn(w, e) /\ send' = send /\ disturbed' = disturbed
    BY <1>8 DEF UpdateEmailStatus, WorkerOn, WorkerHolds
  <2>2. /\ \A v \in Workers : v # w => worker'[v] = worker[v]
        /\ ~WorkerHolds(w)'
    BY <1>8, SetPCType DEF UpdateEmailStatus, WorkerHolds, PC
  <2>3. \A d \in Emails : d # e => row'[d] = row[d]
    BY <1>8, <2>1 DEF UpdateEmailStatus, WriteStatus, EventsTypeOK
  <2>4. OneWriter(e) => /\ \A n \in Messages : ~SendOn(n, e)'
                        /\ \A v \in Workers : ~WorkerOn(v, e)'
    BY <2>1, <2>2 DEF Copies, OneCopy, SendOn, SendHolds, WorkerOn, WorkerHolds
  <2>5. /\ \A n \in Messages, d \in Emails :
             SendOn(n, d)' => SendOn(n, d) /\ send'[n].seen = send[n].seen
        /\ \A v \in Workers, d \in Emails :
             WorkerOn(v, d)' => WorkerOn(v, d) /\ worker'[v].seen = worker[v].seen
        /\ \A d \in Emails : OneWriter(d)' => OneWriter(d)
    BY <2>1, <2>2 DEF SendOn, SendHolds, WorkerOn, WorkerHolds, OneWriter
  <2>6. QED  BY <2>3, <2>4, <2>5, FewerCopies
<1>9. ASSUME NEW w \in Workers, AutoSuppress(w) PROVE Copies'
  <2>1. /\ \A v \in Workers : v # w => worker'[v] = worker[v]
        /\ ~WorkerHolds(w)'
    BY <1>9, SetPCType DEF AutoSuppress, WorkerHolds, PC
  <2>2. QED
    BY <1>9, <2>1, FewerCopies DEF AutoSuppress, OneWriter, SendOn, SendHolds, WorkerOn, WorkerHolds
<1>10. ASSUME NEW w \in Workers, FireTenantWebhooks(w) \/ Fails(w) \/ PollStops(w)
       PROVE  Copies'
  <2>1. /\ \A v \in Workers : v # w => worker'[v] = worker[v]
        /\ ~WorkerHolds(w)'
        /\ row' = row /\ send' = send
    BY <1>10 DEF FireTenantWebhooks, Fails, PollStops, EventsTypeOK, WorkerHolds, IdleWorker
  <2>2. \A e \in Emails : OneWriter(e)' => OneWriter(e)
    BY <1>10 DEF FireTenantWebhooks, Fails, PollStops, OneWriter, EventsTypeOK
  <2>3. QED
    BY <2>1, <2>2, FewerCopies DEF SendOn, SendHolds, WorkerOn, WorkerHolds
<1>11. ASSUME NEW w \in Workers, NEW e \in Emails, ReconcileSent(w, e) PROVE Copies'
  <2>1. /\ \A d \in Emails : OneWriter(d)' => OneWriter(d)
        /\ OneWriter(e)' => ~Held(e)
    BY <1>11, TakeAlone DEF ReconcileSent
  <2>2. QED  BY <1>5, <1>11, <2>1 DEF ReconcileSent
<1>12. ASSUME NEW w \in Workers, PollFinds(w) PROVE Copies'
  <2>1. PICK r \in reports, e \in Emails :
          r.msg = worker[w].msg /\ row[e].msg = r.msg /\ Record(w, e, Polled(r)[r.word])
    BY <1>12 DEF PollFinds
  <2>2. WorkerOn(w, e)
    BY <1>12, <2>1 DEF PollFinds, OwnMessages, EventsTypeOK, Report, WorkerOn, WorkerHolds
  <2>3. \A d \in Emails : OneWriter(d)' => OneWriter(d)
    BY <1>12 DEF PollFinds, OneWriter
  <2>4. QED  BY <1>5, <1>12, <2>1, <2>2, <2>3 DEF PollFinds, Record
<1>13. ASSUME NEW w \in Workers, Expire(w) PROVE Copies'
  <2> PICK e \in Emails : e = worker[w].email
    BY <1>13 DEF Expire, OwnMessages
  <2>1. WorkerOn(w, e) /\ send' = send /\ disturbed' = disturbed
    BY <1>13 DEF Expire, WorkerOn, WorkerHolds
  <2>2. /\ \A v \in Workers : v # w => worker'[v] = worker[v]
        /\ ~WorkerHolds(w)'
    BY <1>13 DEF Expire, EventsTypeOK, WorkerHolds, IdleWorker
  <2>3. \A d \in Emails : d # e => row'[d] = row[d]
    BY <1>13, <2>1 DEF Expire, WriteStatus, EventsTypeOK
  <2>4. OneWriter(e) => /\ \A n \in Messages : ~SendOn(n, e)'
                        /\ \A v \in Workers : ~WorkerOn(v, e)'
    BY <2>1, <2>2 DEF Copies, OneCopy, SendOn, SendHolds, WorkerOn, WorkerHolds
  <2>5. /\ \A n \in Messages, d \in Emails :
             SendOn(n, d)' => SendOn(n, d) /\ send'[n].seen = send[n].seen
        /\ \A v \in Workers, d \in Emails :
             WorkerOn(v, d)' => WorkerOn(v, d) /\ worker'[v].seen = worker[v].seen
        /\ \A d \in Emails : OneWriter(d)' => OneWriter(d)
    BY <2>1, <2>2 DEF SendOn, SendHolds, WorkerOn, WorkerHolds, OneWriter
  <2>6. QED  BY <2>3, <2>4, <2>5, FewerCopies
<1>14. QED
  BY <1>1, <1>2, <1>3, <1>4, <1>6, <1>7, <1>8, <1>9, <1>10, <1>11, <1>12, <1>13
  DEF EventsNext

-----------------------------------------------------------------------------
(***************************************************************************)
(* Evidence.                                                               *)
(***************************************************************************)

\* The part of Evidence that is about the workers.
Grounds(w) ==
  /\ worker[w].pc \in {"recorded", "updated", "filed"} =>
       /\ worker[w].kind \in log[worker[w].email]
       /\ \E r \in reports : EmailOf[r.msg] = worker[w].email /\ Backs(r, worker[w].kind)
  /\ worker[w].pc = "filed" /\ worker[w].kind \in Damning => worker[w].email \in suppressed

(* A step that writes no claim of an event, suppresses nobody, pushes      *)
(* nothing and lets no worker but w move keeps the evidence, if it leaves  *)
(* w with grounds.                                                         *)
LEMMA EvidenceStays ==
  ASSUME EventsTypeOK, Evidence, NEW w \in Workers, Grounds(w)',
         \A v \in Workers : v # w => worker'[v] = worker[v],
         \A e \in Emails : row'[e].status = row[e].status \/ row'[e].status \in {"sent", "failed"},
         reports \subseteq reports', \A e \in Emails : log[e] \subseteq log'[e],
         suppressed' = suppressed, pushed' = pushed,
         OwnMessages
  PROVE  Evidence'
<1>1. StatusWasReported'
  BY Claims DEF Evidence, StatusWasReported
<1>2. ToldIsSuppressed' /\ Caused'
  BY DEF Evidence, ToldIsSuppressed, Caused
<1>3. \A v \in Workers : Grounds(v)'
  BY DEF Evidence, Grounds, OwnMessages
<1>4. QED  BY <1>1, <1>2, <1>3 DEF Evidence, Grounds

(* Recording an event a provider reported gives the worker grounds.        *)
LEMMA RecordGrounds ==
  ASSUME EventsTypeOK, NEW w \in Workers, NEW e \in Emails, NEW k \in Kind, Record(w, e, k),
         NEW r \in reports, reports' = reports, EmailOf[r.msg] = e, Backs(r, k)
  PROVE  /\ Grounds(w)'
         /\ \A v \in Workers : v # w => worker'[v] = worker[v]
         /\ \A d \in Emails : log[d] \subseteq log'[d]
BY DEF Record, Grounds, EventsTypeOK

(* Every action keeps the evidence.                                        *)
LEMMA EvidenceKept ==
  ASSUME EventsTypeOK, OwnMessages, Evidence, EventsNext
  PROVE  Evidence'
<1> USE DEF senders, outcomes
<1>1. ASSUME worker' = worker, log' = log, suppressed' = suppressed, pushed' = pushed,
             reports \subseteq reports',
             \A e \in Emails : row'[e].status = row[e].status \/ row'[e].status \in {"sent", "failed"}
      PROVE  Evidence'
  <2>1. StatusWasReported'
    BY <1>1, Claims DEF Evidence, StatusWasReported
  <2>2. ToldIsSuppressed' /\ Caused'
    BY <1>1 DEF Evidence, ToldIsSuppressed, Caused
  <2>3. QED  BY <1>1, <2>1, <2>2 DEF Evidence
<1>2. ASSUME NEW m \in Messages, LoadSend(m) \/ Accept(m) \/ Settle(m) \/ GiveUp(m)
      PROVE  Evidence'
  BY <1>1, <1>2 DEF LoadSend, Accept, Settle, GiveUp
<1>3. ASSUME NEW m \in Messages, MarkSent(m) PROVE Evidence'
  BY <1>1, <1>3 DEF MarkSent, Written, EventsTypeOK
<1>4. ASSUME NEW m \in Messages, MarkRejected(m) PROVE Evidence'
  BY <1>1, <1>4 DEF MarkRejected, WriteStatus, Written, EventsTypeOK
<1>5. ASSUME NEW m \in Messages, NEW k \in Word, Emit(m, k) PROVE Evidence'
  BY <1>1, <1>5 DEF Emit
<1>6. ASSUME NEW w \in Workers, NEW r \in reports, Webhook(w, r) PROVE Evidence'
  <2>1. PICK e \in Emails : row[e].msg = r.msg /\ Record(w, e, Heard(r)[r.word])
    BY <1>6 DEF Webhook
  <2>2. /\ Heard(r)[r.word] \in Kind /\ Backs(r, Heard(r)[r.word])
        /\ EmailOf[r.msg] = e
    BY <1>6, <2>1, HeardBacked DEF Webhook, EventsTypeOK, Report, OwnMessages
  <2>3. QED  BY <1>6, <2>1, <2>2, RecordGrounds, EvidenceStays DEF Webhook
<1>7. ASSUME NEW w \in Workers, NEW r \in reports, WebhookUnknown(w, r) PROVE Evidence'
  BY <1>1, <1>7 DEF WebhookUnknown
<1>8. ASSUME NEW w \in Workers, UpdateEmailStatus(w) PROVE Evidence'
  <2> PICK e \in Emails : e = worker[w].email
    BY <1>8 DEF UpdateEmailStatus, OwnMessages
  <2> DEFINE type == EventType(worker[w].kind)
  <2>1. /\ \A v \in Workers : v # w => worker'[v] = worker[v]
        /\ worker'[w].pc = "updated" /\ worker'[w].email = e /\ worker'[w].kind = worker[w].kind
    BY <1>8, SetPCType DEF UpdateEmailStatus, PC
  <2>2. /\ worker[w].kind \in log[e]
        /\ \E r \in reports : EmailOf[r.msg] = e /\ Backs(r, worker[w].kind)
    BY <1>8 DEF UpdateEmailStatus, Evidence
  <2>3. log' = log /\ reports' = reports /\ suppressed' = suppressed /\ pushed' = pushed
    BY <1>8 DEF UpdateEmailStatus
  <2>4. \A d \in Emails : row'[d].status = row[d].status \/ (d = e /\ row'[d].status = type)
    BY <1>8 DEF UpdateEmailStatus, WriteStatus, Written, EventsTypeOK
  <2>5. StatusWasReported'
    BY <2>2, <2>3, <2>4 DEF Evidence, StatusWasReported, Backs
  <2>6. ToldIsSuppressed' /\ Caused'
    BY <2>3 DEF Evidence, ToldIsSuppressed, Caused
  <2>7. QED  BY <2>1, <2>2, <2>3, <2>5, <2>6 DEF Evidence
<1>9. ASSUME NEW w \in Workers, AutoSuppress(w) PROVE Evidence'
  <2>1. /\ \A v \in Workers : v # w => worker'[v] = worker[v]
        /\ worker'[w].email = worker[w].email /\ worker'[w].kind = worker[w].kind
    BY <1>9, SetPCType DEF AutoSuppress, PC
  <2>2. /\ log' = log /\ reports' = reports /\ row' = row /\ pushed' = pushed
        /\ suppressed \subseteq suppressed'
        /\ \A e \in suppressed' : e \in suppressed
                                  \/ (e = worker[w].email /\ worker[w].kind \in Damning)
        /\ worker[w].kind \in Damning => worker[w].email \in suppressed'
    BY <1>9, DamningSuppresses DEF AutoSuppress
  <2>3. StatusWasReported' /\ ToldIsSuppressed'
    BY <2>2 DEF Evidence, StatusWasReported, ToldIsSuppressed
  <2>4. Caused'
    BY <1>9, <2>2 DEF Evidence, Caused, AutoSuppress, Backs
  <2>5. worker[w].pc = "updated"
    BY <1>9 DEF AutoSuppress
  <2>6. QED  BY <2>1, <2>2, <2>3, <2>4, <2>5 DEF Evidence
<1>10. ASSUME NEW w \in Workers, FireTenantWebhooks(w) PROVE Evidence'
  <2>1. /\ \A v \in Workers : v # w => worker'[v] = worker[v]
        /\ worker'[w].pc = "idle"
        /\ log' = log /\ reports' = reports /\ row' = row /\ suppressed' = suppressed
    BY <1>10 DEF FireTenantWebhooks, EventsTypeOK, IdleWorker
  <2>2. StatusWasReported' /\ Caused'
    BY <2>1 DEF Evidence, StatusWasReported, Caused
  <2>3. ToldIsSuppressed'
    <3>1. CASE pushed' = pushed
      BY <2>1, <3>1 DEF Evidence, ToldIsSuppressed
    <3>2. CASE pushed' # pushed
      <4> DEFINE hook == [email |-> worker[w].email, kind |-> worker[w].kind]
      <4>1. pushed' = Append(pushed, hook) /\ pushed \in Seq(Hook)
        BY <1>10, <3>2 DEF FireTenantWebhooks, EventsTypeOK
      <4>2. hook.kind \in Damning => hook.email \in suppressed
        BY <1>10 DEF FireTenantWebhooks, Evidence
      <4> HIDE DEF hook
      <4>3. \A i \in DOMAIN pushed' : pushed'[i] = hook \/ (i \in DOMAIN pushed /\ pushed'[i] = pushed[i])
        BY <4>1
      <4>4. QED  BY <2>1, <4>2, <4>3 DEF Evidence, ToldIsSuppressed
    <3>3. QED  BY <3>1, <3>2
  <2>4. QED  BY <2>1, <2>2, <2>3 DEF Evidence
<1>11. ASSUME NEW w \in Workers, Fails(w) \/ PollStops(w) PROVE Evidence'
  <2>1. /\ \A v \in Workers : v # w => worker'[v] = worker[v]
        /\ worker'[w].pc = "idle"
    BY <1>11 DEF Fails, PollStops, EventsTypeOK, IdleWorker
  <2>2. Grounds(w)'
    BY <2>1 DEF Grounds
  <2>3. QED  BY <1>11, <2>1, <2>2, EvidenceStays DEF Fails, PollStops
<1>12. ASSUME NEW w \in Workers, NEW e \in Emails, ReconcileSent(w, e) PROVE Evidence'
  <2>1. /\ \A v \in Workers : v # w => worker'[v] = worker[v]
        /\ worker'[w].pc = "polling"
    BY <1>12 DEF ReconcileSent, EventsTypeOK
  <2>2. Grounds(w)'
    BY <2>1 DEF Grounds
  <2>3. QED  BY <1>12, <2>1, <2>2, EvidenceStays DEF ReconcileSent
<1>13. ASSUME NEW w \in Workers, PollFinds(w) PROVE Evidence'
  <2>1. PICK r \in reports, e \in Emails :
          /\ r.word \in DOMAIN Polled(r) /\ row[e].msg = r.msg
          /\ Record(w, e, Polled(r)[r.word])
    BY <1>13 DEF PollFinds
  <2>2. /\ Polled(r)[r.word] \in Kind /\ Backs(r, Polled(r)[r.word])
        /\ EmailOf[r.msg] = e
    BY <2>1, PolledBacked DEF EventsTypeOK, Report, OwnMessages
  <2>3. QED  BY <1>13, <2>1, <2>2, RecordGrounds, EvidenceStays DEF PollFinds
<1>14. ASSUME NEW w \in Workers, Expire(w) PROVE Evidence'
  <2>1. /\ \A v \in Workers : v # w => worker'[v] = worker[v]
        /\ worker'[w].pc = "idle"
    BY <1>14 DEF Expire, EventsTypeOK, IdleWorker
  <2>2. \A e \in Emails : row'[e].status = row[e].status \/ row'[e].status = "failed"
    BY <1>14 DEF Expire, WriteStatus, Written, EventsTypeOK
  <2>3. Grounds(w)'
    BY <2>1 DEF Grounds
  <2>4. QED  BY <1>14, <2>1, <2>2, <2>3, EvidenceStays DEF Expire
<1>15. QED
  BY <1>2, <1>3, <1>4, <1>5, <1>6, <1>7, <1>8, <1>9, <1>10, <1>11, <1>12, <1>13, <1>14
  DEF EventsNext

-----------------------------------------------------------------------------
(***************************************************************************)
(* What the status shows.                                                  *)
(***************************************************************************)
(* An email with one writer only moves forward, in every step.             *)
LEMMA ForwardStep ==
  ASSUME EventsTypeOK, OwnMessages, Copies, EventsNext,
         NEW e \in Emails, OneWriter(e)', row'[e].status # row[e].status
  PROVE  Rank[row[e].status] < Rank[row'[e].status]
<1> USE DEF senders, outcomes
<1>1. ASSUME NEW m \in Messages, MarkSent(m) \/ MarkRejected(m)
      PROVE  Rank[row[e].status] < Rank[row'[e].status]
  <2>1. EmailOf[m] = e
    BY <1>1 DEF MarkSent, MarkRejected, WriteStatus, EventsTypeOK
  <2>2. SendOn(m, e) /\ OneWriter(e)
    BY <1>1, <2>1 DEF MarkSent, MarkRejected, SendOn, SendHolds, OneWriter
  <2>3. row[e].status = "queued"
    BY <2>2 DEF Copies, FreshCopy
  <2>4. row'[e].status \in {"sent", "failed"}
    BY <1>1, <2>1 DEF MarkSent, MarkRejected, WriteStatus, Written, EventsTypeOK
  <2>5. QED  BY <2>3, <2>4 DEF Rank
<1>2. ASSUME NEW w \in Workers, UpdateEmailStatus(w)
      PROVE  Rank[row[e].status] < Rank[row'[e].status]
  <2>1. worker[w].email \in Emails
    BY <1>2 DEF UpdateEmailStatus, OwnMessages
  <2>2. /\ worker[w].email = e
        /\ worker[w].seen \in AppliesTo(EventType(worker[w].kind))
        /\ row'[e].status \in {row[e].status, EventType(worker[w].kind)}
    BY <1>2, <2>1 DEF UpdateEmailStatus, WriteStatus, Written, EventsTypeOK
  <2>3. WorkerOn(w, e) /\ OneWriter(e)
    BY <1>2, <2>2 DEF UpdateEmailStatus, WorkerOn, WorkerHolds, OneWriter
  <2>4. worker[w].seen = row[e].status
    BY <2>3 DEF Copies, FreshCopy
  <2>5. QED  BY <2>2, <2>4, AppliesForward
<1>3. ASSUME NEW w \in Workers, Expire(w)
      PROVE  Rank[row[e].status] < Rank[row'[e].status]
  <2>1. worker[w].email \in Emails /\ worker[w].seen = "sent"
    BY <1>3 DEF Expire, OwnMessages
  <2>2. worker[w].email = e /\ row'[e].status = "failed"
    BY <1>3, <2>1 DEF Expire, WriteStatus, Written, EventsTypeOK
  <2>3. WorkerOn(w, e) /\ OneWriter(e)
    BY <1>3, <2>2 DEF Expire, WorkerOn, WorkerHolds, OneWriter
  <2>4. row[e].status = "sent"
    BY <2>1, <2>3 DEF Copies, FreshCopy
  <2>5. QED  BY <2>2, <2>4 DEF Rank
<1>4. row' # row
  OBVIOUS
<1>5. QED
  BY <1>1, <1>2, <1>3, <1>4
  DEF EventsNext, LoadSend, Accept, Settle, GiveUp, Emit, Webhook, WebhookUnknown, AutoSuppress,
      FireTenantWebhooks, Fails, ReconcileSent, PollFinds, PollStops

(* History is never cleared.                                               *)
LEMMA HistoryGrows ==
  ASSUME EventsTypeOK, EventsNext, NEW e \in Emails
  PROVE  disturbed[e] \subseteq disturbed'[e]
<1>1. ASSUME NEW d, NEW why, Take(d, why) PROVE disturbed[e] \subseteq disturbed'[e]
  BY <1>1 DEF Take, EventsTypeOK
<1>2. ASSUME NEW m \in Messages, LoadSend(m) PROVE disturbed[e] \subseteq disturbed'[e]
  BY <1>1, <1>2 DEF LoadSend
<1>3. ASSUME NEW w \in Workers, NEW r \in reports, Webhook(w, r)
      PROVE  disturbed[e] \subseteq disturbed'[e]
  BY <1>1, <1>3 DEF Webhook
<1>4. ASSUME NEW w \in Workers, NEW d \in Emails, ReconcileSent(w, d)
      PROVE  disturbed[e] \subseteq disturbed'[e]
  BY <1>1, <1>4 DEF ReconcileSent
<1>5. ASSUME NEW w \in Workers, Fails(w) PROVE disturbed[e] \subseteq disturbed'[e]
  BY <1>5 DEF Fails, EventsTypeOK
<1> HIDE DEF EventsTypeOK
<1>6. QED
  BY <1>2, <1>3, <1>4, <1>5
  DEF EventsNext, Accept, MarkSent, MarkRejected, Settle, GiveUp, Emit, WebhookUnknown,
      UpdateEmailStatus, AutoSuppress, FireTenantWebhooks, PollFinds, PollStops, Expire

(* No action takes a message id away, or makes an email queued again; an   *)
(* id comes with the write of sent.                                        *)
LEMMA IdsKept ==
  ASSUME EventsTypeOK, OwnMessages, Copies, EventsNext, NEW e \in Emails
  PROVE  /\ row[e].msg # None => row'[e].msg # None
         /\ OneWriter(e)' => OneWriter(e)
         /\ OneWriter(e)' => row'[e] = row[e] \/ row'[e].status # "queued"
<1> USE DEF senders, outcomes
<1>1. row[e].msg # None => row'[e].msg # None
  <2>1. ASSUME NEW m \in Messages, MarkSent(m) PROVE row[e].msg # None => row'[e].msg # None
    BY <2>1 DEF MarkSent, EventsTypeOK
  <2>2. ASSUME NEW m \in Messages, MarkRejected(m) PROVE row'[e].msg = row[e].msg
    BY <2>2, WriteStatusType DEF MarkRejected, Status
  <2>3. ASSUME NEW w \in Workers, UpdateEmailStatus(w) PROVE row'[e].msg = row[e].msg
    BY <2>3, AppliesForward, WriteStatusType DEF UpdateEmailStatus, OwnMessages
  <2>4. ASSUME NEW w \in Workers, Expire(w) PROVE row'[e].msg = row[e].msg
    BY <2>4, WriteStatusType DEF Expire, OwnMessages, Status
  <2>5. QED
    BY <2>1, <2>2, <2>3, <2>4
    DEF EventsNext, LoadSend, Accept, Settle, GiveUp, Emit, Webhook, WebhookUnknown, AutoSuppress,
        FireTenantWebhooks, Fails, ReconcileSent, PollFinds, PollStops
<1>2. disturbed[e] \subseteq disturbed'[e]
  BY HistoryGrows
<1>3. ASSUME OneWriter(e)', row'[e].status # row[e].status PROVE row'[e].status # "queued"
  <2>1. Rank[row[e].status] < Rank[row'[e].status]
    BY <1>3, ForwardStep
  <2>2. row[e].status \in Status
    BY DEF EventsTypeOK, EmailRow
  <2>3. QED  BY <2>1, <2>2 DEF Rank, Status
<1>4. ASSUME OneWriter(e)', row'[e].status = row[e].status, row'[e] # row[e]
      PROVE  row'[e].status # "queued"
  <2>1. ASSUME NEW m \in Messages, MarkSent(m) PROVE row'[e].status # "queued"
    <3>1. EmailOf[m] = e
      BY <1>4, <2>1 DEF MarkSent, EventsTypeOK
    <3>2. SendOn(m, e) /\ OneWriter(e)
      BY <1>2, <1>4, <2>1, <3>1 DEF MarkSent, SendOn, SendHolds, OneWriter
    <3>3. send[m].seen = "queued"
      BY <3>2 DEF Copies, FreshCopy
    <3>4. QED  BY <2>1, <3>1, <3>3 DEF MarkSent, Written, EventsTypeOK
  <2>2. ASSUME NEW m \in Messages, MarkRejected(m) PROVE FALSE
    BY <1>4, <2>2, WriteStatusType DEF MarkRejected, Status, WriteStatus, EventsTypeOK, EmailRow
  <2>3. ASSUME NEW w \in Workers, UpdateEmailStatus(w) PROVE FALSE
    BY <1>4, <2>3 DEF UpdateEmailStatus, WriteStatus, EventsTypeOK, EmailRow, OwnMessages
  <2>4. ASSUME NEW w \in Workers, Expire(w) PROVE FALSE
    BY <1>4, <2>4 DEF Expire, WriteStatus, EventsTypeOK, EmailRow, OwnMessages
  <2>5. QED
    BY <1>4, <2>1, <2>2, <2>3, <2>4
    DEF EventsNext, LoadSend, Accept, Settle, GiveUp, Emit, Webhook, WebhookUnknown, AutoSuppress,
        FireTenantWebhooks, Fails, ReconcileSent, PollFinds, PollStops
<1>5. OneWriter(e)' => OneWriter(e)
  BY <1>2 DEF OneWriter
<1>6. QED  BY <1>1, <1>3, <1>4, <1>5

(* A worker that records something in a step does so of an email with an   *)
(* id, and puts it on the log.                                             *)
LEMMA RecordedNow ==
  ASSUME EventsTypeOK, OwnMessages, EventsNext, NEW w \in Workers, worker'[w].pc = "recorded"
  PROVE  worker[w] = worker'[w] \/ row[worker'[w].email].msg # None
<1> USE DEF senders, outcomes
<1>1. ASSUME NEW v \in Workers, NEW r \in reports, Webhook(v, r)
      PROVE  worker[w] = worker'[w] \/ row[worker'[w].email].msg # None
  BY <1>1 DEF Webhook, Record, EventsTypeOK, Report
<1>2. ASSUME NEW v \in Workers, PollFinds(v)
      PROVE  worker[w] = worker'[w] \/ row[worker'[w].email].msg # None
  BY <1>2 DEF PollFinds, Record, EventsTypeOK, Report
<1>3. ASSUME NEW v \in Workers, UpdateEmailStatus(v) \/ AutoSuppress(v) PROVE worker'[w] = worker[w]
  <2>1. \E pc \in {"updated", "filed"} : SetPC(v, pc)
    BY <1>3 DEF UpdateEmailStatus, AutoSuppress
  <2>2. QED  BY <2>1, SetPCType DEF PC
<1>4. ASSUME NEW v \in Workers, FireTenantWebhooks(v) \/ Fails(v) \/ PollStops(v) \/ Expire(v)
      PROVE  worker'[w] = worker[w]
  BY <1>4 DEF FireTenantWebhooks, Fails, PollStops, Expire, EventsTypeOK, IdleWorker
<1>5. ASSUME NEW v \in Workers, NEW e \in Emails, ReconcileSent(v, e) PROVE worker'[w] = worker[w]
  BY <1>5 DEF ReconcileSent, EventsTypeOK
<1>6. QED
  BY <1>1, <1>2, <1>3, <1>4, <1>5
  DEF EventsNext, LoadSend, Accept, MarkSent, MarkRejected, Settle, GiveUp, Emit, WebhookUnknown

(* Every action keeps the ids.                                             *)
LEMMA IdentifiedKept ==
  ASSUME EventsTypeOK, OwnMessages, Copies, Identified, EventsNext, OwnMessages'
  PROVE  Identified'
<1>1. ASSUME NEW e \in Emails, OneWriter(e)', row'[e].msg # None PROVE row'[e].status # "queued"
  BY <1>1, IdsKept DEF Identified
<1>2. ASSUME NEW w \in Workers, worker'[w].pc = "recorded" PROVE row'[worker'[w].email].msg # None
  <2>1. worker'[w].email \in Emails
    BY <1>2 DEF OwnMessages
  <2>2. row[worker'[w].email].msg # None
    BY <1>2, RecordedNow DEF Identified
  <2>3. QED  BY <2>1, <2>2, IdsKept
<1>3. QED  BY <1>1, <1>2 DEF Identified

(* An event applied to the copy the row still equals shows in it.          *)
LEMMA AppliedShows ==
  ASSUME NEW k \in Kind, NEW s \in Status \ {"queued"},
         NEW t, t = IF s \in AppliesTo(EventType(k)) THEN EventType(k) ELSE s
  PROVE  Rank[t] >= Shows(k)
<1>1. CASE s \in AppliesTo(EventType(k))
  BY <1>1 DEF AppliesTo, EventType, Rank, Shows, Kind
<1>2. CASE s \notin AppliesTo(EventType(k))
  BY <1>2 DEF AppliesTo, EventType, Rank, Shows, Kind, Status
<1>3. QED  BY <1>1, <1>2

(* What shows of an undisturbed email goes on to show.                     *)
LEMMA StillShows ==
  ASSUME EventsTypeOK, EventsTypeOK', OwnMessages, Copies, EventsNext,
         NEW e \in Emails, disturbed'[e] = {}, NEW k \in Kind, Rank[row[e].status] >= Shows(k)
  PROVE  Rank[row'[e].status] >= Shows(k)
<1>1. OneWriter(e)'
  BY DEF OneWriter
<1>2. row[e].status \in Status /\ row'[e].status \in Status
  BY DEF EventsTypeOK, EmailRow
<1>3. Rank[row[e].status] \in Nat /\ Rank[row'[e].status] \in Nat /\ Shows(k) \in Nat
  BY <1>2 DEF Rank, Status, Shows
<1>4. row'[e].status = row[e].status \/ Rank[row[e].status] < Rank[row'[e].status]
  BY <1>1, ForwardStep
<1>5. QED  BY <1>3, <1>4

Due(e, k) ==
  \E w \in Workers : worker[w].pc = "recorded" /\ worker[w].email = e /\ worker[w].kind = k

(* What comes on the log comes with a worker that is about to apply it.    *)
LEMMA LoggedIsDue ==
  ASSUME EventsTypeOK, EventsNext, NEW e \in Emails, NEW k \in log'[e]
  PROVE  k \in log[e] \/ Due(e, k)'
<1> USE DEF senders, outcomes
<1>1. ASSUME NEW w \in Workers, NEW d \in Emails, NEW l, Record(w, d, l)
      PROVE  k \in log[e] \/ Due(e, k)'
  BY <1>1 DEF Record, Due, EventsTypeOK
<1>2. ASSUME NEW w \in Workers, NEW r \in reports, Webhook(w, r) PROVE k \in log[e] \/ Due(e, k)'
  BY <1>1, <1>2 DEF Webhook
<1>3. ASSUME NEW w \in Workers, PollFinds(w) PROVE k \in log[e] \/ Due(e, k)'
  BY <1>1, <1>3 DEF PollFinds
<1>4. QED
  BY <1>2, <1>3
  DEF EventsNext, LoadSend, Accept, MarkSent, MarkRejected, Settle, GiveUp, Emit, WebhookUnknown,
      UpdateEmailStatus, AutoSuppress, FireTenantWebhooks, Fails, ReconcileSent, PollStops, Expire

(* A worker that recorded something stays there until it applies it or     *)
(* fails.                                                                  *)
LEMMA DueStays ==
  ASSUME EventsTypeOK, EventsNext, NEW w \in Workers, worker[w].pc = "recorded"
  PROVE  worker'[w] = worker[w] \/ UpdateEmailStatus(w) \/ Fails(w)
<1> USE DEF senders, outcomes
<1>1. ASSUME NEW v \in Workers, NEW r \in reports, Webhook(v, r) PROVE worker'[w] = worker[w]
  BY <1>1 DEF Webhook, Record, EventsTypeOK
<1>2. ASSUME NEW v \in Workers, UpdateEmailStatus(v) PROVE v = w \/ worker'[w] = worker[w]
  BY <1>2 DEF UpdateEmailStatus, SetPC, EventsTypeOK
<1>3. ASSUME NEW v \in Workers, AutoSuppress(v) PROVE worker'[w] = worker[w]
  BY <1>3 DEF AutoSuppress, SetPC, EventsTypeOK
<1>4. ASSUME NEW v \in Workers, FireTenantWebhooks(v) \/ PollStops(v) \/ Expire(v)
      PROVE  worker'[w] = worker[w]
  BY <1>4 DEF FireTenantWebhooks, PollStops, Expire, EventsTypeOK
<1>5. ASSUME NEW v \in Workers, Fails(v) PROVE v = w \/ worker'[w] = worker[w]
  BY <1>5 DEF Fails, EventsTypeOK
<1>6. ASSUME NEW v \in Workers, NEW e \in Emails, ReconcileSent(v, e) PROVE worker'[w] = worker[w]
  BY <1>6 DEF ReconcileSent, EventsTypeOK
<1>7. ASSUME NEW v \in Workers, PollFinds(v) PROVE worker'[w] = worker[w]
  BY <1>7 DEF PollFinds, Record, EventsTypeOK
<1>8. ASSUME NEW m \in Messages,
             \/ LoadSend(m) \/ Accept(m) \/ MarkSent(m) \/ MarkRejected(m) \/ Settle(m) \/ GiveUp(m)
             \/ \E k \in Word : Emit(m, k)
      PROVE  worker' = worker
  BY <1>8 DEF LoadSend, Accept, MarkSent, MarkRejected, Settle, GiveUp, Emit
<1>9. ASSUME NEW v \in Workers, NEW r \in reports, WebhookUnknown(v, r) PROVE worker' = worker
  BY <1>9 DEF WebhookUnknown
<1>10. QED
  BY <1>1, <1>2, <1>3, <1>4, <1>5, <1>6, <1>7, <1>8, <1>9 DEF EventsNext

(* update_email_status! makes the event it applies show.                   *)
LEMMA UpdateShows ==
  ASSUME EventsTypeOK, OwnMessages, Copies, Identified,
         NEW w \in Workers, UpdateEmailStatus(w), NEW e \in Emails, e = worker[w].email,
         OneWriter(e)
  PROVE  Rank[row'[e].status] >= Shows(worker[w].kind)
<1> DEFINE k == worker[w].kind  type == EventType(k)
<1>1. worker[w].pc = "recorded" /\ WorkerOn(w, e)
  BY DEF UpdateEmailStatus, WorkerOn, WorkerHolds
<1>2. worker[w].seen = row[e].status
  BY <1>1 DEF Copies, FreshCopy
<1>3. row[e].status \in Status \ {"queued"}
  BY <1>1 DEF Identified, EventsTypeOK, EmailRow
<1>4. row'[e].status = IF row[e].status \in AppliesTo(type) THEN type ELSE row[e].status
  BY <1>2 DEF UpdateEmailStatus, WriteStatus, Written, EventsTypeOK
<1>5. k \in Kind
  BY DEF EventsTypeOK, Worker
<1>6. QED  BY <1>3, <1>4, <1>5, AppliedShows

(* Every action keeps it that an event on record shows or is due.          *)
LEMMA ShownKept ==
  ASSUME EventsTypeOK, EventsTypeOK', OwnMessages, Copies, Identified, ShownOrDue, EventsNext
  PROVE  ShownOrDue'
<1> SUFFICES ASSUME NEW e \in Emails, disturbed'[e] = {}, NEW k \in log'[e]
             PROVE  Rank[row'[e].status] >= Shows(k) \/ Due(e, k)'
  BY DEF ShownOrDue, Due
<1>1. CASE k \notin log[e]
  BY <1>1, LoggedIsDue
<1>2. CASE k \in log[e]
  <2>1. disturbed[e] = {} /\ OneWriter(e) /\ k \in Kind
    BY <1>2, HistoryGrows DEF OneWriter, EventsTypeOK
  <2>2. CASE Rank[row[e].status] >= Shows(k)
    BY <2>1, <2>2, StillShows
  <2>3. ASSUME NEW w \in Workers,
               worker[w].pc = "recorded", worker[w].email = e, worker[w].kind = k
        PROVE  Rank[row'[e].status] >= Shows(k) \/ Due(e, k)'
    <3>1. CASE worker'[w] = worker[w]
      BY <2>3, <3>1 DEF Due
    <3>2. CASE UpdateEmailStatus(w)
      BY <2>1, <2>3, <3>2, UpdateShows
    <3>3. CASE Fails(w)
      BY <2>3, <3>3 DEF Fails, EventsTypeOK
    <3>4. QED  BY <2>3, <3>1, <3>2, <3>3, DueStays
  <2>4. QED  BY <1>2, <2>1, <2>2, <2>3 DEF ShownOrDue
<1>3. QED  BY <1>1, <1>2

CauseDue(e, k) == \E w \in Workers : Attends(w, e) /\ worker[w].kind = k

(* A worker that attends to an email goes on to, suppresses the recipient  *)
(* if there is a cause, or fails.                                          *)
LEMMA AttendsStays ==
  ASSUME EventsTypeOK, EventsNext, NEW w \in Workers, NEW e \in Emails, Attends(w, e)
  PROVE  \/ Attends(w, e)' /\ worker'[w].kind = worker[w].kind
         \/ AutoSuppress(w)
         \/ Fails(w)
<1> USE DEF senders, outcomes
<1> DEFINE Stays == Attends(w, e)' /\ worker'[w].kind = worker[w].kind
<1>0. ASSUME worker'[w] = worker[w] PROVE Stays
  BY <1>0 DEF Attends
<1>1. ASSUME NEW v \in Workers, NEW r \in reports, Webhook(v, r) PROVE worker'[w] = worker[w]
  BY <1>1 DEF Webhook, Record, EventsTypeOK, Attends
<1>2. ASSUME NEW v \in Workers, UpdateEmailStatus(v) PROVE Stays
  <2>1. CASE v = w
    BY <1>2, <2>1, SetPCType DEF UpdateEmailStatus, PC, Attends
  <2>2. CASE v # w
    BY <1>0, <1>2, <2>2 DEF UpdateEmailStatus, SetPC, EventsTypeOK
  <2>3. QED  BY <2>1, <2>2
<1>3. ASSUME NEW v \in Workers, AutoSuppress(v) PROVE v = w \/ worker'[w] = worker[w]
  BY <1>3 DEF AutoSuppress, SetPC, EventsTypeOK
<1>4. ASSUME NEW v \in Workers, FireTenantWebhooks(v) \/ PollStops(v) \/ Expire(v)
      PROVE  worker'[w] = worker[w]
  BY <1>4 DEF FireTenantWebhooks, PollStops, Expire, EventsTypeOK, Attends
<1>5. ASSUME NEW v \in Workers, Fails(v) PROVE v = w \/ worker'[w] = worker[w]
  BY <1>5 DEF Fails, EventsTypeOK
<1>6. ASSUME NEW v \in Workers, NEW d \in Emails, ReconcileSent(v, d) PROVE worker'[w] = worker[w]
  BY <1>6 DEF ReconcileSent, EventsTypeOK, Attends
<1>7. ASSUME NEW v \in Workers, PollFinds(v) PROVE worker'[w] = worker[w]
  BY <1>7 DEF PollFinds, Record, EventsTypeOK, Attends
<1>8. ASSUME NEW m \in Messages,
             \/ LoadSend(m) \/ Accept(m) \/ MarkSent(m) \/ MarkRejected(m) \/ Settle(m) \/ GiveUp(m)
             \/ \E k \in Word : Emit(m, k)
      PROVE  worker' = worker
  BY <1>8 DEF LoadSend, Accept, MarkSent, MarkRejected, Settle, GiveUp, Emit
<1>9. ASSUME NEW v \in Workers, NEW r \in reports, WebhookUnknown(v, r) PROVE worker' = worker
  BY <1>9 DEF WebhookUnknown
<1> HIDE DEF Stays
<1>10. QED
  BY <1>0, <1>1, <1>2, <1>3, <1>4, <1>5, <1>6, <1>7, <1>8, <1>9 DEF EventsNext, Stays

(* Nobody is taken off the list.                                           *)
LEMMA SuppressedStays ==
  ASSUME EventsNext
  PROVE  suppressed \subseteq suppressed'
BY DEF EventsNext, LoadSend, Accept, MarkSent, MarkRejected, Settle, GiveUp, Emit, Webhook,
       WebhookUnknown, UpdateEmailStatus, AutoSuppress, FireTenantWebhooks, Fails, ReconcileSent,
       PollFinds, PollStops, Expire, senders, outcomes

(* Every action keeps it that a cause on record has suppressed the         *)
(* recipient or is about to.                                               *)
LEMMA CauseKept ==
  ASSUME EventsTypeOK, EventsTypeOK', OwnMessages, SuppressedOrDue, EventsNext
  PROVE  SuppressedOrDue'
<1> SUFFICES ASSUME NEW e \in Emails, "slip" \notin disturbed'[e],
                    NEW k \in log'[e] \intersect Damning
             PROVE  e \in suppressed' \/ CauseDue(e, k)'
  BY DEF SuppressedOrDue, CauseDue
<1>1. CASE k \notin log[e]
  BY <1>1, LoggedIsDue DEF Due, CauseDue, Attends
<1>2. CASE k \in log[e]
  <2>1. "slip" \notin disturbed[e]
    BY HistoryGrows
  <2>2. CASE e \in suppressed
    BY <2>2, SuppressedStays
  <2>3. ASSUME NEW w \in Workers, Attends(w, e), worker[w].kind = k
        PROVE  e \in suppressed' \/ CauseDue(e, k)'
    <3>1. CASE Attends(w, e)' /\ worker'[w].kind = worker[w].kind
      BY <2>3, <3>1 DEF CauseDue
    <3>2. CASE AutoSuppress(w)
      BY <2>3, <3>2, DamningSuppresses DEF AutoSuppress, Attends
    <3>3. CASE Fails(w)
      BY <2>3, <3>3 DEF Fails, Attends, EventsTypeOK
    <3>4. QED  BY <2>3, <3>1, <3>2, <3>3, AttendsStays
  <2>4. QED  BY <1>2, <2>1, <2>2, <2>3 DEF SuppressedOrDue
<1>3. QED  BY <1>1, <1>2

-----------------------------------------------------------------------------
(***************************************************************************)
(* The theorems.                                                           *)
(***************************************************************************)

(* The invariant holds at first: nothing is sent, held or reported.        *)
LEMMA InitEventsInv == EventsInit => EventsInv
<1> SUFFICES ASSUME EventsInit PROVE EventsInv
  OBVIOUS
<1> USE DEF EventsInit
<1>1. EventsTypeOK
  BY IdleType DEF EventsTypeOK, EmailRow, SendRow, Stage, Status
<1>2. OwnMessages
  BY DEF OwnMessages, IdleWorker
<1>3. OneCopy /\ FreshCopy
  BY DEF OneCopy, FreshCopy, SendOn, WorkerOn, SendHolds, WorkerHolds, IdleWorker
<1>4. Evidence
  BY Claims DEF Evidence, StatusWasReported, ToldIsSuppressed, Caused, IdleWorker
<1>5. Identified /\ ShownOrDue /\ SuppressedOrDue
  BY DEF Identified, ShownOrDue, SuppressedOrDue, IdleWorker
<1>6. QED  BY <1>1, <1>2, <1>3, <1>4, <1>5 DEF EventsInv

(* A step that changes nothing keeps it.                                   *)
LEMMA StutterEventsInv ==
  ASSUME EventsInv, UNCHANGED evars
  PROVE  EventsInv'
<1> USE DEF evars
<1>1. EventsTypeOK' /\ OwnMessages'
  BY DEF EventsInv, EventsTypeOK, OwnMessages
<1>2. OneCopy' /\ FreshCopy'
  BY DEF EventsInv, OneCopy, FreshCopy, SendOn, WorkerOn, SendHolds, WorkerHolds, OneWriter
<1>3. Evidence'
  BY DEF EventsInv, Evidence, StatusWasReported, ToldIsSuppressed, Caused
<1>4. Identified' /\ ShownOrDue' /\ SuppressedOrDue'
  BY DEF EventsInv, Identified, ShownOrDue, SuppressedOrDue, Attends, OneWriter
<1>5. QED  BY <1>1, <1>2, <1>3, <1>4 DEF EventsInv

(* Everything EventsInv says of copies, message ids and evidence holds in  *)
(* every reachable state.                                                  *)
THEOREM EventsInvariance == EventsSpec => []EventsInv
<1>1. EventsInv /\ [EventsNext]_evars => EventsInv'
  <2>1. ASSUME EventsInv, EventsNext PROVE EventsInv'
    <3>1. /\ EventsTypeOK /\ OwnMessages /\ Copies /\ Evidence /\ Identified /\ ShownOrDue
          /\ SuppressedOrDue /\ EventsNext
      BY <2>1 DEF EventsInv, Copies
    <3>2. EventsTypeOK' /\ OwnMessages' /\ Copies' /\ Evidence'
      BY <3>1, TypesKept, OwnKept, CopiesKept, EvidenceKept
    <3>3. Identified' /\ ShownOrDue' /\ SuppressedOrDue'
      BY <3>1, <3>2, IdentifiedKept, ShownKept, CauseKept
    <3>4. QED  BY <3>2, <3>3 DEF EventsInv, Copies
  <2>2. QED  BY <2>1, StutterEventsInv
<1>2. QED  BY InitEventsInv, <1>1, PTL DEF EventsSpec

(* Rows, sends, workers and history keep their types.                      *)
THEOREM EventsTypeCorrect == EventsSpec => []EventsTypeOK
<1>1. EventsInv => EventsTypeOK
  BY DEF EventsInv
<1>2. QED  BY EventsInvariance, <1>1, PTL

(* A status that claims an event has it on record, reported by the         *)
(* provider of a message of the email (provider_event_processor.rb:54-68). *)
THEOREM TruthfulStatus == EventsSpec => []StatusWasReported
<1>1. EventsInv => StatusWasReported
  BY DEF EventsInv, Evidence
<1>2. QED  BY EventsInvariance, <1>1, PTL

(* The tenant hears of a hard bounce, a complaint or an unsubscription     *)
(* after the recipient is suppressed (provider_event_processor.rb:71-74).  *)
THEOREM SuppressionFirst == EventsSpec => []ToldIsSuppressed
<1>1. EventsInv => ToldIsSuppressed
  BY DEF EventsInv, Evidence
<1>2. QED  BY EventsInvariance, <1>1, PTL

(* Nobody is suppressed but for what the provider of a message of theirs   *)
(* called permanent, a complaint or an unsubscription, or, at Resend, did  *)
(* not call transient; and whoever has such an event on record is, unless  *)
(* a handler is at it or stopped half-way (the controllers' parse_events,  *)
(* provider_event_processor.rb:102-123).                                   *)
THEOREM SuppressionForCause == EventsSpec => []SuppressedForCause
<1>1. EventsInv => SuppressedForCause
  BY DEF EventsInv, Evidence, SuppressedForCause, SuppressedOrDue
<1>2. QED  BY EventsInvariance, <1>1, PTL

(* However often and in whatever order events are recorded of an email, an *)
(* email nothing befell shows the strongest of them once nobody works on   *)
(* it (provider_event_processor.rb:62-68 and 88-100).                      *)
THEOREM StrongestShows == EventsSpec => []StrongestReportShows
<1>1. EventsInv => StrongestReportShows
  BY DEF EventsInv, ShownOrDue, StrongestReportShows, Held, WorkerHolds
<1>2. QED  BY EventsInvariance, <1>1, PTL

(* Whatever reports arrive in whatever order and number, an email that was *)
(* sent once and whose copies never overlapped is not moved back: the      *)
(* lists of provider_event_processor.rb:88-100 suffice without a lock.     *)
THEOREM MovesForward == EventsSpec => ForwardUnlessDisturbed
<1>1. EventsInv /\ [EventsNext]_evars =>
        [\A e \in Emails : row'[e].status # row[e].status /\ OneWriter(e)'
           => Rank[row[e].status] < Rank[row'[e].status]]_evars
  BY ForwardStep DEF EventsInv, Copies
<1>2. QED  BY EventsInvariance, <1>1, PTL DEF EventsSpec, ForwardUnlessDisturbed
=============================================================================
