------------------------ MODULE TenantWebhooksProofs ------------------------
(***************************************************************************)
(* Theorems about TenantWebhooks for every number of webhooks, retries and *)
(* switches.  HooksInv is inductive: a step of a webhook leaves what       *)
(* ProviderEvents keeps alone, and a step of ProviderEvents leaves the     *)
(* webhooks alone, so the two halves are kept apart.                       *)
(***************************************************************************)
EXTENDS TenantWebhooks, ProviderEventsProofs

USE HooksAssumption

(* The part of HooksInv that only the webhooks' own variables say.         *)
Rows == switches \in 0..MaxSwitches
        /\ hook \in [HookIds -> [pc: HookPC, retries: 0..MaxHookRetries]]
        /\ deliveries \in [HookIds -> Seq(BOOLEAN)]
        /\ heard \in [HookIds -> Nat]
        /\ lost \in [HookIds -> Nat]
        /\ LossesPaid /\ RowsFollow /\ RowsTellTheTruth

LEMMA HooksParts == HooksInv <=> EventsTypeOK /\ OwnMessages /\ Rows
BY DEF HooksInv, HooksTypeOK, Rows

-----------------------------------------------------------------------------
(***************************************************************************)
(* Rows and jobs.                                                          *)
(***************************************************************************)

(* update! of an attempt's row changes the last one and no other.          *)
LEMMA RowSet ==
  ASSUME Rows, NEW i \in HookIds, NEW ok \in BOOLEAN, Len(deliveries[i]) > 0, SetRow(i, ok)
  PROVE  /\ deliveries' \in [HookIds -> Seq(BOOLEAN)]
         /\ \A j \in HookIds : j # i => deliveries'[j] = deliveries[j]
         /\ Len(deliveries'[i]) = Len(deliveries[i])
         /\ DOMAIN deliveries'[i] = DOMAIN deliveries[i]
         /\ \A n \in DOMAIN deliveries[i] :
              deliveries'[i][n] = IF n = Len(deliveries[i]) THEN ok ELSE deliveries[i][n]
<1> DEFINE d == deliveries[i]
           new == [d EXCEPT ![Len(d)] = ok]
<1>1. d \in Seq(BOOLEAN) /\ Len(d) \in 1..Len(d)
  BY DEF Rows
<1>2. new \in Seq(BOOLEAN) /\ Len(new) = Len(d) /\ DOMAIN new = DOMAIN d
  BY <1>1
<1>3. deliveries' = [deliveries EXCEPT ![i] = new]
  BY DEF SetRow
<1>4. \A n \in DOMAIN d : new[n] = IF n = Len(d) THEN ok ELSE d[n]
  BY <1>1
<1> HIDE DEF new
<1>5. QED  BY <1>2, <1>3, <1>4 DEF Rows

(* A job that goes somewhere keeps its retries, the others stay.           *)
LEMMA GotoMoves ==
  ASSUME Rows, NEW i \in HookIds, NEW pc \in HookPC, Goto(i, pc)
  PROVE  /\ hook' \in [HookIds -> [pc: HookPC, retries: 0..MaxHookRetries]]
         /\ hook'[i].pc = pc
         /\ \A j \in HookIds : j # i => hook'[j] = hook[j]
BY DEF Goto, Rows

(* What is known of one job.                                               *)
Fits(i) ==
  /\ hook[i].pc = "acked" => heard[i] = lost[i] + 1
  /\ hook[i].pc \in {"done", "killed"} => heard[i] <= lost[i] + 1
  /\ hook[i].pc \notin {"acked", "done", "killed"} => heard[i] = lost[i]
  /\ hook[i].pc \in {"posting", "acked", "refused"} => Len(deliveries[i]) > 0
  /\ \A n \in DOMAIN deliveries[i] :
       deliveries[i][n] => /\ hook[i].pc = "done"
                           /\ n = Len(deliveries[i]) /\ heard[i] > lost[i]
  /\ hook[i].pc = "done" /\ heard[i] > lost[i] => \E n \in DOMAIN deliveries[i] : deliveries[i][n]

LEMMA AllFit == (LossesPaid /\ RowsFollow /\ RowsTellTheTruth) <=> \A i \in HookIds : Fits(i)
BY DEF LossesPaid, RowsFollow, RowsTellTheTruth, Fits

(* A step of one job leaves the others as they are.                        *)
LEMMA OneJob ==
  ASSUME Rows, NEW i \in HookIds, Fits(i)', switches' = switches,
         hook' \in [HookIds -> [pc: HookPC, retries: 0..MaxHookRetries]],
         deliveries' \in [HookIds -> Seq(BOOLEAN)],
         heard' \in [HookIds -> Nat], lost' \in [HookIds -> Nat],
         \A j \in HookIds : j # i => /\ hook'[j] = hook[j] /\ deliveries'[j] = deliveries[j]
                                     /\ heard'[j] = heard[j] /\ lost'[j] = lost[j]
  PROVE  Rows'
<1>1. \A j \in HookIds : Fits(j)
  BY AllFit DEF Rows
<1>2. ASSUME NEW j \in HookIds, j # i PROVE Fits(j)'
  BY <1>1, <1>2 DEF Fits
<1>3. \A j \in HookIds : Fits(j)'
  BY <1>2
<1>4. LossesPaid' /\ RowsFollow' /\ RowsTellTheTruth'
  BY <1>3 DEF Fits, LossesPaid, RowsFollow, RowsTellTheTruth
<1>5. QED  BY <1>4 DEF Rows

(* Every step of a job keeps what is known of it.                          *)
LEMMA PerformsKeepRows ==
  ASSUME Rows, NEW i \in HookIds, Performs(i) \/ KillHook(i)
  PROVE  Rows' /\ UNCHANGED evars
<1>1. /\ Fits(i) /\ heard[i] \in Nat /\ lost[i] \in Nat
      /\ hook[i].pc \in HookPC /\ hook[i].retries \in 0..MaxHookRetries
      /\ deliveries[i] \in Seq(BOOLEAN)
  BY AllFit DEF Rows
<1>2. CASE Begin(i)
  <2>1. hook[i].pc = "queued" /\ Goto(i, "posting")
    BY <1>2 DEF Begin
  <2>2. /\ deliveries'[i] = Append(deliveries[i], FALSE)
        /\ deliveries' \in [HookIds -> Seq(BOOLEAN)]
        /\ \A j \in HookIds : j # i => deliveries'[j] = deliveries[j]
    <3>1. deliveries' = [deliveries EXCEPT ![i] = Append(deliveries[i], FALSE)]
      BY <1>2 DEF Begin
    <3>2. Append(deliveries[i], FALSE) \in Seq(BOOLEAN)
      BY <1>1
    <3> DEFINE new == Append(deliveries[i], FALSE)
    <3> HIDE DEF new
    <3>3. QED  BY <3>1, <3>2 DEF Rows, new
  <2>3. /\ Len(deliveries'[i]) > 0
        /\ \A n \in DOMAIN deliveries'[i] : deliveries'[i][n] => n \in DOMAIN deliveries[i] /\ deliveries[i][n]
    BY <1>1, <2>2
  <2>4. hook'[i].pc = "posting"
    BY <2>1, GotoMoves DEF HookPC
  <2>5. Fits(i)'
    BY <1>1, <1>2, <2>1, <2>3, <2>4 DEF Fits, Begin
  <2>6. QED  BY <1>2, <2>1, <2>2, <2>5, GotoMoves, OneJob DEF Begin, HookPC, Rows
<1>3. CASE Skip(i) \/ BeginRaises(i) \/ EndpointRefuses(i) \/ Bury(i) \/ KillHook(i)
  <2>1. PICK pc \in {"done", "raised", "refused", "dead", "killed"} :
          /\ Goto(i, pc)
          /\ UNCHANGED <<evars, switches, deliveries, heard, lost>>
          /\ \/ pc = "done" /\ hook[i].pc = "queued"
             \/ pc = "raised" /\ hook[i].pc = "queued"
             \/ pc = "refused" /\ hook[i].pc = "posting"
             \/ pc = "dead" /\ hook[i].pc = "raised"
             \/ pc = "killed" /\ hook[i].pc \in {"posting", "acked", "refused"}
    BY <1>3 DEF Skip, BeginRaises, EndpointRefuses, Bury, KillHook
  <2>2. hook'[i].pc = pc
    BY <2>1, GotoMoves DEF HookPC
  <2>3. Fits(i)'
    BY <1>1, <2>1, <2>2 DEF Fits
  <2>4. QED  BY <2>1, <2>3, GotoMoves, OneJob DEF HookPC, Rows
<1>4. CASE EndpointTakes(i)
  <2>1. hook[i].pc = "posting" /\ Goto(i, "acked")
    BY <1>4 DEF EndpointTakes
  <2>2. /\ heard'[i] = heard[i] + 1
        /\ heard' \in [HookIds -> Nat]
        /\ \A j \in HookIds : j # i => heard'[j] = heard[j]
    BY <1>4 DEF EndpointTakes, Bump, Rows
  <2>3. hook'[i].pc = "acked"
    BY <2>1, GotoMoves DEF HookPC
  <2>4. Fits(i)'
    BY <1>1, <1>4, <2>1, <2>2, <2>3 DEF Fits, EndpointTakes
  <2>5. QED  BY <1>4, <2>1, <2>2, <2>4, GotoMoves, OneJob DEF EndpointTakes, HookPC, Rows
<1>5. CASE Unreachable(i) \/ AckLost(i) \/ RecordRefusal(i)
  <2>1. /\ hook[i].pc \in {"posting", "acked", "refused"}
        /\ SetRow(i, FALSE) /\ Goto(i, "raised")
        /\ UNCHANGED <<evars, switches, heard>>
    BY <1>5 DEF Unreachable, AckLost, RecordRefusal
  <2>2. /\ lost' \in [HookIds -> Nat]
        /\ \A j \in HookIds : j # i => lost'[j] = lost[j]
        /\ lost'[i] = IF hook[i].pc = "acked" THEN lost[i] + 1 ELSE lost[i]
    <3>1. CASE AckLost(i)
      BY <3>1 DEF AckLost, Bump, Rows
    <3>2. CASE Unreachable(i) \/ RecordRefusal(i)
      BY <3>2 DEF Unreachable, RecordRefusal, Rows
    <3>3. QED  BY <1>5, <3>1, <3>2
  <2>3. Len(deliveries[i]) > 0
    BY <1>1, <2>1 DEF Fits
  <2>4. hook'[i].pc = "raised"
    BY <2>1, GotoMoves DEF HookPC
  <2>5. \A n \in DOMAIN deliveries'[i] : ~deliveries'[i][n]
    BY <1>1, <2>1, <2>3, RowSet DEF Fits
  <2>6. heard'[i] = lost'[i]
    BY <1>1, <2>1, <2>2 DEF Fits
  <2>7. Fits(i)'
    BY <2>4, <2>5, <2>6 DEF Fits
  <2>8. QED  BY <2>1, <2>2, <2>3, <2>7, RowSet, GotoMoves, OneJob DEF HookPC, Rows
<1>6. CASE RecordSuccess(i)
  <2>1. /\ hook[i].pc = "acked"
        /\ SetRow(i, TRUE) /\ Goto(i, "done")
        /\ UNCHANGED <<evars, switches, heard, lost>>
    BY <1>6 DEF RecordSuccess
  <2>2. Len(deliveries[i]) > 0 /\ heard[i] = lost[i] + 1
    BY <1>1, <2>1 DEF Fits
  <2>3. hook'[i].pc = "done"
    BY <2>1, GotoMoves DEF HookPC
  <2>4. Len(deliveries[i]) \in DOMAIN deliveries'[i] /\ deliveries'[i][Len(deliveries[i])]
    <3>1. Len(deliveries[i]) \in DOMAIN deliveries[i]
      BY <1>1, <2>2
    <3>2. deliveries'[i][Len(deliveries[i])] = TRUE
      BY <2>1, <2>2, <3>1, RowSet
    <3>3. DOMAIN deliveries'[i] = DOMAIN deliveries[i]
      BY <2>1, <2>2, RowSet
    <3>4. QED  BY <3>1, <3>2, <3>3
  <2>5. \A n \in DOMAIN deliveries'[i] : deliveries'[i][n] => n = Len(deliveries'[i])
    BY <1>1, <2>1, <2>2, RowSet DEF Fits
  <2>6. Fits(i)'
    BY <1>1, <2>1, <2>2, <2>3, <2>4, <2>5 DEF Fits
  <2>7. QED  BY <2>1, <2>2, <2>6, RowSet, GotoMoves, OneJob DEF HookPC, Rows
<1>7. CASE RecordRaises(i)
  <2>1. /\ hook[i].pc \in {"acked", "refused"} /\ Goto(i, "raised")
        /\ UNCHANGED <<evars, switches, deliveries, heard>>
    BY <1>7 DEF RecordRaises
  <2>2. /\ lost' \in [HookIds -> Nat]
        /\ \A j \in HookIds : j # i => lost'[j] = lost[j]
        /\ lost'[i] = IF hook[i].pc = "acked" THEN lost[i] + 1 ELSE lost[i]
    BY <1>7 DEF RecordRaises, Bump, Rows
  <2>3. hook'[i].pc = "raised"
    BY <2>1, GotoMoves DEF HookPC
  <2>4. Fits(i)'
    BY <1>1, <2>1, <2>2, <2>3 DEF Fits
  <2>5. QED  BY <2>1, <2>2, <2>4, GotoMoves, OneJob DEF HookPC, Rows
<1>8. CASE Retry(i)
  <2>1. /\ hook[i].pc = "raised" /\ hook'[i].pc = "queued"
        /\ hook' \in [HookIds -> [pc: HookPC, retries: 0..MaxHookRetries]]
        /\ \A j \in HookIds : j # i => hook'[j] = hook[j]
        /\ UNCHANGED <<evars, switches, deliveries, heard, lost>>
    BY <1>1, <1>8 DEF Retry, Rows, HookPC
  <2>2. Fits(i)'
    BY <1>1, <2>1 DEF Fits
  <2>3. QED  BY <2>1, <2>2, OneJob DEF Rows
<1>9. QED
  BY <1>2, <1>3, <1>4, <1>5, <1>6, <1>7, <1>8 DEF Performs

-----------------------------------------------------------------------------
(***************************************************************************)
(* The theorems.                                                           *)
(***************************************************************************)
LEMMA HooksStart == HooksInit => HooksInv
<1> SUFFICES ASSUME HooksInit PROVE HooksInv
  OBVIOUS
<1>1. EventsTypeOK /\ OwnMessages
  BY InitEventsInv DEF HooksInit, EventsInv
<1>2. Rows
  BY DEF HooksInit, Rows, LossesPaid, RowsFollow, RowsTellTheTruth, HookPC
<1>3. QED  BY <1>1, <1>2, HooksParts

(* Every step keeps HooksInv: a step of the events, the tenant's switch, a *)
(* step of one job, or none.                                               *)
LEMMA HooksStep == HooksInv /\ [HooksNext]_wvars => HooksInv'
<1> SUFFICES ASSUME HooksInv, [HooksNext]_wvars PROVE HooksInv'
  OBVIOUS
<1>1. EventsTypeOK /\ OwnMessages /\ Rows
  BY HooksParts
<1>2. UNCHANGED evars => EventsTypeOK' /\ OwnMessages'
  BY <1>1 DEF evars, EventsTypeOK, OwnMessages
<1>3. UNCHANGED hvars => Rows'
  BY <1>1 DEF hvars, Rows, LossesPaid, RowsFollow, RowsTellTheTruth
<1>4. CASE EventsRun
  BY <1>1, <1>3, <1>4, TypesKept, OwnKept DEF EventsRun, HooksInv, HooksTypeOK, Rows
<1>5. CASE Switch
  <2>1. EventsTypeOK' /\ OwnMessages'
    BY <1>1, <1>5 DEF Switch, senders, EventsTypeOK, OwnMessages
  <2>2. Rows'
    BY <1>1, <1>5 DEF Switch, Rows, LossesPaid, RowsFollow, RowsTellTheTruth
  <2>3. QED  BY <2>1, <2>2 DEF HooksInv, HooksTypeOK, Rows
<1>6. ASSUME NEW i \in HookIds, Performs(i) \/ KillHook(i) PROVE HooksInv'
  BY <1>1, <1>2, <1>6, PerformsKeepRows DEF HooksInv, HooksTypeOK, Rows
<1>7. CASE UNCHANGED wvars
  BY <1>2, <1>3, <1>7 DEF wvars, HooksInv, HooksTypeOK, Rows
<1>8. QED  BY <1>4, <1>5, <1>6, <1>7 DEF HooksNext

(* HooksInv holds in every reachable state: rows, jobs and history keep    *)
(* their types, and where a job stands says what the endpoint took.        *)
THEOREM HooksInvariance == HooksSpec => []HooksInv
BY HooksStart, HooksStep, PTL DEF HooksSpec

(* However posts, answers, records and retries of webhook_delivery_job.rb  *)
(* fall, the endpoint takes a webhook again only after a loss.             *)
THEOREM HeardOnceForEachLoss == HooksSpec => []HeardAgainOnlyAfterLoss
<1>1. HooksInv => HeardAgainOnlyAfterLoss
  <2> SUFFICES ASSUME HooksInv, NEW i \in HookIds PROVE heard[i] <= lost[i] + 1
    BY DEF HeardAgainOnlyAfterLoss
  <2>1. heard[i] \in Nat /\ lost[i] \in Nat /\ hook[i].pc \in HookPC
    BY DEF HooksInv, HooksTypeOK
  <2>2. QED  BY <2>1 DEF HooksInv, LossesPaid
<1>2. QED  BY HooksInvariance, <1>1, PTL

(* A row of webhook_deliveries that says success was taken by the endpoint *)
(* and is the last attempt; a job that ends with a success has such a row. *)
THEOREM TruthfulRows == HooksSpec => []RowsTellTheTruth
<1>1. HooksInv => RowsTellTheTruth
  BY DEF HooksInv
<1>2. QED  BY HooksInvariance, <1>1, PTL
=============================================================================
