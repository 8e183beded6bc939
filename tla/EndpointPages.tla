--------------------------- MODULE EndpointPages ---------------------------
(***************************************************************************)
(* The pages of webhooks, suppressions and sending domains.                *)
(***************************************************************************)
EXTENDS QueryClient

-----------------------------------------------------------------------------
\* Webhooks
WebhooksPage      == Ready("webhooks", "webhooks")
WebhookTable(i)   == WebhooksPage /\ view.dialog = "none" /\ Lists("webhooks", i, {"on", "off"})
WebhookButtons(i) == WebhookTable(i) /\ view.confirm # i

\* saving of the form, or isPending of the page's hook
WebhookForm(d, op) == WebhooksPage /\ view.dialog = d /\ ~IsPending(op)

OpenAddWebhook == /\ WebhooksPage
                  /\ OpenDialog([view EXCEPT !.dialog = "add_webhook"])

SubmitWebhook ==
  /\ WebhookForm("add_webhook", "create_webhook")
  /\ Send("create_webhook", "webhooks", None, view)

HandleCreateWebhook(c) == CloseWhenWon("create_webhook", "add_webhook", c)

OpenEditWebhook == \E i \in Ids :
  WebhookButtons(i) /\ OpenDialog([view EXCEPT !.dialog = "edit_webhook", !.target = i])

SubmitUpdateWebhook ==
  /\ WebhookForm("edit_webhook", "update_webhook")
  /\ Send("update_webhook", "webhooks", view.target, view)

HandleUpdateWebhook(c) == CloseWhenWon("update_webhook", "edit_webhook", c)

CloseWebhookDialog ==
  /\ WebhooksPage /\ CloseDialog(Closed)

\* the new value is the negation of what the row shows; nothing is disabled
ToggleWebhook == \E i \in Ids :
  /\ WebhookTable(i)
  /\ Send(IF Lists("webhooks", i, {"on"}) THEN "disable_webhook" ELSE "enable_webhook",
          "webhooks", i, view)

HandleToggleWebhook(c) ==
  /\ calls[c].op \in {"enable_webhook", "disable_webhook"} /\ Continues(c)
  /\ Finish(c, view)

AskDeleteWebhook == \E i \in Ids : WebhookTable(i) /\ AskDelete("delete_webhook", i)

ConfirmDeleteWebhook == WebhookTable(view.confirm) /\ ConfirmDelete("delete_webhook", "webhooks")

HandleDeleteWebhook(c) == StopAsking("delete_webhook", c)

OpenDeliveries == \E i \in Ids :
  WebhookButtons(i) /\ OpenDialog([view EXCEPT !.dialog = "deliveries", !.target = i])

TestWebhook ==
  /\ WebhooksPage
  /\ view.dialog = "deliveries" /\ ~IsPending("test_webhook")
  /\ Send("test_webhook", "webhooks", view.target, view)

HandleTest(c) == calls[c].op = "test_webhook" /\ Continues(c) /\ Finish(c, view)

WebhookSteps ==
  \/ OpenAddWebhook \/ SubmitWebhook \/ OpenEditWebhook \/ SubmitUpdateWebhook
  \/ CloseWebhookDialog \/ ToggleWebhook \/ AskDeleteWebhook \/ ConfirmDeleteWebhook
  \/ OpenDeliveries \/ TestWebhook

WebhookHandlers(c) ==
  \/ HandleCreateWebhook(c) \/ HandleUpdateWebhook(c) \/ HandleToggleWebhook(c)
  \/ HandleDeleteWebhook(c) \/ HandleTest(c)

-----------------------------------------------------------------------------
\* Suppressions
SuppressionsPage    == Ready("suppressions", "suppressions")
SuppressionTable(i) == /\ SuppressionsPage
                       /\ view.dialog = "none" /\ Lists("suppressions", i, {"on", "off"})

SuppressionForm == /\ SuppressionsPage
                   /\ view.dialog = "add_suppression" /\ ~IsPending("create_suppression")

OpenAddSuppression == /\ SuppressionsPage
                      /\ OpenDialog([view EXCEPT !.dialog = "add_suppression"])

SubmitSuppression == SuppressionForm /\ Send("create_suppression", "suppressions", None, view)

HandleAddSuppression(c) == CloseWhenWon("create_suppression", "add_suppression", c)

\* a row opens its details unless it asks whether to delete
OpenSuppression == \E i \in Ids :
  /\ SuppressionTable(i) /\ view.confirm # i
  /\ OpenDialog([view EXCEPT !.dialog = "suppression", !.target = i])

CloseSuppressionDialog == SuppressionsPage /\ CloseDialog(Closed)

AskDeleteSuppression == \E i \in Ids : SuppressionTable(i) /\ AskDelete("delete_suppression", i)

ConfirmDeleteSuppression ==
  SuppressionTable(view.confirm) /\ ConfirmDelete("delete_suppression", "suppressions")

HandleDeleteSuppression(c) == StopAsking("delete_suppression", c)

SuppressionSteps ==
  \/ OpenAddSuppression \/ SubmitSuppression \/ OpenSuppression \/ CloseSuppressionDialog
  \/ AskDeleteSuppression \/ ConfirmDeleteSuppression

SuppressionHandlers(c) == HandleAddSuppression(c) \/ HandleDeleteSuppression(c)

-----------------------------------------------------------------------------
\* Domains: a row is off while its verification is pending, on when it is verified
DomainsPage      == Ready("domains", "domains")
DomainTable(i)   == DomainsPage /\ view.dialog = "none" /\ Lists("domains", i, Living)
DomainButtons(i) == DomainTable(i) /\ view.confirm # i
DomainForm       == /\ DomainsPage
                    /\ view.dialog = "add_domain" /\ ~IsPending("create_domain")

OpenAddDomain == DomainsPage /\ OpenDialog([view EXCEPT !.dialog = "add_domain"])

SubmitDomain == DomainForm /\ Send("create_domain", "domains", None, view)

HandleAddDomain(c) == CloseWhenWon("create_domain", "add_domain", c)

\* verifyingId locks the button of one row
VerifyDomain == \E i \in Ids :
  /\ DomainButtons(i) /\ Lists("domains", i, {"off", "failed"}) /\ view.lock # i
  /\ Send("verify_domain", "domains", i, [view EXCEPT !.lock = i])

\* the first of two that returns unlocks the other one's row
HandleVerifyDomain(c) ==
  /\ calls[c].op = "verify_domain" /\ Continues(c)
  /\ Finish(c, [view EXCEPT !.lock = None])

AskDeleteDomain == \E i \in Ids : DomainTable(i) /\ AskDelete("delete_domain", i)

ConfirmDeleteDomain == DomainTable(view.confirm) /\ ConfirmDelete("delete_domain", "domains")

HandleDeleteDomain(c) == StopAsking("delete_domain", c)

\* the dialog keeps the domain as it was when it was opened
OpenDns == \E i \in Ids :
  DomainButtons(i) /\ OpenDialog([view EXCEPT !.dialog = "dns", !.target = i])

RecheckDomain ==
  /\ DomainsPage /\ view.dialog = "dns" /\ ~IsPending("recheck_domain")
  /\ Send("recheck_domain", "domains", view.target, view)

HandleRecheck(c) == calls[c].op = "recheck_domain" /\ Continues(c) /\ Finish(c, view)

CloseDomainDialog == DomainsPage /\ CloseDialog(Closed)

\* Mutant: polling ends with the first error.
PollDomainsUntilError ==
  /\ Awake /\ place = "domains" /\ cache["domains"].fetch = "idle" /\ ~cache["domains"].error
  /\ \E x \in cache["domains"].data : x.state = "off"
  /\ cache' = [cache EXCEPT !["domains"] = Started(@)]
  /\ UNCHANGED <<auth, place, leaving, view, rows, calls, budget, past>>

\* refetchInterval: every five seconds while a domain it has is pending
PollDomains ==
  /\ Awake /\ place = "domains" /\ cache["domains"].fetch = "idle"
  /\ \E x \in cache["domains"].data : x.state = "off"
  /\ cache' = [cache EXCEPT !["domains"] = Started(@)]
  /\ UNCHANGED <<auth, place, leaving, view, rows, calls, budget, past>>

DomainSteps ==
  \/ OpenAddDomain \/ SubmitDomain \/ VerifyDomain \/ AskDeleteDomain \/ ConfirmDeleteDomain
  \/ OpenDns \/ RecheckDomain \/ CloseDomainDialog

DomainHandlers(c) ==
  \/ HandleAddDomain(c) \/ HandleVerifyDomain(c) \/ HandleDeleteDomain(c) \/ HandleRecheck(c)
=============================================================================
