--------------------------- MODULE ProviderPages ---------------------------
(***************************************************************************)
(* Provider connections and routing rules.  A provider is on when its      *)
(* status is active; off stands for one excluded or not verified.  step is *)
(* the step of the connect dialog, confirm the card that asks whether to   *)
(* delete, queued the webhook setup section's recentlyQueued.              *)
(***************************************************************************)
EXTENDS QueryClient

ProvidersPage == Ready("providers", "providers")

ProviderCard(i) == /\ ProvidersPage
                   /\ view.dialog = "none" /\ Lists("providers", i, {"on", "off"})

\* The dialog reads the connection from the list and is not shown without one.
ProviderDetail == /\ ProvidersPage /\ view.dialog = "provider"
                  /\ Lists("providers", view.target, {"on", "off"})

-----------------------------------------------------------------------------
\* Connecting: the dialog's component lives as long as the page
OpenConnect == /\ ProvidersPage /\ cache["providers"].loaded
               /\ OpenDialog([view EXCEPT !.dialog = "connect"])

ConnectDialog(step) == /\ ProvidersPage
                       /\ view.dialog = "connect" /\ view.step = step

SelectProvider ==
  \/ ConnectDialog("form") /\ Click([view EXCEPT !.step = "credentials"])
  \/ ConnectDialog("credentials") /\ Click([view EXCEPT !.step = "form"])

CloseConnect ==
  /\ ProvidersPage /\ view.dialog = "connect"
  /\ CloseDialog([Closed EXCEPT !.step = "form"])

SubmitConnect ==
  /\ ConnectDialog("credentials") /\ ~IsPending("connect")
  /\ Send("connect", "providers", None, view)

\* a connection that was saved and not verified leaves the dialog open
HandleConnect(c) ==
  /\ calls[c].op = "connect" /\ Continues(c)
  /\ Finish(c, IF calls[c].pc # "won" \/ calls[c].state = "off" THEN view
               ELSE IF view.dialog = "connect" THEN [Closed EXCEPT !.step = "form"]
               ELSE [view EXCEPT !.step = "form"])

-----------------------------------------------------------------------------
\* Cards
Verify(i) == view.lock # i /\ Send("verify_provider", "providers", i, [view EXCEPT !.lock = i])

VerifyProvider == \E i \in Ids : ProviderCard(i) /\ Verify(i)

VerifyInDetail == ProviderDetail /\ Verify(view.target)

\* the providers page and the routing page have a handler each, that do the same
HandleVerifyProvider(c) ==
  /\ calls[c].op = "verify_provider" /\ Continues(c)
  /\ Finish(c, [view EXCEPT !.lock = None])

ToggleProvider == \E i \in Ids :
  /\ ProviderCard(i) /\ view.toggling # i
  /\ Send(IF Lists("providers", i, {"on"}) THEN "disable_provider" ELSE "enable_provider",
          "providers", i, [view EXCEPT !.toggling = i])

HandleToggleProvider(c) ==
  /\ calls[c].op \in {"enable_provider", "disable_provider"} /\ Continues(c)
  /\ Finish(c, [view EXCEPT !.toggling = None])

AskDeleteProvider == \E i \in Ids : ProviderCard(i) /\ AskDelete("delete_provider", i)

ConfirmDeleteProvider ==
  ProviderCard(view.confirm) /\ ConfirmDelete("delete_provider", "providers")

\* the card that asks goes with its connection, and goes on asking if that stays
HandleDeleteProvider(c) ==
  /\ calls[c].op = "delete_provider" /\ Continues(c)
  /\ Finish(c, [view EXCEPT !.confirm = IF @ # None /\ Lists("providers", @, {"on", "off"})
                                        THEN @ ELSE None])

OpenProvider == \E i \in Ids :
  ProviderCard(i) /\ OpenDialog([view EXCEPT !.dialog = "provider", !.target = i])

CloseProvider ==
  /\ ProvidersPage /\ view.dialog = "provider"
  /\ CloseDialog([Closed EXCEPT !.queued = FALSE])

ProviderSteps ==
  \/ OpenConnect \/ SelectProvider \/ CloseConnect \/ SubmitConnect
  \/ VerifyProvider \/ VerifyInDetail \/ ToggleProvider \/ AskDeleteProvider \/ ConfirmDeleteProvider
  \/ OpenProvider \/ CloseProvider

ProviderHandlers(c) ==
  \/ HandleConnect(c) \/ HandleVerifyProvider(c) \/ HandleToggleProvider(c)
  \/ HandleDeleteProvider(c)

-----------------------------------------------------------------------------
\* Routing: providers in order, and rules
RoutingReady    == Here("routing") /\ ~cache["providers"].error /\ ~cache["rules"].error
RuleTable(i)    == RoutingReady /\ view.dialog = "none" /\ Lists("rules", i, {"on", "off"})
RoutingCard(i)  == RoutingReady /\ view.dialog = "none" /\ Lists("providers", i, {"on", "off"})
RuleForm        == RoutingReady /\ view.dialog = "add_rule" /\ ~IsPending("create_rule")

OpenAddRule == RoutingReady /\ OpenDialog([view EXCEPT !.dialog = "add_rule"])

SubmitRule == RuleForm /\ Send("create_rule", "rules", None, view)

HandleAddRule(c) == CloseWhenWon("create_rule", "add_rule", c)

AskDeleteRule == \E i \in Ids : RuleTable(i) /\ AskDelete("delete_rule", i)

ConfirmDeleteRule == RuleTable(view.confirm) /\ ConfirmDelete("delete_rule", "rules")

HandleDeleteRule(c) == StopAsking("delete_rule", c)

\* this page's dialog keeps the connection as it was when it was opened
OpenRoutingProvider == \E i \in Ids :
  RoutingCard(i) /\ OpenDialog([view EXCEPT !.dialog = "routing_provider", !.target = i])

VerifyRoutingProvider ==
  RoutingReady /\ view.dialog = "routing_provider" /\ Verify(view.target)

CloseRoutingDialog == RoutingReady /\ CloseDialog([Closed EXCEPT !.queued = FALSE])

-----------------------------------------------------------------------------
\* The webhook tab of the detail dialog, on either page
WebhookTab == ProviderDetail \/ (RoutingReady /\ view.dialog = "routing_provider")

Resync ==
  /\ WebhookTab /\ ~IsPending("resync_webhook") /\ ~view.queued
  /\ Send("resync_webhook", "providers", view.target, view)

SwitchToAuto ==
  /\ WebhookTab /\ ~IsPending("switch_to_auto")
  /\ Send("switch_to_auto", "providers", view.target, view)

\* the component of another opening of the dialog has its own state
SameDialog(c) == calls[c].opening = past.opened /\ view.dialog \in {"provider", "routing_provider"}

HandleResync(c) ==
  /\ calls[c].op \in {"resync_webhook", "switch_to_auto"} /\ Continues(c)
  /\ Finish(c, IF calls[c].pc = "won" /\ SameDialog(c) THEN [view EXCEPT !.queued = TRUE] ELSE view)

SaveSecret ==
  /\ WebhookTab /\ ~IsPending("save_secret")
  /\ Send("save_secret", "providers", view.target, view)

HandleSaveSecret(c) == calls[c].op = "save_secret" /\ Continues(c) /\ Finish(c, view)

\* every 2 s, for 30 s, the connections are invalidated
PollSetup ==
  /\ Awake /\ place \in {"providers", "routing"} /\ view.queued /\ budget.fetches > 0
  /\ cache' = [cache EXCEPT !["providers"] = Invalidated("providers")]
  /\ budget' = [budget EXCEPT !.fetches = @ - 1]
  /\ UNCHANGED <<auth, place, leaving, view, rows, calls, past>>

StopPolling == Awake /\ view.queued /\ Click([view EXCEPT !.queued = FALSE])

RoutingSteps ==
  \/ OpenAddRule \/ SubmitRule \/ AskDeleteRule \/ ConfirmDeleteRule
  \/ OpenRoutingProvider \/ VerifyRoutingProvider \/ CloseRoutingDialog
  \/ Resync \/ SwitchToAuto \/ SaveSecret

RoutingHandlers(c) == \/ HandleAddRule(c) \/ HandleDeleteRule(c)
                      \/ HandleResync(c) \/ HandleSaveSecret(c)
=============================================================================
