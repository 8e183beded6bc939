------------------------ MODULE DashboardStepsProofs ------------------------
(***************************************************************************)
(* What the steps of the dashboard are, and that they keep the types, the  *)
(* order of the calls and the forms.  The handlers of all pages come       *)
(* down to a few moves of the user (Sends, Opens, Closes, Clicks, ...),    *)
(* of the server (Serves), of the fetches and of the session; UserMoves,   *)
(* HandlerMoves and Steps say so, and every invariant is then shown        *)
(* move by move and not page by page.                                      *)
(***************************************************************************)
EXTENDS DashboardTruth, TLAPS

-----------------------------------------------------------------------------
(***************************************************************************)
(* Names, and what the constants are.                                      *)
(***************************************************************************)
LEMMA PlaceNames ==
  /\ Place = {"api_keys", "mcp", "webhooks", "suppressions", "domains", "team", "providers",
              "routing", "templates", "template", "template_new", "send", "campaigns",
              "overview", "profile", "settings", "login"}
  /\ Table = {"keys", "mcp", "webhooks", "suppressions", "domains", "members", "invitations",
              "providers", "rules", "templates", "template", "emails", "me", "whoami"}
  /\ \A p \in Place : Mounts[p] \subseteq Table
<1>1. Place = {"api_keys", "mcp", "webhooks", "suppressions", "domains", "team", "providers",
              "routing", "templates", "template", "template_new", "send", "campaigns",
              "overview", "profile", "settings", "login"}
  BY DEF Place, Mounts
<1>2. \A p \in Place : Mounts[p] \subseteq Table
  BY DEF Table
<1>3. Table = {"keys", "mcp", "webhooks", "suppressions", "domains", "members", "invitations",
              "providers", "rules", "templates", "template", "emails", "me", "whoami"}
  <2> DEFINE T == {"keys", "mcp", "webhooks", "suppressions", "domains", "members",
                   "invitations", "providers", "rules", "templates", "template", "emails", "me"}
  <2>1. \A p \in Place : Mounts[p] \subseteq T
    BY <1>1 DEF Mounts
  <2>2. /\ Mounts["api_keys"] = {"keys"} /\ Mounts["mcp"] = {"mcp"}
        /\ Mounts["webhooks"] = {"webhooks"} /\ Mounts["suppressions"] = {"suppressions"}
        /\ Mounts["domains"] = {"domains"} /\ Mounts["team"] = {"members", "invitations"}
        /\ Mounts["routing"] = {"providers", "rules"} /\ Mounts["templates"] = {"templates"}
        /\ Mounts["template"] = {"template"} /\ Mounts["overview"] = {"emails"}
        /\ Mounts["profile"] = {"me"}
    BY DEF Mounts
  <2>3. \A t \in T : \E p \in Place : t \in Mounts[p]
    BY <1>1, <2>2
  <2>4. UNION {Mounts[p] : p \in Place} = T
    BY <2>1, <2>3
  <2>5. QED
    BY <2>4 DEF Table
<1>4. QED
  BY <1>1, <1>2, <1>3

LEMMA OpNames ==
  /\ DOMAIN Creates = {"create_key", "create_mcp", "create_webhook", "create_suppression",
                       "create_domain", "invite", "connect", "create_rule", "create_template",
                       "duplicate_template", "send_email"}
  /\ DOMAIN Sets = {"revoke_key", "delete_key", "delete_mcp", "enable_webhook",
                    "disable_webhook", "delete_webhook", "delete_suppression",
                    "delete_domain", "revoke_invite", "remove_member", "enable_provider",
                    "disable_provider", "delete_provider", "delete_rule", "delete_template",
                    "verify_provider", "verify_domain"}
  /\ DOMAIN Saves = {"save_tracking", "save_alerts"}
  /\ DOMAIN Form = {"create_key", "create_mcp", "invite", "create_webhook", "create_rule",
                    "create_suppression", "create_domain"}
  BY DEF Creates, Sets, Saves, Form

LEMMA Names ==
  /\ Op = {"create_key", "revoke_key", "delete_key", "create_mcp", "delete_mcp", "invite",
           "revoke_invite", "resend_invite", "change_role", "remove_member",
           "create_webhook", "update_webhook", "enable_webhook", "disable_webhook",
           "delete_webhook", "test_webhook", "create_suppression", "delete_suppression",
           "create_domain", "verify_domain", "delete_domain", "recheck_domain", "connect",
           "verify_provider", "enable_provider", "disable_provider", "delete_provider",
           "resync_webhook", "switch_to_auto", "save_secret", "create_rule", "delete_rule",
           "duplicate_template", "delete_template", "update_template",
           "generate_template", "create_template", "send_email", "update_profile",
           "save_tracking", "save_alerts", "delete_account", "login", "signup"}
  /\ Dialog = {"none", "add_suppression", "add_domain", "connect", "delete_project",
               "create_key", "create_mcp", "invite", "add_webhook", "add_rule",
               "revoke_key", "install_mcp", "delete_mcp", "remove", "edit_webhook",
               "deliveries", "suppression", "dns", "provider", "routing_provider",
               "delete_template"}
<1>1. Op = UNION {Offers[p] : p \in {"api_keys", "mcp", "webhooks", "suppressions", "domains",
              "team", "providers", "routing", "templates", "template", "template_new", "send",
              "campaigns", "overview", "profile", "settings", "login"}}
  BY PlaceNames DEF Op
<1>2. QED
  BY <1>1, OpNames DEF Offers, Dialog, Form, Chosen

(* A call that is changed in its fields stays a call.                      *)

-----------------------------------------------------------------------------
(***************************************************************************)
(* What the user does, reduced to a few moves.                             *)
(***************************************************************************)
\* the view but for what locks a button or asks whether to delete
SameForms(nv) ==
  /\ nv \in View
  /\ nv.dialog = view.dialog /\ nv.step = view.step /\ nv.target = view.target
  /\ nv.made = view.made /\ nv.timers = view.timers
  /\ nv.base = view.base /\ nv.switches = view.switches

Sends(op, t, i, nv) ==
  /\ Send(op, t, i, nv) /\ Here(place) /\ SameForms(nv)
  /\ op \in Offers[place] /\ op \notin DOMAIN Saves \union {"login", "signup"}
  /\ op \in DOMAIN Creates =>
       t \notin {"me", "template"} /\ (op # "duplicate_template" => i = None)
  /\ op \in OfRow => IsRow(i, t)
  /\ op = "update_template" => t = "templates" /\ i = First /\ view.base # None
  /\ op \in Refillable => ~IsPending(op)
  /\ op \in DOMAIN Form =>
       /\ view.dialog = Form[op]
       /\ op \in {"create_key", "create_mcp"} => view.step = "form"
       /\ op = "invite" => view.made = 0

Opens(nv) ==
  /\ OpenDialog(nv) /\ Here(place) /\ nv \in View
  /\ nv.dialog # "none"
  /\ nv.step = view.step /\ nv.made = view.made /\ nv.timers = view.timers
  /\ nv.lock = view.lock /\ nv.base = view.base /\ nv.switches = view.switches
  /\ nv.dialog \in DOMAIN Chosen => IsRow(nv.target, Chosen[nv.dialog])

Closes(nv) ==
  /\ CloseDialog(nv) /\ Here(place) /\ place # "login" /\ nv \in View
  /\ nv.dialog = "none" /\ nv.base = view.base /\ nv.switches = view.switches
  /\ nv.made \in {view.made, 0}
  /\ nv.timers = view.timers \/ place \in {"api_keys", "mcp"}

\* a button that sends nothing, or the reset of a dialog that was closed
Clicks(nv) ==
  /\ Click(nv) /\ Awake /\ nv \in View
  /\ nv.dialog = view.dialog /\ nv.target = view.target /\ nv.lock = view.lock
  /\ nv.base = view.base /\ nv.switches = view.switches
  /\ \/ /\ nv.made = view.made /\ nv.timers = view.timers
        /\ nv.step = view.step \/ view.dialog = "connect"
     \/ view.timers > 0 /\ nv.timers = view.timers - 1 /\ nv.made = 0

UserMove == \/ \E op \in Op, t \in Table, i \in Ids \union {None}, nv \in View : Sends(op, t, i, nv)
            \/ \E nv \in View : Opens(nv) \/ Closes(nv) \/ Clicks(nv)

LEMMA ListsRow ==
  ASSUME Typed, RowsKnown, NEW t \in Table, NEW i, NEW states, Lists(t, i, states)
  PROVE  i \in Ids /\ IsRow(i, TableOf(t))
<1>1. PICK x \in cache[t].data : x.id = i
  BY DEF Lists
<1>2. x \in Items(t)
  BY <1>1 DEF Items
<1>3. QED
  BY <1>1, <1>2 DEF RowsKnown, IsRow

LEMMA OpenForm ==
  ASSUME Typed, NEW d \in Dialog \ DOMAIN Chosen, d # "none", Here(place),
         OpenDialog([view EXCEPT !.dialog = d])
  PROVE  UserMove
<1> DEFINE nv == [view EXCEPT !.dialog = d]
<1>1. /\ nv \in View /\ nv.dialog = d
      /\ nv.step = view.step /\ nv.made = view.made /\ nv.timers = view.timers
      /\ nv.lock = view.lock /\ nv.base = view.base /\ nv.switches = view.switches
  BY DEF Typed, View
<1>2. Opens(nv)
  BY <1>1 DEF Opens
<1>3. QED
  BY <1>1, <1>2 DEF UserMove

LEMMA OpenRow ==
  ASSUME Typed, NEW d \in DOMAIN Chosen, NEW i, IsRow(i, Chosen[d]), Here(place),
         OpenDialog([view EXCEPT !.dialog = d, !.target = i])
  PROVE  UserMove
<1> DEFINE nv == [view EXCEPT !.dialog = d, !.target = i]
<1>1. d \in Dialog /\ d # "none" /\ i \in Ids
  BY DEF Dialog, Chosen, IsRow
<1>2. /\ nv \in View /\ nv.dialog = d /\ nv.target = i
      /\ nv.step = view.step /\ nv.made = view.made /\ nv.timers = view.timers
      /\ nv.lock = view.lock /\ nv.base = view.base /\ nv.switches = view.switches
  BY <1>1 DEF Typed, View
<1>3. Opens(nv)
  BY <1>1, <1>2 DEF Opens
<1>4. QED
  BY <1>2, <1>3 DEF UserMove

\* the view without its dialog
LEMMA ClosedIs ==
  ASSUME Typed
  PROVE  /\ Closed \in View /\ Closed.dialog = "none" /\ Closed.base = view.base
         /\ Closed.switches = view.switches /\ Closed.made = view.made
         /\ Closed.timers = view.timers /\ Closed.step = view.step
<1>1. view \in View /\ "none" \in Dialog /\ None \in Ids \union {None}
  BY DEF Typed, Dialog
<1>2. QED
  BY <1>1 DEF View, Closed

\* what else closing a dialog does
LEMMA CloseAny ==
  ASSUME Typed, Here(place), place # "login",
         NEW nv, CloseDialog(nv),
         \/ nv = Closed
         \/ nv = [Closed EXCEPT !.made = 0]
         \/ nv = [Closed EXCEPT !.queued = FALSE]
         \/ nv = [Closed EXCEPT !.step = "form"]
         \/ nv = [Closed EXCEPT !.lock = None]
         \/ place \in {"api_keys", "mcp"} /\ nv = [Closed EXCEPT !.timers = @ + 1]
  PROVE  UserMove
<1>1. view \in View /\ view.timers + 1 \in Nat
  BY DEF Typed, View
<1>2. /\ Closed \in View /\ Closed.dialog = "none" /\ Closed.base = view.base
      /\ Closed.switches = view.switches /\ Closed.made = view.made
      /\ Closed.timers = view.timers
  BY ClosedIs
<1>3. /\ nv \in View /\ nv.dialog = "none" /\ nv.base = view.base
      /\ nv.switches = view.switches /\ nv.made \in {view.made, 0}
      /\ nv.timers = view.timers \/ place \in {"api_keys", "mcp"}
  <2>1. CASE nv = Closed
    BY <1>2, <2>1
  <2>2. CASE nv = [Closed EXCEPT !.made = 0]
    BY <1>2, <2>2 DEF View
  <2>3. CASE nv = [Closed EXCEPT !.queued = FALSE]
    BY <1>2, <2>3 DEF View
  <2>4. CASE nv = [Closed EXCEPT !.step = "form"]
    BY <1>2, <2>4 DEF View
  <2>5. CASE nv = [Closed EXCEPT !.lock = None]
    BY <1>2, <2>5 DEF View, Signed
  <2>6. CASE place \in {"api_keys", "mcp"} /\ nv = [Closed EXCEPT !.timers = @ + 1]
    <3>1. nv = [Closed EXCEPT !.timers = view.timers + 1]
      BY <1>2, <2>6
    <3>2. QED
      BY <1>1, <1>2, <2>6, <3>1 DEF View
  <2>7. QED
    BY <2>1, <2>2, <2>3, <2>4, <2>5, <2>6
<1>4. Closes(nv)
  BY <1>3 DEF Closes
<1>5. QED
  BY <1>3, <1>4 DEF UserMove

LEMMA AskMove ==
  ASSUME Typed, NEW op, NEW i \in Ids, Awake, AskDelete(op, i)
  PROVE  UserMove
<1> DEFINE nv == [view EXCEPT !.confirm = IF @ = i THEN None ELSE i]
<1>1. /\ nv \in View
      /\ nv.dialog = view.dialog /\ nv.target = view.target /\ nv.lock = view.lock
      /\ nv.base = view.base /\ nv.switches = view.switches
      /\ nv.step = view.step /\ nv.made = view.made /\ nv.timers = view.timers
  BY DEF Typed, View
<1>2. Clicks(nv)
  BY <1>1 DEF Clicks, AskDelete
<1>3. QED
  BY <1>1, <1>2 DEF UserMove

LEMMA SendMove ==
  ASSUME Typed, Here(place), NEW op \in Offers[place], NEW t \in Table,
         NEW i \in Ids \union {None}, NEW nv, SameForms(nv), Send(op, t, i, nv),
         op \notin DOMAIN Saves \union {"login", "signup"},
         op \in DOMAIN Creates =>
           t \notin {"me", "template"} /\ (op # "duplicate_template" => i = None),
         op \in OfRow => IsRow(i, t),
         op = "update_template" => t = "templates" /\ i = First /\ view.base # None,
         op \in Refillable => ~IsPending(op),
         op \in DOMAIN Form =>
           /\ view.dialog = Form[op]
           /\ op \in {"create_key", "create_mcp"} => view.step = "form"
           /\ op = "invite" => view.made = 0
  PROVE  UserMove
<1>1. op \in Op /\ nv \in View
  BY DEF Op, Typed, SameForms
<1>2. Sends(op, t, i, nv)
  BY DEF Sends
<1>3. QED
  BY <1>1, <1>2 DEF UserMove

LEMMA SameView == Typed => SameForms(view)
  BY DEF Typed, SameForms

LEMMA LockMove ==
  ASSUME Typed, NEW i \in Ids \union Signed
  PROVE  SameForms([view EXCEPT !.lock = i])
  BY DEF Typed, View, SameForms

\* an operation on a row that is there, with no form
LEMMA SendRow ==
  ASSUME Typed, Here(place), NEW op \in Offers[place], NEW t \in Table, NEW i, NEW nv,
         SameForms(nv), Send(op, t, i, nv), IsRow(i, t),
         op \in {"verify_provider", "enable_provider", "disable_provider", "change_role"}
  PROVE  UserMove
<1>1. /\ op \notin DOMAIN Saves \union {"login", "signup", "update_template", "invite"}
      /\ op \notin DOMAIN Creates /\ op \notin DOMAIN Form /\ op \notin Refillable
  BY OpNames DEF Refillable
<1>2. i \in Ids \union {None}
  BY DEF IsRow
<1>3. QED
  BY <1>1, <1>2, SendMove

\* the step of a dialog, and the switches of a page
LEMMA StepView ==
  ASSUME Typed, NEW s \in {"form", "credentials"}
  PROVE  LET nv == [view EXCEPT !.step = s] IN
         /\ nv \in View /\ nv.dialog = view.dialog /\ nv.target = view.target
         /\ nv.lock = view.lock /\ nv.base = view.base /\ nv.switches = view.switches
         /\ nv.made = view.made /\ nv.timers = view.timers
<1>1. view \in View
  BY DEF Typed
<1>2. QED
  BY <1>1 DEF View

LEMMA SwitchesView ==
  ASSUME Typed, NEW s \in SUBSET Switch
  PROVE  LET nv == [view EXCEPT !.switches = s] IN
         /\ nv \in View /\ nv.base = view.base /\ nv.timers = view.timers
         /\ nv.dialog = view.dialog /\ nv.target = view.target
         /\ nv.made = view.made /\ nv.step = view.step
<1>1. view \in View
  BY DEF Typed
<1>2. QED
  BY <1>1 DEF View

LEMMA ConfirmMove ==
  ASSUME Typed, NEW i \in Ids \union {None}
  PROVE  SameForms([view EXCEPT !.confirm = i])
  BY DEF Typed, View, SameForms

LEMMA KeyMoves ==
  ASSUME Typed, RowsKnown, KeySteps PROVE UserMove
<1> USE PlaceNames, OpNames, Names
<1> USE DEF KeysPage, Ready, Here, Chosen
<1>1. CASE OpenCreateKey
  BY <1>1, OpenForm DEF OpenCreateKey
<1>2. CASE SubmitKey
  BY <1>2, SameView, SendMove DEF SubmitKey, KeyForm, Offers, OfRow, Edits, Refillable, Form
<1>3. CASE CloseCreateKey
  BY <1>3, CloseAny DEF CloseCreateKey
<1>4. CASE OpenRevokeKey
  <2>1. PICK i \in Ids : KeysPage /\ OffersRevoke(i) /\
                         OpenDialog([view EXCEPT !.dialog = "revoke_key", !.target = i])
    BY <1>4 DEF OpenRevokeKey
  <2>2. IsRow(i, "keys")
    BY <2>1, ListsRow DEF OffersRevoke, TableOf
  <2>3. QED
    BY <2>1, <2>2, OpenRow
<1>5. CASE CloseRevokeKey
  BY <1>5, CloseAny DEF CloseRevokeKey
<1>6. CASE SubmitRevoke
  <2>1. IsRow(view.target, "keys") /\ view.target \in Ids
    BY <1>6 DEF SubmitRevoke, RevokeDialog, RowsKnown, IsRow
  <2>2. QED
    BY <1>6, <2>1, SameView, SendMove DEF SubmitRevoke, Offers, Refillable, Form
<1>7. CASE AskDeleteKey
  BY <1>7, AskMove DEF AskDeleteKey
<1>8. CASE ConfirmDeleteKey
  <2>1. IsRow(view.confirm, "keys") /\ view.confirm \in Ids
    BY <1>8, ListsRow DEF ConfirmDeleteKey, OffersDelete, TableOf
  <2>2. QED
    BY <1>8, <2>1, SameView, SendMove DEF ConfirmDeleteKey, ConfirmDelete, Offers, Refillable, Form
<1>9. QED
  BY <1>1, <1>2, <1>3, <1>4, <1>5, <1>6, <1>7, <1>8 DEF KeySteps

-----------------------------------------------------------------------------
(***************************************************************************)
(* What the user does, page by page.                                       *)
(***************************************************************************)
LEMMA McpMoves ==
  ASSUME Typed, RowsKnown, McpSteps PROVE UserMove
<1> USE PlaceNames, OpNames, Names
<1> USE DEF Ready, Here, Chosen, McpPage
<1>1. CASE OpenCreateMcp
  BY <1>1, OpenForm DEF OpenCreateMcp
<1>2. CASE SubmitMcp
  BY <1>2, SameView, SendMove DEF SubmitMcp, Offers, OfRow, Edits, Refillable, Form, McpForm
<1>3. CASE CloseCreateMcp
  BY <1>3, CloseAny DEF CloseCreateMcp
<1>4. CASE OpenInstall
  <2>1. PICK i \in Ids : McpPage /\ McpTable(i) /\ OpenDialog([view EXCEPT !.dialog = "install_mcp", !.target = i])
    BY <1>4 DEF OpenInstall
  <2>2. IsRow(i, "mcp")
    BY <2>1, ListsRow DEF McpTable, TableOf
  <2>3. QED
    BY <2>1, <2>2, OpenRow DEF McpTable
<1>5. CASE OpenDeleteMcp
  <2>1. PICK i \in Ids : McpPage /\ McpTable(i) /\ OpenDialog([view EXCEPT !.dialog = "delete_mcp", !.target = i])
    BY <1>5 DEF OpenDeleteMcp
  <2>2. IsRow(i, "mcp")
    BY <2>1, ListsRow DEF McpTable, TableOf
  <2>3. QED
    BY <2>1, <2>2, OpenRow DEF McpTable
<1>6. CASE CloseMcp
  BY <1>6, CloseAny DEF CloseMcp
<1>7. CASE SubmitDeleteMcp
  <2>1. IsRow(view.target, "mcp") /\ view.target \in Ids
    BY <1>7 DEF SubmitDeleteMcp, RowsKnown, IsRow
  <2>2. QED
    BY <1>7, <2>1, SameView, SendMove DEF SubmitDeleteMcp, Offers, Refillable, Form
<1>8. QED
  BY <1>1, <1>2, <1>3, <1>4, <1>5, <1>6, <1>7 DEF McpSteps

LEMMA TeamMoves ==
  ASSUME Typed, RowsKnown, TeamSteps PROVE UserMove
<1> USE PlaceNames, OpNames, Names
<1> USE DEF Ready, Here, Chosen
<1>1. CASE OpenInvite
  BY <1>1, OpenForm DEF OpenInvite
<1>2. CASE SubmitInvite
  BY <1>2, SameView, SendMove DEF SubmitInvite, Offers, OfRow, Edits, Refillable, Form, InviteForm
<1>3. CASE CloseInvite
  BY <1>3, CloseAny DEF CloseInvite
<1>4. CASE SubmitRevokeInvite
  <2>1. PICK i \in Ids : InvitationList(i) /\ Send("revoke_invite", "invitations", i, view)
    BY <1>4 DEF SubmitRevokeInvite, InvitationList
  <2>2. IsRow(i, "invitations")
    BY <2>1, ListsRow DEF TableOf, InvitationList
  <2>3. QED
    BY <2>1, <2>2, SameView, LockMove, SendMove DEF Offers, OfRow, Edits, Refillable, Form, InvitationList
<1>5. CASE SubmitResend
  <2>1. PICK i \in Ids : InvitationList(i) /\ Send("resend_invite", "invitations", i, view)
    BY <1>5 DEF SubmitResend, InvitationList
  <2>2. IsRow(i, "invitations")
    BY <2>1, ListsRow DEF TableOf, InvitationList
  <2>3. QED
    BY <2>1, <2>2, SameView, LockMove, SendMove DEF Offers, OfRow, Edits, Refillable, Form, InvitationList
<1>6. CASE SubmitRole
  <2>1. PICK i \in Ids : MemberList(i) /\ Send("change_role", "members", i, view)
    BY <1>6 DEF SubmitRole, MemberList
  <2>2. IsRow(i, "members")
    BY <2>1, ListsRow DEF TableOf, MemberList
  <2>3. QED
    BY <2>1, <2>2, SameView, SendRow DEF Offers, MemberList
<1>7. CASE OpenRemove
  <2>1. PICK i \in Ids : MemberList(i) /\ OpenDialog([view EXCEPT !.dialog = "remove", !.target = i])
    BY <1>7 DEF OpenRemove
  <2>2. IsRow(i, "members")
    BY <2>1, ListsRow DEF MemberList, TableOf
  <2>3. QED
    BY <2>1, <2>2, OpenRow DEF MemberList
<1>8. CASE CloseRemove
  BY <1>8, CloseAny DEF CloseRemove
<1>9. CASE SubmitRemove
  <2>1. IsRow(view.target, "members") /\ view.target \in Ids
    BY <1>9 DEF SubmitRemove, RowsKnown, IsRow
  <2>2. QED
    BY <1>9, <2>1, SameView, SendMove DEF SubmitRemove, Offers, Refillable, Form
<1>10. QED
  BY <1>1, <1>2, <1>3, <1>4, <1>5, <1>6, <1>7, <1>8, <1>9 DEF TeamSteps

LEMMA WebhookMoves ==
  ASSUME Typed, RowsKnown, WebhookSteps PROVE UserMove
<1> USE PlaceNames, OpNames, Names
<1> USE DEF Ready, Here, Chosen, WebhooksPage
<1>1. CASE OpenAddWebhook
  BY <1>1, OpenForm DEF OpenAddWebhook
<1>2. CASE SubmitWebhook
  BY <1>2, SameView, SendMove DEF SubmitWebhook, Offers, OfRow, Edits, Refillable, Form, WebhookForm
<1>3. CASE OpenEditWebhook
  <2>1. PICK i \in Ids : WebhookButtons(i) /\ OpenDialog([view EXCEPT !.dialog = "edit_webhook", !.target = i])
    BY <1>3 DEF OpenEditWebhook
  <2>2. IsRow(i, "webhooks")
    BY <2>1, ListsRow DEF WebhookButtons, WebhookTable, TableOf
  <2>3. QED
    BY <2>1, <2>2, OpenRow DEF WebhookButtons, WebhookTable
<1>4. CASE SubmitUpdateWebhook
  <2>1. IsRow(view.target, "webhooks") /\ view.target \in Ids
    BY <1>4 DEF SubmitUpdateWebhook, RowsKnown, IsRow, WebhookForm
  <2>2. QED
    BY <1>4, <2>1, SameView, SendMove DEF SubmitUpdateWebhook, Offers, Refillable, Form, WebhookForm
<1>5. CASE CloseWebhookDialog
  BY <1>5, CloseAny DEF CloseWebhookDialog
<1>6. CASE ToggleWebhook
  <2>1. PICK i \in Ids : /\ WebhookTable(i)
                         /\ \E op \in {"disable_webhook", "enable_webhook"} : Send(op, "webhooks", i, view)
    BY <1>6 DEF ToggleWebhook
  <2>2. IsRow(i, "webhooks")
    BY <2>1, ListsRow DEF TableOf, WebhookTable
  <2>3. QED
    BY <2>1, <2>2, SameView, SendMove DEF Offers, OfRow, Edits, Refillable, Form, WebhookTable
<1>7. CASE AskDeleteWebhook
  BY <1>7, AskMove DEF AskDeleteWebhook, WebhookTable
<1>8. CASE ConfirmDeleteWebhook
  <2>1. IsRow(view.confirm, "webhooks") /\ view.confirm \in Ids
    BY <1>8, ListsRow DEF ConfirmDeleteWebhook, TableOf, WebhookTable
  <2>2. QED
    BY <1>8, <2>1, SameView, SendMove DEF ConfirmDeleteWebhook, ConfirmDelete, Offers, Refillable, Form, WebhookTable
<1>9. CASE OpenDeliveries
  <2>1. PICK i \in Ids : WebhookButtons(i) /\ OpenDialog([view EXCEPT !.dialog = "deliveries", !.target = i])
    BY <1>9 DEF OpenDeliveries
  <2>2. IsRow(i, "webhooks")
    BY <2>1, ListsRow DEF WebhookButtons, WebhookTable, TableOf
  <2>3. QED
    BY <2>1, <2>2, OpenRow DEF WebhookButtons, WebhookTable
<1>10. CASE TestWebhook
  <2>1. IsRow(view.target, "webhooks") /\ view.target \in Ids
    BY <1>10 DEF TestWebhook, RowsKnown, IsRow
  <2>2. QED
    BY <1>10, <2>1, SameView, SendMove DEF TestWebhook, Offers, Refillable, Form
<1>11. QED
  BY <1>1, <1>2, <1>3, <1>4, <1>5, <1>6, <1>7, <1>8, <1>9, <1>10 DEF WebhookSteps

LEMMA SuppressionMoves ==
  ASSUME Typed, RowsKnown, SuppressionSteps PROVE UserMove
<1> USE PlaceNames, OpNames, Names
<1> USE DEF Ready, Here, Chosen, SuppressionsPage
<1>1. CASE OpenAddSuppression
  BY <1>1, OpenForm DEF OpenAddSuppression
<1>2. CASE SubmitSuppression
  BY <1>2, SameView, SendMove DEF SubmitSuppression, Offers, OfRow, Edits, Refillable, Form, SuppressionForm
<1>3. CASE OpenSuppression
  <2>1. PICK i \in Ids : (SuppressionTable(i) /\ view.confirm # i) /\ OpenDialog([view EXCEPT !.dialog = "suppression", !.target = i])
    BY <1>3 DEF OpenSuppression
  <2>2. IsRow(i, "suppressions")
    BY <2>1, ListsRow DEF SuppressionTable, TableOf
  <2>3. QED
    BY <2>1, <2>2, OpenRow DEF SuppressionTable
<1>4. CASE CloseSuppressionDialog
  BY <1>4, CloseAny DEF CloseSuppressionDialog
<1>5. CASE AskDeleteSuppression
  BY <1>5, AskMove DEF AskDeleteSuppression, SuppressionTable
<1>6. CASE ConfirmDeleteSuppression
  <2>1. IsRow(view.confirm, "suppressions") /\ view.confirm \in Ids
    BY <1>6, ListsRow DEF ConfirmDeleteSuppression, TableOf, SuppressionTable
  <2>2. QED
    BY <1>6, <2>1, SameView, SendMove DEF ConfirmDeleteSuppression, ConfirmDelete, Offers, Refillable, Form, SuppressionTable
<1>7. QED
  BY <1>1, <1>2, <1>3, <1>4, <1>5, <1>6 DEF SuppressionSteps

LEMMA DomainMoves ==
  ASSUME Typed, RowsKnown, DomainSteps PROVE UserMove
<1> USE PlaceNames, OpNames, Names
<1> USE DEF Ready, Here, Chosen, DomainsPage
<1>1. CASE OpenAddDomain
  BY <1>1, OpenForm DEF OpenAddDomain
<1>2. CASE SubmitDomain
  BY <1>2, SameView, SendMove DEF SubmitDomain, Offers, OfRow, Edits, Refillable, Form, DomainForm
<1>3. CASE VerifyDomain
  <2>1. PICK i \in Ids : DomainButtons(i) /\ Send("verify_domain", "domains", i, [view EXCEPT !.lock = i])
    BY <1>3 DEF VerifyDomain, DomainButtons, DomainTable
  <2>2. IsRow(i, "domains")
    BY <2>1, ListsRow DEF TableOf, DomainButtons, DomainTable
  <2>3. QED
    BY <2>1, <2>2, SameView, LockMove, SendMove DEF Offers, Refillable, Form, DomainButtons, DomainTable
<1>4. CASE AskDeleteDomain
  BY <1>4, AskMove DEF AskDeleteDomain, DomainTable
<1>5. CASE ConfirmDeleteDomain
  <2>1. IsRow(view.confirm, "domains") /\ view.confirm \in Ids
    BY <1>5, ListsRow DEF ConfirmDeleteDomain, TableOf, DomainTable
  <2>2. QED
    BY <1>5, <2>1, SameView, SendMove DEF ConfirmDeleteDomain, ConfirmDelete, Offers, Refillable, Form, DomainTable
<1>6. CASE OpenDns
  <2>1. PICK i \in Ids : DomainButtons(i) /\ OpenDialog([view EXCEPT !.dialog = "dns", !.target = i])
    BY <1>6 DEF OpenDns
  <2>2. IsRow(i, "domains")
    BY <2>1, ListsRow DEF DomainButtons, DomainTable, TableOf
  <2>3. QED
    BY <2>1, <2>2, OpenRow DEF DomainButtons, DomainTable
<1>7. CASE RecheckDomain
  <2>1. IsRow(view.target, "domains") /\ view.target \in Ids
    BY <1>7 DEF RecheckDomain, RowsKnown, IsRow
  <2>2. QED
    BY <1>7, <2>1, SameView, SendMove DEF RecheckDomain, Offers, Refillable, Form
<1>8. CASE CloseDomainDialog
  BY <1>8, CloseAny DEF CloseDomainDialog
<1>9. QED
  BY <1>1, <1>2, <1>3, <1>4, <1>5, <1>6, <1>7, <1>8 DEF DomainSteps

LEMMA ProviderMoves ==
  ASSUME Typed, RowsKnown, ProviderSteps PROVE UserMove
<1> USE PlaceNames, OpNames, Names
<1> USE DEF Ready, Here, Chosen, ProvidersPage
<1>1. CASE OpenConnect
  BY <1>1, OpenForm DEF OpenConnect
<1>2. CASE SelectProvider
  <2>1. PICK s \in {"form", "credentials"} :
             view.dialog = "connect" /\ Awake /\ Click([view EXCEPT !.step = s])
    BY <1>2 DEF SelectProvider, ConnectDialog
  <2> DEFINE nv == [view EXCEPT !.step = s]
  <2>2. /\ nv \in View /\ nv.dialog = view.dialog /\ nv.target = view.target
        /\ nv.lock = view.lock /\ nv.base = view.base /\ nv.switches = view.switches
        /\ nv.made = view.made /\ nv.timers = view.timers
    BY <2>1, StepView
  <2>3. Clicks(nv)
    BY <2>1, <2>2 DEF Clicks
  <2>4. QED
    BY <2>2, <2>3 DEF UserMove
<1>3. CASE CloseConnect
  BY <1>3, CloseAny DEF CloseConnect
<1>4. CASE SubmitConnect
  BY <1>4, SameView, SendMove DEF SubmitConnect, Offers, OfRow, Edits, Refillable, Form, ConnectDialog
<1>5. CASE VerifyProvider
  <2>1. PICK i \in Ids : ProviderCard(i) /\ Send("verify_provider", "providers", i, [view EXCEPT !.lock = i])
    BY <1>5 DEF VerifyProvider, Verify
  <2>2. IsRow(i, "providers")
    BY <2>1, ListsRow DEF TableOf, ProviderCard
  <2>3. SameForms([view EXCEPT !.lock = i])
    BY LockMove
  <2>4. QED
    BY <2>1, <2>2, <2>3, SendMove DEF Offers, Refillable, Form, ProviderCard
<1>6. CASE VerifyInDetail
  <2>1. /\ IsRow(view.target, "providers") /\ view.target \in Ids
        /\ Send("verify_provider", "providers", view.target, [view EXCEPT !.lock = view.target])
    BY <1>6, ListsRow DEF VerifyInDetail, ProviderDetail, TableOf, Verify
  <2>2. "verify_provider" \in Offers[place]
    BY <1>6 DEF VerifyInDetail, ProviderDetail, Offers
  <2>3. Here(place)
    BY <1>6 DEF VerifyInDetail, ProviderDetail
  <2>4. QED
    BY <2>1, <2>2, <2>3, LockMove, SendRow
<1>7. CASE ToggleProvider
  <2>1. PICK i \in Ids : /\ ProviderCard(i)
                         /\ \E op \in {"disable_provider", "enable_provider"} :
                              Send(op, "providers", i, [view EXCEPT !.toggling = i])
    BY <1>7 DEF ToggleProvider
  <2>2. IsRow(i, "providers")
    BY <2>1, ListsRow DEF TableOf, ProviderCard
  <2>3. SameForms([view EXCEPT !.toggling = i])
    BY DEF Typed, View, SameForms
  <2>4. QED
    BY <2>1, <2>2, <2>3, SendRow DEF Offers, ProviderCard
<1>8. CASE AskDeleteProvider
  BY <1>8, AskMove DEF AskDeleteProvider, ProviderCard
<1>9. CASE ConfirmDeleteProvider
  <2>1. IsRow(view.confirm, "providers") /\ view.confirm \in Ids
    BY <1>9, ListsRow DEF ConfirmDeleteProvider, TableOf, ProviderCard
  <2>2. QED
    BY <1>9, <2>1, SameView, SendMove DEF ConfirmDeleteProvider, ConfirmDelete, Offers, Refillable, Form, ProviderCard
<1>10. CASE OpenProvider
  <2>1. PICK i \in Ids : ProviderCard(i) /\ OpenDialog([view EXCEPT !.dialog = "provider", !.target = i])
    BY <1>10 DEF OpenProvider
  <2>2. IsRow(i, "providers")
    BY <2>1, ListsRow DEF ProviderCard, TableOf
  <2>3. QED
    BY <2>1, <2>2, OpenRow DEF ProviderCard
<1>11. CASE CloseProvider
  BY <1>11, CloseAny DEF CloseProvider
<1>12. QED
  BY <1>1, <1>2, <1>3, <1>4, <1>5, <1>6, <1>7, <1>8, <1>9, <1>10, <1>11 DEF ProviderSteps

LEMMA RoutingMoves ==
  ASSUME Typed, RowsKnown, RoutingSteps PROVE UserMove
<1> USE PlaceNames, OpNames, Names
<1> USE DEF Ready, Here, Chosen, RoutingReady
<1>1. CASE OpenAddRule
  BY <1>1, OpenForm DEF OpenAddRule
<1>2. CASE SubmitRule
  BY <1>2, SameView, SendMove DEF SubmitRule, Offers, OfRow, Edits, Refillable, Form, RuleForm
<1>3. CASE AskDeleteRule
  BY <1>3, AskMove DEF AskDeleteRule, RuleTable
<1>4. CASE ConfirmDeleteRule
  <2>1. IsRow(view.confirm, "rules") /\ view.confirm \in Ids
    BY <1>4, ListsRow DEF ConfirmDeleteRule, TableOf, RuleTable
  <2>2. QED
    BY <1>4, <2>1, SameView, SendMove DEF ConfirmDeleteRule, ConfirmDelete, Offers, Refillable, Form, RuleTable
<1>5. CASE OpenRoutingProvider
  <2>1. PICK i \in Ids : RoutingCard(i) /\ OpenDialog([view EXCEPT !.dialog = "routing_provider", !.target = i])
    BY <1>5 DEF OpenRoutingProvider
  <2>2. IsRow(i, "providers")
    BY <2>1, ListsRow DEF RoutingCard, TableOf
  <2>3. QED
    BY <2>1, <2>2, OpenRow DEF RoutingCard
<1>6. CASE VerifyRoutingProvider
  <2>1. /\ IsRow(view.target, "providers") /\ view.target \in Ids
        /\ Send("verify_provider", "providers", view.target, [view EXCEPT !.lock = view.target])
    BY <1>6 DEF VerifyRoutingProvider, RowsKnown, IsRow, Verify
  <2>2. "verify_provider" \in Offers[place]
    BY <1>6 DEF VerifyRoutingProvider, Offers
  <2>3. Here(place)
    BY <1>6 DEF VerifyRoutingProvider
  <2>4. QED
    BY <2>1, <2>2, <2>3, LockMove, SendRow
<1>7. CASE CloseRoutingDialog
  BY <1>7, CloseAny DEF CloseRoutingDialog
<1>8. CASE Resync
  <2>1. /\ IsRow(view.target, "providers") /\ view.target \in Ids
        /\ place \in {"providers", "routing"}
    BY <1>8, ListsRow DEF Resync, WebhookTab, ProviderDetail, ProvidersPage, TableOf, RowsKnown, IsRow
  <2>2. QED
    BY <1>8, <2>1, SameView, SendMove DEF Resync, WebhookTab, ProviderDetail, ProvidersPage, Offers, Refillable, Form
<1>9. CASE SwitchToAuto
  <2>1. /\ IsRow(view.target, "providers") /\ view.target \in Ids
        /\ place \in {"providers", "routing"}
    BY <1>9, ListsRow DEF SwitchToAuto, WebhookTab, ProviderDetail, ProvidersPage, TableOf, RowsKnown, IsRow
  <2>2. QED
    BY <1>9, <2>1, SameView, SendMove DEF SwitchToAuto, WebhookTab, ProviderDetail, ProvidersPage, Offers, Refillable, Form
<1>10. CASE SaveSecret
  <2>1. /\ IsRow(view.target, "providers") /\ view.target \in Ids
        /\ place \in {"providers", "routing"}
    BY <1>10, ListsRow DEF SaveSecret, WebhookTab, ProviderDetail, ProvidersPage, TableOf, RowsKnown, IsRow
  <2>2. QED
    BY <1>10, <2>1, SameView, SendMove DEF SaveSecret, WebhookTab, ProviderDetail, ProvidersPage, Offers, Refillable, Form
<1>11. QED
  BY <1>1, <1>2, <1>3, <1>4, <1>5, <1>6, <1>7, <1>8, <1>9, <1>10 DEF RoutingSteps

LEMMA TemplateMoves ==
  ASSUME Typed, RowsKnown, TemplateSteps, ~EditTemplate PROVE UserMove
<1> USE PlaceNames, OpNames, Names
<1> USE DEF Ready, Here, Chosen
<1>1. CASE DuplicateTemplate
  <2>1. PICK i \in Ids : TemplateTable(i) /\ Send("duplicate_template", "templates", i, view)
    BY <1>1 DEF DuplicateTemplate
  <2>2. IsRow(i, "templates")
    BY <2>1, ListsRow DEF TableOf, TemplateTable
  <2>3. QED
    BY <2>1, <2>2, SameView, SendMove DEF Offers, OfRow, Edits, Refillable, Form, TemplateTable
<1>2. CASE OpenDeleteTemplate
  <2>1. PICK i \in Ids : TemplateTable(i) /\ OpenDialog([view EXCEPT !.dialog = "delete_template", !.target = i])
    BY <1>2 DEF OpenDeleteTemplate
  <2>2. IsRow(i, "templates")
    BY <2>1, ListsRow DEF TemplateTable, TableOf
  <2>3. QED
    BY <2>1, <2>2, OpenRow DEF TemplateTable
<1>3. CASE CloseDeleteTemplate
  BY <1>3, CloseAny DEF CloseDeleteTemplate
<1>4. CASE DeleteTemplate
  <2>1. IsRow(view.target, "templates") /\ view.target \in Ids
    BY <1>4 DEF DeleteTemplate, RowsKnown, IsRow
  <2>2. QED
    BY <1>4, <2>1, SameView, SendMove DEF DeleteTemplate, Offers, Refillable, Form
<1>5. CASE SaveTemplate
  <2>1. IsRow(First, "templates") /\ First \in Ids
    BY <1>5, ClientAssumption DEF SaveTemplate, RowsKnown, IsRow
  <2>2. QED
    BY <1>5, <2>1, SameView, SendMove DEF SaveTemplate, Offers, Refillable, Form
<1>6. CASE Generate
  BY <1>6, SameView, SendMove DEF Generate, Offers, OfRow, Edits, Refillable, Form
<1>7. CASE CreateTemplate
  BY <1>7, SameView, SendMove DEF CreateTemplate, Offers, OfRow, Edits, Refillable, Form
<1>8. CASE SendEmail
  BY <1>8, SameView, SendMove DEF SendEmail, SendForm, Offers, OfRow, Edits, Refillable, Form
<1>9. QED
  BY <1>1, <1>2, <1>3, <1>4, <1>5, <1>6, <1>7, <1>8 DEF TemplateSteps

LEMMA SettingsMoves ==
  ASSUME Typed, RowsKnown,
         SaveProfile \/ OpenDeleteProject \/ CloseDeleteProject \/ DeleteProject
  PROVE  UserMove
<1> USE PlaceNames, OpNames, Names
<1> USE DEF Ready, Here, Chosen, SettingsPage, ProfilePage
<1>1. CASE SaveProfile
  BY <1>1, ClientAssumption, SameView, SendMove
  DEF SaveProfile, Offers, OfRow, Edits, Refillable, Form
<1>2. CASE OpenDeleteProject
  BY <1>2, OpenForm DEF OpenDeleteProject
<1>3. CASE CloseDeleteProject
  BY <1>3, CloseAny DEF CloseDeleteProject
<1>4. CASE DeleteProject
  <2>1. SameForms([view EXCEPT !.lock = auth.token])
    BY LockMove DEF Typed, Auth, Signed
  <2>2. QED
    BY <1>4, <2>1, SendMove DEF DeleteProject, Offers, OfRow, Edits, Refillable, Form
<1>5. QED
  BY <1>1, <1>2, <1>3, <1>4

LEMMA TimerMoves ==
  ASSUME Typed, ResetFires \/ StopPolling PROVE UserMove
<1>1. CASE ResetFires
  <2> DEFINE nv == [view EXCEPT !.timers = @ - 1, !.step = "form", !.made = 0]
  <2>1. view.timers \in Nat /\ view.timers > 0 /\ view.timers - 1 \in Nat
    BY <1>1 DEF ResetFires, Typed, View
  <2>2. /\ nv \in View /\ nv.dialog = view.dialog /\ nv.target = view.target
        /\ nv.lock = view.lock /\ nv.base = view.base /\ nv.switches = view.switches
        /\ nv.made = 0 /\ nv.timers = view.timers - 1
    BY <2>1 DEF Typed, View
  <2>3. Clicks(nv)
    BY <1>1, <2>1, <2>2 DEF Clicks, ResetFires
  <2>4. QED
    BY <2>2, <2>3 DEF UserMove
<1>2. CASE StopPolling
  <2> DEFINE nv == [view EXCEPT !.queued = FALSE]
  <2>1. /\ nv \in View /\ nv.dialog = view.dialog /\ nv.target = view.target
        /\ nv.lock = view.lock /\ nv.base = view.base /\ nv.switches = view.switches
        /\ nv.made = view.made /\ nv.timers = view.timers /\ nv.step = view.step
    BY DEF Typed, View
  <2>2. Clicks(nv)
    BY <1>2, <2>1 DEF Clicks, StopPolling
  <2>3. QED
    BY <2>1, <2>2 DEF UserMove
<1>3. QED
  BY <1>1, <1>2

\* the user follows a link
Follows(p) == p \in Place /\ p # "login" /\ Visit(p) /\ Here(place) /\ place # "login"

(* Every step of the user is a move, a link or one of the session's own.   *)
LEMMA UserMoves ==
  ASSUME Typed, RowsKnown, UserSteps
  PROVE  \/ UserMove \/ \E p \in Place : Follows(p)
         \/ SignOut \/ SubmitLogin \/ SubmitSignup \/ ToggleSwitch
<1>1. CASE Follow
  BY <1>1 DEF Follow, Follows, Typed, Bounds
<1>2. CASE EditTemplate
  BY <1>2, PlaceNames DEF EditTemplate, Follows, TemplateTable, Ready, Here
<1>3. CASE SessionSteps
  BY <1>3, SettingsMoves DEF SessionSteps
<1>4. QED
  BY <1>1, <1>2, <1>3, KeyMoves, McpMoves, TeamMoves, WebhookMoves, SuppressionMoves,
     DomainMoves, ProviderMoves, RoutingMoves, TemplateMoves DEF UserSteps

-----------------------------------------------------------------------------
(***************************************************************************)
(* Handlers go on after their await.                                       *)
(***************************************************************************)
\* a handler goes on after its await
Finishes(c, nv) ==
  /\ Finish(c, nv) /\ Continues(c) /\ nv \in View
  /\ calls[c].op \notin {"login", "signup", "delete_account"}
  /\ nv.base = view.base /\ nv.timers = view.timers
  /\ IF calls[c].op \in DOMAIN Saves THEN HandleSwitch(c) ELSE nv.switches = view.switches
  /\ \/ nv.dialog = view.dialog /\ nv.target = view.target
     \/ nv.dialog = "none" /\ view.dialog \notin {"create_key", "create_mcp", "invite"}
  /\ \/ nv.made = view.made
     \/ calls[c].op \in SecretOps /\ calls[c].pc = "won" /\ nv.made = c
  /\ nv.step = view.step \/ nv.step = "created" \/ calls[c].op = "connect"
  /\ calls[c].pc = "won" =>
       /\ calls[c].op # "send_email"
       /\ calls[c].op = "create_template" => ~(Mounted(c) /\ Latest(c))
       /\ calls[c].op \in {"create_key", "create_mcp"} => nv.made = c /\ nv.step = "created"
       /\ calls[c].op = "invite" /\ Latest(c) => nv.made = c
       /\ calls[c].op \in DOMAIN Form \ SecretOps => nv.dialog # Form[calls[c].op]

\* a handler goes to another page
Returns(c, p) ==
  /\ RouteFrom(c, p) /\ calls[c].pc = "won"
  /\ \/ calls[c].op = "send_email" /\ p = "campaigns"
     \/ calls[c].op \in {"update_template", "create_template"} /\ p = "templates" /\ Mounted(c)

HandlerMove(c) == (\E nv \in View : Finishes(c, nv)) \/ \E p \in Place : Returns(c, p)

\* the handlers of what shows no form leave the view to the forms
LEMMA FinishPlain ==
  ASSUME Typed, NEW c \in DOMAIN calls, Continues(c), NEW nv, SameForms(nv), Finish(c, nv),
         calls[c].op \notin {"login", "signup", "delete_account"} \union DOMAIN Form \union DOMAIN Saves,
         calls[c].op = "send_email" => calls[c].pc # "won",
         calls[c].op = "create_template" => ~SavedHere(c)
  PROVE  HandlerMove(c)
<1>1. nv \in View
  BY DEF SameForms
<1>2. Finishes(c, nv)
  BY OpNames DEF Finishes, SameForms, SavedHere
<1>3. QED
  BY <1>1, <1>2 DEF HandlerMove

\* the handlers that close their dialog
LEMMA FinishClosing ==
  ASSUME Typed, NEW c \in DOMAIN calls, Continues(c),
         calls[c].op \notin {"login", "signup", "delete_account", "create_key", "create_mcp",
                             "invite", "send_email", "create_template"} \union DOMAIN Saves,
         NEW d, d \notin {"none", "create_key", "create_mcp", "invite"},
         calls[c].op \in DOMAIN Form \ SecretOps => d = Form[calls[c].op],
         Finish(c, IF calls[c].pc = "won" /\ view.dialog = d THEN Closed ELSE view)
  PROVE  HandlerMove(c)
<1> DEFINE nv == IF calls[c].pc = "won" /\ view.dialog = d THEN Closed ELSE view
<1>1. /\ Closed \in View /\ Closed.dialog = "none" /\ Closed.base = view.base
      /\ Closed.switches = view.switches /\ Closed.made = view.made
      /\ Closed.timers = view.timers /\ Closed.step = view.step
  BY ClosedIs
<1>2. /\ nv \in View
      /\ nv.base = view.base /\ nv.timers = view.timers /\ nv.switches = view.switches
      /\ nv.made = view.made /\ nv.step = view.step
      /\ \/ nv.dialog = view.dialog /\ nv.target = view.target
         \/ nv.dialog = "none" /\ view.dialog \notin {"create_key", "create_mcp", "invite"}
      /\ calls[c].pc = "won" => nv.dialog # d
  BY <1>1 DEF Typed
<1>3. Finishes(c, nv)
  BY <1>2 DEF Finishes
<1>4. QED
  BY <1>2, <1>3 DEF HandlerMove

\* the handlers that show a secret
LEMMA FinishMaking ==
  ASSUME Typed, NEW c \in DOMAIN calls, Continues(c),
         \/ /\ calls[c].op \in {"create_key", "create_mcp"}
            /\ Finish(c, IF calls[c].pc = "won" THEN [view EXCEPT !.made = c, !.step = "created"] ELSE view)
         \/ /\ calls[c].op = "invite"
            /\ FinishLatest(c, IF calls[c].pc = "won" THEN [view EXCEPT !.made = c] ELSE view)
  PROVE  HandlerMove(c)
<1> USE OpNames
<1>1. view \in View /\ c \in Nat
  BY DEF Typed
<1>2. CASE calls[c].op \in {"create_key", "create_mcp"}
  <2> DEFINE nv == IF calls[c].pc = "won" THEN [view EXCEPT !.made = c, !.step = "created"] ELSE view
  <2>1. /\ nv \in View /\ nv.base = view.base /\ nv.timers = view.timers
        /\ nv.switches = view.switches /\ nv.dialog = view.dialog /\ nv.target = view.target
        /\ calls[c].pc = "won" => nv.made = c /\ nv.step = "created"
        /\ calls[c].pc # "won" => nv.made = view.made /\ nv.step = view.step
    BY <1>1 DEF View
  <2>2. Finishes(c, nv)
    BY <1>2, <2>1 DEF Finishes, SecretOps
  <2>3. QED
    BY <2>1, <2>2 DEF HandlerMove
<1>3. CASE calls[c].op = "invite"
  <2> DEFINE nv == IF Latest(c) THEN IF calls[c].pc = "won" THEN [view EXCEPT !.made = c] ELSE view
                   ELSE view
  <2>1. /\ nv \in View /\ nv.base = view.base /\ nv.timers = view.timers
        /\ nv.switches = view.switches /\ nv.dialog = view.dialog /\ nv.target = view.target
        /\ nv.step = view.step
        /\ calls[c].pc = "won" /\ Latest(c) => nv.made = c
        /\ calls[c].pc # "won" \/ ~Latest(c) => nv.made = view.made
    BY <1>1 DEF View
  <2>2. Finishes(c, nv)
    BY <1>3, <2>1 DEF Finishes, SecretOps, FinishLatest
  <2>3. QED
    BY <2>1, <2>2 DEF HandlerMove
<1>4. QED
  BY <1>2, <1>3

LEMMA ViewFields ==
  ASSUME Typed
  PROVE  /\ SameForms([view EXCEPT !.confirm = None]) /\ SameForms([view EXCEPT !.toggling = None])
         /\ SameForms([view EXCEPT !.lock = None]) /\ SameForms([view EXCEPT !.queued = TRUE])
<1> USE DEF Typed, View, SameForms
<1>1. SameForms([view EXCEPT !.confirm = None])
  OBVIOUS
<1>2. SameForms([view EXCEPT !.toggling = None])
  OBVIOUS
<1>3. SameForms([view EXCEPT !.lock = None])
  BY DEF Signed
<1>4. SameForms([view EXCEPT !.queued = TRUE])
  OBVIOUS
<1>5. QED
  BY <1>1, <1>2, <1>3, <1>4

LEMMA HandlerMoves ==
  ASSUME Typed, Shapes, Handlers
  PROVE  \E c \in DOMAIN calls : HandlerMove(c) \/ HandleCredentials(c) \/ HandleDeleteProject(c)
<1> USE OpNames
<1>1. SUFFICES ASSUME NEW c \in DOMAIN calls,
                      \/ KeyHandlers(c) \/ McpHandlers(c) \/ TeamHandlers(c)
                      \/ WebhookHandlers(c) \/ SuppressionHandlers(c) \/ DomainHandlers(c)
                      \/ ProviderHandlers(c) \/ RoutingHandlers(c) \/ TemplateHandlers(c)
                      \/ HandleSaveProfile(c) \/ HandleSwitch(c)
               PROVE  HandlerMove(c)
  BY DEF Handlers, SessionHandlers
<1>2. SameForms(view) /\ SameForms([view EXCEPT !.confirm = None])
      /\ SameForms([view EXCEPT !.lock = None]) /\ SameForms([view EXCEPT !.toggling = None])
      /\ SameForms([view EXCEPT !.queued = TRUE])
  BY SameView, ViewFields
<1>3. CASE KeyHandlers(c)
  <2>1. CASE HandleCreateKey(c)
    BY <2>1, FinishMaking DEF HandleCreateKey
  <2>2. CASE HandleRevokeKey(c)
    BY <2>2, FinishClosing DEF HandleRevokeKey, CloseWhenWon
  <2>3. CASE HandleDeleteKey(c)
    BY <1>2, <2>3, FinishPlain DEF HandleDeleteKey, StopAsking
  <2>4. QED
    BY <1>3, <2>1, <2>2, <2>3 DEF KeyHandlers
<1>4. CASE McpHandlers(c)
  <2>1. CASE HandleCreateMcp(c)
    BY <2>1, FinishMaking DEF HandleCreateMcp
  <2>2. CASE HandleDeleteMcp(c)
    BY <2>2, FinishClosing DEF HandleDeleteMcp, CloseWhenWon
  <2>3. QED
    BY <1>4, <2>1, <2>2 DEF McpHandlers
<1>5. CASE TeamHandlers(c)
  <2>1. CASE HandleInvite(c)
    BY <2>1, FinishMaking DEF HandleInvite
  <2>2. CASE HandleRemove(c)
    <3>1. CASE Latest(c)
      BY <2>2, <3>1, FinishClosing DEF HandleRemove, FinishLatest
    <3>2. CASE ~Latest(c)
      BY <1>2, <2>2, <3>2, FinishPlain DEF HandleRemove, FinishLatest
    <3>3. QED
      BY <3>1, <3>2
  <2>3. CASE HandleToast(c)
    <3>1. Finish(c, view)
      BY <2>3 DEF HandleToast, FinishLatest
    <3>2. QED
      BY <1>2, <2>3, <3>1, FinishPlain DEF HandleToast
  <2>4. QED
    BY <1>5, <2>1, <2>2, <2>3 DEF TeamHandlers
<1>6. CASE WebhookHandlers(c)
  <2>1. CASE HandleCreateWebhook(c)
    BY <2>1, FinishClosing DEF HandleCreateWebhook, CloseWhenWon, Form
  <2>2. CASE HandleUpdateWebhook(c)
    BY <2>2, FinishClosing DEF HandleUpdateWebhook, CloseWhenWon
  <2>3. CASE HandleToggleWebhook(c)
    BY <1>2, <2>3, FinishPlain DEF HandleToggleWebhook
  <2>4. CASE HandleDeleteWebhook(c)
    BY <1>2, <2>4, FinishPlain DEF HandleDeleteWebhook, StopAsking
  <2>5. CASE HandleTest(c)
    BY <1>2, <2>5, FinishPlain DEF HandleTest
  <2>6. QED
    BY <1>6, <2>1, <2>2, <2>3, <2>4, <2>5 DEF WebhookHandlers
<1>7. CASE SuppressionHandlers(c)
  <2>1. CASE HandleAddSuppression(c)
    BY <2>1, FinishClosing DEF HandleAddSuppression, CloseWhenWon, Form
  <2>2. CASE HandleDeleteSuppression(c)
    BY <1>2, <2>2, FinishPlain DEF HandleDeleteSuppression, StopAsking
  <2>3. QED
    BY <1>7, <2>1, <2>2 DEF SuppressionHandlers
<1>8. CASE DomainHandlers(c)
  <2>1. CASE HandleAddDomain(c)
    BY <2>1, FinishClosing DEF HandleAddDomain, CloseWhenWon, Form
  <2>2. CASE HandleVerifyDomain(c)
    BY <1>2, <2>2, FinishPlain DEF HandleVerifyDomain
  <2>3. CASE HandleDeleteDomain(c)
    BY <1>2, <2>3, FinishPlain DEF HandleDeleteDomain, StopAsking
  <2>4. CASE HandleRecheck(c)
    BY <1>2, <2>4, FinishPlain DEF HandleRecheck
  <2>5. QED
    BY <1>8, <2>1, <2>2, <2>3, <2>4 DEF DomainHandlers
<1>9. CASE ProviderHandlers(c)
  <2>1. CASE HandleConnect(c)
    <3> DEFINE nv == IF calls[c].pc # "won" \/ calls[c].state = "off" THEN view
                     ELSE IF view.dialog = "connect" THEN [Closed EXCEPT !.step = "form"]
                     ELSE [view EXCEPT !.step = "form"]
    <3>1. Finish(c, nv) /\ calls[c].op = "connect" /\ Continues(c)
      BY <2>1 DEF HandleConnect
    <3>2. \/ nv = view \/ nv = [view EXCEPT !.step = "form"]
          \/ view.dialog = "connect" /\ nv = [Closed EXCEPT !.step = "form"]
      OBVIOUS
    <3> HIDE DEF nv
    <3>3. /\ nv \in View /\ nv.base = view.base /\ nv.timers = view.timers
          /\ nv.switches = view.switches /\ nv.made = view.made
          /\ \/ nv.dialog = view.dialog /\ nv.target = view.target
             \/ nv.dialog = "none" /\ view.dialog = "connect"
      <4>1. CASE nv = view
        BY <4>1 DEF Typed
      <4>2. CASE nv = [view EXCEPT !.step = "form"]
        BY <4>2 DEF Typed, View
      <4>3. CASE view.dialog = "connect" /\ nv = [Closed EXCEPT !.step = "form"]
        <5>1. /\ Closed \in View /\ Closed.dialog = "none" /\ Closed.base = view.base
              /\ Closed.switches = view.switches /\ Closed.made = view.made
              /\ Closed.timers = view.timers
          BY ClosedIs
        <5>2. QED
          BY <4>3, <5>1 DEF View
      <4>4. QED
        BY <3>2, <4>1, <4>2, <4>3
    <3>4. Finishes(c, nv)
      BY <3>1, <3>3 DEF Finishes
    <3>5. QED
      BY <3>3, <3>4 DEF HandlerMove
  <2>2. CASE HandleVerifyProvider(c)
    BY <1>2, <2>2, FinishPlain DEF HandleVerifyProvider
  <2>3. CASE HandleToggleProvider(c)
    BY <1>2, <2>3, FinishPlain DEF HandleToggleProvider
  <2>4. CASE HandleDeleteProvider(c)
    <3> DEFINE nv == [view EXCEPT !.confirm = IF @ # None /\ Lists("providers", @, {"on", "off"})
                                              THEN @ ELSE None]
    <3>1. SameForms(nv)
      <4>1. view.confirm \in Ids \union {None}
        BY DEF Typed, View
      <4>2. QED
        BY <4>1, ConfirmMove
    <3>2. QED
      BY <2>4, <3>1, FinishPlain DEF HandleDeleteProvider
  <2>5. QED
    BY <1>9, <2>1, <2>2, <2>3, <2>4 DEF ProviderHandlers
<1>10. CASE RoutingHandlers(c)
  <2>1. CASE HandleAddRule(c)
    BY <2>1, FinishClosing DEF HandleAddRule, CloseWhenWon, Form
  <2>2. CASE HandleDeleteRule(c)
    BY <1>2, <2>2, FinishPlain DEF HandleDeleteRule, StopAsking
  <2>3. CASE HandleResync(c)
    BY <1>2, <2>3, FinishPlain DEF HandleResync
  <2>4. CASE HandleSaveSecret(c)
    BY <1>2, <2>4, FinishPlain DEF HandleSaveSecret
  <2>5. QED
    BY <1>10, <2>1, <2>2, <2>3, <2>4 DEF RoutingHandlers
<1>11. CASE TemplateHandlers(c)
  <2>1. CASE HandleDuplicate(c) \/ HandleGenerate(c)
    <3>1. Finish(c, view)
      BY <2>1 DEF HandleDuplicate, HandleGenerate, FinishLatest
    <3>2. QED
      BY <1>2, <2>1, <3>1, FinishPlain DEF HandleDuplicate, HandleGenerate
  <2>2. CASE HandleDeleteTemplate(c)
    <3>1. CASE Latest(c)
      BY <2>2, <3>1, FinishClosing DEF HandleDeleteTemplate, FinishLatest
    <3>2. CASE ~Latest(c)
      BY <1>2, <2>2, <3>2, FinishPlain DEF HandleDeleteTemplate, FinishLatest
    <3>3. QED
      BY <3>1, <3>2
  <2>3. CASE HandleSaveTemplate(c)
    <3>1. CASE SavedHere(c)
      <4>1. Returns(c, "templates")
        BY <2>3, <3>1 DEF HandleSaveTemplate, SavedHere, Returns
      <4>2. QED
        BY <4>1, PlaceNames DEF HandlerMove
    <3>2. CASE ~SavedHere(c)
      BY <1>2, <2>3, <3>2, FinishPlain DEF HandleSaveTemplate
    <3>3. QED
      BY <3>1, <3>2
  <2>4. CASE HandleSend(c)
    <3>1. CASE calls[c].pc = "won"
      <4>1. Returns(c, "campaigns")
        BY <2>4, <3>1 DEF HandleSend, Returns
      <4>2. QED
        BY <4>1, PlaceNames DEF HandlerMove
    <3>2. CASE calls[c].pc # "won"
      BY <1>2, <2>4, <3>2, FinishPlain DEF HandleSend
    <3>3. QED
      BY <3>1, <3>2
  <2>5. QED
    BY <1>11, <2>1, <2>2, <2>3, <2>4 DEF TemplateHandlers
<1>12. CASE HandleSaveProfile(c)
  BY <1>2, <1>12, FinishPlain DEF HandleSaveProfile
<1>13. CASE HandleSwitch(c)
  <2> DEFINE nv == IF ~Mounted(c) \/ calls[c].pc = "won" THEN view
                   ELSE [view EXCEPT !.switches = RolledBack(c)]
  <2>1. Mounted(c) => RolledBack(c) \in SUBSET Switch
    BY <1>13 DEF HandleSwitch, Shapes, Shape, Typed, View, RolledBack, Saves, Switch
  <2>2. /\ nv \in View /\ nv.base = view.base /\ nv.timers = view.timers
        /\ nv.dialog = view.dialog /\ nv.target = view.target
        /\ nv.made = view.made /\ nv.step = view.step
    <3>1. CASE ~Mounted(c) \/ calls[c].pc = "won"
      BY <3>1 DEF Typed
    <3>2. CASE Mounted(c) /\ calls[c].pc # "won"
      BY <2>1, <3>2, SwitchesView
    <3>3. QED
      BY <3>1, <3>2
  <2>3. Finish(c, nv)
    BY <1>13 DEF HandleSwitch, Finish
  <2>4. Finishes(c, nv)
    BY <1>13, <2>2, <2>3 DEF Finishes, HandleSwitch
  <2>5. QED
    BY <2>2, <2>4 DEF HandlerMove
<1>14. QED
  BY <1>1, <1>3, <1>4, <1>5, <1>6, <1>7, <1>8, <1>9, <1>10, <1>11, <1>12, <1>13

-----------------------------------------------------------------------------
(***************************************************************************)
(* What the steps make of the calls.                                       *)
(***************************************************************************)
Fixed(d) ==
  /\ calls'[d].op = calls[d].op /\ calls'[d].table = calls[d].table
  /\ calls'[d].id = calls[d].id /\ calls'[d].acct = calls[d].acct
  /\ calls'[d].set = calls[d].set /\ calls'[d].was = calls[d].was
  /\ calls'[d].crowded = calls[d].crowded
  /\ calls'[d].opening = calls[d].opening /\ calls'[d].visit = calls[d].visit
  /\ calls'[d].reset = calls[d].reset

\* what the server made of a call
SameMade(d) == /\ calls'[d].rev = calls[d].rev /\ calls'[d].state = calls[d].state
               /\ calls'[d].made = calls[d].made

\* what the page made of it
SameHere(d) == /\ calls'[d].won = calls[d].won /\ calls'[d].followed = calls[d].followed
               /\ calls'[d].dismissed = calls[d].dismissed

\* the calls stay, each changed in some fields
Stay == /\ calls' \in Seq(Call) /\ DOMAIN calls' = DOMAIN calls /\ Len(calls') = Len(calls)
        /\ \A d \in DOMAIN calls : Fixed(d)

Only(c) == \A d \in DOMAIN calls : d # c => calls'[d] = calls[d]

LEMMA Put ==
  ASSUME Typed, NEW c \in DOMAIN calls, NEW r \in Call, calls' = [calls EXCEPT ![c] = r]
  PROVE  /\ calls' \in Seq(Call) /\ DOMAIN calls' = DOMAIN calls /\ Len(calls') = Len(calls)
         /\ Only(c) /\ calls'[c] = r
  BY DEF Typed, Only

LEMMA Mapped ==
  ASSUME Typed, NEW g \in [DOMAIN calls -> Call]
  PROVE  g \in Seq(Call) /\ DOMAIN g = DOMAIN calls /\ Len(g) = Len(calls)
<1>1. DOMAIN calls = 1..Len(calls) /\ Len(calls) \in Nat
  BY DEF Typed
<1>2. QED
  BY <1>1

LEMMA CallOf == ASSUME Typed, NEW c \in DOMAIN calls PROVE calls[c] \in Call
  BY DEF Typed

LEMMA OnlyFixed ==
  ASSUME calls' \in Seq(Call), DOMAIN calls' = DOMAIN calls, Len(calls') = Len(calls),
         NEW c \in DOMAIN calls, Only(c), Fixed(c)
  PROVE  Stay
  BY DEF Only, Stay, Fixed

LEMMA OverPC == "over" \in CallPC
  BY DEF CallPC

LEMMA OverEffect ==
  ASSUME Typed, NEW c \in DOMAIN calls, calls' = Over(c)
  PROVE  /\ Stay /\ Only(c) /\ SameMade(c)
         /\ calls'[c].pc = "over" /\ (calls'[c].won <=> calls[c].pc = "won")
         /\ calls'[c].followed = calls[c].followed
         /\ calls'[c].dismissed = calls[c].dismissed
         /\ calls'[c].unheard = calls[c].unheard /\ calls'[c].waits = calls[c].waits
<1> DEFINE r == [calls[c] EXCEPT !.pc = "over", !.won = (calls[c].pc = "won")]
<1>1. calls[c] \in Call
  BY CallOf
<1>2. r \in Call
  BY <1>1, OverPC DEF Call
<1>3. calls' = [calls EXCEPT ![c] = r]
  BY DEF Over
<1>4. calls' \in Seq(Call) /\ DOMAIN calls' = DOMAIN calls /\ Len(calls') = Len(calls)
      /\ Only(c) /\ calls'[c] = r
  BY <1>2, <1>3, Put
<1>5. Fixed(c)
  BY <1>1, <1>4 DEF Call, Fixed
<1>6. Stay
  BY <1>4, <1>5, OnlyFixed
<1>7. QED
  BY <1>1, <1>4, <1>6 DEF Call, SameMade

LEMMA FollowEffect ==
  ASSUME Typed, NEW c \in DOMAIN calls, calls' = [Over(c) EXCEPT ![c].followed = TRUE]
  PROVE  /\ Stay /\ Only(c) /\ SameMade(c)
         /\ calls'[c].pc = "over" /\ (calls'[c].won <=> calls[c].pc = "won")
         /\ calls'[c].dismissed = calls[c].dismissed
         /\ calls'[c].unheard = calls[c].unheard /\ calls'[c].waits = calls[c].waits
<1> DEFINE r == [calls[c] EXCEPT !.pc = "over", !.won = (calls[c].pc = "won"), !.followed = TRUE]
<1>1. calls[c] \in Call
  BY CallOf
<1>2. r \in Call
  BY <1>1, OverPC DEF Call
<1>3. calls' = [calls EXCEPT ![c] = r]
  BY DEF Over
<1>4. calls' \in Seq(Call) /\ DOMAIN calls' = DOMAIN calls /\ Len(calls') = Len(calls)
      /\ Only(c) /\ calls'[c] = r
  BY <1>2, <1>3, Put, ZenonT(60)
<1>5. Fixed(c)
  BY <1>1, <1>4 DEF Call, Fixed
<1>6. Stay
  BY <1>4, <1>5, OnlyFixed
<1>7. QED
  BY <1>1, <1>4, <1>6 DEF Call, SameMade

LEMMA PcEffect ==
  ASSUME Typed, NEW c \in DOMAIN calls, NEW p \in CallPC, calls' = [calls EXCEPT ![c].pc = p]
  PROVE  /\ Stay /\ Only(c) /\ SameMade(c) /\ SameHere(c)
         /\ calls'[c].pc = p
         /\ calls'[c].unheard = calls[c].unheard /\ calls'[c].waits = calls[c].waits
<1> DEFINE r == [calls[c] EXCEPT !.pc = p]
<1>1. calls[c] \in Call
  BY CallOf
<1>2. r \in Call
  BY <1>1 DEF Call
<1>3. calls' = [calls EXCEPT ![c] = r]
  OBVIOUS
<1>4. calls' \in Seq(Call) /\ DOMAIN calls' = DOMAIN calls /\ Len(calls') = Len(calls)
      /\ Only(c) /\ calls'[c] = r
  BY <1>2, <1>3, Put
<1>5. Fixed(c)
  BY <1>1, <1>4 DEF Call, Fixed
<1>6. Stay
  BY <1>4, <1>5, OnlyFixed
<1>7. QED
  BY <1>1, <1>4, <1>6 DEF Call, SameMade, SameHere

LEMMA LoseEffect ==
  ASSUME Typed, NEW c \in DOMAIN calls, NEW b \in BOOLEAN,
         calls' = [calls EXCEPT ![c].pc = "lost", ![c].unheard = b]
  PROVE  /\ Stay /\ Only(c) /\ SameMade(c) /\ SameHere(c)
         /\ calls'[c].pc = "lost" /\ calls'[c].unheard = b
         /\ calls'[c].waits = calls[c].waits
<1> DEFINE r == [calls[c] EXCEPT !.pc = "lost", !.unheard = b]
<1>1. calls[c] \in Call
  BY CallOf
<1>2. r \in Call
  BY <1>1 DEF Call, CallPC
<1>3. calls' = [calls EXCEPT ![c] = r]
  OBVIOUS
<1>4. calls' \in Seq(Call) /\ DOMAIN calls' = DOMAIN calls /\ Len(calls') = Len(calls)
      /\ Only(c) /\ calls'[c] = r
  BY <1>2, <1>3, Put
<1>5. Fixed(c)
  BY <1>1, <1>4 DEF Call, Fixed
<1>6. Stay
  BY <1>4, <1>5, OnlyFixed
<1>7. QED
  BY <1>1, <1>4, <1>6 DEF Call, SameMade, SameHere

LEMMA AnswerEffect ==
  ASSUME Typed, NEW c \in DOMAIN calls, NEW w \in SUBSET Table, NEW p \in CallPC,
         calls' = [calls EXCEPT ![c].waits = w, ![c].pc = p]
  PROVE  /\ Stay /\ Only(c) /\ SameMade(c) /\ SameHere(c)
         /\ calls'[c].pc = p /\ calls'[c].waits = w
         /\ calls'[c].unheard = calls[c].unheard
<1> DEFINE r == [calls[c] EXCEPT !.waits = w, !.pc = p]
<1>1. calls[c] \in Call
  BY CallOf
<1>2. r \in Call
  BY <1>1 DEF Call
<1>3. calls' = [calls EXCEPT ![c] = r]
  OBVIOUS
<1>4. calls' \in Seq(Call) /\ DOMAIN calls' = DOMAIN calls /\ Len(calls') = Len(calls)
      /\ Only(c) /\ calls'[c] = r
  BY <1>2, <1>3, Put
<1>5. Fixed(c)
  BY <1>1, <1>4 DEF Call, Fixed
<1>6. Stay
  BY <1>4, <1>5, OnlyFixed
<1>7. QED
  BY <1>1, <1>4, <1>6 DEF Call, SameMade, SameHere

LEMMA CreateEffect ==
  ASSUME Typed, NEW c \in DOMAIN calls, NEW p \in CallPC, NEW i \in Ids, NEW s \in RowState,
         calls' = [calls EXCEPT ![c].pc = p, ![c].made = i, ![c].state = s]
  PROVE  /\ Stay /\ Only(c) /\ SameHere(c)
         /\ calls'[c].pc = p /\ calls'[c].made = i /\ calls'[c].rev = calls[c].rev
         /\ calls'[c].unheard = calls[c].unheard /\ calls'[c].waits = calls[c].waits
<1> DEFINE r == [calls[c] EXCEPT !.pc = p, !.made = i, !.state = s]
<1>1. calls[c] \in Call
  BY CallOf
<1>2. r \in Call
  BY <1>1 DEF Call
<1>3. calls' = [calls EXCEPT ![c] = r]
  OBVIOUS
<1>4. calls' \in Seq(Call) /\ DOMAIN calls' = DOMAIN calls /\ Len(calls') = Len(calls)
      /\ Only(c) /\ calls'[c] = r
  BY <1>2, <1>3, Put
<1>5. Fixed(c)
  BY <1>1, <1>4 DEF Call, Fixed
<1>6. Stay
  BY <1>4, <1>5, OnlyFixed
<1>7. QED
  BY <1>1, <1>4, <1>6 DEF Call, SameHere

LEMMA ChangeEffect ==
  ASSUME Typed, NEW c \in DOMAIN calls, NEW p \in CallPC, NEW n \in Nat,
         calls' = [calls EXCEPT ![c].pc = p, ![c].rev = n]
  PROVE  /\ Stay /\ Only(c) /\ SameHere(c)
         /\ calls'[c].pc = p /\ calls'[c].rev = n /\ calls'[c].made = calls[c].made
         /\ calls'[c].unheard = calls[c].unheard /\ calls'[c].waits = calls[c].waits
<1> DEFINE r == [calls[c] EXCEPT !.pc = p, !.rev = n]
<1>1. calls[c] \in Call
  BY CallOf
<1>2. r \in Call
  BY <1>1 DEF Call
<1>3. calls' = [calls EXCEPT ![c] = r]
  OBVIOUS
<1>4. calls' \in Seq(Call) /\ DOMAIN calls' = DOMAIN calls /\ Len(calls') = Len(calls)
      /\ Only(c) /\ calls'[c] = r
  BY <1>2, <1>3, Put
<1>5. Fixed(c)
  BY <1>1, <1>4 DEF Call, Fixed
<1>6. Stay
  BY <1>4, <1>5, OnlyFixed
<1>7. QED
  BY <1>1, <1>4, <1>6 DEF Call, SameHere

LEMMA SettleEffect ==
  ASSUME Typed, NEW t \in Table, calls' = Settled(t)
  PROVE  /\ Stay
         /\ \A d \in DOMAIN calls :
              /\ SameMade(d) /\ SameHere(d) /\ calls'[d].unheard = calls[d].unheard
              /\ (calls[d].pc = "settling" /\ t \in calls[d].waits) =>
                   /\ calls'[d].waits = calls[d].waits \ {t}
                   /\ calls'[d].pc \in {"won", "settling"}
                   /\ calls'[d].pc = "won" <=> calls'[d].waits = {}
              /\ ~(calls[d].pc = "settling" /\ t \in calls[d].waits) =>
                   calls'[d].waits = calls[d].waits /\ calls'[d].pc = calls[d].pc
<1>1. ASSUME NEW d \in DOMAIN calls
      PROVE  /\ calls'[d] \in Call /\ Fixed(d)
             /\ SameMade(d) /\ SameHere(d) /\ calls'[d].unheard = calls[d].unheard
             /\ (calls[d].pc = "settling" /\ t \in calls[d].waits) =>
                  /\ calls'[d].waits = calls[d].waits \ {t}
                  /\ calls'[d].pc \in {"won", "settling"}
                  /\ calls'[d].pc = "won" <=> calls'[d].waits = {}
             /\ ~(calls[d].pc = "settling" /\ t \in calls[d].waits) =>
                  calls'[d].waits = calls[d].waits /\ calls'[d].pc = calls[d].pc
  <2>1. calls[d] \in Call
    BY CallOf
  <2>2. CASE calls[d].pc # "settling" \/ t \notin calls[d].waits
    <3>1. calls'[d] = calls[d]
      BY <2>2 DEF Settled
    <3>2. QED
      BY <2>1, <2>2, <3>1 DEF Fixed, SameMade, SameHere
  <2>3. CASE calls[d].pc = "settling" /\ t \in calls[d].waits
    <3> DEFINE w == calls[d].waits \ {t}
               p == IF w = {} THEN "won" ELSE "settling"
               r == [calls[d] EXCEPT !.waits = w, !.pc = p]
    <3>1. calls'[d] = r
      BY <2>3 DEF Settled
    <3>2. w \in SUBSET Table /\ p \in CallPC
      BY <2>1 DEF Call, CallPC
    <3> HIDE DEF w, p
    <3>3. r \in Call /\ r.waits = w /\ r.pc = p
      BY <2>1, <3>2 DEF Call
    <3>4. Fixed(d) /\ SameMade(d) /\ SameHere(d) /\ calls'[d].unheard = calls[d].unheard
      BY <2>1, <3>1 DEF Call, Fixed, SameMade, SameHere
    <3>5. QED
      BY <2>3, <3>1, <3>3, <3>4 DEF w, p
  <2>4. QED
    BY <2>2, <2>3
<1>2. calls' \in Seq(Call) /\ DOMAIN calls' = DOMAIN calls /\ Len(calls') = Len(calls)
  <2>1. calls' \in [DOMAIN calls -> Call]
    <3>1. calls' = [d \in DOMAIN calls |-> calls'[d]]
      BY DEF Settled
    <3>2. QED
      BY <1>1, <3>1
  <2>2. QED
    BY <2>1, Mapped
<1>3. QED
  BY <1>1, <1>2 DEF Stay

LEMMA DismissEffect ==
  ASSUME Typed,
         calls' = [c \in DOMAIN calls |->
                     [calls[c] EXCEPT !.dismissed = @ \/ calls[c].opening = past.opened]]
  PROVE  /\ Stay
         /\ \A d \in DOMAIN calls :
              /\ SameMade(d) /\ calls'[d].unheard = calls[d].unheard
              /\ calls'[d].won = calls[d].won /\ calls'[d].followed = calls[d].followed
              /\ calls'[d].waits = calls[d].waits /\ calls'[d].pc = calls[d].pc
              /\ calls'[d].dismissed <=> calls[d].dismissed \/ calls[d].opening = past.opened
<1>1. ASSUME NEW d \in DOMAIN calls
      PROVE  /\ calls'[d] \in Call /\ Fixed(d)
             /\ SameMade(d) /\ calls'[d].unheard = calls[d].unheard
             /\ calls'[d].won = calls[d].won /\ calls'[d].followed = calls[d].followed
             /\ calls'[d].waits = calls[d].waits /\ calls'[d].pc = calls[d].pc
             /\ calls'[d].dismissed <=> calls[d].dismissed \/ calls[d].opening = past.opened
  <2>1. calls[d] \in Call /\ calls[d].dismissed \in BOOLEAN
    BY CallOf DEF Call
  <2> DEFINE b == calls[d].dismissed \/ calls[d].opening = past.opened
  <2>2. calls'[d] = [calls[d] EXCEPT !.dismissed = b]
    OBVIOUS
  <2>3. b \in BOOLEAN
    OBVIOUS
  <2>4. b <=> calls[d].dismissed \/ calls[d].opening = past.opened
    OBVIOUS
  <2> HIDE DEF b
  <2>5. QED
    BY <2>1, <2>2, <2>3, <2>4 DEF Call, Fixed, SameMade
<1>2. calls' \in Seq(Call) /\ DOMAIN calls' = DOMAIN calls /\ Len(calls') = Len(calls)
  <2>1. calls' = [d \in DOMAIN calls |-> calls'[d]]
    OBVIOUS
  <2>2. calls' \in [DOMAIN calls -> Call]
    BY <1>1, <2>1
  <2>3. QED
    BY <2>2, Mapped
<1>3. QED
  BY <1>1, <1>2 DEF Stay

LEMMA UnloadEffect ==
  ASSUME Typed, Awake, calls' = [c \in DOMAIN calls |-> AfterUnload(c)]
  PROVE  /\ Stay
         /\ \A d \in DOMAIN calls :
              /\ SameMade(d) /\ SameHere(d) /\ calls'[d].waits = calls[d].waits
              /\ calls'[d].pc = IF calls[d].pc \in {"sent", "orphan"} THEN "orphan" ELSE "over"
              /\ calls'[d].unheard <=> \/ calls[d].unheard
                                       \/ calls[d].pc \notin {"sent", "orphan", "over"}
<1>1. ASSUME NEW d \in DOMAIN calls
      PROVE  /\ calls'[d] \in Call /\ Fixed(d)
             /\ SameMade(d) /\ SameHere(d) /\ calls'[d].waits = calls[d].waits
             /\ calls'[d].pc = IF calls[d].pc \in {"sent", "orphan"} THEN "orphan" ELSE "over"
             /\ calls'[d].unheard <=> \/ calls[d].unheard
                                      \/ calls[d].pc \notin {"sent", "orphan", "over"}
  <2>1. calls[d] \in Call /\ calls[d].unheard \in BOOLEAN
    BY CallOf DEF Call
  <2>2. CASE calls[d].pc = "sent"
    <3>1. calls'[d] = [calls[d] EXCEPT !.pc = "orphan"]
      BY <2>2 DEF AfterUnload
    <3>2. QED
      BY <2>1, <2>2, <3>1 DEF Call, CallPC, Fixed, SameMade, SameHere
  <2>3. CASE calls[d].pc = "orphan"
    <3>1. calls'[d] = calls[d]
      BY <2>3 DEF AfterUnload
    <3>2. QED
      BY <2>1, <2>3, <3>1 DEF Fixed, SameMade, SameHere
  <2>4. CASE calls[d].pc \notin {"sent", "orphan"}
    <3> DEFINE b == calls[d].unheard \/ calls[d].pc # "over"
    <3>1. calls'[d] = [calls[d] EXCEPT !.pc = "over", !.unheard = b]
      BY <2>4 DEF AfterUnload
    <3>2. b \in BOOLEAN
      OBVIOUS
    <3>3. QED
      BY <2>1, <2>4, <3>1, <3>2, OverPC, ZenonT(60) DEF Call, Fixed, SameMade, SameHere
  <2>5. QED
    BY <2>2, <2>3, <2>4
<1>2. calls' \in Seq(Call) /\ DOMAIN calls' = DOMAIN calls /\ Len(calls') = Len(calls)
  <2>1. calls' = [d \in DOMAIN calls |-> calls'[d]]
    OBVIOUS
  <2>2. calls' \in [DOMAIN calls -> Call]
    BY <1>1, <2>1
  <2>3. QED
    BY <2>2, Mapped
<1>3. QED
  BY <1>1, <1>2 DEF Stay

LEMMA AppendEffect ==
  ASSUME Typed, NEW n \in Call, calls' = Append(calls, n)
  PROVE  /\ calls' \in Seq(Call) /\ Len(calls') = Len(calls) + 1
         /\ DOMAIN calls' = DOMAIN calls \union {Len(calls) + 1}
         /\ \A d \in DOMAIN calls : calls'[d] = calls[d] /\ d < Len(calls) + 1
         /\ calls'[Len(calls) + 1] = n
  BY DEF Typed

LEMMA NewTyped ==
  ASSUME Typed, NEW op \in Op, NEW t \in Table \union {"session"}, NEW i \in Ids \union {None},
         NEW a \in Signed
  PROVE  NewCall(op, t, i, a) \in Call
<1>1. past.opened \in Nat /\ past.visit \in Nat
  BY DEF Typed, Past
<1>2. (\E c \in DOMAIN calls : Unfinished(c)) \in BOOLEAN /\ (view.timers > 0) \in BOOLEAN
  OBVIOUS
<1>3. QED
  BY <1>1, <1>2 DEF NewCall, Call, CallPC

-----------------------------------------------------------------------------
(***************************************************************************)
(* What the steps make of the cache and of the view.                       *)
(***************************************************************************)
LEMMA StartedIs ==
  ASSUME Typed, NEW q \in Query
  PROVE  /\ Started(q) \in Query
         /\ Started(q).loaded = q.loaded /\ Started(q).data = q.data /\ Started(q).got = {}
         /\ Started(q).as = auth.token /\ Started(q).fetch = "out"
         /\ Started(q).stale = q.stale /\ (Started(q).error <=> q.error /\ q.loaded)
<1>1. auth.token \in Signed /\ q.error \in BOOLEAN /\ q.loaded \in BOOLEAN
  BY DEF Typed, Auth, Query
<1> DEFINE e == q.error /\ q.loaded
           r == [q EXCEPT !.fetch = "out", !.got = {}, !.as = auth.token, !.error = e]
<1>2. e \in BOOLEAN
  BY <1>1
<1>3. Started(q) = r
  BY DEF Started
<1> HIDE DEF e
<1>4. /\ r \in Query
      /\ r.loaded = q.loaded /\ r.data = q.data /\ r.got = {} /\ r.as = auth.token
      /\ r.fetch = "out" /\ r.stale = q.stale /\ r.error = e
  BY <1>1, <1>2 DEF Query
<1>5. QED
  BY <1>3, <1>4 DEF e

LEMMA CacheOf == ASSUME Typed, NEW t \in Table PROVE cache[t] \in Query
  BY DEF Typed

LEMMA NoQueryIs ==
  /\ NoQuery \in Query /\ NoQuery.loaded = FALSE /\ NoQuery.data = {} /\ NoQuery.got = {}
  /\ NoQuery.as = None /\ NoQuery.fetch = "idle" /\ NoQuery.stale = FALSE
  /\ NoQuery.error = FALSE
  BY DEF NoQuery, Query, Signed

LEMMA OnMountIs ==
  ASSUME Typed, NEW q \in Query
  PROVE  /\ OnMount(q) \in Query
         /\ OnMount(q) = q \/ OnMount(q) = Started(q)
         /\ OnMount(q).fetch = "idle" => OnMount(q) = q /\ q.loaded /\ ~q.stale
  BY StartedIs DEF OnMount

LEMMA InvalidatedIs ==
  ASSUME Typed, NEW t \in Table
  PROVE  LET q == Invalidated(t) IN
         /\ q \in Query /\ q.loaded = cache[t].loaded /\ q.data = cache[t].data
         /\ Restarts(t) => /\ q.fetch = "out" /\ q.got = {} /\ q.as = auth.token
                           /\ q.error <=> cache[t].error /\ cache[t].loaded
         /\ ~Restarts(t) => /\ q.fetch = cache[t].fetch /\ q.got = cache[t].got
                            /\ q.as = cache[t].as /\ q.error = cache[t].error
                            /\ q.stale <=> cache[t].stale \/ cache[t].loaded
<1>1. cache[t] \in Query /\ cache[t].stale \in BOOLEAN /\ cache[t].loaded \in BOOLEAN
  BY CacheOf DEF Query
<1>2. CASE Restarts(t)
  <2> DEFINE r == [cache[t] EXCEPT !.stale = TRUE]
  <2>1. /\ r \in Query /\ r.loaded = cache[t].loaded /\ r.data = cache[t].data
        /\ r.error = cache[t].error
    BY <1>1 DEF Query
  <2>2. Invalidated(t) = Started(r)
    BY <1>2 DEF Invalidated
  <2> HIDE DEF r
  <2>3. QED
    BY <1>2, <2>1, <2>2, StartedIs
<1>3. CASE ~Restarts(t)
  <2> DEFINE b == cache[t].stale \/ cache[t].loaded
             r == [cache[t] EXCEPT !.stale = b]
  <2>1. Invalidated(t) = r
    BY <1>3 DEF Invalidated
  <2>2. b \in BOOLEAN /\ (b <=> cache[t].stale \/ cache[t].loaded)
    OBVIOUS
  <2> HIDE DEF b
  <2>3. /\ r \in Query /\ r.loaded = cache[t].loaded /\ r.data = cache[t].data
        /\ r.fetch = cache[t].fetch /\ r.got = cache[t].got
        /\ r.as = cache[t].as /\ r.error = cache[t].error /\ r.stale = b
    BY <1>1, <2>2 DEF Query
  <2>4. QED
    BY <1>3, <2>1, <2>2, <2>3
<1>4. QED
  BY <1>2, <1>3

LEMMA LoadedIs ==
  ASSUME Typed, NEW p \in Place
  PROVE  /\ Loaded(p) \in [Table -> Query]
         /\ \A t \in Table :
              /\ ~Loaded(p)[t].loaded /\ Loaded(p)[t].data = {} /\ Loaded(p)[t].got = {}
              /\ ~Loaded(p)[t].error /\ ~Loaded(p)[t].stale
              /\ IF t \in Mounts[p] \/ (t = "whoami" /\ p # "login" /\ auth.stored = None)
                 THEN Loaded(p)[t].fetch = "out" /\ Loaded(p)[t].as = auth.token
                 ELSE Loaded(p)[t].fetch = "idle"
<1>1. ASSUME NEW t \in Table
      PROVE  /\ Loaded(p)[t] \in Query
             /\ ~Loaded(p)[t].loaded /\ Loaded(p)[t].data = {} /\ Loaded(p)[t].got = {}
             /\ ~Loaded(p)[t].error /\ ~Loaded(p)[t].stale
             /\ IF t \in Mounts[p] \/ (t = "whoami" /\ p # "login" /\ auth.stored = None)
                THEN Loaded(p)[t].fetch = "out" /\ Loaded(p)[t].as = auth.token
                ELSE Loaded(p)[t].fetch = "idle"
  BY NoQueryIs, StartedIs DEF Loaded
<1>2. QED
  BY <1>1 DEF Loaded

\* fetches that end
LEMMA ServedIs ==
  ASSUME Typed, NEW t \in Table, NEW L \in SUBSET Item,
         cache' = [cache EXCEPT ![t].fetch = "back", ![t].got = L]
  PROVE  /\ cache' \in [Table -> Query] /\ \A u \in Table : u # t => cache'[u] = cache[u]
         /\ cache'[t].fetch = "back" /\ cache'[t].got = L /\ cache'[t].data = cache[t].data
         /\ cache'[t].loaded = cache[t].loaded /\ cache'[t].as = cache[t].as
         /\ cache'[t].error = cache[t].error /\ cache'[t].stale = cache[t].stale
<1> DEFINE r == [cache[t] EXCEPT !.fetch = "back", !.got = L]
<1>1. r \in Query
  BY CacheOf DEF Query
<1>2. cache' = [cache EXCEPT ![t] = r]
  BY DEF Typed
<1>3. QED
  BY <1>1, <1>2, CacheOf DEF Typed, Query

LEMMA FailedIs ==
  ASSUME Typed, NEW t \in Table,
         cache' = [cache EXCEPT ![t].fetch = "idle", ![t].error = TRUE, ![t].stale = TRUE]
  PROVE  /\ cache' \in [Table -> Query] /\ \A u \in Table : u # t => cache'[u] = cache[u]
         /\ cache'[t].fetch = "idle" /\ cache'[t].got = cache[t].got
         /\ cache'[t].data = cache[t].data
         /\ cache'[t].loaded = cache[t].loaded /\ cache'[t].as = cache[t].as
         /\ cache'[t].error = TRUE /\ cache'[t].stale = TRUE
<1> DEFINE r == [cache[t] EXCEPT !.fetch = "idle", !.error = TRUE, !.stale = TRUE]
<1>1. r \in Query
  BY CacheOf DEF Query
<1>2. cache' = [cache EXCEPT ![t] = r]
  BY DEF Typed
<1>3. QED
  BY <1>1, <1>2, CacheOf DEF Typed, Query

LEMMA ArrivedIs ==
  ASSUME Typed, NEW t \in Table,
         cache' = [cache EXCEPT ![t] = [NoQuery EXCEPT !.loaded = TRUE, !.data = cache[t].got,
                                                       !.as = cache[t].as]]
  PROVE  /\ cache' \in [Table -> Query] /\ \A u \in Table : u # t => cache'[u] = cache[u]
         /\ cache'[t].fetch = "idle" /\ cache'[t].got = {} /\ cache'[t].data = cache[t].got
         /\ cache'[t].loaded /\ cache'[t].as = cache[t].as
         /\ ~cache'[t].error /\ ~cache'[t].stale
<1> DEFINE r == [NoQuery EXCEPT !.loaded = TRUE, !.data = cache[t].got, !.as = cache[t].as]
<1>1. cache[t].got \in SUBSET Item /\ cache[t].as \in Signed
  BY CacheOf DEF Query
<1>2. r \in Query
  BY <1>1, NoQueryIs DEF Query
<1>3. QED
  BY <1>2, NoQueryIs DEF Typed, Query

LEMMA OneStarted ==
  ASSUME Typed, NEW t \in Table, NEW q \in Query, cache' = [cache EXCEPT ![t] = q]
  PROVE  /\ cache' \in [Table -> Query] /\ \A u \in Table : u # t => cache'[u] = cache[u]
         /\ cache'[t] = q
  BY DEF Typed

LEMMA ListingTyped ==
  ASSUME Typed, NEW t, NEW a
  PROVE  /\ Listing(t, a) \in SUBSET Item
         /\ \A x \in Listing(t, a) :
              /\ x.id \in RowsOf(t) /\ x.rev = rows[x.id].rev /\ x.set = rows[x.id].set
              /\ x.state = rows[x.id].state /\ x.state \in Living
              /\ rows[x.id].acct = a
<1>1. ASSUME NEW x \in Listing(t, a)
      PROVE  /\ x \in Item
             /\ x.id \in RowsOf(t) /\ x.rev = rows[x.id].rev /\ x.set = rows[x.id].set
             /\ x.state = rows[x.id].state /\ x.state \in Living
             /\ rows[x.id].acct = a
  <2>1. PICK j \in RowsOf(t) : /\ rows[j].acct = a /\ rows[j].state \in Living
                               /\ x = [id |-> j, state |-> rows[j].state, rev |-> rows[j].rev,
                                       set |-> rows[j].set]
    BY DEF Listing
  <2>2. j \in Ids /\ rows[j] \in Row
    BY DEF RowsOf, Typed
  <2>3. QED
    BY <2>1, <2>2 DEF Item, Row
<1>2. QED
  BY <1>1

\* what mounting and unmounting do to the state of a page
LEMMA RerenderedIs ==
  ASSUME Typed, NEW p \in Place, NEW nv \in View, NEW nc \in [Table -> Query]
  PROVE  LET v == Rerendered(p, nv, nc) IN
         /\ v \in View /\ v.dialog = nv.dialog /\ v.target = nv.target /\ v.made = nv.made
         /\ v.timers = nv.timers /\ v.lock = nv.lock /\ v.step \in {nv.step, "form"}
         /\ v.step = nv.step \/ p = "providers"
         /\ p # "template" => v.base = nv.base
         /\ p = "template" =>
              v.base = IF ~HasForm(nc["template"]) THEN None
                       ELSE IF nv.base # None THEN nv.base ELSE Shown(nc["template"]).rev
         /\ p # "settings" => v.switches = nv.switches
         /\ p = "settings" =>
              v.switches = IF nv.switches = None /\ HasForm(nc["me"]) THEN Shown(nc["me"]).set
                           ELSE nv.switches
<1>1. ASSUME NEW t \in Table, HasForm(nc[t])
      PROVE  Shown(nc[t]).rev \in Nat /\ Shown(nc[t]).set \in SUBSET Switch
  <2>1. nc[t].data # {} /\ nc[t].data \in SUBSET Item
    BY <1>1 DEF HasForm, Query
  <2>2. Shown(nc[t]) \in nc[t].data
    BY <2>1 DEF Shown
  <2>3. QED
    BY <2>1, <2>2 DEF Item
<1>2. CASE p = "template"
  <2> DEFINE b == IF ~HasForm(nc["template"]) THEN None
                  ELSE IF nv.base # None THEN nv.base ELSE Shown(nc["template"]).rev
  <2>1. b \in Nat \union {None}
    BY <1>1, PlaceNames DEF View
  <2>2. Rerendered(p, nv, nc) = [nv EXCEPT !.base = b]
    BY <1>2 DEF Rerendered
  <2> HIDE DEF b
  <2>3. /\ [nv EXCEPT !.base = b] \in View /\ [nv EXCEPT !.base = b].base = b
    BY <2>1 DEF View
  <2>4. QED
    BY <1>2, <2>2, <2>3 DEF b, View
<1>3. CASE p = "settings"
  <2> DEFINE s == IF nv.switches = None /\ HasForm(nc["me"]) THEN Shown(nc["me"]).set
                  ELSE nv.switches
  <2>1. s \in {None} \union SUBSET Switch
    BY <1>1, PlaceNames DEF View
  <2>2. Rerendered(p, nv, nc) = [nv EXCEPT !.switches = s]
    BY <1>3 DEF Rerendered
  <2> HIDE DEF s
  <2>3. /\ [nv EXCEPT !.switches = s] \in View /\ [nv EXCEPT !.switches = s].switches = s
    BY <2>1 DEF View
  <2>4. QED
    BY <1>3, <2>2, <2>3 DEF s, View
<1>4. CASE p \notin {"template", "settings"}
  <2>1. CASE p = "providers" /\ nc["providers"].error
    <3>1. Rerendered(p, nv, nc) = [nv EXCEPT !.step = "form", !.confirm = None, !.queued = FALSE]
      BY <1>4, <2>1 DEF Rerendered
    <3>2. [nv EXCEPT !.step = "form", !.confirm = None, !.queued = FALSE] \in View
      BY DEF View
    <3>3. QED
      BY <1>4, <2>1, <3>1, <3>2 DEF View
  <2>2. CASE ~(p = "providers" /\ nc["providers"].error)
    <3>1. Rerendered(p, nv, nc) = nv
      BY <1>4, <2>2 DEF Rerendered
    <3>2. QED
      BY <1>4, <3>1
  <2>3. QED
    BY <2>1, <2>2
<1>5. QED
  BY <1>2, <1>3, <1>4

LEMMA BlankIs ==
  /\ Blank \in View /\ Blank.dialog = "none" /\ Blank.made = 0 /\ Blank.timers = 0
  /\ Blank.base = None /\ Blank.switches = None /\ Blank.lock = None
  BY Names DEF Blank, View, Signed

-----------------------------------------------------------------------------
(***************************************************************************)
(* What routing, signing in and out and the history make of the rest.      *)
(***************************************************************************)
LEMMA RouteIs ==
  ASSUME Typed, NEW p \in Place, Route(p)
  PROVE  /\ place' = IF auth.cookie THEN p ELSE "login"
         /\ place' \in Place /\ UNCHANGED <<auth, leaving, rows>>
         /\ cache' \in [Table -> Query]
         /\ \A t \in Table : cache'[t] = IF t \in Mounts[place'] \ Mounts[place]
                                         THEN OnMount(cache[t]) ELSE cache[t]
         /\ view' \in View
         /\ place' = place => view' = view /\ past' = past
         /\ place' # place =>
              /\ view' = Rerendered(place', Blank, cache')
              /\ past' \in Past /\ past'.visit = past.visit + 1 /\ past'.opened = past.opened
              /\ past'.missed = past.missed /\ past'.otherTab = past.otherTab
              /\ past'.disturbed = past.disturbed /\ past'.wiped = past.wiped
              /\ view'.dialog = "none" /\ view'.made = 0 /\ view'.timers = 0
              /\ view'.lock = None
<1>1. /\ place' = IF auth.cookie THEN p ELSE "login"
      /\ place' \in Place /\ UNCHANGED <<auth, leaving, rows>>
  BY PlaceNames DEF Route
<1>2. cache' = [t \in Table |-> IF t \in Mounts[place'] \ Mounts[place] THEN OnMount(cache[t])
                                ELSE cache[t]]
  BY <1>1 DEF Route
<1>3. /\ cache' \in [Table -> Query]
      /\ \A t \in Table : cache'[t] = IF t \in Mounts[place'] \ Mounts[place]
                                      THEN OnMount(cache[t]) ELSE cache[t]
  BY <1>2, OnMountIs, CacheOf
<1>4. CASE place' = place
  BY <1>1, <1>3, <1>4 DEF Route, Typed
<1>5. CASE place' # place
  <2>1. view' = Rerendered(place', Blank, cache') /\ past' = [past EXCEPT !.visit = @ + 1]
    BY <1>1, <1>5 DEF Route
  <2>2. /\ past' \in Past /\ past'.visit = past.visit + 1 /\ past'.opened = past.opened
        /\ past'.missed = past.missed /\ past'.otherTab = past.otherTab
        /\ past'.disturbed = past.disturbed /\ past'.wiped = past.wiped
    <3>1. past.visit + 1 \in Nat /\ past \in Past
      BY DEF Typed, Past
    <3>2. past' = [past EXCEPT !.visit = past.visit + 1]
      BY <2>1
    <3>3. QED
      BY <3>1, <3>2 DEF Past
  <2>3. /\ view' \in View /\ view'.dialog = "none" /\ view'.made = 0 /\ view'.timers = 0
        /\ view'.lock = None
    BY <1>1, <1>3, <2>1, BlankIs, RerenderedIs
  <2>4. QED
    BY <1>1, <1>3, <1>5, <2>1, <2>2, <2>3
<1>6. QED
  BY <1>4, <1>5

-----------------------------------------------------------------------------
(***************************************************************************)
(* The parts of the state that few steps touch keep their types.           *)
(***************************************************************************)
LEMMA BudgetTyped ==
  ASSUME Typed
  PROVE  /\ budget.moves > 0 => [budget EXCEPT !.moves = @ - 1] \in Bounds
         /\ budget.fetches > 0 => [budget EXCEPT !.fetches = @ - 1] \in Bounds
         /\ budget.trouble > 0 => [budget EXCEPT !.trouble = @ - 1] \in Bounds
         /\ budget.signs > 0 => [budget EXCEPT !.signs = @ - 1] \in Bounds
<1>1. /\ budget \in Bounds
      /\ budget.moves \in Nat /\ budget.fetches \in Nat /\ budget.trouble \in Nat /\ budget.signs \in Nat
  BY DEF Typed, Bounds
<1>2. ASSUME budget.moves > 0 PROVE [budget EXCEPT !.moves = @ - 1] \in Bounds
  <2>1. budget.moves - 1 \in Nat
    BY <1>1, <1>2
  <2>2. [budget EXCEPT !.moves = budget.moves - 1] \in Bounds
    BY <1>1, <2>1 DEF Bounds
  <2>3. QED
    BY <2>2
<1>3. ASSUME budget.fetches > 0 PROVE [budget EXCEPT !.fetches = @ - 1] \in Bounds
  <2>1. budget.fetches - 1 \in Nat
    BY <1>1, <1>3
  <2>2. [budget EXCEPT !.fetches = budget.fetches - 1] \in Bounds
    BY <1>1, <2>1 DEF Bounds
  <2>3. QED
    BY <2>2
<1>4. ASSUME budget.trouble > 0 PROVE [budget EXCEPT !.trouble = @ - 1] \in Bounds
  <2>1. budget.trouble - 1 \in Nat
    BY <1>1, <1>4
  <2>2. [budget EXCEPT !.trouble = budget.trouble - 1] \in Bounds
    BY <1>1, <2>1 DEF Bounds
  <2>3. QED
    BY <2>2
<1>5. ASSUME budget.signs > 0 PROVE [budget EXCEPT !.signs = @ - 1] \in Bounds
  <2>1. budget.signs - 1 \in Nat
    BY <1>1, <1>5
  <2>2. [budget EXCEPT !.signs = budget.signs - 1] \in Bounds
    BY <1>1, <2>1 DEF Bounds
  <2>3. QED
    BY <2>2
<1>6. QED
  BY <1>2, <1>3, <1>4, <1>5

LEMMA PastIs ==
  ASSUME Typed, NEW S \in SUBSET Table, NEW b \in BOOLEAN
  PROVE  /\ past \in Past /\ past.opened \in Nat /\ past.visit \in Nat
         /\ past.missed \in SUBSET Table
         /\ LET p == [past EXCEPT !.missed = S] IN
              /\ p \in Past /\ p.opened = past.opened /\ p.visit = past.visit
              /\ p.missed = S /\ p.otherTab = past.otherTab
              /\ p.disturbed = past.disturbed /\ p.wiped = past.wiped
         /\ LET p == [past EXCEPT !.wiped = b] IN
              /\ p \in Past /\ p.opened = past.opened /\ p.visit = past.visit
              /\ p.missed = past.missed /\ p.otherTab = past.otherTab
              /\ p.disturbed = past.disturbed /\ p.wiped = b
<1>1. /\ past \in Past /\ past.opened \in Nat /\ past.visit \in Nat
      /\ past.missed \in SUBSET Table
  BY DEF Typed, Past
<1>2. LET p == [past EXCEPT !.missed = S] IN
              /\ p \in Past /\ p.opened = past.opened /\ p.visit = past.visit
              /\ p.missed = S /\ p.otherTab = past.otherTab
              /\ p.disturbed = past.disturbed /\ p.wiped = past.wiped
  BY <1>1 DEF Past
<1>3. LET p == [past EXCEPT !.wiped = b] IN
              /\ p \in Past /\ p.opened = past.opened /\ p.visit = past.visit
              /\ p.missed = past.missed /\ p.otherTab = past.otherTab
              /\ p.disturbed = past.disturbed /\ p.wiped = b
  BY <1>1 DEF Past
<1>4. QED
  BY <1>1, <1>2, <1>3

LEMMA OpenedIs ==
  ASSUME Typed, past' = [past EXCEPT !.opened = @ + 1]
  PROVE  /\ past' \in Past /\ past'.opened = past.opened + 1 /\ past'.visit = past.visit
         /\ past'.missed = past.missed /\ past'.otherTab = past.otherTab
         /\ past'.disturbed = past.disturbed /\ past'.wiped = past.wiped
<1>1. past \in Past /\ past.opened + 1 \in Nat
  BY DEF Typed, Past
<1>2. past' = [past EXCEPT !.opened = past.opened + 1]
  OBVIOUS
<1>3. QED
  BY <1>1, <1>2 DEF Past

LEMMA LoadPast ==
  ASSUME Typed, past' = [past EXCEPT !.visit = @ + 1, !.otherTab = FALSE, !.missed = {}]
  PROVE  /\ past' \in Past /\ past'.opened = past.opened /\ past'.visit = past.visit + 1
         /\ past'.missed = {} /\ past'.otherTab = FALSE
         /\ past'.disturbed = past.disturbed /\ past'.wiped = past.wiped
<1>1. past \in Past /\ past.visit + 1 \in Nat
  BY DEF Typed, Past
<1>2. past' = [past EXCEPT !.visit = past.visit + 1, !.otherTab = FALSE, !.missed = {}]
  OBVIOUS
<1>3. QED
  BY <1>1, <1>2 DEF Past

LEMMA AuthIs ==
  ASSUME Typed
  PROVE  /\ auth \in Auth /\ auth.token \in Signed /\ auth.stored \in Signed
         /\ auth.known \subseteq Accounts /\ auth.live \subseteq Accounts
         /\ SignedOut \in Auth /\ SignedOut.token = None /\ ~SignedOut.cookie
         /\ SignedOut.live = auth.live /\ SignedOut.closed = auth.closed /\ SignedOut.known = auth.known
         /\ Forgotten \in Auth /\ Forgotten.token = None /\ ~Forgotten.cookie
         /\ Forgotten.live = auth.live /\ Forgotten.closed = auth.closed /\ Forgotten.known = auth.known
  BY DEF Typed, Auth, Signed, SignedOut, Forgotten

LEMMA StoresIs ==
  ASSUME Typed, NEW a \in Signed
  PROVE  /\ Stores(a) \in Auth /\ Stores(a).token = auth.token /\ Stores(a).cookie = auth.cookie
         /\ Stores(a).tenant = a /\ Stores(a).stored = a
         /\ Stores(a).live = auth.live /\ Stores(a).closed = auth.closed /\ Stores(a).known = auth.known
         /\ SignedIn(a) \in Auth /\ SignedIn(a).token = a /\ SignedIn(a).cookie
         /\ SignedIn(a).tenant = a /\ SignedIn(a).stored = a
         /\ SignedIn(a).live = auth.live /\ SignedIn(a).closed = auth.closed
         /\ SignedIn(a).known = auth.known
  BY DEF Typed, Auth, Signed, Stores, SignedIn

-----------------------------------------------------------------------------
(***************************************************************************)
(* Types, step by step.                                                    *)
(***************************************************************************)
AuthTyped == /\ auth \in Auth /\ auth.closed \subseteq auth.known
             /\ auth.live \subseteq auth.known \ auth.closed

LEMMA TypedKept ==
  ASSUME Typed
  PROVE  /\ UNCHANGED auth => AuthTyped' /\ auth' = auth
         /\ auth' \in {SignedOut, Forgotten} => AuthTyped'
         /\ \A a \in Signed : auth' \in {Stores(a), SignedIn(a)} => AuthTyped'
<1>1. AuthTyped
  BY DEF Typed, AuthTyped
<1>2. UNCHANGED auth => AuthTyped' /\ auth' = auth
  BY <1>1 DEF AuthTyped
<1>3. auth' \in {SignedOut, Forgotten} => AuthTyped'
  BY <1>1, AuthIs DEF AuthTyped
<1>4. \A a \in Signed : auth' \in {Stores(a), SignedIn(a)} => AuthTyped'
  BY <1>1, StoresIs DEF AuthTyped
<1>5. QED
  BY <1>2, <1>3, <1>4

LEMMA TypedParts ==
  /\ Typed <=> /\ AuthTyped /\ place \in Place /\ leaving \in {None, "login", "overview"}
               /\ view \in View /\ view.made \in 0..Len(calls)
               /\ rows \in [Ids -> Row] /\ cache \in [Table -> Query]
               /\ calls \in Seq(Call) /\ budget \in Bounds /\ past \in Past
  BY DEF Typed, AuthTyped

LEMMA TypedNext ==
  ASSUME AuthTyped', place' \in Place, leaving' \in {None, "login", "overview"},
         view' \in View, (view.made \in 0..Len(calls))',
         rows' \in [Ids -> Row], cache' \in [Table -> Query],
         calls' \in Seq(Call), budget' \in Bounds, past' \in Past
  PROVE  Typed'
  BY DEF Typed, AuthTyped

LEMMA TypedUnchanged ==
  ASSUME Typed, UNCHANGED cvars PROVE Typed'
  BY DEF Typed, cvars

LEMMA MadeKept ==
  ASSUME Typed, view'.made \in {view.made, 0}, Len(calls') \in {Len(calls), Len(calls) + 1}
  PROVE  (view.made \in 0..Len(calls))'
<1>1. Len(calls) \in Nat /\ view.made \in 0..Len(calls)
  BY DEF Typed
<1>2. QED
  BY <1>1

LEMMA SendsTyped ==
  ASSUME Typed, NEW op \in Op, NEW t \in Table, NEW i \in Ids \union {None}, NEW nv \in View,
         Sends(op, t, i, nv)
  PROVE  /\ Typed' /\ NewCall(op, t, i, auth.token) \in Call
         /\ calls' = Append(calls, NewCall(op, t, i, auth.token))
<1>1. calls' = Append(calls, NewCall(op, t, i, auth.token)) /\ view' = nv
      /\ UNCHANGED <<auth, place, leaving, rows, cache, budget, past>>
  BY DEF Sends, Send
<1>2. NewCall(op, t, i, auth.token) \in Call
  BY NewTyped, AuthIs
<1>3. calls' \in Seq(Call) /\ Len(calls') = Len(calls) + 1
  BY <1>1, <1>2, AppendEffect
<1>4. view'.made = view.made
  BY <1>1 DEF Sends, SameForms
<1>5. (view.made \in 0..Len(calls))'
  BY <1>3, <1>4, MadeKept
<1>6. Typed'
  BY <1>1, <1>3, <1>5, TypedKept, TypedParts, TypedNext
<1>7. QED
  BY <1>1, <1>2, <1>6

LEMMA OpensTyped ==
  ASSUME Typed, NEW nv \in View, Opens(nv)
  PROVE  Typed'
<1>1. /\ view' = nv /\ past' = [past EXCEPT !.opened = @ + 1]
      /\ budget' = [budget EXCEPT !.moves = @ - 1] /\ budget.moves > 0
      /\ UNCHANGED <<auth, place, leaving, rows, cache, calls>>
  BY DEF Opens, OpenDialog
<1>2. view'.made = view.made
  BY <1>1 DEF Opens
<1>3. (view.made \in 0..Len(calls))'
  BY <1>1, <1>2, MadeKept
<1>4. past' \in Past
  BY <1>1, OpenedIs
<1>5. budget' \in Bounds
  BY <1>1, BudgetTyped
<1>6. QED
  BY <1>1, <1>3, <1>4, <1>5, TypedKept, TypedParts, TypedNext

LEMMA ClosesTyped ==
  ASSUME Typed, NEW nv \in View, Closes(nv)
  PROVE  Typed'
<1>1. /\ view' = nv
      /\ calls' = [c \in DOMAIN calls |->
                     [calls[c] EXCEPT !.dismissed = @ \/ calls[c].opening = past.opened]]
      /\ UNCHANGED <<auth, place, leaving, rows, cache, budget, past>>
  BY DEF Closes, CloseDialog
<1>2. Stay
  BY <1>1, DismissEffect
<1>3. (view.made \in 0..Len(calls))'
  BY <1>1, <1>2, MadeKept DEF Closes, Stay
<1>4. QED
  BY <1>1, <1>2, <1>3, TypedKept, TypedParts, TypedNext DEF Stay

LEMMA ClicksTyped ==
  ASSUME Typed, NEW nv \in View, Clicks(nv)
  PROVE  Typed'
<1>1. view' = nv /\ UNCHANGED <<auth, place, leaving, rows, cache, calls, budget, past>>
  BY DEF Clicks, Click
<1>2. (view.made \in 0..Len(calls))'
  BY <1>1, MadeKept DEF Clicks
<1>3. QED
  BY <1>1, <1>2, TypedKept, TypedParts, TypedNext

LEMMA RouteTyped ==
  ASSUME Typed, NEW p \in Place, Route(p),
         calls' \in Seq(Call), Len(calls') = Len(calls), budget' \in Bounds
  PROVE  Typed'
<1>1. /\ place' \in Place /\ UNCHANGED <<auth, leaving, rows>>
      /\ cache' \in [Table -> Query] /\ view' \in View /\ past' \in Past
      /\ view'.made \in {view.made, 0}
  BY RouteIs, TypedParts
<1>2. (view.made \in 0..Len(calls))'
  BY <1>1, MadeKept
<1>3. QED
  BY <1>1, <1>2, TypedKept, TypedParts, TypedNext

LEMMA FollowsTyped ==
  ASSUME Typed, NEW p \in Place, Follows(p)
  PROVE  Typed'
  BY RouteTyped, BudgetTyped, TypedParts DEF Follows, Visit

LEMMA SignOutTyped ==
  ASSUME Typed, SignOut PROVE Typed'
<1>1. /\ UNCHANGED <<place, view, rows, cache, calls, past>> /\ auth' = Forgotten
      /\ leaving' = "login" /\ budget' \in Bounds
  BY BudgetTyped DEF SignOut
<1>2. (view.made \in 0..Len(calls))'
  BY <1>1, MadeKept
<1>3. QED
  BY <1>1, <1>2, TypedKept, TypedParts, TypedNext

LEMMA CredentialsTyped ==
  ASSUME Typed, NEW op \in {"login", "signup"}, NEW a \in Accounts, Credentials(op, a)
  PROVE  /\ Typed' /\ NewCall(op, "session", None, a) \in Call
         /\ view'.lock = a
         /\ view'.dialog = view.dialog /\ view'.made = view.made
         /\ view'.timers = view.timers /\ view'.step = view.step
         /\ view'.base = view.base /\ view'.switches = view.switches /\ view'.target = view.target
<1>1. /\ budget' \in Bounds /\ calls' = Append(calls, NewCall(op, "session", None, a))
      /\ view' = [view EXCEPT !.lock = a]
      /\ UNCHANGED <<auth, place, leaving, rows, cache, past>>
  BY BudgetTyped DEF Credentials
<1>2. NewCall(op, "session", None, a) \in Call
  BY NewTyped, Names DEF Signed
<1>3. calls' \in Seq(Call) /\ Len(calls') = Len(calls) + 1
  BY <1>1, <1>2, AppendEffect
<1>4. /\ view' \in View /\ view'.lock = a
      /\ view'.dialog = view.dialog /\ view'.made = view.made
      /\ view'.timers = view.timers /\ view'.step = view.step
      /\ view'.base = view.base /\ view'.switches = view.switches /\ view'.target = view.target
  BY <1>1 DEF Typed, View, Signed
<1>5. (view.made \in 0..Len(calls))'
  BY <1>3, <1>4, MadeKept
<1>6. Typed'
  BY <1>1, <1>3, <1>4, <1>5, TypedKept, TypedParts, TypedNext
<1>7. QED
  BY <1>2, <1>4, <1>6

\* the save of a group when one of its switches was clicked
Toggled(op, s) == [NewCall(op, "me", First, auth.token) EXCEPT
                     !.set = Flipped(s) \intersect Saves[op],
                     !.was = view.switches \intersect Saves[op]]

LEMMA ToggleTyped ==
  ASSUME Typed, ToggleSwitch
  PROVE  \E op \in DOMAIN Saves : \E s \in Saves[op] :
           /\ Typed' /\ Toggled(op, s) \in Call /\ Flipped(s) \in SUBSET Switch
           /\ view.switches # None /\ view.switches \in SUBSET Switch
           /\ view' = [view EXCEPT !.switches = Flipped(s)] /\ view' \in View
           /\ view'.switches = Flipped(s)
           /\ view'.dialog = view.dialog /\ view'.made = view.made /\ view'.lock = view.lock
           /\ view'.timers = view.timers /\ view'.step = view.step
           /\ view'.base = view.base /\ view'.target = view.target
           /\ calls' = Append(calls, Toggled(op, s))
           /\ SettingsPage /\ UNCHANGED <<auth, place, leaving, rows, cache, budget, past>>
<1>1. PICK op \in DOMAIN Saves : \E s \in Saves[op] :
        /\ SettingsPage /\ view.switches # None
        /\ view' = [view EXCEPT !.switches = Flipped(s)]
        /\ calls' = Append(calls, Toggled(op, s))
        /\ UNCHANGED <<auth, place, leaving, rows, cache, budget, past>>
  BY DEF ToggleSwitch, Toggled
<1>2. PICK s \in Saves[op] :
        /\ SettingsPage /\ view.switches # None
        /\ view' = [view EXCEPT !.switches = Flipped(s)]
        /\ calls' = Append(calls, Toggled(op, s))
        /\ UNCHANGED <<auth, place, leaving, rows, cache, budget, past>>
  BY <1>1
<1>3. view.switches \in SUBSET Switch /\ view \in View /\ s \in Switch
  BY <1>2 DEF Typed, View, Switch
<1>4. /\ Flipped(s) \in SUBSET Switch
      /\ Flipped(s) \intersect Saves[op] \in SUBSET Switch
      /\ view.switches \intersect Saves[op] \in SUBSET Switch
  BY <1>3 DEF Flipped
<1>5. op \in Op /\ First \in Ids
  BY OpNames, Names, ClientAssumption
<1>6. NewCall(op, "me", First, auth.token) \in Call
  BY <1>5, NewTyped, AuthIs, PlaceNames
<1>7. Toggled(op, s) \in Call
  BY <1>4, <1>6 DEF Toggled, Call
<1>8. calls' \in Seq(Call) /\ Len(calls') = Len(calls) + 1
  BY <1>2, <1>7, AppendEffect
<1>9. /\ view' \in View
      /\ view'.switches = Flipped(s)
      /\ view'.dialog = view.dialog /\ view'.made = view.made /\ view'.lock = view.lock
      /\ view'.timers = view.timers /\ view'.step = view.step
      /\ view'.base = view.base /\ view'.target = view.target
  BY <1>2, <1>3, <1>4 DEF View
<1>10. (view.made \in 0..Len(calls))'
  BY <1>8, <1>9, MadeKept
<1>11. Typed'
  BY <1>2, <1>8, <1>9, <1>10, TypedKept, TypedParts, TypedNext
<1>12. QED
  BY <1>2, <1>3, <1>4, <1>7, <1>9, <1>11

LEMMA PollSetupTyped ==
  ASSUME Typed, PollSetup
  PROVE  /\ Typed' /\ Invalidated("providers") \in Query
         /\ \A u \in Table : u # "providers" => cache'[u] = cache[u]
         /\ cache'["providers"] = Invalidated("providers")
         /\ UNCHANGED <<auth, place, leaving, view, rows, calls, past>>
<1>1. "providers" \in Table
  BY PlaceNames
<1>2. /\ cache' = [cache EXCEPT !["providers"] = Invalidated("providers")]
      /\ budget' \in Bounds
      /\ UNCHANGED <<auth, place, leaving, view, rows, calls, past>>
  BY BudgetTyped DEF PollSetup
<1>3. Invalidated("providers") \in Query
  BY <1>1, InvalidatedIs
<1>4. /\ cache' \in [Table -> Query] /\ \A u \in Table : u # "providers" => cache'[u] = cache[u]
      /\ cache'["providers"] = Invalidated("providers")
  BY <1>1, <1>2, <1>3, OneStarted
<1>5. Typed'
  BY <1>2, <1>4, TypedKept, TypedParts, TypedNext
<1>6. QED
  BY <1>2, <1>3, <1>4, <1>5

-----------------------------------------------------------------------------
(***************************************************************************)
(* Types: what the server does.                                            *)
(***************************************************************************)
LEMMA DonePC ==
  ASSUME NEW c PROVE Done(c) \in CallPC /\ "lost" \in CallPC /\ "over" \in CallPC
  BY DEF Done, CallPC

LEMMA CreatesIs ==
  ASSUME Typed, Shapes, NEW c \in DOMAIN calls, ServerCreates(c)
  PROVE  \E i \in Ids, s \in {"on", "off"} :
           /\ Typed' /\ Stay /\ Only(c) /\ SameHere(c) /\ calls[c].op \in DOMAIN Creates
           /\ rows[i].state = "unborn"
           /\ calls'[c].pc = Done(c) /\ calls'[c].made = i /\ calls'[c].rev = calls[c].rev
           /\ calls'[c].unheard = calls[c].unheard /\ calls'[c].waits = calls[c].waits
           /\ \A j \in Ids : j # i => rows'[j] = rows[j]
           /\ rows'[i].table = calls[c].table /\ rows'[i].acct = calls[c].acct
           /\ rows'[i].state = s /\ calls[c].acct \in Accounts
           /\ past'.opened = past.opened /\ past'.visit = past.visit
           /\ past'.missed = past.missed \union Unheard(c)
           /\ past'.otherTab = past.otherTab /\ past'.disturbed = past.disturbed
           /\ past'.wiped = past.wiped
           /\ UNCHANGED <<auth, place, leaving, view, cache, budget>>
<1>1. PICK i \in Ids, s \in Creates[calls[c].op] :
        /\ rows[i].state = "unborn"
        /\ rows' = [rows EXCEPT ![i] = [table |-> calls[c].table, acct |-> calls[c].acct,
                                        state |-> s, rev |-> 0, set |-> {}]]
        /\ calls' = [calls EXCEPT ![c].pc = Done(c), ![c].made = i, ![c].state = s]
  BY DEF ServerCreates
<1>2. s \in {"on", "off"} /\ calls[c].op \in DOMAIN Creates
  BY OpNames DEF ServerCreates, Creates
<1>3. /\ past' = [past EXCEPT !.missed = @ \union Unheard(c)]
      /\ calls[c].acct \in auth.live
      /\ UNCHANGED <<auth, place, leaving, view, cache, budget>>
  BY DEF ServerCreates, AtServer
<1>4. calls[c].table \in Table /\ calls[c].acct \in Accounts
  BY <1>2, <1>3, AuthIs DEF Shapes, Shape
<1>5. s \in RowState
  BY <1>2 DEF RowState
<1>6. /\ Stay /\ Only(c) /\ SameHere(c)
      /\ calls'[c].pc = Done(c) /\ calls'[c].made = i /\ calls'[c].rev = calls[c].rev
      /\ calls'[c].unheard = calls[c].unheard /\ calls'[c].waits = calls[c].waits
  BY <1>1, <1>5, CreateEffect, DonePC
<1> DEFINE r == [table |-> calls[c].table, acct |-> calls[c].acct,
                 state |-> s, rev |-> 0, set |-> {}]
<1>7. r \in Row
  BY <1>4, <1>5 DEF Row
<1>8. /\ rows' \in [Ids -> Row] /\ \A j \in Ids : j # i => rows'[j] = rows[j]
      /\ rows'[i] = r
  BY <1>1, <1>7 DEF Typed
<1>9. Unheard(c) \in SUBSET Table
  BY <1>2, <1>4, OpNames, PlaceNames DEF Unheard, Invalidates
<1>10. past.missed \union Unheard(c) \in SUBSET Table
  BY <1>9, PastIs
<1>11. /\ past' \in Past /\ past'.opened = past.opened /\ past'.visit = past.visit
       /\ past'.missed = past.missed \union Unheard(c)
       /\ past'.otherTab = past.otherTab /\ past'.disturbed = past.disturbed
       /\ past'.wiped = past.wiped
  BY <1>3, <1>10, PastIs
<1>12. (view.made \in 0..Len(calls))'
  BY <1>3, <1>6, MadeKept DEF Stay
<1>13. Typed'
  BY <1>3, <1>6, <1>8, <1>11, <1>12, TypedKept, TypedParts, TypedNext DEF Stay
<1>14. QED
  BY <1>1, <1>2, <1>3, <1>4, <1>6, <1>8, <1>11, <1>13

\* what a call may make of its list, of a list beside it and of the tenant
AlsoChanges(op) == (IF op = "delete_provider" THEN {"rules"} ELSE {}) \union
                   (IF op \in DOMAIN Saves THEN {"me"} ELSE {})

LEMMA InvalidatesIs ==
  ASSUME Shapes, NEW c \in DOMAIN calls
  PROVE  Invalidates(c) \in SUBSET Table
  BY PlaceNames DEF Invalidates, Shapes, Shape, Silent, Free

LEMMA ChangesIs ==
  ASSUME Typed, Shapes, NEW c \in DOMAIN calls, ServerChanges(c)
  PROVE  LET i == calls[c].id  op == calls[c].op IN
           /\ Typed' /\ Stay /\ Only(c) /\ SameHere(c)
           /\ i \in Ids /\ op \notin DOMAIN Creates \union Free
           /\ rows[i].acct = calls[c].acct /\ rows[i].state \in Living
           /\ calls[c].acct \in Accounts
           /\ calls'[c].pc = Done(c) /\ calls'[c].made = calls[c].made
           /\ calls'[c].rev = rows'[i].rev
           /\ calls'[c].unheard = calls[c].unheard /\ calls'[c].waits = calls[c].waits
           /\ \A j \in Ids : j # i => rows'[j] = rows[j]
           /\ rows'[i].table = rows[i].table /\ rows'[i].acct = rows[i].acct
           /\ rows'[i].state \in Living \union {"gone"}
           /\ op \notin DOMAIN Sets => rows'[i].state = rows[i].state
           /\ rows'[i].rev = IF op \in Edits THEN rows[i].rev + 1 ELSE rows[i].rev
           /\ rows'[i].set = IF op \in DOMAIN Saves THEN calls[c].set ELSE rows[i].set
           /\ past'.opened = past.opened /\ past'.visit = past.visit
           /\ past'.missed = past.missed \union Unheard(c) \union AlsoChanges(op)
           /\ past'.otherTab = past.otherTab /\ past'.disturbed = past.disturbed
           /\ past'.wiped = past.wiped
           /\ UNCHANGED <<auth, place, leaving, view, cache, budget>>
<1> DEFINE i == calls[c].id
           op == calls[c].op
           n == IF op \in Edits THEN rows[i].rev + 1 ELSE rows[i].rev
           w == IF op \in DOMAIN Saves THEN calls[c].set ELSE rows[i].set
<1>1. PICK s \in IF op \in DOMAIN Sets THEN Sets[op] ELSE {rows[i].state} :
        rows' = [rows EXCEPT ![i].state = s,
                             ![i].rev = IF op \in Edits THEN @ + 1 ELSE @,
                             ![i].set = IF op \in DOMAIN Saves THEN calls[c].set ELSE @]
  BY DEF ServerChanges
<1>2. /\ i \in Ids /\ rows[i].acct = calls[c].acct /\ rows[i].state \in Living
      /\ calls[c].acct \in auth.live /\ op \notin DOMAIN Creates \union Free
      /\ calls' = [calls EXCEPT ![c].pc = Done(c), ![c].rev = rows'[i].rev]
      /\ past' = [past EXCEPT !.missed = @ \union Unheard(c) \union
                   (IF op = "delete_provider" THEN {"rules"} ELSE {}) \union
                   (IF op \in DOMAIN Saves THEN {"me"} ELSE {})]
      /\ UNCHANGED <<auth, place, leaving, view, cache, budget>>
  BY DEF ServerChanges, AtServer, Alive
<1>3. calls[c].acct \in Accounts
  BY <1>2, AuthIs
<1>4. rows \in [Ids -> Row] /\ rows[i] \in Row /\ rows[i].rev \in Nat /\ rows[i].set \in SUBSET Switch
  BY <1>2 DEF Typed, Row
<1>5. calls[c].set \in SUBSET Switch
  BY CallOf DEF Call
<1>6. s \in Living \union {"gone"} /\ (op \notin DOMAIN Sets => s = rows[i].state)
  BY <1>1, <1>2, OpNames DEF Sets, Living
<1>7. n \in Nat /\ w \in SUBSET Switch /\ s \in RowState
  BY <1>4, <1>5, <1>6 DEF RowState, Living
<1> DEFINE r == [rows[i] EXCEPT !.state = s, !.rev = n, !.set = w]
<1>8. rows' = [rows EXCEPT ![i] = r]
  BY <1>1, <1>4
<1>9. n = (IF op \in Edits THEN rows[i].rev + 1 ELSE rows[i].rev)
      /\ w = (IF op \in DOMAIN Saves THEN calls[c].set ELSE rows[i].set)
  OBVIOUS
<1> HIDE DEF n, w
<1>10. /\ r \in Row /\ r.table = rows[i].table /\ r.acct = rows[i].acct
       /\ r.state = s /\ r.rev = n /\ r.set = w
  BY <1>4, <1>7 DEF Row
<1> HIDE DEF r
<1>11. /\ rows' \in [Ids -> Row] /\ \A j \in Ids : j # i => rows'[j] = rows[j]
       /\ rows'[i] = r
  BY <1>2, <1>4, <1>8, <1>10
<1>12. rows'[i].rev \in Nat
  BY <1>7, <1>10, <1>11
<1>13. /\ Stay /\ Only(c) /\ SameHere(c)
       /\ calls'[c].pc = Done(c) /\ calls'[c].rev = rows'[i].rev
       /\ calls'[c].made = calls[c].made
       /\ calls'[c].unheard = calls[c].unheard /\ calls'[c].waits = calls[c].waits
  <2> DEFINE m == rows'[i].rev
             p == Done(c)
  <2>1. calls' = [calls EXCEPT ![c].pc = p, ![c].rev = m] /\ m \in Nat /\ p \in CallPC
    BY <1>2, <1>12, DonePC
  <2> HIDE DEF m, p
  <2>2. /\ Stay /\ Only(c) /\ SameHere(c)
        /\ calls'[c].pc = p /\ calls'[c].rev = m
        /\ calls'[c].made = calls[c].made
        /\ calls'[c].unheard = calls[c].unheard /\ calls'[c].waits = calls[c].waits
    BY <2>1, ChangeEffect, ZenonT(60)
  <2>3. QED
    BY <2>2 DEF m, p
<1> DEFINE S == past.missed \union Unheard(c) \union AlsoChanges(op)
<1>14. S \in SUBSET Table
  BY InvalidatesIs, PastIs, PlaceNames DEF Unheard, AlsoChanges
<1>15. past' = [past EXCEPT !.missed = S]
  BY <1>2 DEF AlsoChanges
<1> HIDE DEF S
<1>16. /\ past' \in Past /\ past'.opened = past.opened /\ past'.visit = past.visit
       /\ past'.missed = S
       /\ past'.otherTab = past.otherTab /\ past'.disturbed = past.disturbed
       /\ past'.wiped = past.wiped
  BY <1>14, <1>15, PastIs
<1>17. (view.made \in 0..Len(calls))'
  BY <1>2, <1>13, MadeKept DEF Stay
<1>18. Typed'
  BY <1>2, <1>11, <1>13, <1>16, <1>17, TypedKept, TypedParts, TypedNext DEF Stay
<1>19. QED
  BY <1>2, <1>3, <1>6, <1>9, <1>10, <1>11, <1>13, <1>16, <1>18 DEF S

LEMMA AnswersFreeIs ==
  ASSUME Typed, Shapes, NEW c \in DOMAIN calls, ServerAnswersFree(c)
  PROVE  LET op == calls[c].op  a == calls[c].acct IN
           /\ Typed' /\ Stay /\ Only(c) /\ SameHere(c) /\ SameMade(c)
           /\ op \in Free /\ Awake /\ calls[c].pc \in {"sent", "orphan"}
           /\ calls'[c].pc = Done(c)
           /\ calls'[c].unheard = calls[c].unheard /\ calls'[c].waits = calls[c].waits
           /\ auth'.token = auth.token /\ auth'.stored = auth.stored
           /\ auth'.tenant = auth.tenant /\ auth'.cookie = auth.cookie
           /\ auth'.closed = IF op = "delete_account" THEN auth.closed \union {a} ELSE auth.closed
           /\ auth'.live = CASE op \in {"login", "signup"} -> auth.live \union {a}
                             [] op = "delete_account" -> auth.live \ {a}
                             [] OTHER -> auth.live
           /\ op = "login" => a \in auth.known \ auth.closed
           /\ op = "signup" => a \notin auth.known
           /\ op = "delete_account" => a \in auth.live
           /\ \A j \in Ids : /\ rows'[j].table = rows[j].table /\ rows'[j].acct = rows[j].acct
                             /\ rows'[j].rev = rows[j].rev /\ rows'[j].set = rows[j].set
                             /\ rows'[j].state \in {rows[j].state, "gone"}
                             /\ rows[j].state = "unborn" => rows'[j] = rows[j]
                             /\ op # "delete_account" \/ rows[j].acct # a => rows'[j] = rows[j]
           /\ op # "delete_account" => rows' = rows
           /\ UNCHANGED <<place, leaving, view, cache, budget, past>>
<1> DEFINE op == calls[c].op
           a == calls[c].acct
<1>1. /\ op \in Free /\ Awake /\ calls[c].pc \in {"sent", "orphan"}
      /\ op = "login" => a \in auth.known \ auth.closed
      /\ op = "signup" => a \notin auth.known
      /\ op \in {"generate_template", "delete_account"} => a \in auth.live
      /\ calls' = [calls EXCEPT ![c].pc = Done(c)]
      /\ auth' = CASE op \in {"login", "signup"} -> [auth EXCEPT !.live = @ \union {a}, !.known = @ \union {a}]
                   [] op = "delete_account" -> [auth EXCEPT !.live = @ \ {a}, !.closed = @ \union {a}]
                   [] OTHER -> auth
      /\ rows' = IF op # "delete_account" THEN rows
                 ELSE [i \in Ids |-> IF Alive(i, a) THEN [rows[i] EXCEPT !.state = "gone"] ELSE rows[i]]
      /\ UNCHANGED <<place, leaving, view, cache, budget, past>>
  BY DEF ServerAnswersFree
<1>2. /\ Stay /\ Only(c) /\ SameHere(c) /\ SameMade(c) /\ calls'[c].pc = Done(c)
      /\ calls'[c].unheard = calls[c].unheard /\ calls'[c].waits = calls[c].waits
  BY <1>1, PcEffect, DonePC
<1>3. auth \in Auth /\ auth.closed \subseteq auth.known
      /\ auth.live \subseteq auth.known \ auth.closed /\ auth.known \subseteq Accounts
  BY DEF Typed, Auth
<1>4. /\ AuthTyped'
      /\ auth'.token = auth.token /\ auth'.stored = auth.stored
      /\ auth'.tenant = auth.tenant /\ auth'.cookie = auth.cookie
      /\ auth'.closed = IF op = "delete_account" THEN auth.closed \union {a} ELSE auth.closed
      /\ auth'.live = CASE op \in {"login", "signup"} -> auth.live \union {a}
                        [] op = "delete_account" -> auth.live \ {a}
                        [] OTHER -> auth.live
  <2>1. CASE op \in {"login", "signup"}
    <3>1. a \in Accounts
      <4>1. a \in Signed
        BY CallOf DEF Call
      <4>2. op = "login" => a \in Accounts
        BY <1>1, <1>3
      <4>3. op = "signup" => a \in Accounts
        BY <2>1 DEF Shapes, Shape
      <4>4. QED
        BY <2>1, <4>2, <4>3
    <3>2. QED
      BY <1>1, <1>3, <2>1, <3>1, ZenonT(60) DEF Auth, AuthTyped
  <2>2. CASE op = "delete_account"
    BY <1>1, <1>3, <2>2 DEF Auth, AuthTyped
  <2>3. CASE op \notin {"login", "signup", "delete_account"}
    BY <1>1, <1>3, <2>3 DEF AuthTyped
  <2>4. QED
    BY <2>1, <2>2, <2>3
<1>5. /\ rows' \in [Ids -> Row]
      /\ op # "delete_account" => rows' = rows
      /\ \A j \in Ids : /\ rows'[j].table = rows[j].table /\ rows'[j].acct = rows[j].acct
                        /\ rows'[j].rev = rows[j].rev /\ rows'[j].set = rows[j].set
                        /\ rows'[j].state \in {rows[j].state, "gone"}
                        /\ rows[j].state = "unborn" => rows'[j] = rows[j]
                        /\ op # "delete_account" \/ rows[j].acct # a => rows'[j] = rows[j]
  <2>1. CASE op # "delete_account"
    BY <1>1, <2>1 DEF Typed
  <2>2. CASE op = "delete_account"
    <3>1. rows' = [i \in Ids |-> IF Alive(i, a) THEN [rows[i] EXCEPT !.state = "gone"] ELSE rows[i]]
      BY <1>1, <2>2
    <3>2. ASSUME NEW j \in Ids
          PROVE  /\ rows'[j] \in Row
                 /\ rows'[j].table = rows[j].table /\ rows'[j].acct = rows[j].acct
                 /\ rows'[j].rev = rows[j].rev /\ rows'[j].set = rows[j].set
                 /\ rows'[j].state \in {rows[j].state, "gone"}
                 /\ rows[j].state = "unborn" => rows'[j] = rows[j]
                 /\ rows[j].acct # a => rows'[j] = rows[j]
      BY <3>1 DEF Typed, Row, RowState, Alive, Living
    <3>3. QED
      BY <2>2, <3>1, <3>2
  <2>3. QED
    BY <2>1, <2>2
<1>6. (view.made \in 0..Len(calls))'
  BY <1>1, <1>2, MadeKept DEF Stay
<1>7. Typed'
  BY <1>1, <1>2, <1>4, <1>5, <1>6, TypedParts, TypedNext DEF Stay
<1>8. QED
  BY <1>1, <1>2, <1>4, <1>5, <1>7

-----------------------------------------------------------------------------
(***************************************************************************)
(* Types: answers, and the handlers that go on.                            *)
(***************************************************************************)
\* a call is refused or denied
LEMMA EndsTyped ==
  ASSUME Typed, NEW c \in DOMAIN calls, NEW p \in CallPC, calls' = [calls EXCEPT ![c].pc = p],
         AuthTyped', leaving' \in {None, "login", "overview"}, past' \in Past,
         UNCHANGED <<place, view, rows, cache, budget>>
  PROVE  Typed'
<1>1. Stay
  BY PcEffect
<1>2. (view.made \in 0..Len(calls))'
  BY <1>1, MadeKept DEF Stay
<1>3. QED
  BY <1>1, <1>2, TypedParts, TypedNext DEF Stay

LEMMA RefusesIs ==
  ASSUME Typed, NEW c \in DOMAIN calls, ServerRefuses(c)
  PROVE  /\ Typed' /\ Stay /\ Only(c) /\ SameMade(c) /\ SameHere(c)
         /\ Awake /\ calls[c].pc \in {"sent", "orphan"}
         /\ calls'[c].pc = IF calls[c].pc = "sent" THEN "lost" ELSE "over"
         /\ calls'[c].unheard = calls[c].unheard /\ calls'[c].waits = calls[c].waits
         /\ calls[c].op # "login" /\ calls[c].acct \in auth.live
         /\ UNCHANGED <<auth, place, leaving, view, rows, cache, budget, past>>
<1> DEFINE p == IF calls[c].pc = "sent" THEN "lost" ELSE "over"
<1>1. /\ Awake /\ calls[c].pc \in {"sent", "orphan"}
      /\ calls' = [calls EXCEPT ![c].pc = p] /\ calls[c].op # "login" /\ calls[c].acct \in auth.live
      /\ UNCHANGED <<auth, place, leaving, view, rows, cache, budget, past>>
  BY DEF ServerRefuses, AtServer
<1>2. p \in CallPC
  BY DonePC
<1>3. Typed'
  BY <1>1, <1>2, EndsTyped, TypedKept, TypedParts
<1>4. QED
  BY <1>1, <1>2, <1>3, PcEffect

LEMMA CallDeniedIs ==
  ASSUME Typed, NEW c \in DOMAIN calls, CallDenied(c)
  PROVE  /\ Typed' /\ Stay /\ Only(c) /\ SameMade(c) /\ SameHere(c)
         /\ Awake /\ calls[c].pc = "sent" /\ calls'[c].pc = "lost"
         /\ calls'[c].unheard = calls[c].unheard /\ calls'[c].waits = calls[c].waits
         /\ auth' = SignedOut /\ leaving' = "login"
         /\ calls[c].op # "signup" /\ (calls[c].op # "login" => calls[c].acct \notin auth.live)
         /\ past'.opened = past.opened /\ past'.visit = past.visit
         /\ past'.missed = past.missed /\ past'.otherTab = past.otherTab
         /\ past'.disturbed = past.disturbed
         /\ past'.wiped = (past.wiped \/ Wiped(calls[c].acct))
         /\ UNCHANGED <<place, view, rows, cache, budget>>
<1>1. /\ Awake /\ calls[c].pc = "sent" /\ calls' = [calls EXCEPT ![c].pc = "lost"]
      /\ calls[c].op # "signup" /\ (calls[c].op # "login" => calls[c].acct \notin auth.live)
      /\ auth' = SignedOut /\ leaving' = "login"
      /\ past' = [past EXCEPT !.wiped = @ \/ Wiped(calls[c].acct)]
      /\ UNCHANGED <<place, view, rows, cache, budget>>
  BY DEF CallDenied, Denied
<1> DEFINE b == past.wiped \/ Wiped(calls[c].acct)
<1>2. b \in BOOLEAN /\ past' = [past EXCEPT !.wiped = b]
  BY <1>1
<1>3. /\ past' \in Past
      /\ past'.opened = past.opened /\ past'.visit = past.visit
      /\ past'.missed = past.missed /\ past'.otherTab = past.otherTab
      /\ past'.disturbed = past.disturbed /\ past'.wiped = b
  <2> HIDE DEF b
  <2>1. QED
    BY <1>2, PastIs
<1>4. Typed'
  BY <1>1, <1>3, EndsTyped, TypedKept, TypedParts, DonePC
<1>5. QED
  BY <1>1, <1>3, <1>4, PcEffect, DonePC

LEMMA OrphanDeniedIs ==
  ASSUME Typed, NEW c \in DOMAIN calls, OrphanDenied(c)
  PROVE  /\ Typed' /\ Stay /\ Only(c) /\ SameMade(c) /\ SameHere(c)
         /\ Awake /\ calls[c].pc = "orphan" /\ calls'[c].pc = "over"
         /\ calls'[c].unheard = calls[c].unheard /\ calls'[c].waits = calls[c].waits
         /\ UNCHANGED <<auth, place, leaving, view, rows, cache, budget, past>>
<1>1. /\ Awake /\ calls[c].pc = "orphan" /\ calls' = [calls EXCEPT ![c].pc = "over"]
      /\ UNCHANGED <<auth, place, leaving, view, rows, cache, budget, past>>
  BY DEF OrphanDenied
<1>2. Typed'
  BY <1>1, EndsTyped, TypedKept, TypedParts, DonePC
<1>3. QED
  BY <1>1, <1>2, PcEffect, DonePC

LEMMA LoseIs ==
  ASSUME Typed, Shapes, NEW c \in DOMAIN calls, Lose(c)
  PROVE  /\ Typed' /\ Stay /\ Only(c) /\ SameMade(c) /\ SameHere(c)
         /\ Awake /\ calls[c].pc \in {"sent", "ok"} /\ calls'[c].pc = "lost"
         /\ (calls'[c].unheard <=> calls[c].pc = "ok") /\ calls'[c].waits = calls[c].waits
         /\ past'.opened = past.opened /\ past'.visit = past.visit
         /\ past'.missed = past.missed \union Invalidates(c)
         /\ past'.otherTab = past.otherTab /\ past'.disturbed = past.disturbed
         /\ past'.wiped = past.wiped
         /\ UNCHANGED <<auth, place, leaving, view, rows, cache>>
<1> DEFINE b == calls[c].pc = "ok"
<1>1. /\ Awake /\ calls[c].pc \in {"sent", "ok"}
      /\ budget' \in Bounds
      /\ calls' = [calls EXCEPT ![c].pc = "lost", ![c].unheard = b]
      /\ past' = [past EXCEPT !.missed = @ \union Invalidates(c)]
      /\ UNCHANGED <<auth, place, leaving, view, rows, cache>>
  BY BudgetTyped DEF Lose
<1>2. b \in BOOLEAN /\ (b <=> calls[c].pc = "ok")
  OBVIOUS
<1> HIDE DEF b
<1>3. /\ Stay /\ Only(c) /\ SameMade(c) /\ SameHere(c)
      /\ calls'[c].pc = "lost" /\ calls'[c].unheard = b /\ calls'[c].waits = calls[c].waits
  BY <1>1, <1>2, LoseEffect
<1>4. past.missed \union Invalidates(c) \in SUBSET Table
  BY InvalidatesIs, PastIs
<1>5. /\ past' \in Past /\ past'.opened = past.opened /\ past'.visit = past.visit
      /\ past'.missed = past.missed \union Invalidates(c)
      /\ past'.otherTab = past.otherTab /\ past'.disturbed = past.disturbed
      /\ past'.wiped = past.wiped
  BY <1>1, <1>4, PastIs
<1>6. (view.made \in 0..Len(calls))'
  BY <1>1, <1>3, MadeKept DEF Stay
<1>7. Typed'
  BY <1>1, <1>3, <1>5, <1>6, TypedKept, TypedParts, TypedNext DEF Stay
<1>8. QED
  BY <1>1, <1>2, <1>3, <1>5, <1>7

\* what the answer of a call makes of the lists of its hook
FirstAnswers(c) == {t \in Invalidates(c) : cache[t].fetch = "back" /\
                                           (~cache[t].loaded \/ t \notin Mounts[place])}

LEMMA AnswerIs ==
  ASSUME Typed, Shapes, NEW c \in DOMAIN calls, Answer(c)
  PROVE  /\ Typed' /\ Stay /\ Only(c) /\ SameMade(c) /\ SameHere(c)
         /\ Awake /\ calls[c].pc = "ok"
         /\ calls'[c].pc = (IF Awaited(c) = {} THEN "won" ELSE "settling")
         /\ calls'[c].waits = Awaited(c) /\ calls'[c].unheard = calls[c].unheard
         /\ \A t \in Table : cache'[t] = IF t \in Invalidates(c) THEN Invalidated(t) ELSE cache[t]
         /\ \A t \in Table : Invalidated(t) \in Query
         /\ past'.opened = past.opened /\ past'.visit = past.visit
         /\ past'.missed = past.missed \union FirstAnswers(c)
         /\ past'.otherTab = past.otherTab /\ past'.disturbed = past.disturbed
         /\ past'.wiped = past.wiped
         /\ auth' = IF calls[c].op = "update_profile" THEN Stores(calls[c].acct) ELSE auth
         /\ UNCHANGED <<place, leaving, view, rows, budget>>
<1> DEFINE p == IF Awaited(c) = {} THEN "won" ELSE "settling"
<1>1. /\ Awake /\ calls[c].pc = "ok"
      /\ cache' = [t \in Table |-> IF t \in Invalidates(c) THEN Invalidated(t) ELSE cache[t]]
      /\ calls' = [calls EXCEPT ![c].waits = Awaited(c), ![c].pc = p]
      /\ past' = [past EXCEPT !.missed = @ \union FirstAnswers(c)]
      /\ auth' = IF calls[c].op = "update_profile" THEN Stores(calls[c].acct) ELSE auth
      /\ UNCHANGED <<place, leaving, view, rows, budget>>
  BY DEF Answer, FirstAnswers
<1>2. Invalidates(c) \in SUBSET Table
  BY InvalidatesIs
<1>3. Awaited(c) \in SUBSET Table
  BY <1>2 DEF Awaited
<1>4. p \in CallPC
  BY DEF CallPC
<1>5. /\ Stay /\ Only(c) /\ SameMade(c) /\ SameHere(c)
      /\ calls'[c].pc = p /\ calls'[c].waits = Awaited(c)
      /\ calls'[c].unheard = calls[c].unheard
  <2> DEFINE w == Awaited(c)
  <2>1. calls' = [calls EXCEPT ![c].waits = w, ![c].pc = p] /\ w \in SUBSET Table /\ p \in CallPC
    BY <1>1, <1>3, <1>4
  <2> HIDE DEF w, p
  <2>2. /\ Stay /\ Only(c) /\ SameMade(c) /\ SameHere(c)
        /\ calls'[c].pc = p /\ calls'[c].waits = w
        /\ calls'[c].unheard = calls[c].unheard
    BY <2>1, AnswerEffect
  <2>3. QED
    BY <2>2 DEF w
<1>6. /\ cache' \in [Table -> Query] /\ \A t \in Table : Invalidated(t) \in Query
      /\ \A t \in Table : cache'[t] = IF t \in Invalidates(c) THEN Invalidated(t) ELSE cache[t]
  <2>1. \A t \in Table : Invalidated(t) \in Query
    BY InvalidatedIs
  <2>2. QED
    BY <1>1, <2>1, CacheOf
<1>7. past.missed \union FirstAnswers(c) \in SUBSET Table
  BY <1>2, PastIs DEF FirstAnswers
<1>8. /\ past' \in Past /\ past'.opened = past.opened /\ past'.visit = past.visit
      /\ past'.missed = past.missed \union FirstAnswers(c)
      /\ past'.otherTab = past.otherTab /\ past'.disturbed = past.disturbed
      /\ past'.wiped = past.wiped
  BY <1>1, <1>7, PastIs
<1>9. AuthTyped'
  <2>1. calls[c].acct \in Signed
    BY CallOf DEF Call
  <2>2. QED
    BY <1>1, <2>1, TypedKept
<1>10. (view.made \in 0..Len(calls))'
  BY <1>1, <1>5, MadeKept DEF Stay
<1>11. Typed'
  BY <1>1, <1>5, <1>6, <1>8, <1>9, <1>10, TypedParts, TypedNext DEF Stay
<1>12. QED
  BY <1>1, <1>5, <1>6, <1>8, <1>11

\* the view after a handler, if its page is still there
ViewAfter(c, nv) == IF Mounted(c) THEN nv ELSE view

LEMMA FinishesIs ==
  ASSUME Typed, NEW c \in DOMAIN calls, NEW nv \in View, Finishes(c, nv)
  PROVE  /\ Typed' /\ Stay /\ Only(c) /\ SameMade(c)
         /\ calls[c].pc \in {"won", "lost"} /\ calls'[c].pc = "over"
         /\ (calls'[c].won <=> calls[c].pc = "won")
         /\ calls'[c].followed = calls[c].followed /\ calls'[c].dismissed = calls[c].dismissed
         /\ calls'[c].unheard = calls[c].unheard /\ calls'[c].waits = calls[c].waits
         /\ view' = ViewAfter(c, nv)
         /\ UNCHANGED <<auth, place, leaving, rows, cache, budget, past>>
<1>1. /\ calls' = Over(c) /\ view' = ViewAfter(c, nv) /\ calls[c].pc \in {"won", "lost"}
      /\ UNCHANGED <<auth, place, leaving, rows, cache, budget, past>>
  BY DEF Finishes, Finish, ViewAfter, Continues
<1>2. /\ Stay /\ Only(c) /\ SameMade(c)
      /\ calls'[c].pc = "over" /\ (calls'[c].won <=> calls[c].pc = "won")
      /\ calls'[c].followed = calls[c].followed
      /\ calls'[c].dismissed = calls[c].dismissed
      /\ calls'[c].unheard = calls[c].unheard /\ calls'[c].waits = calls[c].waits
  BY <1>1, OverEffect
<1>3. view' \in View /\ (view.made \in 0..Len(calls))'
  <2>1. nv.made = view.made \/ nv.made = c
    BY DEF Finishes
  <2>2. view.made \in 0..Len(calls) /\ c \in 0..Len(calls)
    BY DEF Typed
  <2>3. QED
    BY <1>1, <1>2, <2>1, <2>2, TypedParts DEF ViewAfter, Stay
<1>4. Typed'
  BY <1>1, <1>2, <1>3, TypedKept, TypedParts, TypedNext DEF Stay
<1>5. QED
  BY <1>1, <1>2, <1>4

LEMMA ReturnsIs ==
  ASSUME Typed, NEW c \in DOMAIN calls, NEW p \in Place, Returns(c, p)
  PROVE  /\ Typed' /\ Stay /\ Only(c) /\ SameMade(c) /\ Route(p) /\ UNCHANGED budget
         /\ calls[c].pc = "won" /\ calls'[c].pc = "over" /\ calls'[c].won
         /\ calls'[c].dismissed = calls[c].dismissed
         /\ calls'[c].unheard = calls[c].unheard /\ calls'[c].waits = calls[c].waits
<1>1. /\ calls' = [Over(c) EXCEPT ![c].followed = TRUE] /\ Route(p) /\ UNCHANGED budget
      /\ calls[c].pc = "won"
  BY DEF Returns, RouteFrom
<1>2. /\ Stay /\ Only(c) /\ SameMade(c)
      /\ calls'[c].pc = "over" /\ calls'[c].won
      /\ calls'[c].dismissed = calls[c].dismissed
      /\ calls'[c].unheard = calls[c].unheard /\ calls'[c].waits = calls[c].waits
  BY <1>1, FollowEffect
<1>3. Typed'
  BY <1>1, <1>2, RouteTyped, TypedParts DEF Stay
<1>4. QED
  BY <1>1, <1>2, <1>3

LEMMA UnlockedIs ==
  ASSUME Typed
  PROVE  LET v == [view EXCEPT !.lock = None] IN
         /\ v \in View /\ v.lock = None /\ v.dialog = view.dialog /\ v.target = view.target
         /\ v.step = view.step /\ v.made = view.made /\ v.timers = view.timers
         /\ v.base = view.base /\ v.switches = view.switches
  BY DEF Typed, View, Signed

LEMMA HandlesCredentialsIs ==
  ASSUME Typed, NEW c \in DOMAIN calls, HandleCredentials(c)
  PROVE  /\ Typed' /\ Stay /\ Only(c) /\ SameMade(c)
         /\ calls[c].op \in {"login", "signup"}
         /\ calls[c].pc \in {"won", "lost"} /\ calls'[c].pc = "over"
         /\ (calls'[c].won <=> calls[c].pc = "won")
         /\ calls'[c].followed = calls[c].followed /\ calls'[c].dismissed = calls[c].dismissed
         /\ calls'[c].unheard = calls[c].unheard /\ calls'[c].waits = calls[c].waits
         /\ SameForms(view') /\ view'.lock = IF Mounted(c) THEN None ELSE view.lock
         /\ IF calls[c].pc = "won"
            THEN auth' = SignedIn(calls[c].acct) /\ leaving' = "overview"
            ELSE UNCHANGED <<auth, leaving>>
         /\ UNCHANGED <<place, rows, cache, budget, past>>
<1>1. /\ calls[c].op \in {"login", "signup"} /\ calls' = Over(c) /\ calls[c].pc \in {"won", "lost"}
      /\ view' = (IF Mounted(c) THEN [view EXCEPT !.lock = None] ELSE view)
      /\ IF calls[c].pc = "won"
         THEN auth' = SignedIn(calls[c].acct) /\ leaving' = "overview"
         ELSE UNCHANGED <<auth, leaving>>
      /\ UNCHANGED <<place, rows, cache, budget, past>>
  BY DEF HandleCredentials, Continues
<1>2. /\ Stay /\ Only(c) /\ SameMade(c)
      /\ calls'[c].pc = "over" /\ (calls'[c].won <=> calls[c].pc = "won")
      /\ calls'[c].followed = calls[c].followed
      /\ calls'[c].dismissed = calls[c].dismissed
      /\ calls'[c].unheard = calls[c].unheard /\ calls'[c].waits = calls[c].waits
  BY <1>1, OverEffect
<1>3. SameForms(view') /\ view'.lock = IF Mounted(c) THEN None ELSE view.lock
  BY <1>1, UnlockedIs, SameView DEF SameForms
<1>4. (view.made \in 0..Len(calls))'
  BY <1>2, <1>3, MadeKept DEF Stay, SameForms
<1>5. AuthTyped' /\ leaving' \in {None, "login", "overview"}
  <2>1. calls[c].acct \in Signed
    BY CallOf DEF Call
  <2>2. QED
    BY <1>1, <2>1, TypedKept, TypedParts
<1>6. Typed'
  BY <1>1, <1>2, <1>3, <1>4, <1>5, TypedParts, TypedNext DEF Stay, SameForms
<1>7. QED
  BY <1>1, <1>2, <1>3, <1>6

LEMMA HandlesDeleteIs ==
  ASSUME Typed, NEW c \in DOMAIN calls, HandleDeleteProject(c)
  PROVE  /\ Typed' /\ Stay /\ Only(c) /\ SameMade(c)
         /\ calls[c].op = "delete_account"
         /\ calls[c].pc \in {"won", "lost"} /\ calls'[c].pc = "over"
         /\ (calls'[c].won <=> calls[c].pc = "won")
         /\ calls'[c].followed = calls[c].followed /\ calls'[c].dismissed = calls[c].dismissed
         /\ calls'[c].unheard = calls[c].unheard /\ calls'[c].waits = calls[c].waits
         /\ SameForms(view')
         /\ IF calls[c].pc = "won" THEN auth' = Forgotten /\ leaving' = "login"
            ELSE UNCHANGED <<auth, leaving>>
         /\ UNCHANGED <<place, rows, cache, budget, past>>
<1>1. /\ calls[c].op = "delete_account" /\ calls' = Over(c) /\ calls[c].pc \in {"won", "lost"}
      /\ view' \in {view, [view EXCEPT !.lock = None]}
      /\ IF calls[c].pc = "won" THEN auth' = Forgotten /\ leaving' = "login"
         ELSE UNCHANGED <<auth, leaving>>
      /\ UNCHANGED <<place, rows, cache, budget, past>>
  BY DEF HandleDeleteProject, Continues
<1>2. /\ Stay /\ Only(c) /\ SameMade(c)
      /\ calls'[c].pc = "over" /\ (calls'[c].won <=> calls[c].pc = "won")
      /\ calls'[c].followed = calls[c].followed
      /\ calls'[c].dismissed = calls[c].dismissed
      /\ calls'[c].unheard = calls[c].unheard /\ calls'[c].waits = calls[c].waits
  BY <1>1, OverEffect
<1>3. SameForms(view')
  BY <1>1, UnlockedIs, SameView DEF SameForms
<1>4. (view.made \in 0..Len(calls))'
  BY <1>2, <1>3, MadeKept DEF Stay, SameForms
<1>5. AuthTyped' /\ leaving' \in {None, "login", "overview"}
  BY <1>1, TypedKept, TypedParts
<1>6. Typed'
  BY <1>1, <1>2, <1>3, <1>4, <1>5, TypedParts, TypedNext DEF Stay, SameForms
<1>7. QED
  BY <1>1, <1>2, <1>3, <1>6

-----------------------------------------------------------------------------
(***************************************************************************)
(* Types: fetches, other tabs and clients, and the step as a whole.        *)
(***************************************************************************)
LEMMA FetchServedIs ==
  ASSUME Typed, NEW t \in Table, FetchServed(t)
  PROVE  /\ Typed' /\ Awake /\ cache[t].fetch = "out" /\ cache[t].as \in auth.live
         /\ \A u \in Table : u # t => cache'[u] = cache[u]
         /\ cache'[t].fetch = "back" /\ cache'[t].got = Listing(t, cache[t].as)
         /\ cache'[t].data = cache[t].data
         /\ cache'[t].loaded = cache[t].loaded /\ cache'[t].as = cache[t].as
         /\ cache'[t].error = cache[t].error /\ cache'[t].stale = cache[t].stale
         /\ past'.opened = past.opened /\ past'.visit = past.visit
         /\ past'.missed = past.missed \ {t}
         /\ past'.otherTab = past.otherTab /\ past'.disturbed = past.disturbed
         /\ past'.wiped = past.wiped
         /\ UNCHANGED <<auth, place, leaving, view, rows, calls, budget>>
<1> DEFINE L == Listing(t, cache[t].as)
<1>1. /\ Awake /\ cache[t].fetch = "out" /\ cache[t].as \in auth.live
      /\ cache' = [cache EXCEPT ![t].fetch = "back", ![t].got = L]
      /\ past' = [past EXCEPT !.missed = @ \ {t}]
      /\ UNCHANGED <<auth, place, leaving, view, rows, calls, budget>>
  BY DEF FetchServed
<1>2. L \in SUBSET Item
  BY ListingTyped
<1>3. /\ cache' \in [Table -> Query] /\ \A u \in Table : u # t => cache'[u] = cache[u]
      /\ cache'[t].fetch = "back" /\ cache'[t].got = L /\ cache'[t].data = cache[t].data
      /\ cache'[t].loaded = cache[t].loaded /\ cache'[t].as = cache[t].as
      /\ cache'[t].error = cache[t].error /\ cache'[t].stale = cache[t].stale
  <2> HIDE DEF L
  <2>1. QED
    BY <1>1, <1>2, ServedIs
<1>4. past.missed \ {t} \in SUBSET Table
  BY PastIs
<1>5. /\ past' \in Past /\ past'.opened = past.opened /\ past'.visit = past.visit
      /\ past'.missed = past.missed \ {t}
      /\ past'.otherTab = past.otherTab /\ past'.disturbed = past.disturbed
      /\ past'.wiped = past.wiped
  BY <1>1, <1>4, PastIs
<1>6. (view.made \in 0..Len(calls))'
  BY <1>1, MadeKept
<1>7. Typed'
  BY <1>1, <1>3, <1>5, <1>6, TypedKept, TypedParts, TypedNext
<1>8. QED
  BY <1>1, <1>3, <1>5, <1>7

\* what a fetch that ends makes of the calls and the view
LEMMA RerenderTyped ==
  ASSUME Typed, cache' \in [Table -> Query], view' = Rerendered(place, view, cache')
  PROVE  /\ view' \in View /\ view'.made = view.made
         /\ Len(calls') = Len(calls) => (view.made \in 0..Len(calls))'
<1>1. view' \in View /\ view'.made = view.made
  BY RerenderedIs, TypedParts
<1>2. QED
  BY <1>1, MadeKept

LEMMA FetchArrivesIs ==
  ASSUME Typed, NEW t \in Table, FetchArrives(t)
  PROVE  /\ Typed' /\ Stay /\ Awake /\ cache[t].fetch = "back" /\ calls' = Settled(t)
         /\ \A u \in Table : u # t => cache'[u] = cache[u]
         /\ cache'[t].fetch = "idle" /\ cache'[t].got = {} /\ cache'[t].data = cache[t].got
         /\ cache'[t].loaded /\ cache'[t].as = cache[t].as
         /\ ~cache'[t].error /\ ~cache'[t].stale
         /\ view' = Rerendered(place, view, cache')
         /\ auth' = IF t \in {"me", "whoami"} THEN Stores(cache[t].as) ELSE auth
         /\ UNCHANGED <<place, leaving, rows, budget, past>>
<1>1. /\ Awake /\ cache[t].fetch = "back" /\ calls' = Settled(t)
      /\ cache' = [cache EXCEPT ![t] = [NoQuery EXCEPT !.loaded = TRUE, !.data = cache[t].got,
                                                       !.as = cache[t].as]]
      /\ view' = Rerendered(place, view, cache')
      /\ auth' = IF t \in {"me", "whoami"} THEN Stores(cache[t].as) ELSE auth
      /\ UNCHANGED <<place, leaving, rows, budget, past>>
  BY DEF FetchArrives
<1>2. /\ cache' \in [Table -> Query] /\ \A u \in Table : u # t => cache'[u] = cache[u]
      /\ cache'[t].fetch = "idle" /\ cache'[t].got = {} /\ cache'[t].data = cache[t].got
      /\ cache'[t].loaded /\ cache'[t].as = cache[t].as
      /\ ~cache'[t].error /\ ~cache'[t].stale
  BY <1>1, ArrivedIs
<1>3. Stay
  BY <1>1, SettleEffect
<1>4. AuthTyped'
  <2>1. cache[t].as \in Signed
    BY CacheOf DEF Query
  <2>2. QED
    BY <1>1, <2>1, TypedKept
<1>5. view' \in View /\ (view.made \in 0..Len(calls))'
  BY <1>1, <1>2, <1>3, RerenderTyped DEF Stay
<1>6. Typed'
  BY <1>1, <1>2, <1>3, <1>4, <1>5, TypedParts, TypedNext DEF Stay
<1>7. QED
  BY <1>1, <1>2, <1>3, <1>6

LEMMA FetchFailsIs ==
  ASSUME Typed, NEW t \in Table, FetchFails(t)
  PROVE  /\ Typed' /\ Stay /\ Awake /\ calls' = Settled(t)
         /\ \A u \in Table : u # t => cache'[u] = cache[u]
         /\ cache'[t].fetch = "idle" /\ cache'[t].got = cache[t].got
         /\ cache'[t].data = cache[t].data
         /\ cache'[t].loaded = cache[t].loaded /\ cache'[t].as = cache[t].as
         /\ cache'[t].error = TRUE /\ cache'[t].stale = TRUE
         /\ view' = Rerendered(place, view, cache')
         /\ UNCHANGED <<auth, place, leaving, rows, past>>
<1>1. /\ Awake /\ calls' = Settled(t) /\ budget' \in Bounds
      /\ cache' = [cache EXCEPT ![t].fetch = "idle", ![t].error = TRUE, ![t].stale = TRUE]
      /\ view' = Rerendered(place, view, cache')
      /\ UNCHANGED <<auth, place, leaving, rows, past>>
  BY BudgetTyped DEF FetchFails
<1>2. /\ cache' \in [Table -> Query] /\ \A u \in Table : u # t => cache'[u] = cache[u]
      /\ cache'[t].fetch = "idle" /\ cache'[t].got = cache[t].got
      /\ cache'[t].data = cache[t].data
      /\ cache'[t].loaded = cache[t].loaded /\ cache'[t].as = cache[t].as
      /\ cache'[t].error = TRUE /\ cache'[t].stale = TRUE
  BY <1>1, FailedIs
<1>3. Stay
  BY <1>1, SettleEffect
<1>4. view' \in View /\ (view.made \in 0..Len(calls))'
  BY <1>1, <1>2, <1>3, RerenderTyped DEF Stay
<1>5. Typed'
  BY <1>1, <1>2, <1>3, <1>4, TypedKept, TypedParts, TypedNext DEF Stay
<1>6. QED
  BY <1>1, <1>2, <1>3, <1>5

LEMMA FetchDeniedIs ==
  ASSUME Typed, NEW t \in Table, FetchDenied(t)
  PROVE  /\ Typed' /\ Stay /\ Awake /\ calls' = Settled(t)
         /\ cache[t].fetch = "out" /\ cache[t].as \notin auth.live
         /\ \A u \in Table : u # t => cache'[u] = cache[u]
         /\ cache'[t].fetch = "idle" /\ cache'[t].got = cache[t].got
         /\ cache'[t].data = cache[t].data
         /\ cache'[t].loaded = cache[t].loaded /\ cache'[t].as = cache[t].as
         /\ cache'[t].error = TRUE /\ cache'[t].stale = TRUE
         /\ auth' = SignedOut /\ leaving' = "login"
         /\ past'.opened = past.opened /\ past'.visit = past.visit
         /\ past'.missed = past.missed /\ past'.otherTab = past.otherTab
         /\ past'.disturbed = past.disturbed
         /\ past'.wiped = (past.wiped \/ Wiped(cache[t].as))
         /\ UNCHANGED <<place, view, rows, budget>>
<1> DEFINE b == past.wiped \/ Wiped(cache[t].as)
<1>1. /\ Awake /\ calls' = Settled(t)
      /\ cache[t].fetch = "out" /\ cache[t].as \notin auth.live
      /\ cache' = [cache EXCEPT ![t].fetch = "idle", ![t].error = TRUE, ![t].stale = TRUE]
      /\ auth' = SignedOut /\ leaving' = "login"
      /\ past' = [past EXCEPT !.wiped = b]
      /\ UNCHANGED <<place, view, rows, budget>>
  BY DEF FetchDenied, Denied
<1>2. /\ cache' \in [Table -> Query] /\ \A u \in Table : u # t => cache'[u] = cache[u]
      /\ cache'[t].fetch = "idle" /\ cache'[t].got = cache[t].got
      /\ cache'[t].data = cache[t].data
      /\ cache'[t].loaded = cache[t].loaded /\ cache'[t].as = cache[t].as
      /\ cache'[t].error = TRUE /\ cache'[t].stale = TRUE
  BY <1>1, FailedIs
<1>3. Stay
  BY <1>1, SettleEffect
<1>4. b \in BOOLEAN
  OBVIOUS
<1>5. /\ past' \in Past
      /\ past'.opened = past.opened /\ past'.visit = past.visit
      /\ past'.missed = past.missed /\ past'.otherTab = past.otherTab
      /\ past'.disturbed = past.disturbed /\ past'.wiped = b
  <2> HIDE DEF b
  <2>1. QED
    BY <1>1, <1>4, PastIs
<1>6. (view.made \in 0..Len(calls))'
  BY <1>1, <1>3, MadeKept DEF Stay
<1>7. Typed'
  BY <1>1, <1>2, <1>3, <1>5, <1>6, TypedKept, TypedParts, TypedNext DEF Stay
<1>8. QED
  BY <1>1, <1>2, <1>3, <1>5, <1>7

\* a list of the page is fetched again
Refetches(t) ==
  /\ Awake /\ t \in Mounts[place] /\ cache[t].fetch = "idle" /\ budget' \in Bounds
  /\ cache' = [cache EXCEPT ![t] = Started(@)]
  /\ UNCHANGED <<auth, place, leaving, view, rows, calls, past>>

LEMMA RefetchesAre ==
  ASSUME Typed
  PROVE  /\ \A t \in Table : Refetch(t) => Refetches(t)
         /\ PollDomains => Refetches("domains") /\ "domains" \in Table
<1>1. \A t \in Table : Refetch(t) => Refetches(t)
  BY BudgetTyped DEF Refetch, Refetches
<1>2. PollDomains => Refetches("domains") /\ "domains" \in Table
  BY PlaceNames, TypedParts DEF PollDomains, Refetches, Mounts
<1>3. QED
  BY <1>1, <1>2

LEMMA RefetchesIs ==
  ASSUME Typed, NEW t \in Table, Refetches(t)
  PROVE  /\ Typed' /\ \A u \in Table : u # t => cache'[u] = cache[u]
         /\ cache'[t] = Started(cache[t]) /\ cache'[t].loaded = cache[t].loaded
         /\ cache'[t].data = cache[t].data /\ cache'[t].got = {}
         /\ cache'[t].as = auth.token /\ cache'[t].fetch = "out"
         /\ cache'[t].stale = cache[t].stale
         /\ (cache'[t].error <=> cache[t].error /\ cache[t].loaded)
<1>1. cache' = [cache EXCEPT ![t] = Started(cache[t])]
  BY DEF Refetches
<1>2. /\ Started(cache[t]) \in Query
      /\ Started(cache[t]).loaded = cache[t].loaded
      /\ Started(cache[t]).data = cache[t].data /\ Started(cache[t]).got = {}
      /\ Started(cache[t]).as = auth.token /\ Started(cache[t]).fetch = "out"
      /\ Started(cache[t]).stale = cache[t].stale
      /\ (Started(cache[t]).error <=> cache[t].error /\ cache[t].loaded)
  BY CacheOf, StartedIs
<1>3. /\ cache' \in [Table -> Query] /\ \A u \in Table : u # t => cache'[u] = cache[u]
      /\ cache'[t] = Started(cache[t])
  <2> DEFINE q == Started(cache[t])
  <2>1. cache' = [cache EXCEPT ![t] = q] /\ q \in Query
    BY <1>1, <1>2
  <2> HIDE DEF q
  <2>2. /\ cache' \in [Table -> Query] /\ \A u \in Table : u # t => cache'[u] = cache[u]
        /\ cache'[t] = q
    BY <2>1, OneStarted
  <2>3. QED
    BY <2>2 DEF q
<1>4. (view.made \in 0..Len(calls))'
  BY MadeKept DEF Refetches
<1>5. Typed'
  BY <1>3, <1>4, TypedKept, TypedParts, TypedNext DEF Refetches
<1>6. QED
  BY <1>2, <1>3, <1>5

LEMMA LoadIs ==
  ASSUME Typed, Load
  PROVE  /\ Typed' /\ Stay /\ Awake /\ leaving # None /\ leaving' = None
         /\ place' = IF auth.cookie THEN leaving ELSE "login"
         /\ place' \in {"login", "overview"}
         /\ calls' = [c \in DOMAIN calls |-> AfterUnload(c)]
         /\ cache' = Loaded(place') /\ view' = Blank
         /\ auth'.token = auth.token /\ auth'.stored = auth.stored
         /\ auth'.tenant = auth.stored /\ auth'.cookie = auth.cookie
         /\ auth'.live = auth.live /\ auth'.closed = auth.closed /\ auth'.known = auth.known
         /\ past'.opened = past.opened /\ past'.visit = past.visit + 1
         /\ past'.missed = {} /\ past'.otherTab = FALSE
         /\ past'.disturbed = past.disturbed /\ past'.wiped = past.wiped
         /\ UNCHANGED <<rows, budget>>
<1>1. /\ Awake /\ leaving # None /\ leaving' = None
      /\ place' = IF auth.cookie THEN leaving ELSE "login"
      /\ calls' = [c \in DOMAIN calls |-> AfterUnload(c)]
      /\ cache' = Loaded(place') /\ view' = Blank
      /\ auth' = [auth EXCEPT !.tenant = auth.stored]
      /\ past' = [past EXCEPT !.visit = @ + 1, !.otherTab = FALSE, !.missed = {}]
      /\ UNCHANGED <<rows, budget>>
  BY DEF Load
<1>2. place' \in {"login", "overview"} /\ place' \in Place
  BY <1>1, PlaceNames, TypedParts
<1>3. cache' \in [Table -> Query]
  BY <1>1, <1>2, LoadedIs
<1>4. Stay
  BY <1>1, UnloadEffect
<1>5. /\ AuthTyped' /\ auth'.token = auth.token /\ auth'.stored = auth.stored
      /\ auth'.tenant = auth.stored /\ auth'.cookie = auth.cookie
      /\ auth'.live = auth.live /\ auth'.closed = auth.closed /\ auth'.known = auth.known
  BY <1>1 DEF Typed, Auth, AuthTyped
<1>6. /\ past' \in Past
      /\ past'.opened = past.opened /\ past'.visit = past.visit + 1
      /\ past'.missed = {} /\ past'.otherTab = FALSE
      /\ past'.disturbed = past.disturbed /\ past'.wiped = past.wiped
  BY <1>1, LoadPast
<1>7. view' \in View /\ (view.made \in 0..Len(calls))'
  BY <1>1, <1>4, MadeKept, BlankIs DEF Stay
<1>8. Typed'
  BY <1>1, <1>2, <1>3, <1>4, <1>5, <1>6, <1>7, TypedParts, TypedNext DEF Stay
<1>9. QED
  BY <1>1, <1>2, <1>4, <1>5, <1>6, <1>8

LEMMA OutsideIs ==
  ASSUME Typed, NEW i \in Ids, Outside(i)
  PROVE  /\ Typed' /\ Awake
         /\ rows[i].state \in Living /\ rows[i].table \notin {"keys", "me"}
         /\ \A j \in Ids : j # i => rows'[j] = rows[j]
         /\ rows'[i].table = rows[i].table /\ rows'[i].acct = rows[i].acct
         /\ rows'[i].rev = rows[i].rev /\ rows'[i].set = rows[i].set
         /\ rows'[i].state \in Living \union {"gone"}
         /\ past'.opened = past.opened /\ past'.visit = past.visit
         /\ past'.missed = past.missed \union {t \in Table : i \in RowsOf(t)}
         /\ past'.otherTab = past.otherTab /\ past'.disturbed = past.disturbed
         /\ past'.wiped = past.wiped
         /\ UNCHANGED <<auth, place, leaving, view, cache, calls>>
<1>1. PICK s \in Living \union {"gone"} : rows' = [rows EXCEPT ![i].state = s]
  BY DEF Outside, Living
<1>2. /\ Awake /\ budget' \in Bounds
      /\ rows[i].state \in Living /\ rows[i].table \notin {"keys", "me"}
      /\ past' = [past EXCEPT !.missed = @ \union {t \in Table : i \in RowsOf(t)}]
      /\ UNCHANGED <<auth, place, leaving, view, cache, calls>>
  BY BudgetTyped DEF Outside
<1> DEFINE r == [rows[i] EXCEPT !.state = s]
<1>3. rows \in [Ids -> Row] /\ rows[i] \in Row /\ rows' = [rows EXCEPT ![i] = r]
  BY <1>1 DEF Typed
<1>4. /\ r \in Row /\ r.table = rows[i].table /\ r.acct = rows[i].acct
      /\ r.state = s /\ r.rev = rows[i].rev /\ r.set = rows[i].set
  BY <1>3 DEF Row, RowState, Living
<1> HIDE DEF r
<1>5. /\ rows' \in [Ids -> Row] /\ \A j \in Ids : j # i => rows'[j] = rows[j]
      /\ rows'[i] = r
  BY <1>3, <1>4
<1>6. past.missed \union {t \in Table : i \in RowsOf(t)} \in SUBSET Table
  BY PastIs
<1>7. /\ past' \in Past /\ past'.opened = past.opened /\ past'.visit = past.visit
      /\ past'.missed = past.missed \union {t \in Table : i \in RowsOf(t)}
      /\ past'.otherTab = past.otherTab /\ past'.disturbed = past.disturbed
      /\ past'.wiped = past.wiped
  BY <1>2, <1>6, PastIs
<1>8. (view.made \in 0..Len(calls))'
  BY <1>2, MadeKept
<1>9. Typed'
  BY <1>2, <1>5, <1>7, <1>8, TypedKept, TypedParts, TypedNext
<1>10. QED
  BY <1>1, <1>2, <1>4, <1>5, <1>7, <1>9

\* what happens to the session outside this tab
LEMMA SessionEventIs ==
  ASSUME Typed, OtherTab \/ TokenExpires \/ CookieExpires
  PROVE  /\ Typed' /\ Awake
         /\ auth'.tenant = auth.tenant /\ auth'.closed = auth.closed
         /\ past'.opened = past.opened /\ past'.visit = past.visit
         /\ past'.missed = past.missed /\ past'.wiped = past.wiped
         /\ \/ auth'.token = auth.token /\ auth'.stored = auth.stored
               /\ past'.otherTab = past.otherTab
            \/ past'.otherTab /\ past'.disturbed
         /\ \/ auth'.cookie = auth.cookie /\ past'.disturbed = past.disturbed
               /\ auth'.live \subseteq auth.live
            \/ past'.disturbed
         /\ UNCHANGED <<place, leaving, view, rows, cache, calls>>
<1>1. Awake /\ budget' \in Bounds /\ UNCHANGED <<place, leaving, view, rows, cache, calls>>
  BY BudgetTyped DEF OtherTab, TokenExpires, CookieExpires, SessionEvent
<1>2. (view.made \in 0..Len(calls))'
  BY <1>1, MadeKept
<1>3. past \in Past /\ AuthTyped
  BY TypedParts
<1>4. CASE OtherTab
  <2>1. PICK a \in (auth.live \union (Accounts \ auth.known) \union {None}) \ {auth.token} :
          /\ auth' = [auth EXCEPT !.token = a, !.stored = a, !.cookie = (a # None),
                                  !.live = @ \union ({a} \ {None}),
                                  !.known = @ \union ({a} \ {None})]
          /\ past' = [past EXCEPT !.otherTab = TRUE, !.disturbed = TRUE]
    BY <1>4 DEF OtherTab, SessionEvent
  <2>2. /\ past' \in Past /\ past'.opened = past.opened /\ past'.visit = past.visit
        /\ past'.missed = past.missed /\ past'.wiped = past.wiped
        /\ past'.otherTab /\ past'.disturbed
    BY <1>3, <2>1 DEF Past
  <2>3. a \in Signed /\ ({a} \ {None}) \subseteq Accounts
    BY <1>3, AuthIs DEF Signed
  <2>4. a # None => a \notin auth.closed
    BY <1>3 DEF AuthTyped
  <2> DEFINE b == a # None
             e == {a} \ {None}
             l == auth.live \union e
             k == auth.known \union e
  <2>5. b \in BOOLEAN /\ l \in SUBSET Accounts /\ k \in SUBSET Accounts
        /\ auth' = [auth EXCEPT !.token = a, !.stored = a, !.cookie = b, !.live = l, !.known = k]
    BY <2>1, <2>3, AuthIs
  <2>6. auth.closed \subseteq k /\ l \subseteq k \ auth.closed
    BY <1>3, <2>4 DEF AuthTyped
  <2> HIDE DEF b, l, k
  <2>7. AuthTyped' /\ auth'.tenant = auth.tenant /\ auth'.closed = auth.closed
    BY <1>3, <2>3, <2>5, <2>6 DEF AuthTyped, Auth
  <2>8. Typed'
    BY <1>1, <1>2, <2>2, <2>7, TypedParts, TypedNext
  <2>9. QED
    BY <1>1, <2>2, <2>7, <2>8
<1>5. CASE TokenExpires
  <2>1. PICK a \in auth.live : auth' = [auth EXCEPT !.live = @ \ {a}] /\ past' = past
    BY <1>5 DEF TokenExpires, SessionEvent
  <2>2. /\ AuthTyped' /\ auth'.tenant = auth.tenant /\ auth'.closed = auth.closed
        /\ auth'.token = auth.token /\ auth'.stored = auth.stored /\ auth'.cookie = auth.cookie
        /\ auth'.live \subseteq auth.live
    BY <1>3, <2>1 DEF Auth, AuthTyped
  <2>3. Typed'
    BY <1>1, <1>2, <1>3, <2>1, <2>2, TypedParts, TypedNext
  <2>4. QED
    BY <1>1, <2>1, <2>2, <2>3
<1>6. CASE CookieExpires
  <2>1. auth' = [auth EXCEPT !.cookie = FALSE] /\ past' = [past EXCEPT !.disturbed = TRUE]
    BY <1>6 DEF CookieExpires, SessionEvent
  <2>2. /\ AuthTyped' /\ auth'.tenant = auth.tenant /\ auth'.closed = auth.closed
        /\ auth'.token = auth.token /\ auth'.stored = auth.stored
    BY <1>3, <2>1 DEF Auth, AuthTyped
  <2>3. /\ past' \in Past /\ past'.opened = past.opened /\ past'.visit = past.visit
        /\ past'.missed = past.missed /\ past'.wiped = past.wiped
        /\ past'.otherTab = past.otherTab /\ past'.disturbed
    BY <1>3, <2>1 DEF Past
  <2>4. Typed'
    BY <1>1, <1>2, <2>2, <2>3, TypedParts, TypedNext
  <2>5. QED
    BY <1>1, <2>2, <2>3, <2>4
<1>7. QED
  BY <1>4, <1>5, <1>6

-----------------------------------------------------------------------------
(***************************************************************************)
(* Calls and forms: the steps that leave the page and its forms alone.     *)
(***************************************************************************)
Calling == InOrder /\ SentFromHere /\ Told

SamePage == /\ place' = place
            /\ past'.opened = past.opened /\ past'.visit = past.visit

\* how far the server and the cache bring a call
Goes == {<<"sent", "ok">>, <<"sent", "lost">>, <<"ok", "lost">>, <<"ok", "won">>,
         <<"ok", "settling">>, <<"settling", "won">>, <<"orphan", "over">>}

GoesOn(d) ==
  /\ SameHere(d)
  /\ calls'[d].pc = calls[d].pc \/ <<calls[d].pc, calls'[d].pc>> \in Goes
  /\ calls'[d].made = calls[d].made
       \/ <<calls[d].pc, calls'[d].pc>> \in {<<"sent", "ok">>, <<"orphan", "over">>}
  /\ \/ calls'[d].unheard = calls[d].unheard
          /\ <<calls[d].pc, calls'[d].pc>> # <<"ok", "lost">>
     \/ calls[d].pc \in {"sent", "ok"} /\ calls'[d].pc = "lost"
          /\ (calls'[d].unheard <=> calls[d].pc = "ok")

Quiet ==
  /\ Stay /\ SamePage
  /\ view'.dialog = view.dialog /\ view'.made = view.made /\ view'.timers = view.timers
  /\ view'.step = view.step \/ place = "providers"
  /\ \A d \in DOMAIN calls : GoesOn(d)

LEMMA QuietCalls ==
  ASSUME Typed, Calling, Quiet PROVE Calling'
<1>1. InOrder'
  BY DEF Calling, InOrder, Quiet, Stay, Fixed, SamePage
<1>2. SentFromHere'
  <2>1. SUFFICES ASSUME NEW c \in DOMAIN calls, Mounted(c)'
                 PROVE  calls'[c].op \in Offers[place'] /\ calls'[c].pc # "orphan"
    BY DEF SentFromHere, Quiet, Stay
  <2>2. Mounted(c) /\ calls'[c].op = calls[c].op /\ place' = place
    BY <2>1 DEF Mounted, Quiet, Stay, Fixed, SamePage
  <2>3. calls'[c].pc # "orphan"
    BY <2>2 DEF Calling, SentFromHere, Quiet, GoesOn, Goes
  <2>4. QED
    BY <2>2, <2>3 DEF Calling, SentFromHere
<1>3. Told'
  <2>1. SUFFICES ASSUME NEW c \in DOMAIN calls
                 PROVE  /\ calls'[c].pc = "sent" => calls'[c].made = None
                        /\ calls'[c].pc # "over" => ~calls'[c].won
                        /\ calls'[c].pc \notin {"lost", "over"} => ~calls'[c].unheard
                        /\ Mounted(c)' /\ calls'[c].pc \in {"lost", "over"} /\ ~calls'[c].won
                             => calls'[c].made = None \/ calls'[c].unheard
    BY DEF Told, Quiet, Stay
  <2>2. Mounted(c)' = Mounted(c)
    BY DEF Mounted, Quiet, Stay, Fixed, SamePage
  <2>3. GoesOn(c)
    BY DEF Quiet
  <2>4. Mounted(c) => calls[c].pc # "orphan"
    BY DEF Calling, SentFromHere
  <2>5. /\ calls[c].pc = "sent" => calls[c].made = None
        /\ calls[c].pc # "over" => ~calls[c].won
        /\ calls[c].pc \notin {"lost", "over"} => ~calls[c].unheard
        /\ Mounted(c) /\ calls[c].pc \in {"lost", "over"} /\ ~calls[c].won
             => calls[c].made = None \/ calls[c].unheard
    BY DEF Calling, Told
  <2>6. QED
    BY <2>2, <2>3, <2>4, <2>5 DEF GoesOn, Goes, SameHere
<1>4. QED
  BY <1>1, <1>2, <1>3 DEF Calling

LEMMA QuietForms ==
  ASSUME Typed, Calling, Forms, Quiet
  PROVE  (TimersHere /\ OneAtATime /\ NoReset /\ FormClosed /\ SecretShown /\ SentAgain)'
<1> USE DEF Forms
<1>1. \A d \in DOMAIN calls : /\ Fixed(d) /\ GoesOn(d) /\ (Mounted(d)' <=> Mounted(d))
                              /\ calls'[d].won = calls[d].won
                              /\ calls'[d].dismissed = calls[d].dismissed
  BY DEF Quiet, Stay, Mounted, SamePage, Fixed, GoesOn, SameHere
<1>2. DOMAIN calls' = DOMAIN calls
  BY DEF Quiet, Stay
<1>3. TimersHere'
  BY DEF TimersHere, Quiet, SamePage
<1>4. OneAtATime'
  BY <1>1, <1>2 DEF OneAtATime, Fixed, GoesOn, Goes
<1>5. NoReset'
  BY <1>1, <1>2 DEF NoReset, Fixed, Quiet, SamePage
<1>6. FormClosed'
  <2>1. SUFFICES ASSUME NEW c \in DOMAIN calls, Mounted(c), calls[c].won
                 PROVE  /\ calls[c].op \notin {"send_email", "create_template"}
                        /\ (/\ calls[c].op \in DOMAIN Form /\ calls[c].opening = past.opened
                            /\ view.dialog = Form[calls[c].op]) =>
                             /\ calls[c].op \in SecretOps
                             /\ calls[c].op = "invite" => view.made # 0
                             /\ calls[c].op # "invite" => view'.step # "form" \/ calls[c].reset
    BY <1>1, <1>2 DEF FormClosed, Fixed, Quiet, SamePage
  <2>2. calls[c].op \in {"create_key", "create_mcp"} => view'.step = view.step
    BY <2>1 DEF Calling, SentFromHere, Quiet, Offers
  <2>3. QED
    BY <2>1, <2>2, OpNames DEF FormClosed, SecretOps
<1>7. SecretShown'
  BY <1>1, <1>2 DEF SecretShown, Fixed, Quiet, SamePage
<1>8. SentAgain'
  <2>1. SUFFICES ASSUME NEW c \in DOMAIN calls, NEW d \in DOMAIN calls,
                        c < d, calls[c].op = calls[d].op, calls[c].op \in Refillable,
                        calls[c].opening = calls[d].opening, calls[c].visit = calls[d].visit
                 PROVE  calls'[c].made = None \/ calls'[c].unheard \/ calls[c].reset
    BY <1>1, <1>2 DEF SentAgain, Fixed
  <2>2. calls[c].pc = "over"
    BY <2>1 DEF OneAtATime
  <2>3. calls'[c].made = calls[c].made /\ calls'[c].unheard = calls[c].unheard
    BY <1>1, <2>2 DEF GoesOn, Goes
  <2>4. QED
    BY <2>1, <2>3 DEF SentAgain
<1>9. QED
  BY <1>3, <1>4, <1>5, <1>6, <1>7, <1>8

\* the steps that change one call or none
LEMMA QuietOne ==
  ASSUME Typed, Stay, SamePage, NEW c \in DOMAIN calls, Only(c), GoesOn(c),
         view'.dialog = view.dialog, view'.made = view.made, view'.timers = view.timers,
         view'.step = view.step \/ place = "providers"
  PROVE  Quiet
<1>1. \A d \in DOMAIN calls : d # c => GoesOn(d)
  BY DEF Only, GoesOn, SameHere
<1>2. QED
  BY <1>1 DEF Quiet

LEMMA QuietNone ==
  ASSUME Typed, UNCHANGED calls, SamePage,
         view'.dialog = view.dialog, view'.made = view.made, view'.timers = view.timers,
         view'.step = view.step \/ place = "providers"
  PROVE  Quiet /\ \A d \in DOMAIN calls : calls'[d].made = calls[d].made
<1>1. Stay
  BY DEF Typed, Stay, Fixed
<1>2. QED
  BY <1>1 DEF Quiet, GoesOn, SameHere

LEMMA QuietSettles ==
  ASSUME Typed, NEW t \in Table, calls' = Settled(t), SamePage,
         view'.dialog = view.dialog, view'.made = view.made, view'.timers = view.timers,
         view'.step = view.step \/ place = "providers"
  PROVE  Quiet /\ \A d \in DOMAIN calls : calls'[d].made = calls[d].made
<1>1. Stay /\ \A d \in DOMAIN calls :
        /\ SameMade(d) /\ SameHere(d) /\ calls'[d].unheard = calls[d].unheard
        /\ calls'[d].pc = calls[d].pc \/ (calls[d].pc = "settling" /\ calls'[d].pc = "won")
  <2>1. Stay
    BY SettleEffect
  <2>2. ASSUME NEW d \in DOMAIN calls
        PROVE  /\ SameMade(d) /\ SameHere(d) /\ calls'[d].unheard = calls[d].unheard
               /\ calls'[d].pc = calls[d].pc \/ (calls[d].pc = "settling" /\ calls'[d].pc = "won")
    BY SettleEffect DEF SameMade, SameHere
  <2>3. QED
    BY <2>1, <2>2
<1>2. \A d \in DOMAIN calls : GoesOn(d) /\ calls'[d].made = calls[d].made
  BY <1>1 DEF GoesOn, Goes, SameMade
<1>3. QED
  BY <1>1, <1>2 DEF Quiet

LEMMA RerenderQuiet ==
  ASSUME Typed, Typed', view' = Rerendered(place, view, cache')
  PROVE  /\ view'.dialog = view.dialog /\ view'.made = view.made /\ view'.timers = view.timers
         /\ view'.step = view.step \/ place = "providers"
<1>1. cache' \in [Table -> Query]
  BY DEF Typed
<1>2. QED
  BY <1>1, RerenderedIs, TypedParts

\* what the server, the network, other clients and the cache do
Serves(c) == \/ ServerCreates(c) \/ ServerChanges(c) \/ ServerAnswersFree(c) \/ ServerRefuses(c)
             \/ Answer(c) \/ CallDenied(c) \/ OrphanDenied(c) \/ Lose(c)

Fetches(t) == \/ FetchServed(t) \/ FetchArrives(t) \/ FetchDenied(t) \/ FetchFails(t)
              \/ Refetches(t)

Elsewhere == \/ SignOut \/ PollSetup \/ (\E i \in Ids : Outside(i))
             \/ OtherTab \/ TokenExpires \/ CookieExpires \/ UNCHANGED cvars

LEMMA ServesQuietly ==
  ASSUME Typed, Shapes, NEW c \in DOMAIN calls, Serves(c)
  PROVE  /\ Quiet /\ Typed'
         /\ ~ServerCreates(c) => \A d \in DOMAIN calls : calls'[d].made = calls[d].made
<1> USE DEF GoesOn, Goes, SamePage, Done
<1>1. CASE ServerCreates(c)
  <2>1. /\ Typed' /\ Stay /\ Only(c) /\ SameHere(c) /\ SamePage /\ UNCHANGED view
        /\ calls'[c].pc = Done(c) /\ calls'[c].unheard = calls[c].unheard
    BY <1>1, CreatesIs
  <2>2. calls[c].pc \in {"sent", "orphan"}
    BY <1>1 DEF ServerCreates, AtServer
  <2>3. GoesOn(c)
    BY <2>1, <2>2
  <2>4. QED
    BY <1>1, <2>1, <2>3, QuietOne
<1>2. CASE ServerChanges(c)
  <2>1. /\ Typed' /\ Stay /\ Only(c) /\ SameHere(c) /\ SamePage /\ UNCHANGED view
        /\ calls'[c].pc = Done(c) /\ calls'[c].unheard = calls[c].unheard
        /\ calls'[c].made = calls[c].made
    BY <1>2, ChangesIs
  <2>2. calls[c].pc \in {"sent", "orphan"}
    BY <1>2 DEF ServerChanges, AtServer
  <2>3. GoesOn(c)
    BY <2>1, <2>2
  <2>4. QED
    BY <2>1, <2>3, QuietOne DEF Only
<1>3. CASE ServerAnswersFree(c)
  <2>1. /\ Typed' /\ Stay /\ Only(c) /\ SameHere(c) /\ SamePage /\ UNCHANGED view
        /\ calls'[c].pc = Done(c) /\ calls'[c].unheard = calls[c].unheard
        /\ calls'[c].made = calls[c].made /\ calls[c].pc \in {"sent", "orphan"}
    BY <1>3, AnswersFreeIs DEF SameMade
  <2>2. GoesOn(c)
    BY <2>1
  <2>3. QED
    BY <2>1, <2>2, QuietOne DEF Only
<1>4. CASE ServerRefuses(c)
  <2>1. /\ Typed' /\ Stay /\ Only(c) /\ SameHere(c) /\ SamePage /\ UNCHANGED view
        /\ calls'[c].pc = (IF calls[c].pc = "sent" THEN "lost" ELSE "over")
        /\ calls'[c].unheard = calls[c].unheard
        /\ calls'[c].made = calls[c].made /\ calls[c].pc \in {"sent", "orphan"}
    BY <1>4, RefusesIs DEF SameMade
  <2>2. GoesOn(c)
    BY <2>1
  <2>3. QED
    BY <2>1, <2>2, QuietOne DEF Only
<1>5. CASE Answer(c)
  <2>1. /\ Typed' /\ Stay /\ Only(c) /\ SameHere(c) /\ SamePage /\ UNCHANGED view
        /\ calls'[c].pc \in {"won", "settling"}
        /\ calls'[c].unheard = calls[c].unheard
        /\ calls'[c].made = calls[c].made /\ calls[c].pc = "ok"
    BY <1>5, AnswerIs DEF SameMade
  <2>2. GoesOn(c)
    BY <2>1
  <2>3. QED
    BY <2>1, <2>2, QuietOne DEF Only
<1>6. CASE CallDenied(c)
  <2>1. /\ Typed' /\ Stay /\ Only(c) /\ SameHere(c) /\ SamePage /\ UNCHANGED view
        /\ calls'[c].pc = "lost" /\ calls'[c].unheard = calls[c].unheard
        /\ calls'[c].made = calls[c].made /\ calls[c].pc = "sent"
    BY <1>6, CallDeniedIs DEF SameMade
  <2>2. GoesOn(c)
    BY <2>1
  <2>3. QED
    BY <2>1, <2>2, QuietOne DEF Only
<1>7. CASE OrphanDenied(c)
  <2>1. /\ Typed' /\ Stay /\ Only(c) /\ SameHere(c) /\ SamePage /\ UNCHANGED view
        /\ calls'[c].pc = "over" /\ calls'[c].unheard = calls[c].unheard
        /\ calls'[c].made = calls[c].made /\ calls[c].pc = "orphan"
    BY <1>7, OrphanDeniedIs DEF SameMade
  <2>2. GoesOn(c)
    BY <2>1
  <2>3. QED
    BY <2>1, <2>2, QuietOne DEF Only
<1>8. CASE Lose(c)
  <2>1. /\ Typed' /\ Stay /\ Only(c) /\ SameHere(c) /\ SamePage /\ UNCHANGED view
        /\ calls'[c].pc = "lost" /\ (calls'[c].unheard <=> calls[c].pc = "ok")
        /\ calls'[c].made = calls[c].made /\ calls[c].pc \in {"sent", "ok"}
    BY <1>8, LoseIs DEF SameMade
  <2>2. GoesOn(c)
    BY <2>1
  <2>3. QED
    BY <2>1, <2>2, QuietOne DEF Only
<1>9. QED
  BY <1>1, <1>2, <1>3, <1>4, <1>5, <1>6, <1>7, <1>8 DEF Serves

LEMMA FetchesQuietly ==
  ASSUME Typed, NEW t \in Table, Fetches(t)
  PROVE  Quiet /\ Typed' /\ \A d \in DOMAIN calls : calls'[d].made = calls[d].made
<1> USE DEF SamePage
<1>1. CASE FetchServed(t)
  BY <1>1, FetchServedIs, QuietNone
<1>2. CASE FetchArrives(t)
  BY <1>2, FetchArrivesIs, QuietSettles, RerenderQuiet
<1>3. CASE FetchDenied(t)
  BY <1>3, FetchDeniedIs, QuietSettles
<1>4. CASE FetchFails(t)
  BY <1>4, FetchFailsIs, QuietSettles, RerenderQuiet
<1>5. CASE Refetches(t)
  BY <1>5, RefetchesIs, QuietNone DEF Refetches
<1>6. QED
  BY <1>1, <1>2, <1>3, <1>4, <1>5 DEF Fetches

LEMMA ElsewhereQuietly ==
  ASSUME Typed, Elsewhere
  PROVE  Quiet /\ Typed' /\ \A d \in DOMAIN calls : calls'[d].made = calls[d].made
<1> USE DEF SamePage
<1>1. CASE SignOut
  BY <1>1, SignOutTyped, QuietNone DEF SignOut
<1>2. CASE PollSetup
  BY <1>2, PollSetupTyped, QuietNone
<1>3. CASE \E i \in Ids : Outside(i)
  BY <1>3, OutsideIs, QuietNone
<1>4. CASE OtherTab \/ TokenExpires \/ CookieExpires
  BY <1>4, SessionEventIs, QuietNone
<1>5. CASE UNCHANGED cvars
  BY <1>5, TypedUnchanged, QuietNone DEF cvars
<1>6. QED
  BY <1>1, <1>2, <1>3, <1>4, <1>5 DEF Elsewhere

-----------------------------------------------------------------------------
(***************************************************************************)
(* Calls and forms: a call is sent.                                        *)
(***************************************************************************)
FormsShown == /\ view'.dialog = view.dialog /\ view'.step = view.step
              /\ view'.made = view.made /\ view'.timers = view.timers

Sent(n) ==
  /\ n \in Call /\ calls' = Append(calls, n) /\ Awake
  /\ SamePage /\ FormsShown
  /\ n.op \in Offers[place] /\ n.pc = "sent" /\ ~n.won /\ n.made = None /\ ~n.unheard
  /\ ~n.dismissed /\ n.opening = past.opened /\ n.visit = past.visit
  /\ (n.reset <=> view.timers > 0)
  /\ n.op \in Refillable => ~IsPending(n.op)
  /\ n.op \in DOMAIN Form =>
       /\ view.dialog = Form[n.op]
       /\ n.op \in {"create_key", "create_mcp"} => view.step = "form"
       /\ n.op = "invite" => view.made = 0

LEMMA PageHook ==
  \A op \in Refillable, o \in Op : Hook(o) = Hook(op) <=> o = op
  BY Names, OpNames DEF Refillable, Hook

\* a call of this visit, once a later one of its kind was sent from it
LEMMA Older ==
  ASSUME Typed, InOrder, NEW c \in DOMAIN calls, NEW d \in DOMAIN calls, c < d, Mounted(c)
  PROVE  Mounted(d) /\ calls[d].visit = calls[c].visit
<1>1. calls[c] \in Call /\ calls[d] \in Call /\ past.visit \in Nat
  BY CallOf, PastIs
<1>2. calls[c].visit = past.visit /\ calls[c].visit <= calls[d].visit /\ calls[d].visit <= past.visit
  BY DEF InOrder, Mounted
<1>3. calls[c].visit \in Nat /\ calls[d].visit \in Nat
  BY <1>1 DEF Call
<1>4. QED
  BY <1>1, <1>2, <1>3 DEF Mounted

LEMMA NotLatest ==
  ASSUME Typed, InOrder, OneAtATime, NEW c \in DOMAIN calls, Mounted(c),
         calls[c].op \in Refillable, ~Latest(c)
  PROVE  calls[c].pc = "over"
<1>1. PICK d \in DOMAIN calls : Hook(calls[d].op) = Hook(calls[c].op) /\ ~(d <= c)
  BY DEF Latest
<1>2. c < d
  BY <1>1 DEF Typed
<1>3. calls[d].op = calls[c].op
  BY <1>1, PageHook, CallOf DEF Call
<1>4. QED
  BY <1>2, <1>3, Older DEF OneAtATime

LEMMA EarlierOver ==
  ASSUME Typed, Calling, OneAtATime, NEW n, Sent(n), n.op \in Refillable,
         NEW c \in DOMAIN calls, calls[c].op = n.op, calls[c].visit = past.visit
  PROVE  calls[c].pc = "over"
<1>1. Mounted(c)
  BY DEF Mounted
<1>2. CASE Latest(c)
  <2>1. ~Unfinished(c)
    BY <1>1, <1>2 DEF IsPending, Sent
  <2>2. ~Continues(c)
    BY DEF Sent, Awake
  <2>3. calls[c].pc # "orphan"
    BY <1>1 DEF Calling, SentFromHere
  <2>4. QED
    BY <2>1, <2>2, <2>3, CallOf DEF Unfinished, Continues, Call, CallPC
<1>3. CASE ~Latest(c)
  BY <1>1, <1>3, NotLatest DEF Calling
<1>4. QED
  BY <1>2, <1>3

LEMMA SentCalls ==
  ASSUME Typed, Calling, NEW n, Sent(n) PROVE Calling'
<1> DEFINE k == Len(calls) + 1
<1>1. /\ DOMAIN calls' = DOMAIN calls \union {k} /\ calls'[k] = n
      /\ \A d \in DOMAIN calls : calls'[d] = calls[d] /\ d < k
      /\ k \notin DOMAIN calls
  BY AppendEffect DEF Sent, Typed
<1> HIDE DEF k
<1>2. place' = place /\ past'.opened = past.opened /\ past'.visit = past.visit
      /\ past.opened \in Nat /\ past.visit \in Nat
  BY PastIs DEF Sent, SamePage
<1>3. InOrder'
  <2>1. SUFFICES ASSUME NEW c \in DOMAIN calls'
                 PROVE  /\ calls'[c].opening <= past.opened /\ calls'[c].visit <= past.visit
                        /\ \A d \in DOMAIN calls' : c < d =>
                             /\ calls'[c].opening <= calls'[d].opening
                             /\ calls'[c].visit <= calls'[d].visit
    BY <1>2 DEF InOrder
  <2>2. calls'[k].opening = past.opened /\ calls'[k].visit = past.visit
    BY <1>1 DEF Sent
  <2>3. CASE c = k
    <3>1. \A d \in DOMAIN calls' : ~(k < d) \/ d = k
      BY <1>1 DEF Typed, k
    <3>2. QED
      BY <1>2, <2>2, <2>3, <3>1
  <2>4. CASE c \in DOMAIN calls
    BY <1>1, <1>2, <2>2, <2>4 DEF Calling, InOrder
  <2>5. QED
    BY <1>1, <2>3, <2>4
<1>4. SentFromHere'
  BY <1>1, <1>2 DEF Calling, SentFromHere, Mounted, Sent
<1>5. Told'
  BY <1>1, <1>2 DEF Calling, Told, Mounted, Sent
<1>6. QED
  BY <1>3, <1>4, <1>5 DEF Calling

LEMMA SentForms ==
  ASSUME Typed, Calling, Forms, NEW n, Sent(n)
  PROVE  Forms'
<1> DEFINE k == Len(calls) + 1
<1>1. /\ DOMAIN calls' = DOMAIN calls \union {k} /\ calls'[k] = n
      /\ \A d \in DOMAIN calls : calls'[d] = calls[d] /\ d < k
      /\ k \notin DOMAIN calls /\ \A d \in DOMAIN calls' : ~(k < d)
  BY AppendEffect DEF Sent, Typed
<1> HIDE DEF k
<1>2. /\ place' = place /\ past'.opened = past.opened /\ past'.visit = past.visit
      /\ FormsShown /\ n.pc = "sent" /\ ~n.won /\ n.made = None
      /\ n.opening = past.opened /\ n.visit = past.visit /\ (n.reset <=> view.timers > 0)
      /\ n.op \in DOMAIN Form =>
           /\ view.dialog = Form[n.op]
           /\ n.op \in {"create_key", "create_mcp"} => view.step = "form"
           /\ n.op = "invite" => view.made = 0
  BY DEF Sent, SamePage
<1>3. view.timers \in Nat
  BY DEF Typed, View
<1>4. TimersHere'
  BY <1>2 DEF Forms, TimersHere, FormsShown
<1>5. OneAtATime'
  <2>1. SUFFICES ASSUME NEW c \in DOMAIN calls', NEW d \in DOMAIN calls',
                        c < d, calls'[c].op = calls'[d].op,
                        calls'[c].op \in Refillable,
                        calls'[c].visit = calls'[d].visit
                 PROVE  calls'[c].pc = "over"
    BY DEF OneAtATime
  <2>2. c \in DOMAIN calls
    BY <1>1, <2>1
  <2>3. CASE d = k
    BY <1>1, <1>2, <2>1, <2>2, <2>3, EarlierOver DEF Forms
  <2>4. CASE d \in DOMAIN calls
    BY <1>1, <2>1, <2>2, <2>4 DEF Forms, OneAtATime
  <2>5. QED
    BY <1>1, <2>3, <2>4
<1>6. NoReset'
  BY <1>1, <1>2, <1>3 DEF Forms, NoReset, FormsShown, Mounted
<1>7. FormClosed'
  BY <1>1, <1>2 DEF Forms, FormClosed, FormsShown, Mounted
<1>8. ASSUME NEW c \in DOMAIN calls, Mounted(c), calls[c].won, calls[c].op = n.op,
             calls[c].opening = past.opened, n.op \in DOMAIN Form
      PROVE  calls[c].reset
  BY <1>2, <1>8, OpNames DEF Forms, FormClosed, SecretOps
<1>9. SecretShown'
  <2>1. SUFFICES ASSUME NEW c \in DOMAIN calls', calls'[c].op \in SecretOps, Mounted(c)',
                        ~calls'[c].dismissed
                 PROVE  /\ calls'[c].opening = past.opened /\ view.dialog = Form[calls'[c].op]
                        /\ (calls'[c].won /\ ~calls'[c].reset) =>
                             /\ view.made = c
                             /\ \A d \in DOMAIN calls' : d > c => calls'[d].op # calls'[c].op
    BY <1>2 DEF SecretShown, FormsShown
  <2>2. CASE c = k
    BY <1>1, <1>2, <2>1, <2>2, OpNames DEF SecretOps
  <2>3. CASE c \in DOMAIN calls
    <3>1. /\ calls[c].op \in SecretOps /\ Mounted(c) /\ ~calls[c].dismissed /\ calls'[c] = calls[c]
      BY <1>1, <1>2, <2>1, <2>3 DEF Mounted
    <3>2. /\ calls[c].opening = past.opened /\ view.dialog = Form[calls[c].op]
          /\ (calls[c].won /\ ~calls[c].reset) =>
               /\ view.made = c
               /\ \A d \in DOMAIN calls : d > c => calls[d].op # calls[c].op
      BY <2>3, <3>1 DEF Forms, SecretShown
    <3>3. (calls[c].won /\ ~calls[c].reset) => n.op # calls[c].op
      BY <1>8, <2>3, <3>1, <3>2, OpNames DEF SecretOps
    <3>4. QED
      BY <1>1, <3>1, <3>2, <3>3
  <2>4. QED
    BY <1>1, <2>2, <2>3
<1>10. SentAgain'
  <2>1. SUFFICES ASSUME NEW c \in DOMAIN calls', NEW d \in DOMAIN calls',
                        c < d, calls'[c].op = calls'[d].op, calls'[c].op \in Refillable,
                        calls'[c].opening = calls'[d].opening, calls'[c].visit = calls'[d].visit
                 PROVE  calls'[c].made = None \/ calls'[c].unheard \/ calls'[c].reset
    BY DEF SentAgain
  <2>2. c \in DOMAIN calls /\ calls'[c] = calls[c]
    BY <1>1, <2>1
  <2>3. CASE d = k
    <3>1. calls[c].pc = "over" /\ Mounted(c) /\ calls[c].opening = past.opened
          /\ calls[c].op = n.op
      BY <1>1, <1>2, <2>1, <2>2, <2>3, EarlierOver DEF Forms, Mounted
    <3>2. CASE ~calls[c].won
      BY <2>2, <3>1, <3>2 DEF Calling, Told
    <3>3. CASE calls[c].won
      <4>1. calls[c].op \notin {"send_email", "create_template"}
        BY <2>2, <3>1, <3>3 DEF Forms, FormClosed
      <4>2. n.op \in DOMAIN Form
        BY <2>1, <2>2, <3>1, <4>1, OpNames DEF Refillable
      <4>3. QED
        BY <1>8, <2>2, <3>1, <3>3, <4>2
    <3>4. QED
      BY <3>2, <3>3
  <2>4. CASE d \in DOMAIN calls
    BY <1>1, <2>1, <2>2, <2>4 DEF Forms, SentAgain
  <2>5. QED
    BY <1>1, <2>3, <2>4
<1>11. QED
  BY <1>4, <1>5, <1>6, <1>7, <1>9, <1>10 DEF Forms

\* the calls the user sends
LEMMA NewFields ==
  ASSUME NEW op, NEW t, NEW i, NEW a
  PROVE  LET n == NewCall(op, t, i, a) IN
         /\ n.op = op /\ n.table = t /\ n.id = i /\ n.acct = a /\ n.pc = "sent"
         /\ ~n.won /\ ~n.followed /\ n.rev = 0 /\ n.set = {} /\ n.was = {}
         /\ n.made = None /\ ~n.unheard
         /\ (n.crowded <=> \E c \in DOMAIN calls : Unfinished(c)) /\ n.waits = {}
         /\ n.opening = past.opened /\ n.visit = past.visit /\ (n.reset <=> view.timers > 0)
         /\ ~n.dismissed
  BY DEF NewCall

LEMMA SendsSent ==
  ASSUME Typed, NEW op \in Op, NEW t \in Table, NEW i \in Ids \union {None}, NEW nv \in View,
         Sends(op, t, i, nv)
  PROVE  Sent(NewCall(op, t, i, auth.token))
<1> DEFINE n == NewCall(op, t, i, auth.token)
<1>1. /\ n.op = op /\ n.pc = "sent"
      /\ ~n.won /\ n.made = None /\ ~n.unheard
      /\ n.opening = past.opened /\ n.visit = past.visit /\ (n.reset <=> view.timers > 0)
      /\ ~n.dismissed
  BY NewFields
<1>2. n \in Call /\ calls' = Append(calls, n)
  BY SendsTyped
<1> HIDE DEF n
<1>3. SamePage /\ FormsShown /\ Awake
  BY DEF Sends, Send, SamePage, FormsShown, SameForms, Here
<1>4. /\ op \in Offers[place]
      /\ op \in Refillable => ~IsPending(op)
      /\ op \in DOMAIN Form =>
           /\ view.dialog = Form[op]
           /\ op \in {"create_key", "create_mcp"} => view.step = "form"
           /\ op = "invite" => view.made = 0
  BY DEF Sends
<1>5. Sent(n)
  BY <1>1, <1>2, <1>3, <1>4 DEF Sent
<1>6. QED
  BY <1>5 DEF n

LEMMA CredentialsSent ==
  ASSUME Typed, NEW op \in {"login", "signup"}, NEW a \in Accounts, Credentials(op, a)
  PROVE  Sent(NewCall(op, "session", None, a))
<1> DEFINE n == NewCall(op, "session", None, a)
<1>1. /\ n.op = op /\ n.pc = "sent"
      /\ ~n.won /\ n.made = None /\ ~n.unheard
      /\ n.opening = past.opened /\ n.visit = past.visit /\ (n.reset <=> view.timers > 0)
      /\ ~n.dismissed
  BY NewFields
<1>2. n \in Call /\ calls' = Append(calls, n)
  BY CredentialsTyped DEF Credentials
<1> HIDE DEF n
<1>3. SamePage /\ FormsShown /\ Awake /\ place = "login"
  BY CredentialsTyped DEF Credentials, SamePage, FormsShown, Here
<1>4. op \in Offers[place] /\ op \notin Refillable /\ op \notin DOMAIN Form
  BY <1>3, OpNames DEF Offers, Refillable
<1>5. Sent(n)
  BY <1>1, <1>2, <1>3, <1>4 DEF Sent
<1>6. QED
  BY <1>5 DEF n

LEMMA ToggledIs ==
  ASSUME Typed, NEW op \in DOMAIN Saves, NEW s
  PROVE  LET n == Toggled(op, s) IN
         /\ n.op = op /\ n.table = "me" /\ n.id = First /\ n.acct = auth.token /\ n.pc = "sent"
         /\ ~n.won /\ ~n.followed /\ n.rev = 0 /\ n.set = Flipped(s) \intersect Saves[op]
         /\ n.was = view.switches \intersect Saves[op]
         /\ n.made = None /\ ~n.unheard
         /\ (n.crowded <=> \E c \in DOMAIN calls : Unfinished(c)) /\ n.waits = {}
         /\ n.opening = past.opened /\ n.visit = past.visit /\ (n.reset <=> view.timers > 0)
         /\ ~n.dismissed
  BY DEF Toggled, NewCall

LEMMA ToggleSent ==
  ASSUME Typed, NEW op \in DOMAIN Saves, NEW s, Toggled(op, s) \in Call, SettingsPage,
         calls' = Append(calls, Toggled(op, s)), FormsShown, UNCHANGED <<place, past>>
  PROVE  Sent(Toggled(op, s))
<1> DEFINE n == Toggled(op, s)
<1>1. /\ n.op = op /\ n.pc = "sent"
      /\ ~n.won /\ n.made = None /\ ~n.unheard
      /\ n.opening = past.opened /\ n.visit = past.visit /\ (n.reset <=> view.timers > 0)
      /\ ~n.dismissed
  BY ToggledIs
<1>2. n \in Call /\ calls' = Append(calls, n)
  OBVIOUS
<1> HIDE DEF n
<1>3. SamePage /\ Awake /\ place = "settings"
  BY DEF SamePage, Here, SettingsPage, Ready
<1>4. op \in Offers[place] /\ op \notin Refillable /\ op \notin DOMAIN Form
  BY <1>3, OpNames DEF Offers, Refillable
<1>5. Sent(n)
  BY <1>1, <1>2, <1>3, <1>4 DEF Sent
<1>6. QED
  BY <1>5 DEF n

-----------------------------------------------------------------------------
(***************************************************************************)
(* Calls and forms: dialogs open and close, handlers end, pages change.    *)
(***************************************************************************)
LEMMA SameCalls ==
  ASSUME Typed, Calling, UNCHANGED <<calls, place>>, past'.visit = past.visit,
         past'.opened \in {past.opened, past.opened + 1}
  PROVE  Calling'
<1>1. /\ past.opened \in Nat /\ DOMAIN calls' = DOMAIN calls
      /\ \A c \in DOMAIN calls : calls[c].opening \in Nat
  BY PastIs, CallOf DEF Call
<1>2. InOrder'
  BY <1>1 DEF Calling, InOrder
<1>3. SentFromHere' /\ Told'
  BY DEF Calling, SentFromHere, Told, Mounted
<1>4. QED
  BY <1>2, <1>3 DEF Calling

LEMMA OpensKeeps ==
  ASSUME Typed, Calling, Forms, NEW nv \in View, Opens(nv)
  PROVE  Calling' /\ Forms'
<1>1. /\ view.dialog = "none" /\ view' = nv /\ UNCHANGED <<calls, place>>
      /\ past'.visit = past.visit /\ past'.opened = past.opened + 1
      /\ nv.made = view.made /\ nv.timers = view.timers /\ nv.step = view.step
  BY OpenedIs DEF Opens, OpenDialog
<1>2. Calling'
  BY <1>1, SameCalls
<1>3. \A c \in DOMAIN calls : /\ Mounted(c)' = Mounted(c) /\ calls'[c] = calls[c]
                              /\ calls[c].opening # past'.opened
  <2>1. \A c \in DOMAIN calls : calls[c].opening <= past.opened /\ calls[c].opening \in Nat
    BY CallOf DEF Call, Calling, InOrder
  <2>2. past.opened \in Nat
    BY PastIs
  <2>3. QED
    BY <1>1, <2>1, <2>2 DEF Mounted
<1>4. TimersHere' /\ OneAtATime' /\ SentAgain'
  BY <1>1 DEF Forms, TimersHere, OneAtATime, SentAgain
<1>5. NoReset' /\ FormClosed'
  BY <1>1, <1>3 DEF Forms, NoReset, FormClosed
<1>6. SecretShown'
  <2>1. \A c \in DOMAIN calls : ~(calls[c].op \in SecretOps /\ Mounted(c) /\ ~calls[c].dismissed)
    BY <1>1, OpNames DEF Forms, SecretShown, SecretOps, Form
  <2>2. QED
    BY <1>1, <1>3, <2>1 DEF SecretShown
<1>7. QED
  BY <1>2, <1>4, <1>5, <1>6 DEF Forms

LEMMA FormNames == \A op \in DOMAIN Form : Form[op] \notin {"none", "connect"}
  BY OpNames DEF Form

LEMMA ClosesKeeps ==
  ASSUME Typed, Calling, Forms, NEW nv \in View, Closes(nv)
  PROVE  Calling' /\ Forms'
<1>1. /\ view.dialog # "none" /\ view' = nv /\ UNCHANGED <<place, past>>
      /\ nv.dialog = "none"
      /\ nv.timers = view.timers \/ place \in {"api_keys", "mcp"}
      /\ calls' = [c \in DOMAIN calls |->
                     [calls[c] EXCEPT !.dismissed = @ \/ calls[c].opening = past.opened]]
  BY DEF Closes, CloseDialog
<1>2. Stay /\ DOMAIN calls' = DOMAIN calls
  BY <1>1, DismissEffect DEF Stay
<1>3. ASSUME NEW d \in DOMAIN calls
      PROVE  /\ Fixed(d) /\ calls'[d].made = calls[d].made /\ calls'[d].unheard = calls[d].unheard
             /\ calls'[d].won = calls[d].won /\ calls'[d].pc = calls[d].pc
             /\ calls'[d].dismissed <=> calls[d].dismissed \/ calls[d].opening = past.opened
             /\ Mounted(d)' = Mounted(d)
  <2>1. /\ SameMade(d) /\ calls'[d].unheard = calls[d].unheard
        /\ calls'[d].won = calls[d].won /\ calls'[d].pc = calls[d].pc
        /\ calls'[d].dismissed <=> calls[d].dismissed \/ calls[d].opening = past.opened
    BY <1>1, DismissEffect
  <2>2. Fixed(d)
    BY <1>2 DEF Stay
  <2>3. Mounted(d)' = Mounted(d)
    BY <1>1, <2>2 DEF Fixed, Mounted
  <2>4. calls'[d].made = calls[d].made
    BY <2>1 DEF SameMade
  <2>5. QED
    BY <2>1, <2>2, <2>3, <2>4
<1>4. Calling'
  <2>0. /\ place' = place /\ past'.opened = past.opened /\ past'.visit = past.visit
        /\ DOMAIN calls' = DOMAIN calls
        /\ \A d \in DOMAIN calls : /\ calls'[d].opening = calls[d].opening
                                   /\ calls'[d].visit = calls[d].visit
                                   /\ calls'[d].op = calls[d].op
                                   /\ calls'[d].pc = calls[d].pc
                                   /\ Mounted(d)' = Mounted(d)
    BY <1>1, <1>2, <1>3 DEF Fixed
  <2>1. InOrder'
    BY <2>0 DEF Calling, InOrder
  <2>2. SentFromHere'
    BY <2>0 DEF Calling, SentFromHere
  <2>3. Told'
    BY <1>2, <1>3 DEF Calling, Told
  <2>4. QED
    BY <2>1, <2>2, <2>3 DEF Calling
<1>5. TimersHere'
  BY <1>1 DEF Forms, TimersHere
<1>6. OneAtATime' /\ SentAgain'
  BY <1>2, <1>3 DEF Forms, OneAtATime, SentAgain, Fixed
<1>8. NoReset'
  BY <1>1, <1>2, <1>3, FormNames, OpNames DEF Forms, NoReset, Fixed
<1>9. FormClosed'
  <2>1. \A d \in DOMAIN calls : Mounted(d) /\ calls[d].won => calls[d].op \notin {"send_email", "create_template"}
    BY DEF Forms, FormClosed
  <2>2. /\ DOMAIN calls' = DOMAIN calls /\ view'.dialog = "none"
        /\ \A d \in DOMAIN calls : /\ calls'[d].won = calls[d].won
                                   /\ calls'[d].op = calls[d].op
                                   /\ Mounted(d)' = Mounted(d)
    BY <1>1, <1>2, <1>3 DEF Fixed
  <2>3. QED
    BY <2>1, <2>2, FormNames DEF FormClosed
<1>10. SecretShown'
  <2>1. SUFFICES ASSUME NEW c \in DOMAIN calls, calls[c].op \in SecretOps, Mounted(c),
                        ~calls'[c].dismissed
                 PROVE  FALSE
    BY <1>2, <1>3 DEF SecretShown, Fixed
  <2>2. ~calls[c].dismissed /\ calls[c].opening # past.opened
    BY <1>3, <2>1
  <2>3. QED
    BY <2>1, <2>2 DEF Forms, SecretShown
<1>11. QED
  BY <1>4, <1>5, <1>6, <1>8, <1>9, <1>10 DEF Forms

LEMMA ClicksKeeps ==
  ASSUME Typed, Calling, Forms, NEW nv \in View, Clicks(nv)
  PROVE  Calling' /\ Forms'
<1>1. /\ view' = nv /\ UNCHANGED <<calls, place, past>> /\ nv.dialog = view.dialog
      /\ \/ /\ nv.made = view.made /\ nv.timers = view.timers
            /\ nv.step = view.step \/ view.dialog = "connect"
         \/ view.timers > 0 /\ nv.timers = view.timers - 1 /\ nv.made = 0
  BY DEF Clicks, Click
<1>2. Calling'
  BY <1>1, SameCalls
<1>3. /\ DOMAIN calls' = DOMAIN calls /\ view.timers \in Nat
      /\ \A c \in DOMAIN calls : Mounted(c)' = Mounted(c) /\ calls'[c] = calls[c]
  BY <1>1 DEF Mounted, Typed, View
<1>4. OneAtATime' /\ SentAgain'
  BY <1>1 DEF Forms, OneAtATime, SentAgain
<1>5. TimersHere'
  BY <1>1, <1>3 DEF Forms, TimersHere
<1>6. ASSUME NEW c \in DOMAIN calls, Mounted(c), calls[c].op \in SecretOps, ~calls[c].reset,
             calls[c].opening = past.opened, view.dialog = Form[calls[c].op]
      PROVE  nv.made = view.made /\ nv.timers = view.timers /\ nv.step = view.step
  <2>1. view.timers = 0
    <3>1. CASE calls[c].op \in {"create_key", "create_mcp"}
      BY <1>6, <3>1 DEF Forms, NoReset
    <3>2. CASE calls[c].op = "invite"
      BY <1>3, <1>6, <3>2 DEF Forms, TimersHere, Calling, SentFromHere, Offers
    <3>3. QED
      BY <1>6, <3>1, <3>2 DEF SecretOps
  <2>2. view.dialog # "connect"
    BY <1>6, FormNames, OpNames DEF SecretOps
  <2>3. QED
    BY <1>1, <2>1, <2>2
<1>7. NoReset'
  BY <1>1, <1>3, <1>6 DEF Forms, NoReset, SecretOps
<1>8. FormClosed'
  <2>1. SUFFICES ASSUME NEW c \in DOMAIN calls, Mounted(c), calls[c].won
                 PROVE  /\ calls[c].op \notin {"send_email", "create_template"}
                        /\ (/\ calls[c].op \in DOMAIN Form /\ calls[c].opening = past.opened
                            /\ view.dialog = Form[calls[c].op]) =>
                             /\ calls[c].op \in SecretOps
                             /\ calls[c].op = "invite" => nv.made # 0
                             /\ calls[c].op # "invite" => nv.step # "form" \/ calls[c].reset
    BY <1>1, <1>3 DEF FormClosed
  <2>2. calls[c].op \notin {"send_email", "create_template"}
    BY <2>1 DEF Forms, FormClosed
  <2>3. ASSUME calls[c].op \in DOMAIN Form, calls[c].opening = past.opened,
               view.dialog = Form[calls[c].op]
        PROVE  /\ calls[c].op \in SecretOps
               /\ calls[c].op = "invite" => nv.made # 0
               /\ calls[c].op # "invite" => nv.step # "form" \/ calls[c].reset
    <3>1. /\ calls[c].op \in SecretOps
          /\ calls[c].op = "invite" => view.made # 0
          /\ calls[c].op # "invite" => view.step # "form" \/ calls[c].reset
      BY <2>1, <2>3 DEF Forms, FormClosed
    <3>2. calls[c].op \in SecretOps
      BY <2>3, <3>1, OpNames DEF SecretOps
    <3>3. CASE calls[c].op = "invite"
      <4>1. view.timers = 0
        BY <1>3, <2>1, <3>3 DEF Forms, TimersHere, Calling, SentFromHere, Offers
      <4>2. QED
        BY <1>1, <3>1, <3>3, <4>1
    <3>4. CASE calls[c].op # "invite"
      BY <1>6, <2>1, <2>3, <3>1, <3>2, <3>4
    <3>5. QED
      BY <3>3, <3>4
  <2>4. QED
    BY <2>2, <2>3
<1>9. SecretShown'
  <2>1. SUFFICES ASSUME NEW c \in DOMAIN calls, calls[c].op \in SecretOps, Mounted(c),
                        ~calls[c].dismissed
                 PROVE  /\ calls[c].opening = past.opened /\ nv.dialog = Form[calls[c].op]
                        /\ (calls[c].won /\ ~calls[c].reset) =>
                             /\ nv.made = c
                             /\ \A d \in DOMAIN calls : d > c => calls[d].op # calls[c].op
    BY <1>1, <1>3 DEF SecretShown
  <2>2. /\ calls[c].opening = past.opened /\ view.dialog = Form[calls[c].op]
        /\ (calls[c].won /\ ~calls[c].reset) =>
             /\ view.made = c
             /\ \A d \in DOMAIN calls : d > c => calls[d].op # calls[c].op
    BY <2>1 DEF Forms, SecretShown
  <2>3. QED
    BY <1>1, <1>6, <2>1, <2>2
<1>10. QED
  BY <1>2, <1>4, <1>5, <1>7, <1>8, <1>9 DEF Forms

-----------------------------------------------------------------------------
\* a handler goes on and the page stays
Ends(c) ==
  /\ Stay /\ Only(c) /\ SameMade(c) /\ SamePage
  /\ calls[c].pc \in {"won", "lost"} /\ calls'[c].pc = "over"
  /\ (calls'[c].won <=> calls[c].pc = "won")
  /\ calls'[c].dismissed = calls[c].dismissed /\ calls'[c].unheard = calls[c].unheard
  /\ view'.timers = view.timers
  /\ view'.dialog = view.dialog \/
       (view'.dialog = "none" /\ view.dialog \notin {"create_key", "create_mcp", "invite"})
  /\ view'.made = view.made \/
       (Mounted(c) /\ calls[c].op \in SecretOps /\ calls[c].pc = "won" /\ view'.made = c)
  /\ \/ view'.step = view.step \/ view'.step = "created"
     \/ Mounted(c) /\ calls[c].op = "connect"
  /\ Mounted(c) /\ calls[c].pc = "won" =>
       /\ calls[c].op # "send_email"
       /\ calls[c].op = "create_template" => ~Latest(c)
       /\ calls[c].op \in {"create_key", "create_mcp"} => view'.made = c /\ view'.step = "created"
       /\ calls[c].op = "invite" /\ Latest(c) => view'.made = c
       /\ calls[c].op \in DOMAIN Form \ SecretOps => view'.dialog # Form[calls[c].op]

LEMMA EndsCalls ==
  ASSUME Typed, Calling, NEW c \in DOMAIN calls, Ends(c)
  PROVE  Calling'
<1>1. /\ DOMAIN calls' = DOMAIN calls
      /\ \A d \in DOMAIN calls : Fixed(d) /\ Mounted(d)' = Mounted(d)
      /\ \A d \in DOMAIN calls : d # c => calls'[d] = calls[d]
      /\ place' = place /\ past'.opened = past.opened /\ past'.visit = past.visit
      /\ calls[c].pc \in {"won", "lost"} /\ calls'[c].pc = "over"
      /\ (calls'[c].won <=> calls[c].pc = "won")
      /\ calls'[c].made = calls[c].made /\ calls'[c].unheard = calls[c].unheard
  BY DEF Ends, Stay, Fixed, Mounted, SamePage, Only, SameMade
<1>2. InOrder'
  BY <1>1 DEF Calling, InOrder, Fixed
<1>3. SentFromHere'
  BY <1>1 DEF Calling, SentFromHere, Fixed
<1>4. Told'
  <2>1. SUFFICES ASSUME NEW d \in DOMAIN calls
                 PROVE  /\ calls'[d].pc = "sent" => calls'[d].made = None
                        /\ calls'[d].pc # "over" => ~calls'[d].won
                        /\ calls'[d].pc \notin {"lost", "over"} => ~calls'[d].unheard
                        /\ Mounted(d) /\ calls'[d].pc \in {"lost", "over"} /\ ~calls'[d].won
                             => calls'[d].made = None \/ calls'[d].unheard
    BY <1>1 DEF Told
  <2>2. /\ calls[d].pc = "sent" => calls[d].made = None
        /\ calls[d].pc # "over" => ~calls[d].won
        /\ calls[d].pc \notin {"lost", "over"} => ~calls[d].unheard
        /\ Mounted(d) /\ calls[d].pc \in {"lost", "over"} /\ ~calls[d].won
             => calls[d].made = None \/ calls[d].unheard
    BY DEF Calling, Told
  <2>3. QED
    BY <1>1, <2>2
<1>5. QED
  BY <1>2, <1>3, <1>4 DEF Calling

\* each page has at most one form with a secret
LEMMA OneSecret ==
  ASSUME Typed, Calling, NEW c \in DOMAIN calls, NEW d \in DOMAIN calls, Mounted(c), Mounted(d),
         calls[c].op \in SecretOps, calls[d].op \in SecretOps
  PROVE  calls[c].op = calls[d].op
<1>1. calls[c].op \in Offers[place] /\ calls[d].op \in Offers[place]
  BY DEF Calling, SentFromHere
<1>2. place \in Place
  BY DEF Typed
<1>3. QED
  BY <1>1, <1>2, PlaceNames, OpNames DEF SecretOps, Offers

LEMMA EndsForms ==
  ASSUME Typed, Calling, Forms, NEW c \in DOMAIN calls, Ends(c)
  PROVE  Forms'
<1>1. /\ DOMAIN calls' = DOMAIN calls
      /\ \A d \in DOMAIN calls :
           /\ Fixed(d) /\ Mounted(d)' = Mounted(d) /\ calls'[d].made = calls[d].made
           /\ calls'[d].unheard = calls[d].unheard /\ calls'[d].dismissed = calls[d].dismissed
      /\ \A d \in DOMAIN calls : d # c => calls'[d] = calls[d]
      /\ place' = place /\ past'.opened = past.opened /\ past'.visit = past.visit
      /\ calls[c].pc \in {"won", "lost"} /\ calls'[c].pc = "over"
      /\ (calls'[c].won <=> calls[c].pc = "won")
      /\ Stay
  BY DEF Ends, Stay, Fixed, Mounted, SamePage, Only, SameMade
<1>2. /\ view'.timers = view.timers /\ c \in 1..Len(calls)
      /\ \A op \in DOMAIN Form : view'.dialog = Form[op] => view.dialog = Form[op]
      /\ \A op \in SecretOps : view.dialog = Form[op] => view'.dialog = Form[op]
  BY OpNames DEF Ends, Form, SecretOps, Typed
<1>3. TimersHere'
  BY <1>1, <1>2 DEF Forms, TimersHere
<1>4. OneAtATime' /\ SentAgain'
  <2>1. OneAtATime'
    BY <1>1 DEF Forms, OneAtATime, Fixed
  <2>2. SentAgain'
    BY <1>1 DEF Forms, SentAgain, Fixed
  <2>3. QED
    BY <2>1, <2>2
<1>6. NoReset'
  BY <1>1, <1>2, OpNames DEF Forms, NoReset, Fixed
\* a form is not open twice
<1>7. ASSUME NEW d \in DOMAIN calls, NEW e \in DOMAIN calls, d < e, calls[d].op = calls[e].op,
             calls[d].op \in SecretOps, Mounted(d)
      PROVE  d # c
  <2>1. calls[d].visit = calls[e].visit
    BY <1>7, Older DEF Calling
  <2>2. calls[d].pc = "over"
    BY <1>7, <2>1, OpNames DEF Forms, OneAtATime, SecretOps, Refillable
  <2>3. QED
    BY <1>1, <2>2
<1>8. calls[c].op \in SecretOps \union {"create_template"} /\ Mounted(c) => Latest(c)
  <2>1. SUFFICES ASSUME calls[c].op \in SecretOps \union {"create_template"}, Mounted(c),
                        ~Latest(c)
                 PROVE  FALSE
    OBVIOUS
  <2>2. calls[c].pc = "over"
    BY <2>1, NotLatest, OpNames DEF Forms, Calling, SecretOps, Refillable
  <2>3. QED
    BY <1>1, <2>2
<1>9. FormClosed'
  <2>1. SUFFICES ASSUME NEW d \in DOMAIN calls, Mounted(d), calls'[d].won
                 PROVE  /\ calls[d].op \notin {"send_email", "create_template"}
                        /\ (/\ calls[d].op \in DOMAIN Form /\ calls[d].opening = past.opened
                            /\ view'.dialog = Form[calls[d].op]) =>
                             /\ calls[d].op \in SecretOps
                             /\ calls[d].op = "invite" => view'.made # 0
                             /\ calls[d].op # "invite" => view'.step # "form" \/ calls[d].reset
    BY <1>1 DEF FormClosed, Fixed
  <2>2. CASE d = c
    <3>1. calls[c].pc = "won" /\ Mounted(c)
      BY <1>1, <2>1, <2>2
    <3>2. /\ calls[c].op # "send_email"
          /\ calls[c].op = "create_template" => ~Latest(c)
          /\ calls[c].op \in {"create_key", "create_mcp"} => view'.step = "created"
          /\ calls[c].op = "invite" /\ Latest(c) => view'.made = c
          /\ calls[c].op \in DOMAIN Form \ SecretOps => view'.dialog # Form[calls[c].op]
      BY <3>1 DEF Ends
    <3>3. c # 0
      BY <1>2
    <3>4. QED
      BY <1>8, <2>2, <3>1, <3>2, <3>3, OpNames DEF SecretOps
  <2>3. CASE d # c
    <3>1. calls[d].won
      BY <1>1, <2>1, <2>3
    <3>2. calls[d].op \notin {"send_email", "create_template"}
      BY <2>1, <3>1 DEF Forms, FormClosed
    <3>3. ASSUME calls[d].op \in DOMAIN Form, calls[d].opening = past.opened,
                 view'.dialog = Form[calls[d].op]
          PROVE  /\ calls[d].op \in SecretOps
                 /\ calls[d].op = "invite" => view'.made # 0
                 /\ calls[d].op # "invite" => view'.step # "form" \/ calls[d].reset
      <4>1. /\ calls[d].op \in SecretOps
            /\ calls[d].op = "invite" => view.made # 0
            /\ calls[d].op # "invite" => view.step # "form" \/ calls[d].reset
        BY <1>2, <2>1, <3>1, <3>3 DEF Forms, FormClosed
      <4>2. view'.made = view.made \/ view'.made = c
        BY DEF Ends
      <4>3. calls[d].op # "invite" => view'.step = view.step \/ view'.step = "created"
        <5>1. SUFFICES ASSUME Mounted(c), calls[c].op = "connect", calls[d].op # "invite"
                       PROVE  FALSE
          BY DEF Ends
        <5>2. place = "providers"
          <6>1. "connect" \in Offers[place] /\ place \in Place
            BY <5>1 DEF Calling, SentFromHere, Typed
          <6>2. QED
            BY <6>1, PlaceNames, OpNames DEF Offers
        <5>3. calls[d].op \in Offers["providers"]
          BY <2>1, <5>2 DEF Calling, SentFromHere
        <5>4. QED
          BY <3>3, <4>1, <5>1, <5>3, OpNames DEF Offers
      <4>4. QED
        BY <1>2, <4>1, <4>2, <4>3
    <3>4. QED
      BY <3>2, <3>3
  <2>4. QED
    BY <2>2, <2>3
<1>10. SecretShown'
  <2>1. SUFFICES ASSUME NEW d \in DOMAIN calls, calls[d].op \in SecretOps, Mounted(d),
                        ~calls[d].dismissed
                 PROVE  /\ calls[d].opening = past.opened /\ view'.dialog = Form[calls[d].op]
                        /\ (calls'[d].won /\ ~calls[d].reset) =>
                             /\ view'.made = d
                             /\ \A e \in DOMAIN calls : e > d => calls[e].op # calls[d].op
    BY <1>1 DEF SecretShown, Fixed
  <2>2. /\ calls[d].opening = past.opened /\ view.dialog = Form[calls[d].op]
        /\ (calls[d].won /\ ~calls[d].reset) =>
             /\ view.made = d
             /\ \A e \in DOMAIN calls : e > d => calls[e].op # calls[d].op
    BY <2>1 DEF Forms, SecretShown
  <2>3. view'.dialog = Form[calls[d].op]
    BY <1>2, <2>1, <2>2
  <2>4. ASSUME calls'[d].won, ~calls[d].reset
        PROVE  /\ view'.made = d
               /\ \A e \in DOMAIN calls : e > d => calls[e].op # calls[d].op
    <3>1. CASE d = c
      <4>1. calls[c].pc = "won" /\ Latest(c)
        BY <1>1, <1>8, <2>1, <2>4, <3>1
      <4>2. view'.made = c
        BY <2>1, <3>1, <4>1 DEF Ends, SecretOps
      <4>3. ASSUME NEW e \in DOMAIN calls, e > d PROVE calls[e].op # calls[d].op
        BY <1>7, <2>1, <3>1, <4>3
      <4>4. QED
        BY <3>1, <4>2, <4>3
    <3>2. CASE d # c
      <4>1. calls[d].won
        BY <1>1, <2>4, <3>2
      <4>2. /\ view.made = d
            /\ \A e \in DOMAIN calls : e > d => calls[e].op # calls[d].op
        BY <2>2, <2>4, <4>1
      <4>3. ~(Mounted(c) /\ calls[c].op \in SecretOps)
        <5>1. SUFFICES ASSUME Mounted(c), calls[c].op \in SecretOps PROVE FALSE
          OBVIOUS
        <5>2. calls[c].op = calls[d].op
          BY <2>1, <5>1, OneSecret
        <5>3. ~(c > d)
          BY <4>2, <5>2
        <5>4. c < d
          BY <1>2, <3>2, <5>3 DEF Typed
        <5>5. QED
          BY <1>7, <5>1, <5>2, <5>4
      <4>4. QED
        BY <4>2, <4>3 DEF Ends
    <3>3. QED
      BY <3>1, <3>2
  <2>5. QED
    BY <2>2, <2>3, <2>4
<1>11. QED
  BY <1>3, <1>4, <1>6, <1>9, <1>10 DEF Forms

-----------------------------------------------------------------------------
\* the page is left
Leaves ==
  /\ Stay /\ past'.opened = past.opened /\ past'.visit = past.visit + 1
  /\ view'.dialog = "none" /\ view'.made = 0 /\ view'.timers = 0
  /\ \A d \in DOMAIN calls :
       /\ calls'[d].made = calls[d].made /\ (calls[d].unheard => calls'[d].unheard)
       /\ calls[d].pc = "over" => calls'[d].pc = "over"
       /\ calls'[d].pc = "sent" => calls[d].pc = "sent"
       /\ calls'[d].pc # "over" => calls[d].pc # "over" /\ calls'[d].won = calls[d].won
       /\ calls'[d].pc \notin {"lost", "over"} =>
            calls[d].pc \notin {"lost", "over"} /\ calls'[d].unheard = calls[d].unheard

LEMMA LeavesKeeps ==
  ASSUME Typed, Calling, Forms, Leaves
  PROVE  Calling' /\ Forms'
<1>1. /\ DOMAIN calls' = DOMAIN calls /\ \A d \in DOMAIN calls : Fixed(d)
      /\ past'.opened = past.opened /\ past'.visit = past.visit + 1
      /\ past.visit \in Nat
      /\ \A d \in DOMAIN calls : calls[d].visit <= past.visit /\ calls[d].visit \in Nat
  BY PastIs, CallOf DEF Leaves, Stay, Calling, InOrder, Call
<1>2. \A d \in DOMAIN calls : ~Mounted(d)'
  BY <1>1 DEF Mounted, Fixed
<1>3. InOrder'
  BY <1>1 DEF Calling, InOrder, Fixed
<1>4. SentFromHere'
  BY <1>1, <1>2 DEF SentFromHere
<1>5. Told'
  BY <1>1, <1>2 DEF Told, Calling, Leaves
<1>6. TimersHere' /\ NoReset' /\ FormClosed' /\ SecretShown'
  BY <1>1, <1>2 DEF TimersHere, NoReset, FormClosed, SecretShown, Leaves
<1>7. OneAtATime'
  BY <1>1 DEF Forms, OneAtATime, Leaves, Fixed
<1>8. SentAgain'
  BY <1>1 DEF Forms, SentAgain, Leaves, Fixed
<1>9. QED
  BY <1>3, <1>4, <1>5, <1>6, <1>7, <1>8 DEF Calling, Forms

-----------------------------------------------------------------------------
(***************************************************************************)
(* Calls and forms: every step.                                            *)
(***************************************************************************)
UserSends == \/ \E op \in Op, t \in Table, i \in Ids \union {None}, nv \in View : Sends(op, t, i, nv)
             \/ \E op \in {"login", "signup"}, a \in Accounts : Credentials(op, a)
             \/ ToggleSwitch

UserShows == \E nv \in View : Opens(nv) \/ Closes(nv) \/ Clicks(nv)

HandlerEnds(c) == \/ \E nv \in View : Finishes(c, nv)
                  \/ HandleCredentials(c) \/ HandleDeleteProject(c)

\* the kinds of steps there are
Step == \/ UserSends \/ UserShows
        \/ \E c \in DOMAIN calls : Serves(c) \/ HandlerEnds(c)
        \/ \E c \in DOMAIN calls, p \in Place : Returns(c, p)
        \/ \E t \in Table : Fetches(t)
        \/ \E p \in Place : Follows(p)
        \/ Load \/ Elsewhere

LEMMA Steps ==
  ASSUME Typed, RowsKnown, Shapes, [Next]_cvars
  PROVE  Step
<1>1. UserMove => Step
  BY DEF UserMove, Step, UserSends, UserShows
<1>2. CASE UserSteps
  <2>1. CASE SubmitLogin \/ SubmitSignup
    <3>1. auth.known \subseteq Accounts
      BY AuthIs
    <3>2. QED
      BY <2>1, <3>1 DEF Step, UserSends, SubmitLogin, SubmitSignup
  <2>2. QED
    BY <1>1, <1>2, <2>1, UserMoves DEF Step, UserSends, Elsewhere
<1>3. CASE Timers
  BY <1>1, <1>3, TimerMoves DEF Timers, Step, Elsewhere
<1>4. CASE ServerSteps
  BY <1>4 DEF ServerSteps, Step, Serves
<1>5. CASE Handlers
  BY <1>5, HandlerMoves DEF HandlerMove, Step, HandlerEnds
<1>6. CASE FetchSteps
  BY <1>6 DEF FetchSteps, Step, Fetches
<1>7. CASE PollDomains
  BY <1>7, RefetchesAre DEF Step, Fetches
<1>8. CASE Troubles
  BY <1>8, RefetchesAre DEF Troubles, Step, Fetches, Serves, Elsewhere
<1>9. QED
  BY <1>2, <1>3, <1>4, <1>5, <1>6, <1>7, <1>8 DEF Next, Step, Elsewhere

-----------------------------------------------------------------------------
LEMMA FinishesEnds ==
  ASSUME Typed, NEW c \in DOMAIN calls, NEW nv \in View, Finishes(c, nv)
  PROVE  Ends(c) /\ Typed'
<1>1. /\ Typed' /\ Stay /\ Only(c) /\ SameMade(c)
      /\ calls[c].pc \in {"won", "lost"} /\ calls'[c].pc = "over"
      /\ (calls'[c].won <=> calls[c].pc = "won")
      /\ calls'[c].dismissed = calls[c].dismissed
      /\ calls'[c].unheard = calls[c].unheard
      /\ view' = ViewAfter(c, nv) /\ UNCHANGED <<place, past>>
  BY FinishesIs
<1>2. SamePage
  BY <1>1 DEF SamePage
<1>3. CASE ~Mounted(c)
  BY <1>1, <1>2, <1>3 DEF Ends, ViewAfter
<1>4. CASE Mounted(c)
  <2>1. view' = nv
    BY <1>1, <1>4 DEF ViewAfter
  <2>2. QED
    BY <1>1, <1>2, <1>4, <2>1 DEF Ends, Finishes
<1>5. QED
  BY <1>1, <1>3, <1>4

LEMMA HandlerEndsEnds ==
  ASSUME Typed, NEW c \in DOMAIN calls, HandlerEnds(c)
  PROVE  Ends(c) /\ Typed'
<1>1. CASE HandleCredentials(c) \/ HandleDeleteProject(c)
  <2>1. /\ Typed' /\ Stay /\ Only(c) /\ SameMade(c)
        /\ calls[c].op \in {"login", "signup", "delete_account"}
        /\ calls[c].pc \in {"won", "lost"} /\ calls'[c].pc = "over"
        /\ (calls'[c].won <=> calls[c].pc = "won")
        /\ calls'[c].dismissed = calls[c].dismissed
        /\ calls'[c].unheard = calls[c].unheard
        /\ SameForms(view') /\ UNCHANGED <<place, past>>
    BY <1>1, HandlesCredentialsIs, HandlesDeleteIs
  <2>2. QED
    BY <2>1, OpNames DEF Ends, SameForms, SamePage, SecretOps
<1>2. QED
  BY <1>1, FinishesEnds DEF HandlerEnds

\* a handler that goes to another page leaves the one it was of
LEMMA ReturnsAway ==
  ASSUME Typed, Calling, NEW c \in DOMAIN calls, NEW p \in Place, Returns(c, p)
  PROVE  IF place' = place THEN Ends(c) /\ view' = view /\ past' = past /\ ~Mounted(c) ELSE Leaves
<1>1. /\ Typed' /\ Stay /\ Only(c) /\ SameMade(c) /\ Route(p)
      /\ calls[c].pc = "won" /\ calls'[c].pc = "over" /\ calls'[c].won
      /\ calls'[c].dismissed = calls[c].dismissed
      /\ calls'[c].unheard = calls[c].unheard
  BY ReturnsIs
<1>2. CASE place' = place
  <2>1. ~Mounted(c)
    <3>1. SUFFICES ASSUME Mounted(c) PROVE FALSE
      OBVIOUS
    <3>2. calls[c].op \in Offers[place] /\ place \in Place /\ place' \in {p, "login"}
      BY <1>1, <3>1, RouteIs DEF Calling, SentFromHere, Typed
    <3>3. CASE calls[c].op = "send_email"
      BY <1>2, <3>2, <3>3, PlaceNames, OpNames DEF Offers, Returns
    <3>4. CASE calls[c].op \in {"update_template", "create_template"}
      BY <1>2, <3>2, <3>4, PlaceNames, OpNames DEF Offers, Returns
    <3>5. QED
      BY <3>3, <3>4 DEF Returns
  <2>2. view' = view /\ past' = past
    BY <1>1, <1>2, RouteIs
  <2>3. QED
    BY <1>1, <1>2, <2>1, <2>2 DEF Ends, SamePage
<1>3. CASE place' # place
  <2>1. /\ past'.opened = past.opened /\ past'.visit = past.visit + 1
        /\ view'.dialog = "none" /\ view'.made = 0 /\ view'.timers = 0
    BY <1>1, <1>3, RouteIs
  <2>2. ASSUME NEW d \in DOMAIN calls
        PROVE  /\ calls'[d].made = calls[d].made /\ (calls[d].unheard => calls'[d].unheard)
               /\ calls[d].pc = "over" => calls'[d].pc = "over"
               /\ calls'[d].pc = "sent" => calls[d].pc = "sent"
               /\ calls'[d].pc # "over" => calls[d].pc # "over" /\ calls'[d].won = calls[d].won
               /\ calls'[d].pc \notin {"lost", "over"} =>
                    calls[d].pc \notin {"lost", "over"} /\ calls'[d].unheard = calls[d].unheard
    <3>1. CASE d = c
      BY <1>1, <3>1 DEF SameMade
    <3>2. CASE d # c
      BY <1>1, <3>2 DEF Only
    <3>3. QED
      BY <3>1, <3>2
  <2>3. QED
    BY <1>1, <1>3, <2>1, <2>2 DEF Leaves
<1>4. QED
  BY <1>2, <1>3

LEMMA FollowsLeaves ==
  ASSUME Typed, NEW p \in Place, Follows(p)
  PROVE  Leaves /\ place' # place /\ calls' = calls /\ Route(p)
<1>1. Route(p) /\ p # place /\ place # "login" /\ calls' = calls
  BY DEF Follows, Visit
<1>2. place' # place
  BY <1>1, RouteIs
<1>3. /\ past'.opened = past.opened /\ past'.visit = past.visit + 1
      /\ view'.dialog = "none" /\ view'.made = 0 /\ view'.timers = 0
  BY <1>1, <1>2, RouteIs
<1>4. Stay
  BY <1>1 DEF Stay, Fixed, Typed
<1>5. QED
  BY <1>1, <1>2, <1>3, <1>4 DEF Leaves

LEMMA LoadLeaves ==
  ASSUME Typed, Load
  PROVE  Leaves
<1>1. /\ Stay /\ Awake /\ calls' = [c \in DOMAIN calls |-> AfterUnload(c)] /\ view' = Blank
      /\ past'.opened = past.opened /\ past'.visit = past.visit + 1
  BY LoadIs
<1>2. /\ view'.dialog = "none" /\ view'.made = 0 /\ view'.timers = 0
  BY <1>1, BlankIs
<1>3. ASSUME NEW d \in DOMAIN calls
      PROVE  /\ calls'[d].made = calls[d].made /\ (calls[d].unheard => calls'[d].unheard)
             /\ calls[d].pc = "over" => calls'[d].pc = "over"
             /\ calls'[d].pc = "sent" => calls[d].pc = "sent"
             /\ calls'[d].pc # "over" => calls[d].pc # "over" /\ calls'[d].won = calls[d].won
             /\ calls'[d].pc \notin {"lost", "over"} =>
                  calls[d].pc \notin {"lost", "over"} /\ calls'[d].unheard = calls[d].unheard
  <2>1. /\ SameMade(d) /\ SameHere(d)
        /\ calls'[d].pc = IF calls[d].pc \in {"sent", "orphan"} THEN "orphan" ELSE "over"
        /\ calls'[d].unheard <=> \/ calls[d].unheard
                                 \/ calls[d].pc \notin {"sent", "orphan", "over"}
    BY <1>1, UnloadEffect
  <2>2. calls[d].unheard \in BOOLEAN /\ calls'[d].unheard \in BOOLEAN
    <3>1. calls[d] \in Call /\ calls'[d] \in Call
      BY <1>1, CallOf DEF Stay
    <3>2. QED
      BY <3>1 DEF Call
  <2>3. QED
    BY <2>1, <2>2 DEF SameMade, SameHere
<1>4. QED
  BY <1>1, <1>2, <1>3 DEF Leaves

-----------------------------------------------------------------------------
LEMMA SendsOne ==
  ASSUME Typed, UserSends
  PROVE  Typed' /\ \E n \in Call : Sent(n)
<1>1. ASSUME NEW op \in Op, NEW t \in Table, NEW i \in Ids \union {None}, NEW nv \in View,
             Sends(op, t, i, nv)
      PROVE  Typed' /\ \E n \in Call : Sent(n)
  BY <1>1, SendsTyped, SendsSent
<1>2. ASSUME NEW op \in {"login", "signup"}, NEW a \in Accounts, Credentials(op, a)
      PROVE  Typed' /\ \E n \in Call : Sent(n)
  BY <1>2, CredentialsTyped, CredentialsSent
<1>3. ASSUME ToggleSwitch PROVE Typed' /\ \E n \in Call : Sent(n)
  <2>1. PICK op \in DOMAIN Saves : \E s \in Saves[op] :
           /\ Typed' /\ Toggled(op, s) \in Call
           /\ view'.dialog = view.dialog /\ view'.made = view.made
           /\ view'.timers = view.timers /\ view'.step = view.step
           /\ calls' = Append(calls, Toggled(op, s))
           /\ SettingsPage /\ UNCHANGED <<place, past>>
    BY <1>3, ToggleTyped
  <2>2. PICK s \in Saves[op] :
           /\ Typed' /\ Toggled(op, s) \in Call
           /\ view'.dialog = view.dialog /\ view'.made = view.made
           /\ view'.timers = view.timers /\ view'.step = view.step
           /\ calls' = Append(calls, Toggled(op, s))
           /\ SettingsPage /\ UNCHANGED <<place, past>>
    BY <2>1
  <2>3. Sent(Toggled(op, s))
    BY <2>2, ToggleSent DEF FormsShown
  <2>4. QED
    BY <2>2, <2>3
<1>4. QED
  BY <1>1, <1>2, <1>3 DEF UserSends

LEMMA StepTyped ==
  ASSUME Typed, Shapes, Step
  PROVE  Typed'
<1>1. CASE UserSends
  BY <1>1, SendsOne
<1>2. CASE UserShows
  BY <1>2, OpensTyped, ClosesTyped, ClicksTyped DEF UserShows
<1>3. ASSUME NEW c \in DOMAIN calls, Serves(c) \/ HandlerEnds(c) PROVE Typed'
  BY <1>3, ServesQuietly, HandlerEndsEnds
<1>4. ASSUME NEW c \in DOMAIN calls, NEW p \in Place, Returns(c, p) PROVE Typed'
  BY <1>4, ReturnsIs
<1>5. ASSUME NEW t \in Table, Fetches(t) PROVE Typed'
  BY <1>5, FetchesQuietly
<1>6. ASSUME NEW p \in Place, Follows(p) PROVE Typed'
  BY <1>6, FollowsTyped
<1>7. CASE Load
  BY <1>7, LoadIs
<1>8. CASE Elsewhere
  BY <1>8, ElsewhereQuietly
<1>9. QED
  BY <1>1, <1>2, <1>3, <1>4, <1>5, <1>6, <1>7, <1>8 DEF Step

LEMMA StepForms ==
  ASSUME Typed, Shapes, Calling, Forms, Step
  PROVE  Calling' /\ Forms'
<1>1. CASE UserSends
  BY <1>1, SendsOne, SentCalls, SentForms
<1>2. CASE UserShows
  BY <1>2, OpensKeeps, ClosesKeeps, ClicksKeeps DEF UserShows
<1>3. ASSUME NEW c \in DOMAIN calls, HandlerEnds(c) PROVE Calling' /\ Forms'
  BY <1>3, HandlerEndsEnds, EndsCalls, EndsForms
<1>4. ASSUME NEW c \in DOMAIN calls, NEW p \in Place, Returns(c, p) PROVE Calling' /\ Forms'
  BY <1>4, ReturnsAway, EndsCalls, EndsForms, LeavesKeeps
<1>6. ASSUME Quiet PROVE Calling' /\ Forms'
  BY <1>6, QuietCalls, QuietForms DEF Forms
<1>7. ASSUME NEW c \in DOMAIN calls, Serves(c) PROVE Calling' /\ Forms'
  BY <1>6, <1>7, ServesQuietly
<1>8. ASSUME NEW t \in Table, Fetches(t) PROVE Calling' /\ Forms'
  BY <1>6, <1>8, FetchesQuietly
<1>9. ASSUME NEW p \in Place, Follows(p) PROVE Calling' /\ Forms'
  BY <1>9, FollowsLeaves, LeavesKeeps
<1>10. CASE Load
  BY <1>10, LoadLeaves, LeavesKeeps
<1>11. CASE Elsewhere
  BY <1>6, <1>11, ElsewhereQuietly
<1>12. QED
  BY <1>1, <1>2, <1>3, <1>4, <1>7, <1>8, <1>9, <1>10, <1>11 DEF Step
=============================================================================
