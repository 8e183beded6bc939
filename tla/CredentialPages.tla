-------------------------- MODULE CredentialPages --------------------------
(***************************************************************************)
(* The pages that show a secret once: API keys, MCP connections and the    *)
(* team's invitations.  made is the call whose secret the dialog holds,    *)
(* timers counts the resets a closed dialog still has due.                 *)
(***************************************************************************)
EXTENDS QueryClient

SecretOps == {"create_key", "create_mcp", "invite"}

\* Mutant: an interval instead of a timeout.
ResetFiresAgain ==
  /\ Awake
  /\ Click([view EXCEPT !.timers = @ - 1, !.step = "form", !.made = 0])

\* The timeout of handleCreateClose and closeCreate
ResetFires ==
  /\ Awake /\ view.timers > 0
  /\ Click([view EXCEPT !.timers = @ - 1, !.step = "form", !.made = 0])

-----------------------------------------------------------------------------
\* API keys: what the page, its table and its dialogs offer
KeysPage        == Ready("api_keys", "keys")
OffersRevoke(i) == Lists("keys", i, {"on"}) /\ view.dialog = "none"
OffersDelete(i) == Lists("keys", i, {"off"}) /\ view.dialog = "none"
KeyForm         == view.dialog = "create_key" /\ view.step = "form"
RevokeDialog    == view.dialog = "revoke_key"

OpenCreateKey == KeysPage /\ OpenDialog([view EXCEPT !.dialog = "create_key"])

SubmitKey ==
  /\ KeysPage
  /\ KeyForm /\ ~IsPending("create_key")
  /\ Send("create_key", "keys", None, view)

HandleCreateKey(c) ==
  /\ calls[c].op = "create_key" /\ Continues(c)
  /\ Finish(c, IF calls[c].pc = "won" THEN [view EXCEPT !.made = c, !.step = "created"] ELSE view)

CloseCreateKey ==
  /\ KeysPage /\ view.dialog = "create_key"
  /\ CloseDialog([Closed EXCEPT !.timers = @ + 1])

OpenRevokeKey == \E i \in Ids :
  /\ KeysPage /\ OffersRevoke(i)
  /\ OpenDialog([view EXCEPT !.dialog = "revoke_key", !.target = i])

CloseRevokeKey == KeysPage /\ RevokeDialog /\ CloseDialog(Closed)

SubmitRevoke ==
  /\ KeysPage
  /\ RevokeDialog /\ ~IsPending("revoke_key")
  /\ Send("revoke_key", "keys", view.target, view)

\* setRevokeTarget(null) closes the dialog of whichever key is in it
HandleRevokeKey(c) == CloseWhenWon("revoke_key", "revoke_key", c)

AskDeleteKey == \E i \in Ids :
  KeysPage /\ OffersDelete(i) /\ AskDelete("delete_key", i)

ConfirmDeleteKey ==
  /\ KeysPage /\ OffersDelete(view.confirm)
  /\ ConfirmDelete("delete_key", "keys")

\* Mutant: one reset for all the state of the page.
HandleDeleteKeyReset(c) ==
  /\ calls[c].op = "delete_key" /\ Continues(c)
  /\ Finish(c, Blank)

HandleDeleteKey(c) == StopAsking("delete_key", c)

KeySteps ==
  \/ OpenCreateKey \/ SubmitKey \/ CloseCreateKey
  \/ OpenRevokeKey \/ CloseRevokeKey \/ SubmitRevoke
  \/ AskDeleteKey \/ ConfirmDeleteKey

KeyHandlers(c) == HandleCreateKey(c) \/ HandleRevokeKey(c) \/ HandleDeleteKey(c)

-----------------------------------------------------------------------------
\* MCP connections
McpPage    == Ready("mcp", "mcp")
McpForm    == view.dialog = "create_mcp" /\ view.step = "form"
McpTable(i) == Lists("mcp", i, {"on", "off"}) /\ view.dialog = "none"

OpenCreateMcp == McpPage /\ OpenDialog([view EXCEPT !.dialog = "create_mcp"])

SubmitMcp ==
  /\ McpPage
  /\ McpForm /\ ~IsPending("create_mcp")
  /\ Send("create_mcp", "mcp", None, view)

HandleCreateMcp(c) ==
  /\ calls[c].op = "create_mcp" /\ Continues(c)
  /\ Finish(c, IF calls[c].pc = "won" THEN [view EXCEPT !.made = c, !.step = "created"] ELSE view)

CloseCreateMcp ==
  /\ McpPage /\ view.dialog = "create_mcp"
  /\ CloseDialog([Closed EXCEPT !.timers = @ + 1])

\* the snippets to install a connection, without its secret
OpenInstall == \E i \in Ids :
  /\ McpPage /\ McpTable(i)
  /\ OpenDialog([view EXCEPT !.dialog = "install_mcp", !.target = i])

OpenDeleteMcp == \E i \in Ids :
  /\ McpPage /\ McpTable(i)
  /\ OpenDialog([view EXCEPT !.dialog = "delete_mcp", !.target = i])

CloseMcp ==
  /\ McpPage /\ view.dialog \in {"install_mcp", "delete_mcp"}
  /\ CloseDialog(Closed)

SubmitDeleteMcp ==
  /\ McpPage
  /\ view.dialog = "delete_mcp" /\ ~IsPending("delete_mcp")
  /\ Send("delete_mcp", "mcp", view.target, view)

HandleDeleteMcp(c) == CloseWhenWon("delete_mcp", "delete_mcp", c)

McpSteps == \/ OpenCreateMcp \/ SubmitMcp \/ CloseCreateMcp \/ OpenInstall
            \/ OpenDeleteMcp \/ CloseMcp \/ SubmitDeleteMcp

McpHandlers(c) == HandleCreateMcp(c) \/ HandleDeleteMcp(c)

-----------------------------------------------------------------------------
\* The team: members and invitations.  Its handlers are callbacks of mutate().
InviteForm        == view.dialog = "invite" /\ view.made = 0
InvitationList(i) == Here("team") /\ Lists("invitations", i, {"on"}) /\ view.dialog = "none"
MemberList(i)     == /\ Ready("team", "members") /\ Lists("members", i, {"on", "off"})
                     /\ view.dialog = "none"

OpenInvite == Here("team") /\ OpenDialog([view EXCEPT !.dialog = "invite"])

SubmitInvite ==
  /\ Here("team") /\ InviteForm /\ ~IsPending("invite")
  /\ Send("invite", "invitations", None, view)

\* The page closes the dialog after an answer without invite_url, and the server
\* gives none: InvitationsController#create always renders the link.
HandleInvite(c) ==
  /\ calls[c].op = "invite" /\ Continues(c)
  /\ FinishLatest(c, IF calls[c].pc = "won" THEN [view EXCEPT !.made = c] ELSE view)

\* Escape, Cancel or Done
CloseInvite ==
  /\ Here("team") /\ view.dialog = "invite"
  /\ CloseDialog([Closed EXCEPT !.made = 0])

SubmitRevokeInvite == \E i \in Ids :
  /\ InvitationList(i) /\ ~IsPending("revoke_invite")
  /\ Send("revoke_invite", "invitations", i, view)

SubmitResend == \E i \in Ids :
  /\ InvitationList(i) /\ ~IsPending("resend_invite")
  /\ Send("resend_invite", "invitations", i, view)

SubmitRole == \E i \in Ids : MemberList(i) /\ Send("change_role", "members", i, view)

OpenRemove == \E i \in Ids :
  /\ MemberList(i)
  /\ OpenDialog([view EXCEPT !.dialog = "remove", !.target = i])

CloseRemove == Here("team") /\ view.dialog = "remove" /\ CloseDialog(Closed)

SubmitRemove ==
  /\ Here("team") /\ view.dialog = "remove" /\ ~IsPending("remove_member")
  /\ Send("remove_member", "members", view.target, view)

HandleRemove(c) ==
  /\ calls[c].op = "remove_member" /\ Continues(c)
  /\ FinishLatest(c, IF calls[c].pc = "won" /\ view.dialog = "remove" THEN Closed ELSE view)

\* only a toast
HandleToast(c) ==
  /\ calls[c].op \in {"revoke_invite", "resend_invite", "change_role"} /\ Continues(c)
  /\ FinishLatest(c, view)

TeamSteps == \/ OpenInvite \/ SubmitInvite \/ CloseInvite \/ SubmitRevokeInvite
             \/ SubmitResend \/ SubmitRole \/ OpenRemove \/ CloseRemove \/ SubmitRemove

TeamHandlers(c) == HandleInvite(c) \/ HandleRemove(c) \/ HandleToast(c)
=============================================================================
