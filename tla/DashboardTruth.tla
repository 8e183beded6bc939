--------------------------- MODULE DashboardTruth ---------------------------
(***************************************************************************)
(* Why the dashboard's properties hold: the inductive invariant, in parts. *)
(***************************************************************************)
EXTENDS Dashboard

-----------------------------------------------------------------------------
(***************************************************************************)
(* What the pages send, and their dialogs.                                 *)
(***************************************************************************)
\* what each page sends
Offers == [api_keys |-> {"create_key", "revoke_key", "delete_key"},
           mcp |-> {"create_mcp", "delete_mcp"},
           team |-> {"invite", "revoke_invite", "resend_invite", "change_role",
                     "remove_member"},
           webhooks |-> {"create_webhook", "update_webhook", "enable_webhook",
                         "disable_webhook", "delete_webhook", "test_webhook"},
           suppressions |-> {"create_suppression", "delete_suppression"},
           domains |-> {"create_domain", "verify_domain", "delete_domain",
                        "recheck_domain"},
           providers |-> {"connect", "verify_provider", "enable_provider",
                          "disable_provider", "delete_provider", "resync_webhook",
                          "switch_to_auto", "save_secret"},
           routing |-> {"create_rule", "delete_rule", "verify_provider",
                        "resync_webhook", "switch_to_auto", "save_secret"},
           templates |-> {"duplicate_template", "delete_template"},
           template |-> {"update_template"},
           template_new |-> {"generate_template", "create_template"},
           send |-> {"send_email"}, campaigns |-> {}, overview |-> {},
           profile |-> {"update_profile"},
           settings |-> DOMAIN Saves \union {"delete_account"},
           login |-> {"login", "signup"}]

Op == UNION {Offers[p] : p \in Place}

\* the dialogs that hold a form
Form == [create_key |-> "create_key", create_mcp |-> "create_mcp", invite |-> "invite",
         create_webhook |-> "add_webhook", create_rule |-> "add_rule",
         create_suppression |-> "add_suppression", create_domain |-> "add_domain"]

\* the dialogs of one row
Chosen == [revoke_key |-> "keys", install_mcp |-> "mcp", delete_mcp |-> "mcp",
           remove |-> "members", edit_webhook |-> "webhooks", deliveries |-> "webhooks",
           suppression |-> "suppressions", dns |-> "domains", provider |-> "providers",
           routing_provider |-> "providers", delete_template |-> "templates"]

-----------------------------------------------------------------------------
(***************************************************************************)
(* Types.                                                                  *)
(***************************************************************************)
Dialog == {"none", "connect", "delete_project"}
            \union {Form[op] : op \in DOMAIN Form} \union DOMAIN Chosen

Signed   == Accounts \union {None}
RowState == {"unborn", "on", "off", "failed", "gone"}

Auth == [token : Signed, stored : Signed, tenant : Signed, cookie : BOOLEAN,
         known : SUBSET Accounts, closed : SUBSET Accounts, live : SUBSET Accounts]

View == [dialog : Dialog, step : {"form", "credentials", "created"}, target : Ids \union {None},
         confirm : Ids \union {None}, made : Nat, lock : Ids \union Signed,
         toggling : Ids \union {None}, queued : BOOLEAN, timers : Nat,
         base : Nat \union {None}, switches : {None} \union SUBSET Switch]

Row == [table : Table \union {"none"}, acct : Accounts, state : RowState, rev : Nat,
        set : SUBSET Switch]

Item == [id : Ids, state : RowState, rev : Nat, set : SUBSET Switch]

Query == [loaded : BOOLEAN, data : SUBSET Item, got : SUBSET Item, as : Signed,
          fetch : {"idle", "out", "back"}, stale : BOOLEAN, error : BOOLEAN]

Call == [op : Op, table : Table \union {"session"}, id : Ids \union {None},
         acct : Signed, pc : CallPC, won : BOOLEAN, followed : BOOLEAN, rev : Nat,
         set : SUBSET Switch, was : SUBSET Switch, state : RowState \union {"none"}, made : Ids \union {None},
         crowded : BOOLEAN, unheard : BOOLEAN, waits : SUBSET Table, opening : Nat,
         visit : Nat, reset : BOOLEAN, dismissed : BOOLEAN]

Bounds == [pages : SUBSET (Place \ {"login"}), calls : Nat, moves : Nat, fetches : Nat, trouble : Nat,
           signs : Nat]

Past == [opened : Nat, visit : Nat, missed : SUBSET Table, otherTab : BOOLEAN,
         disturbed : BOOLEAN, wiped : BOOLEAN]

\* Session, page, view, rows, cache, calls and history are what they should be:
\* only accounts that signed up and were not deleted have a session, and the
\* secret on the screen is that of a call.
Typed ==
  /\ auth \in Auth /\ auth.closed \subseteq auth.known
  /\ auth.live \subseteq auth.known \ auth.closed
  /\ place \in Place /\ leaving \in {None, "login", "overview"}
  /\ view \in View /\ view.made \in 0..Len(calls)
  /\ rows \in [Ids -> Row]
  /\ cache \in [Table -> Query]
  /\ calls \in Seq(Call)
  /\ budget \in Bounds /\ past \in Past

-----------------------------------------------------------------------------
(***************************************************************************)
(* Calls and the page they are of.                                         *)
(***************************************************************************)
\* a later call is of the same opening and visit or of a later one
InOrder == \A c \in DOMAIN calls :
  /\ calls[c].opening <= past.opened /\ calls[c].visit <= past.visit
  /\ \A d \in DOMAIN calls : c < d => /\ calls[c].opening <= calls[d].opening
                                     /\ calls[c].visit <= calls[d].visit

SentFromHere == \A c \in DOMAIN calls :
  Mounted(c) => calls[c].op \in Offers[place] /\ calls[c].pc # "orphan"

\* What a handler was told.  A failure it is told of made no row, or the answer
\* that said so was lost.
Told == \A c \in DOMAIN calls :
  /\ calls[c].pc = "sent" => calls[c].made = None
  /\ calls[c].pc # "over" => ~calls[c].won
  /\ calls[c].pc \notin {"lost", "over"} => ~calls[c].unheard
  /\ Mounted(c) /\ calls[c].pc \in {"lost", "over"} /\ ~calls[c].won
       => calls[c].made = None \/ calls[c].unheard

-----------------------------------------------------------------------------
(***************************************************************************)
(* Forms.                                                                  *)
(***************************************************************************)
\* the forms that make one row in an opening
Refillable == DOMAIN Form \union {"send_email", "create_template"}

TimersHere == view.timers > 0 => place \in {"api_keys", "mcp"}

\* a form is sent again when its call is over
OneAtATime == \A c, d \in DOMAIN calls :
  (/\ c < d /\ calls[c].op = calls[d].op /\ calls[c].op \in Refillable
   /\ calls[c].visit = calls[d].visit) => calls[c].pc = "over"

NoReset == \A c \in DOMAIN calls :
  (/\ Mounted(c) /\ calls[c].op \in {"create_key", "create_mcp"} /\ ~calls[c].reset
   /\ calls[c].opening = past.opened /\ view.dialog = Form[calls[c].op]) => view.timers = 0

\* a form that went well is not shown any more
FormClosed == \A c \in DOMAIN calls : LET op == calls[c].op IN
  (Mounted(c) /\ calls[c].won) =>
    /\ op \notin {"send_email", "create_template"}
    /\ (op \in DOMAIN Form /\ calls[c].opening = past.opened /\ view.dialog = Form[op]) =>
         /\ op \in SecretOps
         /\ op = "invite" => view.made # 0
         /\ op # "invite" => view.step # "form" \/ calls[c].reset

\* The dialog with a secret is the one that asked for it, and once it shows the
\* secret no other one is asked for.
SecretShown == \A c \in DOMAIN calls :
  (calls[c].op \in SecretOps /\ Mounted(c) /\ ~calls[c].dismissed) =>
    /\ calls[c].opening = past.opened /\ view.dialog = Form[calls[c].op]
    /\ (calls[c].won /\ ~calls[c].reset) =>
         /\ view.made = c
         /\ \A d \in DOMAIN calls : d > c => calls[d].op # calls[c].op

\* a form that is sent again made nothing the user heard of
SentAgain == \A c, d \in DOMAIN calls :
  (/\ c < d /\ calls[c].op = calls[d].op /\ calls[c].op \in Refillable
   /\ calls[c].opening = calls[d].opening /\ calls[c].visit = calls[d].visit)
  => calls[c].made = None \/ calls[c].unheard \/ calls[c].reset

\* only a form makes a row
MadeByForm == \A c \in DOMAIN calls : calls[c].made # None => calls[c].op \in DOMAIN Creates

Forms == /\ TimersHere /\ OneAtATime /\ NoReset /\ FormClosed /\ SecretShown /\ SentAgain

-----------------------------------------------------------------------------
(***************************************************************************)
(* Rows: what is listed, chosen or changed is a row of its table.          *)
(***************************************************************************)
TableOf(t) == IF t = "template" THEN "templates" ELSE t

\* the operations that change a row of their table
OfRow == DOMAIN Sets \union Edits \union DOMAIN Saves

IsRow(i, t) == i \in Ids /\ rows[i].table = t /\ rows[i].state # "unborn"

Items(t) == cache[t].data \union cache[t].got

RowsKnown ==
  /\ \A i \in Ids : rows[i].table = "me" => i = First
  /\ \A t \in Table : /\ ~cache[t].loaded => cache[t].data = {}
                      /\ \A x \in Items(t) : /\ IsRow(x.id, TableOf(t))
                                             /\ t = "template" => x.id = First
  /\ view.dialog \in DOMAIN Chosen => IsRow(view.target, Chosen[view.dialog])
  /\ place = "template" /\ view.base # None =>
       cache["template"].loaded /\ IsRow(First, "templates")
  /\ place = "settings" /\ view.switches # None => IsRow(First, "me")

Shape(c) == LET op == calls[c].op IN
  /\ IF op \in {"login", "signup"} THEN calls[c].acct \in Accounts ELSE calls[c].table \in Table
  /\ op \in DOMAIN Creates => /\ calls[c].table \in Table \ {"me", "template"}
                              /\ op # "duplicate_template" => calls[c].id = None
  /\ op \in OfRow => IsRow(calls[c].id, calls[c].table)
  /\ op \in DOMAIN Saves => /\ calls[c].table = "me" /\ calls[c].set \union calls[c].was \subseteq Saves[op]
                            /\ Mounted(c) => view.switches # None
  /\ op = "update_template" => calls[c].table = "templates" /\ calls[c].id = First

Shapes == \A c \in DOMAIN calls : Shape(c)

-----------------------------------------------------------------------------
(***************************************************************************)
(* Lists: what an answer in flight or a list at rest says is what the      *)
(* server has.                                                             *)
(***************************************************************************)
\* nobody is still to tell this tab that the list changed
Current(t) == /\ t \notin past.missed /\ cache[t].as \notin auth.closed
              /\ \A c \in DOMAIN calls : calls[c].pc = "ok" => t \notin Invalidates(c)

AtRest(t) == cache[t].fetch = "idle" /\ cache[t].loaded /\ ~cache[t].error /\ ~cache[t].stale

ListsTrue == \A t \in Table : Current(t) =>
  /\ AtRest(t) => cache[t].data = Listing(t, cache[t].as)
  /\ cache[t].fetch = "back" => cache[t].got = Listing(t, cache[t].as)

StaleFetched == \A t \in Mounts[place] :
  cache[t].fetch = "idle" /\ cache[t].stale => cache[t].error

-----------------------------------------------------------------------------
(***************************************************************************)
(* The template's form.                                                    *)
(***************************************************************************)
NotOlder(items, c) == \A x \in items : x.rev >= calls[c].rev

AnswerNotOlder(c) == cache["template"].fetch = "back" => NotOlder(cache["template"].got, c)

SaveSeen(c) ==
  /\ calls[c].rev <= rows[First].rev
  /\ calls[c].followed => calls[c].pc = "over"
  /\ Mounted(c) => cache["template"].loaded
  /\ (Mounted(c) /\ calls[c].pc = "settling") =>
       /\ calls[c].waits = {"template"} /\ cache["template"].fetch # "idle"
       /\ AnswerNotOlder(c)
  /\ (calls[c].followed \/ (Mounted(c) /\ calls[c].pc = "won")) =>
       /\ ~cache["template"].error => NotOlder(cache["template"].data, c)
       /\ AnswerNotOlder(c)

SavesSeen == \A c \in DOMAIN calls : calls[c].op = "update_template" => SaveSeen(c)

-----------------------------------------------------------------------------
(***************************************************************************)
(* The session.                                                            *)
(***************************************************************************)
Credential(c) == calls[c].op \in {"login", "signup"}
InFlight(c)   == Unfinished(c) \/ Continues(c)

OfToken == (leaving = None /\ ~past.otherTab) =>
  \A t \in Table : cache[t].loaded \/ cache[t].fetch # "idle" => cache[t].as = auth.token

NoFetch == \A t \in Table : cache[t].fetch = "idle"

SignedInHere ==
  /\ auth.cookie /\ auth.token \in Accounts
  /\ auth.tenant = auth.token /\ auth.stored = auth.token
  /\ \A c \in DOMAIN calls : InFlight(c) => calls[c].acct = auth.token /\ ~Credential(c)
  /\ \A t \in Table : cache[t].fetch # "idle" => cache[t].as = auth.token

SigningIn ==
  /\ auth.token = None /\ NoFetch
  /\ \A c \in DOMAIN calls : InFlight(c) =>
       /\ Credential(c) /\ Mounted(c) /\ view.lock # None
       /\ \A d \in DOMAIN calls : InFlight(d) => d = c

JustSignedIn ==
  /\ place = "login" /\ auth.cookie /\ auth.token \in Accounts
  /\ auth.tenant = auth.token /\ auth.stored = auth.token
  /\ NoFetch /\ \A c \in DOMAIN calls : ~InFlight(c)

SignedOff ==
  /\ auth.token = None /\ ~auth.cookie
  /\ \A c \in DOMAIN calls : InFlight(c) /\ Credential(c) => calls[c].pc = "lost"

Undisturbed == ~past.disturbed =>
  /\ ~past.wiped
  /\ leaving = None => IF place = "login" THEN SigningIn ELSE SignedInHere
  /\ leaving = "overview" => JustSignedIn
  /\ leaving = "login" => SignedOff

-----------------------------------------------------------------------------
(***************************************************************************)
(* Switches of the settings page.                                          *)
(***************************************************************************)
Saved(c) == calls[c].op \in DOMAIN Saves

\* no switch was saved yet
Unsaved == (\A c \in DOMAIN calls : ~Saved(c)) =>
  /\ \A x \in Items("me") : x.set = rows[First].set
  /\ (place = "settings" /\ view.switches # None) => view.switches = rows[First].set

\* what was saved was saved on this page, each time heard and alone
OneByOne ==
  /\ \E c \in DOMAIN calls : Saved(c)
  /\ \A c \in DOMAIN calls : Saved(c) => Mounted(c) /\ ~calls[c].crowded /\ ~calls[c].unheard

\* a group on the page and on the server
Showing(op) == view.switches \intersect Saves[op]
Having(op)  == rows[First].set \intersect Saves[op]

\* the last call that the server took, if any, was of this group
Reached(c)     == Saved(c) /\ (calls[c].won \/ calls[c].pc \in {"ok", "won"})
LastReached(c) == Reached(c) /\ \A d \in DOMAIN calls : Reached(d) => d <= c
Right(op)      == \A c \in DOMAIN calls : LastReached(c) => calls[c].op = op

\* What a call on its way says is what the page shows; until the server takes it
\* the handler's copy is what the server has.
Pending(c, op) == /\ calls[c].set = Showing(op)
                  /\ Right(op) => Having(op) = IF calls[c].pc \in {"sent", "lost"} THEN calls[c].was
                                              ELSE calls[c].set

Agrees(op) ==
  /\ \A c \in DOMAIN calls : Saved(c) /\ calls[c].pc # "over" =>
       calls[c].pc # "settling" /\ (calls[c].op = op => Pending(c, op))
  /\ (Right(op) /\ \A c \in DOMAIN calls : Saved(c) /\ calls[c].op = op => calls[c].pc = "over")
       => Showing(op) = Having(op)

InTurn == \A c, d \in DOMAIN calls :
  Saved(c) /\ Saved(d) /\ Mounted(c) /\ c < d /\ ~calls[d].crowded => calls[c].pc = "over"

SwitchesTrue == InTurn /\ (OneByOne => \A op \in DOMAIN Saves : Agrees(op))

-----------------------------------------------------------------------------
\* The state of a tab and of the control plane that the handlers of every page,
\* the cache, the timers, other tabs and other clients keep: each answer that is
\* still to come, and each list and form that is shown, is about rows the server
\* has, and is as new and of the session that its handler takes it for.
DashInv ==
  /\ Typed /\ InOrder /\ SentFromHere /\ Told /\ Forms /\ MadeByForm
  /\ RowsKnown /\ Shapes /\ ListsTrue /\ StaleFetched
  /\ SavesSeen /\ EditStartsFromOwnLastSave
  /\ OfToken /\ Undisturbed /\ Unsaved /\ SwitchesTrue
=============================================================================
