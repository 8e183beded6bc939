---------------------------- MODULE QueryClient ----------------------------
(***************************************************************************)
(* The dashboard, one browser tab of it: pages read lists through the      *)
(* query cache, handlers send mutations, a mutation that succeeded         *)
(* invalidates the lists its hook names, and the handler goes on when they *)
(* were fetched again.  The page modules say what the handlers of each     *)
(* page do, Sessions what the session does, Dashboard puts them together.  *)
(*                                                                         *)
(* JavaScript runs one handler at a time up to its next await, and what a  *)
(* settled promise has to continue comes before the next event: Awake.     *)
(***************************************************************************)
EXTENDS Naturals, Sequences

CONSTANTS
  Ids,          \* ids of rows, of whatever table
  First,        \* the row there is from the start, the template that is edited
  Accounts,     \* tenants that sign in from this browser
  Tours,        \* what a user does in one visit, see Tour: bounds
  Alerts,       \* ids of the notification switches of the settings page
  MaxCalls,     \* mutations sent over a behaviour: a bound
  None

\* the queries a page mounts; "template" is the detail query of First
Mounts == [api_keys |-> {"keys"}, mcp |-> {"mcp"}, webhooks |-> {"webhooks"},
           suppressions |-> {"suppressions"}, domains |-> {"domains"},
           team |-> {"members", "invitations"}, providers |-> {"providers"},
           routing |-> {"providers", "rules"}, templates |-> {"templates"},
           template |-> {"template"}, template_new |-> {}, send |-> {},
           campaigns |-> {"emails"}, overview |-> {"emails"}, profile |-> {"me"},
           settings |-> {"me"}, login |-> {}]

Place == DOMAIN Mounts

\* The switches of the settings page, by the operation that saves their group.
Saves == [save_tracking |-> {"opens", "clicks"}, save_alerts |-> Alerts]

Switch == UNION {Saves[op] : op \in DOMAIN Saves}

\* whoami is TopBar's own request, which no page mounts and which fills no list
Table == {"whoami"} \union UNION {Mounts[p] : p \in Place}

\* The bounds of a visit: the pages visited, the mutations sent, the moves
\* (dialogs opened, pages visited), the fetches that focus, a timer or Retry
\* start, the troubles (lost answers, failed fetches, other clients), and the
\* changes of session (in, out, expired, by another tab).
Tour == [pages : SUBSET (Place \ {"login"}), calls : 0..MaxCalls, moves : Nat,
         fetches : Nat, trouble : Nat, signs : Nat]

ASSUME ClientAssumption ==
  /\ MaxCalls \in Nat
  /\ Tours \subseteq Tour
  /\ First \in Ids
  /\ Accounts # {}
  /\ None \notin Ids \union Accounts \union {"login", "overview"}
  /\ None \notin Nat
  /\ Alerts \intersect {"opens", "clicks"} = {}
  /\ \A s \in SUBSET Switch : s # None

VARIABLES
  auth,     \* localStorage auth_token and auth_tenant (token, stored), the
            \* cookie, the tenant in this tab's store; known: the accounts there
            \* have been, closed: those deleted, live: whose token is taken
  place,    \* the page shown
  leaving,  \* where window.location.href sends the tab that is not unloaded yet
  view,     \* what useState holds in the page
  rows,     \* the control plane's rows; of the tenant's, set are the switches
            \* that are off: what is missing from its settings reads as on
  cache,    \* the query cache
  calls,    \* mutations in the order they were sent
  budget,   \* what is left of the bounds
  past      \* history; missed: the lists that changed, or may have, without a
            \* fetch of this tab to follow, see ListsSettle in Dashboard

cvars == <<auth, place, leaving, view, rows, cache, calls, budget, past>>

Blank   == [dialog |-> "none", step |-> "form", target |-> None, confirm |-> None,
            made |-> 0, lock |-> None, toggling |-> None, queued |-> FALSE,
            timers |-> 0, base |-> None, switches |-> None]
NoQuery == [loaded |-> FALSE, data |-> {}, got |-> {}, as |-> None, fetch |-> "idle",
            stale |-> FALSE, error |-> FALSE]

-----------------------------------------------------------------------------
(***************************************************************************)
(* The server's lists and what a page shows of them.                       *)
(***************************************************************************)
\* a row there is: on, off, or a domain that failed
Living == {"on", "off", "failed"}

RowsOf(t) == IF t = "template" THEN {i \in Ids : i = First /\ rows[i].table = "templates"}
                               ELSE {i \in Ids : rows[i].table = t}

Listing(t, a) ==
  {[id |-> i, state |-> rows[i].state, rev |-> rows[i].rev, set |-> rows[i].set] :
     i \in {j \in RowsOf(t) : rows[j].acct = a /\ rows[j].state \in Living}}

Lists(t, i, states) ==
  \E x \in cache[t].data : x.id = i /\ x.state \in states

-----------------------------------------------------------------------------
(***************************************************************************)
(* Calls.  sent: on its way; ok: done by the server, answer on its way;    *)
(* settling: its lists are being fetched again; won, lost: the handler is  *)
(* to go on; over.  An orphan's page was unloaded.                         *)
(***************************************************************************)
CallPC == {"sent", "ok", "settling", "won", "lost", "over", "orphan"}

Unfinished(c) == calls[c].pc \in {"sent", "ok", "settling"}
Continues(c)  == calls[c].pc \in {"won", "lost"}

Awake == ~ \E c \in DOMAIN calls : Continues(c)

\* The user sees a page and may click.
Here(p) == place = p /\ leaving = None /\ Awake

\* Most pages show an error in place of everything else after a failed fetch.
Ready(p, t) == Here(p) /\ ~cache[t].error

Mounted(c) == calls[c].visit = past.visit

\* the operations that one mutation hook serves
Hook(op) == IF op \in {"enable_webhook", "disable_webhook", "update_webhook"} THEN "webhook"
            ELSE IF op \in {"enable_provider", "disable_provider"} THEN "status"
            ELSE IF op \in {"save_secret", "switch_to_auto"} THEN "connection" ELSE op

\* callbacks given to mutate() are dropped when a later mutate() of the hook or
\* leaving the page unsubscribed them
Latest(c) == \A d \in DOMAIN calls : Hook(calls[d].op) = Hook(calls[c].op) => d <= c

\* isPending of an operation's hook: of the latest call from this page
IsPending(op) ==
  \E c \in DOMAIN calls : Hook(calls[c].op) = Hook(op) /\ Mounted(c) /\ Latest(c) /\ Unfinished(c)

NewCall(op, t, i, a) ==
  [op |-> op, table |-> t, id |-> i, acct |-> a, pc |-> "sent", won |-> FALSE,
   followed |-> FALSE, rev |-> 0, set |-> {}, was |-> {}, state |-> "none", made |-> None,
   crowded |-> \E c \in DOMAIN calls : Unfinished(c), unheard |-> FALSE, waits |-> {},
   opening |-> past.opened, visit |-> past.visit, reset |-> view.timers > 0,
   dismissed |-> FALSE]

\* The request interceptor adds the token that localStorage has right now.
Send(op, t, i, newview) ==
  /\ Len(calls) < budget.calls
  /\ calls' = Append(calls, NewCall(op, t, i, auth.token))
  /\ view' = newview
  /\ UNCHANGED <<auth, place, leaving, rows, cache, budget, past>>

\* The handler goes on after its await; setting state of a page that was left
\* does nothing.
Over(c) == [calls EXCEPT ![c].pc = "over", ![c].won = (calls[c].pc = "won")]

Finish(c, newview) ==
  /\ calls' = Over(c)
  /\ view' = IF Mounted(c) THEN newview ELSE view
  /\ UNCHANGED <<auth, place, leaving, rows, cache, budget, past>>

FinishLatest(c, newview) == Finish(c, IF Latest(c) THEN newview ELSE view)

-----------------------------------------------------------------------------
(***************************************************************************)
(* Dialogs.                                                                *)
(***************************************************************************)
OpenDialog(newview) ==
  /\ view.dialog = "none"
  /\ budget.moves > 0
  /\ view' = newview
  /\ past' = [past EXCEPT !.opened = @ + 1]
  /\ budget' = [budget EXCEPT !.moves = @ - 1]
  /\ UNCHANGED <<auth, place, leaving, rows, cache, calls>>

\* the user closes the dialog: what it shows or still waits for is dismissed
CloseDialog(newview) ==
  /\ view.dialog # "none"
  /\ view' = newview
  /\ calls' = [c \in DOMAIN calls |->
                 [calls[c] EXCEPT !.dismissed = @ \/ calls[c].opening = past.opened]]
  /\ UNCHANGED <<auth, place, leaving, rows, cache, budget, past>>

Click(newview) ==
  /\ view' = newview
  /\ view' # view
  /\ UNCHANGED <<auth, place, leaving, rows, cache, calls, budget, past>>

\* A delete that is confirmed in the row: the first click asks, the second
\* sends, and the handler stops asking however it ended.
AskDelete(op, i) ==
  /\ view.confirm = i => ~IsPending(op)
  /\ Click([view EXCEPT !.confirm = IF @ = i THEN None ELSE i])

ConfirmDelete(op, t) ==
  /\ view.confirm # None /\ ~IsPending(op)
  /\ Send(op, t, view.confirm, view)

StopAsking(op, c) ==
  /\ calls[c].op = op /\ Continues(c)
  /\ Finish(c, [view EXCEPT !.confirm = None])

Closed == [view EXCEPT !.dialog = "none", !.target = None]

\* The handler of a dialog closes it when it went well, whatever it shows by now.
CloseWhenWon(op, d, c) ==
  /\ calls[c].op = op /\ Continues(c)
  /\ Finish(c, IF calls[c].pc = "won" /\ view.dialog = d THEN Closed ELSE view)

-----------------------------------------------------------------------------
(***************************************************************************)
(* The query cache.                                                        *)
(***************************************************************************)
\* An error is forgotten at once where there are no data to go with it.
Started(q) == [q EXCEPT !.fetch = "out", !.got = {}, !.as = auth.token,
                        !.error = (@ /\ q.loaded)]

\* invalidateQueries: what is mounted is fetched again; a fetch that runs is
\* restarted when there is data already, and joined when there is none yet.
Restarts(t) == t \in Mounts[place] /\ (cache[t].fetch = "idle" \/ cache[t].loaded)

Invalidated(t) ==
  IF Restarts(t) THEN Started([cache[t] EXCEPT !.stale = TRUE])
  ELSE [cache[t] EXCEPT !.stale = (@ \/ cache[t].loaded)]

\* A page that mounts fetches what is missing or stale.
OnMount(q) ==
  IF q.fetch = "idle" /\ (~q.loaded \/ q.stale) THEN Started(q) ELSE q

\* a form is initialised once, when there are data for it
HasForm(q) == ~q.error /\ q.data # {}

Shown(q) == CHOOSE x \in q.data : TRUE

\* What components that mount or unmount with the answer of a fetch make of
\* their state.
Rerendered(p, newview, newcache) ==
  IF p = "template"
  THEN LET q == newcache["template"]
       IN  [newview EXCEPT !.base = IF ~HasForm(q) THEN None ELSE IF @ # None THEN @ ELSE Shown(q).rev]
  ELSE IF p = "settings"
  THEN LET q == newcache["me"]
       IN  [newview EXCEPT !.switches = IF @ = None /\ HasForm(q) THEN Shown(q).set ELSE @]
  ELSE IF p = "providers" /\ newcache["providers"].error
       THEN [newview EXCEPT !.step = "form", !.confirm = None, !.queued = FALSE]
       ELSE newview

\* router.push, a link, or the middleware's redirect when the cookie is missing
Route(p) == LET to == IF auth.cookie THEN p ELSE "login" IN
  /\ place' = to
  /\ cache' = [t \in Table |-> IF t \in Mounts[to] \ Mounts[place] THEN OnMount(cache[t]) ELSE cache[t]]
  /\ view' = IF to = place THEN view ELSE Rerendered(to, Blank, cache')
  /\ past' = IF to = place THEN past ELSE [past EXCEPT !.visit = @ + 1]
  /\ UNCHANGED <<auth, leaving, rows>>

RouteFrom(c, p) == calls' = [Over(c) EXCEPT ![c].followed = TRUE] /\ Route(p) /\ UNCHANGED budget

\* staleTime ran out and the window got the focus, refetchInterval, or Retry
Refetch(t) ==
  /\ budget.fetches > 0 /\ t \in Mounts[place] /\ Awake
  /\ cache[t].fetch = "idle"
  /\ cache' = [cache EXCEPT ![t] = Started(@)]
  /\ budget' = [budget EXCEPT !.fetches = @ - 1]
  /\ UNCHANGED <<auth, place, leaving, view, rows, calls, past>>

FetchServed(t) ==
  /\ cache[t].fetch = "out" /\ Awake
  /\ cache[t].as \in auth.live
  /\ cache' = [cache EXCEPT ![t].fetch = "back", ![t].got = Listing(t, cache[t].as)]
  /\ past' = [past EXCEPT !.missed = @ \ {t}]
  /\ UNCHANGED <<auth, place, leaving, view, rows, calls, budget>>

\* Calls whose handler waits for this list wait for the others or go on.
Settled(t) ==
  [c \in DOMAIN calls |->
     IF calls[c].pc # "settling" \/ t \notin calls[c].waits THEN calls[c]
     ELSE LET left == calls[c].waits \ {t}
          IN  [calls[c] EXCEPT !.waits = left, !.pc = IF left = {} THEN "won" ELSE @]]

\* setTenant: into the store and into localStorage
Stores(a) == [auth EXCEPT !.tenant = a, !.stored = a]

\* getCurrentUser, the query's or TopBar's, stores the tenant
FetchArrives(t) ==
  /\ cache[t].fetch = "back" /\ Awake
  /\ cache' = [cache EXCEPT ![t] = [NoQuery EXCEPT !.loaded = TRUE, !.data = cache[t].got,
                                                !.as = cache[t].as]]
  /\ calls' = Settled(t)
  /\ view' = Rerendered(place, view, cache')
  /\ auth' = IF t \in {"me", "whoami"} THEN Stores(cache[t].as) ELSE auth
  /\ UNCHANGED <<place, leaving, rows, budget, past>>

\* the third attempt failed too: the old data stays, the page shows the error
FetchFails(t) ==
  /\ cache[t].fetch # "idle" /\ Awake
  /\ budget.trouble > 0
  /\ budget' = [budget EXCEPT !.trouble = @ - 1]
  /\ cache' = [cache EXCEPT ![t].fetch = "idle", ![t].error = TRUE, ![t].stale = TRUE]
  /\ calls' = Settled(t)
  /\ view' = Rerendered(place, view, cache')
  /\ UNCHANGED <<auth, place, leaving, rows, past>>

-----------------------------------------------------------------------------
(***************************************************************************)
(* The server handles a call.                                              *)
(***************************************************************************)
\* Operations that make a row, and the state it gets.  Names are not modelled: a
\* form may be sent with another one, and what is taken is refused below.
Creates == [create_key |-> {"on"}, create_mcp |-> {"on"}, create_webhook |-> {"on"},
            create_suppression |-> {"on"}, create_domain |-> {"off"}, invite |-> {"on"},
            connect |-> {"on", "off"}, create_rule |-> {"on"}, create_template |-> {"on"},
            duplicate_template |-> {"on"}, send_email |-> {"on"}]

\* operations that change the state of a row; verified or not, a provider is
\* switched on or off, and a domain that is to be verified is pending
Sets == [revoke_key |-> {"off"}, delete_key |-> {"gone"}, delete_mcp |-> {"gone"},
         enable_webhook |-> {"on"}, disable_webhook |-> {"off"}, delete_webhook |-> {"gone"},
         delete_suppression |-> {"gone"}, delete_domain |-> {"gone"},
         revoke_invite |-> {"gone"}, remove_member |-> {"gone"},
         enable_provider |-> {"on"}, disable_provider |-> {"off"}, delete_provider |-> {"gone"},
         delete_rule |-> {"gone"}, delete_template |-> {"gone"},
         verify_provider |-> {"on", "off"}, verify_domain |-> {"off"}]

\* operations that change the rest of a row
Edits == {"update_webhook", "update_template", "change_role", "save_secret",
          "switch_to_auto"}

\* operations that only ask for work, of a row or of none
Asks == {"recheck_domain", "test_webhook", "resend_invite", "resync_webhook",
         "update_profile"}
Free == {"generate_template", "login", "signup", "delete_account"}

\* operations that invalidate no list: a test of a webhook only its deliveries
Silent == DOMAIN Saves \union Free \union {"test_webhook"}

\* Mutant: the list is invalidated and the detail query is not.
InvalidatesList(c) == IF calls[c].op \in Silent THEN {} ELSE {calls[c].table}

\* Mutant: the hook that deletes a template has no onSuccess.
InvalidatesUnlessDeleted(c) ==
  IF calls[c].op \in Silent \union {"delete_template"} THEN {} ELSE {calls[c].table}

\* what the hook's onSuccess invalidates, by prefix
Invalidates(c) == IF calls[c].op \in Silent THEN {}
                  ELSE IF calls[c].table = "templates" THEN {"templates", "template"}
                  ELSE {calls[c].table}

Alive(i, a) == i \in Ids /\ rows[i].acct = a /\ rows[i].state \in Living

Done(c)   == IF calls[c].pc = "sent" THEN "ok" ELSE "over"
Unheard(c) == IF calls[c].pc = "orphan" THEN Invalidates(c) ELSE {}

AtServer(c) == /\ Awake
               /\ calls[c].pc \in {"sent", "orphan"} /\ calls[c].acct \in auth.live

\* A token that expired is not taken again: where an account gets a new one,
\* what still carries the old one has been refused.
OldTokenUsed(a) ==
  /\ a \notin auth.live
  /\ \/ \E d \in DOMAIN calls : calls[d].pc \in {"sent", "orphan"} /\ calls[d].acct = a
                               /\ calls[d].op \notin {"login", "signup"}
     \/ \E t \in Table : cache[t].fetch = "out" /\ cache[t].as = a

ServerCreates(c) ==
  /\ AtServer(c)
  /\ calls[c].op \in DOMAIN Creates
  /\ calls[c].id # None => Alive(calls[c].id, calls[c].acct)
  /\ \E i \in Ids, s \in Creates[calls[c].op] :
       /\ rows[i].state = "unborn"
       /\ rows' = [rows EXCEPT ![i] = [table |-> calls[c].table, acct |-> calls[c].acct,
                                       state |-> s, rev |-> 0, set |-> {}]]
       /\ calls' = [calls EXCEPT ![c].pc = Done(c), ![c].made = i, ![c].state = s]
  /\ past' = [past EXCEPT !.missed = @ \union Unheard(c)]
  /\ UNCHANGED <<auth, place, leaving, view, cache, budget>>

ServerChanges(c) == LET i == calls[c].id  op == calls[c].op IN
  /\ AtServer(c)
  /\ op \notin DOMAIN Creates /\ op \notin Free
  /\ Alive(i, calls[c].acct)
  /\ \E s \in IF op \in DOMAIN Sets THEN Sets[op] ELSE {rows[i].state} :
       rows' = [rows EXCEPT ![i].state = s,
                            ![i].rev = IF op \in Edits THEN @ + 1 ELSE @,
                            \* settings is replaced by the group that is sent
                            ![i].set = IF op \in DOMAIN Saves THEN calls[c].set ELSE @]
  /\ calls' = [calls EXCEPT ![c].pc = Done(c), ![c].rev = rows'[i].rev]
  \* routing_rule_providers go with their connection, and the settings page
  \* does not invalidate the tenant
  /\ past' = [past EXCEPT !.missed = @ \union Unheard(c) \union
                   (IF op = "delete_provider" THEN {"rules"} ELSE {}) \union
                   (IF op \in DOMAIN Saves THEN {"me"} ELSE {})]
  /\ UNCHANGED <<auth, place, leaving, view, cache, budget>>

ServerAnswersFree(c) == LET op == calls[c].op  a == calls[c].acct IN
  /\ Awake
  /\ calls[c].pc \in {"sent", "orphan"}
  /\ op \in Free
  /\ op = "login" => a \in auth.known \ auth.closed /\ ~OldTokenUsed(a)
  /\ op = "signup" => a \notin auth.known
  /\ op \in {"generate_template", "delete_account"} => a \in auth.live
  /\ calls' = [calls EXCEPT ![c].pc = Done(c)]
  /\ auth' = CASE op \in {"login", "signup"} -> [auth EXCEPT !.live = @ \union {a}, !.known = @ \union {a}]
             [] op = "delete_account" -> [auth EXCEPT !.live = @ \ {a}, !.closed = @ \union {a}]
             [] OTHER -> auth
  /\ rows' = IF op # "delete_account" THEN rows
             ELSE [i \in Ids |-> IF Alive(i, a) THEN [rows[i] EXCEPT !.state = "gone"] ELSE rows[i]]
  /\ UNCHANGED <<place, leaving, view, cache, budget, past>>

\* 404 for a row that is gone, 422 for a name that is taken, a payload that is
\* not valid or a provider that is referenced
ServerRefuses(c) ==
  /\ AtServer(c) /\ calls[c].op # "login"
  /\ calls[c].op \notin DOMAIN Creates \union Free \union {"delete_provider"} =>
       ~Alive(calls[c].id, calls[c].acct)
  /\ calls' = [calls EXCEPT ![c].pc = IF @ = "sent" THEN "lost" ELSE "over"]
  /\ UNCHANGED <<auth, place, leaving, view, rows, cache, budget, past>>

\* and what the mutation waits for
Awaited(c) == IF calls[c].op = "send_email" THEN {}
              ELSE Invalidates(c) \intersect Mounts[place]

Answer(c) ==
  /\ Awake
  /\ calls[c].pc = "ok"
  /\ cache' = [t \in Table |-> IF t \in Invalidates(c) THEN Invalidated(t) ELSE cache[t]]
  /\ calls' = [calls EXCEPT ![c].waits = Awaited(c),
                            ![c].pc = IF Awaited(c) = {} THEN "won" ELSE "settling"]
  \* the first fetch of a list, and one of a page that was left, is not restarted:
  \* where it was served before, it makes the list look fresh
  /\ past' = [past EXCEPT !.missed = @ \union
                 {t \in Invalidates(c) : cache[t].fetch = "back" /\
                                          (~cache[t].loaded \/ t \notin Mounts[place])}]
  \* updateName, like getCurrentUser, stores the tenant
  /\ auth' = IF calls[c].op = "update_profile" THEN Stores(calls[c].acct) ELSE auth
  /\ UNCHANGED <<place, leaving, view, rows, budget>>

\* a network error before or after the server did its work
Lose(c) ==
  /\ Awake
  /\ calls[c].pc \in {"sent", "ok"}
  /\ budget.trouble > 0
  /\ budget' = [budget EXCEPT !.trouble = @ - 1]
  /\ calls' = [calls EXCEPT ![c].pc = "lost", ![c].unheard = (calls[c].pc = "ok")]
  /\ past' = [past EXCEPT !.missed = @ \union Invalidates(c)]
  /\ UNCHANGED <<auth, place, leaving, view, rows, cache>>

\* a colleague, a background job or another client of the API
Outside(i) ==
  /\ Awake
  /\ budget.trouble > 0
  /\ rows[i].state \in Living /\ rows[i].table \notin {"keys", "me"}
  /\ \E s \in {"on", "off", "gone", "failed"} \ {rows[i].state} :
       /\ s = "failed" => rows[i].table = "domains"
       /\ rows' = [rows EXCEPT ![i].state = s]
  /\ budget' = [budget EXCEPT !.trouble = @ - 1]
  /\ past' = [past EXCEPT !.missed = @ \union {t \in Table : i \in RowsOf(t)}]
  /\ UNCHANGED <<auth, place, leaving, view, cache, calls>>
=============================================================================
