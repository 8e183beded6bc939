----------------------------- MODULE Sessions -----------------------------
(***************************************************************************)
(* Signing in and out, the answer 401, full page loads, other tabs; the    *)
(* profile and the settings pages.                                         *)
(***************************************************************************)
EXTENDS TemplatePages

\* localStorage and the cookie without a session; the store is not told
SignedOut == [auth EXCEPT !.token = None, !.stored = None, !.cookie = FALSE]

\* authService.logout: the store forgets too
Forgotten == [SignedOut EXCEPT !.tenant = None]

\* authService.login, register: setSession
SignedIn(a) == [auth EXCEPT !.token = a, !.stored = a, !.tenant = a, !.cookie = TRUE]

SignOut ==
  /\ place # "login" /\ Here(place)
  /\ budget.signs > 0
  /\ budget' = [budget EXCEPT !.signs = @ - 1]
  /\ auth' = Forgotten /\ leaving' = "login"
  /\ UNCHANGED <<place, view, rows, cache, calls, past>>

\* A full load: the browser stops every script and request of the old page,
\* what reached the server goes on there.
AfterUnload(c) == IF calls[c].pc = "sent" THEN [calls[c] EXCEPT !.pc = "orphan"]
                  ELSE IF calls[c].pc = "orphan" THEN calls[c]
                  ELSE [calls[c] EXCEPT !.pc = "over", !.unheard = @ \/ calls[c].pc # "over"]

\* TopBar hydrates the store, and asks who the tenant is if that is not stored.
Loaded(p) ==
  [t \in Table |-> IF t \in Mounts[p] \/ (t = "whoami" /\ p # "login" /\ auth.stored = None)
                   THEN Started(NoQuery) ELSE NoQuery]

\* Mutant: router.push, which keeps what the tab has in memory.
LoadSoftly == LET p == IF auth.cookie THEN leaving ELSE "login" IN
  /\ Awake /\ leaving # None
  /\ place' = p /\ leaving' = None
  /\ cache' = [t \in Table |-> IF t \in Mounts[p] THEN OnMount(cache[t]) ELSE cache[t]]
  /\ view' = Rerendered(p, Blank, cache')
  /\ past' = [past EXCEPT !.visit = @ + 1, !.otherTab = FALSE]
  /\ UNCHANGED <<auth, calls, rows, budget>>

Load == LET p == IF auth.cookie THEN leaving ELSE "login" IN
  /\ Awake /\ leaving # None
  /\ place' = p /\ leaving' = None
  /\ cache' = Loaded(p)
  /\ view' = Blank
  /\ calls' = [c \in DOMAIN calls |-> AfterUnload(c)]
  /\ auth' = [auth EXCEPT !.tenant = auth.stored]
  /\ past' = [past EXCEPT !.visit = @ + 1, !.otherTab = FALSE, !.missed = {}]
  /\ UNCHANGED <<rows, budget>>

-----------------------------------------------------------------------------
\* The response interceptor: an answer 401 ends whatever session there is now
Wiped(a) == auth.token \in auth.live /\ auth.token # a

Denied(a) ==
  /\ auth' = SignedOut /\ leaving' = "login"
  /\ past' = [past EXCEPT !.wiped = @ \/ Wiped(a)]
  /\ UNCHANGED <<place, view, rows, budget>>

CallDenied(c) ==
  /\ Awake
  /\ calls[c].pc = "sent"
  /\ IF calls[c].op = "login" THEN TRUE
     ELSE calls[c].op # "signup" /\ calls[c].acct \notin auth.live
  /\ calls' = [calls EXCEPT ![c].pc = "lost"]
  /\ cache' = cache
  /\ Denied(calls[c].acct)

OrphanDenied(c) ==
  /\ Awake
  /\ calls[c].pc = "orphan" /\ calls[c].acct \notin auth.live /\ calls[c].op \notin {"login", "signup"}
  /\ calls' = [calls EXCEPT ![c].pc = "over"]
  /\ UNCHANGED <<auth, place, leaving, view, rows, cache, budget, past>>

FetchDenied(t) ==
  /\ cache[t].fetch = "out" /\ cache[t].as \notin auth.live /\ Awake
  /\ cache' = [cache EXCEPT ![t].fetch = "idle", ![t].error = TRUE, ![t].stale = TRUE]
  /\ calls' = Settled(t)
  /\ Denied(cache[t].as)

-----------------------------------------------------------------------------
\* The login and signup pages, lock is loading
Credentials(op, a) ==
  /\ Here("login") /\ view.lock = None
  /\ budget.signs > 0 /\ Len(calls) < budget.calls
  /\ budget' = [budget EXCEPT !.signs = @ - 1]
  /\ calls' = Append(calls, NewCall(op, "session", None, a))
  /\ view' = [view EXCEPT !.lock = a]
  /\ UNCHANGED <<auth, place, leaving, rows, cache, past>>

SubmitLogin  == \E a \in auth.known : Credentials("login", a)
SubmitSignup == \E a \in Accounts \ auth.known : Credentials("signup", a)

\* the answer opens the session wherever the user is by now
HandleCredentials(c) ==
  /\ calls[c].op \in {"login", "signup"} /\ Continues(c)
  /\ calls' = Over(c)
  /\ view' = IF Mounted(c) THEN [view EXCEPT !.lock = None] ELSE view
  /\ IF calls[c].pc = "won"
     THEN auth' = SignedIn(calls[c].acct) /\ leaving' = "overview"
     ELSE UNCHANGED <<auth, leaving>>
  /\ UNCHANGED <<place, rows, cache, budget, past>>

-----------------------------------------------------------------------------
\* Profile and settings
ProfilePage  == Ready("profile", "me")
SettingsPage == Ready("settings", "me")

SaveProfile == /\ ProfilePage /\ cache["me"].loaded /\ ~IsPending("update_profile")
               /\ Send("update_profile", "me", First, view)

HandleSaveProfile(c) == calls[c].op = "update_profile" /\ Continues(c) /\ Finish(c, view)

\* the switches that are off once one more was clicked
Flipped(s) == IF s \in view.switches THEN view.switches \ {s} ELSE view.switches \union {s}

\* A switch moves at once; its whole group is sent, and the handler keeps a copy
\* of what the group was.
ToggleSwitch == \E op \in DOMAIN Saves : \E s \in Saves[op] :
  /\ SettingsPage /\ view.switches # None
  /\ Len(calls) < budget.calls
  /\ view' = [view EXCEPT !.switches = Flipped(s)]
  /\ calls' = Append(calls, [NewCall(op, "me", First, auth.token) EXCEPT
                              !.set = Flipped(s) \intersect Saves[op],
                              !.was = view.switches \intersect Saves[op]])
  /\ UNCHANGED <<auth, place, leaving, rows, cache, budget, past>>

\* the whole group, back to what it was at the click
RolledBack(c) == (view.switches \ Saves[calls[c].op]) \union calls[c].was

\* Mutant: a failed save leaves the switches where they are.
HandleSwitchOptimistically(c) ==
  /\ calls[c].op \in DOMAIN Saves /\ Continues(c)
  /\ Finish(c, view)

HandleSwitch(c) ==
  /\ calls[c].op \in DOMAIN Saves /\ Continues(c)
  /\ Finish(c, IF calls[c].pc = "won" THEN view ELSE [view EXCEPT !.switches = RolledBack(c)])

OpenDeleteProject == SettingsPage /\ OpenDialog([view EXCEPT !.dialog = "delete_project"])

\* Escape closes it while the request is out, too; Cancel does not
CloseDeleteProject == SettingsPage /\ CloseDialog(Closed)

DeleteProject ==
  /\ SettingsPage /\ view.dialog = "delete_project" /\ view.lock = None
  /\ Send("delete_account", "me", None, [view EXCEPT !.lock = auth.token])

HandleDeleteProject(c) ==
  /\ calls[c].op = "delete_account" /\ Continues(c)
  /\ calls' = Over(c)
  /\ IF calls[c].pc = "won" THEN auth' = Forgotten /\ leaving' = "login" /\ view' = view
     ELSE /\ UNCHANGED <<auth, leaving>>
          /\ view' = IF Mounted(c) THEN [view EXCEPT !.lock = None] ELSE view
  /\ UNCHANGED <<place, rows, cache, budget, past>>

-----------------------------------------------------------------------------
\* What happens to the session outside this tab
SessionEvent(newauth, p) ==
  /\ Awake /\ budget.signs > 0
  /\ auth' = newauth /\ past' = p
  /\ budget' = [budget EXCEPT !.signs = @ - 1]
  /\ UNCHANGED <<place, leaving, view, rows, cache, calls>>

\* another tab signs out, switches to a session there is, or signs up
OtherTab == \E a \in (auth.live \union (Accounts \ auth.known) \union {None}) \ {auth.token} :
  SessionEvent([auth EXCEPT !.token = a, !.stored = a, !.cookie = (a # None),
                            !.live = @ \union ({a} \ {None}),
                            !.known = @ \union ({a} \ {None})],
               [past EXCEPT !.otherTab = TRUE, !.disturbed = TRUE])

TokenExpires == \E a \in auth.live : SessionEvent([auth EXCEPT !.live = @ \ {a}], past)

CookieExpires == auth.cookie /\ SessionEvent([auth EXCEPT !.cookie = FALSE],
                                             [past EXCEPT !.disturbed = TRUE])

SessionSteps ==
  \/ SignOut \/ SubmitLogin \/ SubmitSignup \/ SaveProfile \/ ToggleSwitch
  \/ OpenDeleteProject \/ CloseDeleteProject \/ DeleteProject

SessionHandlers(c) == \/ HandleCredentials(c) \/ HandleSaveProfile(c)
                      \/ HandleSwitch(c) \/ HandleDeleteProject(c)
=============================================================================
