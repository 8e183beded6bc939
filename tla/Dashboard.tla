----------------------------- MODULE Dashboard -----------------------------
(***************************************************************************)
(* One browser tab of the dashboard with all its pages, the control plane  *)
(* that answers it, and what a user, the network and other tabs do.        *)
(***************************************************************************)
EXTENDS CredentialPages, EndpointPages, ProviderPages, Sessions

FirstAccount == CHOOSE a \in Accounts : TRUE

Unborn == [table |-> "none", acct |-> FirstAccount, state |-> "unborn", rev |-> 0,
           set |-> {}]

\* rows that were made before; the tenant's row has its switches
Earlier(t) ==
  [table : {t}, acct : {FirstAccount}, rev : {0},
   set : IF t = "me" THEN SUBSET Switch ELSE {{}},
   state : CASE t = "domains" -> Living
             [] t \in {"keys", "webhooks", "providers"} -> {"on", "off"}
             [] OTHER -> {"on"}]

\* the tables that have rows of their own
Stored(pages) == (UNION {Mounts[p] : p \in pages}) \ {"template"}

StartRows(pages) ==
  {r \in [Ids -> {Unborn} \union UNION {Earlier(t) : t \in Stored(pages)}] :
     /\ "me" \in Stored(pages) => r[First].table = "me"
     /\ \A i \in Ids \ {First} : r[i].table # "me"
     /\ "template" \in pages => r[First] # Unborn
     /\ r[First] = Unborn => \A i \in Ids : r[i] = Unborn}

\* A page of the tour has just been loaded by a user who is signed in.
Init ==
  /\ auth = [token |-> FirstAccount, stored |-> FirstAccount, tenant |-> FirstAccount,
             cookie |-> TRUE, known |-> {FirstAccount},
             closed |-> {}, live |-> {FirstAccount}]
  /\ \E tour \in Tours :
       /\ place \in tour.pages
       /\ rows \in StartRows(tour.pages)
       /\ budget = tour
  /\ leaving = None
  /\ view = Blank
  /\ cache = Loaded(place)
  /\ calls = << >>
  /\ past = [opened |-> 0, visit |-> 0, missed |-> {}, otherTab |-> FALSE,
             disturbed |-> FALSE, wiped |-> FALSE]

Follow == \E p \in budget.pages : Here(place) /\ place # "login" /\ Visit(p)

UserSteps == \/ KeySteps \/ McpSteps \/ TeamSteps
             \/ WebhookSteps \/ SuppressionSteps \/ DomainSteps
             \/ ProviderSteps \/ RoutingSteps
             \/ TemplateSteps \/ SessionSteps \/ Follow

Timers == ResetFires \/ PollSetup \/ StopPolling

ServerSteps == \E c \in DOMAIN calls :
  \/ ServerCreates(c) \/ ServerChanges(c) \/ ServerAnswersFree(c) \/ ServerRefuses(c)
  \/ Answer(c) \/ CallDenied(c) \/ OrphanDenied(c)

Handlers == ~Awake /\ \E c \in DOMAIN calls :
  \/ KeyHandlers(c) \/ McpHandlers(c) \/ TeamHandlers(c)
  \/ WebhookHandlers(c) \/ SuppressionHandlers(c) \/ DomainHandlers(c)
  \/ ProviderHandlers(c) \/ RoutingHandlers(c)
  \/ TemplateHandlers(c) \/ SessionHandlers(c)

FetchSteps == \E t \in Table : FetchServed(t) \/ FetchArrives(t) \/ FetchDenied(t)

Troubles == \/ \E t \in Table : Refetch(t) \/ FetchFails(t)
            \/ \E c \in DOMAIN calls : Lose(c)
            \/ \E i \in Ids : Outside(i)
            \/ OtherTab \/ TokenExpires \/ CookieExpires

Next == UserSteps \/ Timers \/ ServerSteps \/ Handlers \/ FetchSteps \/ Load \/ PollDomains \/ Troubles

\* Settled promises are continued, a fetch is answered, and the interval of a
\* page that is looked at fires.
Fairness == WF_cvars(Handlers) /\ WF_cvars(FetchSteps) /\ WF_cvars(PollDomains)

Spec == Init /\ [][Next]_cvars /\ Fairness

-----------------------------------------------------------------------------
Looked == leaving = None /\ Awake

\* A list at rest shows what the server has, however its fetches and the calls of
\* this tab that invalidate it (hooks/*.ts) were ordered, unless it shows an error
\* or has missed a change since it was last asked for.  It misses the change of
\* another client and one whose answer was lost or came to a tab that was
\* reloaded; one that no hook invalidates it for (the rules that go with a
\* deleted provider, the tenant whose switches are saved); and one it is
\* invalidated for after the server answered a fetch that TanStack Query does not
\* restart, the first of a list or that of a page that was left.
ListsSettle ==
  Looked => \A t \in Mounts[place] :
    (/\ cache[t].fetch = "idle" /\ cache[t].loaded /\ ~cache[t].error
     /\ t \notin past.missed
     /\ cache[t].as = auth.token /\ auth.token \in auth.live
     /\ \A c \in DOMAIN calls : Unfinished(c) => t \notin Invalidates(c))
    => cache[t].data = Listing(t, auth.token)

\* A secret the user was given is kept in its dialog, and the dialog open, until
\* the user closes it or leaves the page, whatever other handler or fetch ends
\* meanwhile (a failed fetch of the list hides the dialog while its error shows).
\* Not claimed where the reset of an earlier dialog was due when it was asked for.
SecretKept ==
  \A c \in DOMAIN calls :
    (calls[c].op \in SecretOps /\ calls[c].won) =>
      \/ view.made = c /\ view.dialog = calls[c].op
      \/ calls[c].dismissed \/ calls[c].visit # past.visit \/ calls[c].reset

\* An opened form makes one row though the server would make more, unless the
\* answer about the first was lost, or the reset of an earlier dialog brought the
\* form back.  The connect dialog makes one more for every other provider or name.
OneRowPerOpening ==
  \A c, d \in DOMAIN calls :
    (/\ c < d /\ calls[c].op = calls[d].op /\ calls[c].op \notin {"duplicate_template", "connect"}
     /\ calls[c].opening = calls[d].opening /\ calls[c].visit = calls[d].visit
     /\ calls[c].made # None /\ calls[d].made # None)
    => calls[c].unheard \/ calls[c].reset

\* The edit form does not start from a version older than the user's own save
\* that took them back to the list.
EditStartsFromOwnLastSave ==
  (place = "template" /\ view.base # None) =>
    \A c \in DOMAIN calls :
      (calls[c].op = "update_template" /\ calls[c].followed) => view.base >= calls[c].rev

\* A save that ends moves the user only off the page it was sent from; the email
\* that was sent does so from anywhere.
NoYank ==
  [][\A c \in DOMAIN calls :
       (place' # place /\ Continues(c) /\ calls'[c].pc = "over" /\ calls[c].op # "send_email")
         => Mounted(c)]_cvars

\* What a page shows, the store's tenant and the token are of one account,
\* unless another tab changed the session under this one.
OneAccountShown ==
  (Looked /\ place # "login" /\ ~past.otherTab) =>
    /\ \A t \in Mounts[place] : cache[t].loaded => cache[t].as = auth.token
    /\ past.disturbed \/ auth.tenant \in {None, auth.token}

\* What one user's session fetched or was denied reaches no other one: signing
\* out and signing in load the page, which stops every older request, so a late
\* 401 for an old token ends no newer session (api.ts, auth.store.ts).
OneSession == OneAccountShown /\ (past.wiped => past.disturbed)

\* the last of a group of switches that the server took
LastSaved(c) == /\ calls[c].op \in DOMAIN Saves /\ calls[c].won
                /\ \A d \in DOMAIN calls : calls[d].op \in DOMAIN Saves /\ calls[d].won => d <= c

\* While the user stays on the settings page, and its saves come one after the
\* other and are all answered, the group that was saved last shows what the server
\* has, though others failed since; before any was saved every switch does.  (A
\* save resets the other group on the server, which the page does not show.)
SwitchShowsSaved ==
  (/\ place = "settings" /\ Looked /\ view.switches # None
   /\ \A c \in DOMAIN calls : calls[c].op \in DOMAIN Saves =>
        /\ calls[c].pc = "over" /\ calls[c].visit = past.visit
        /\ ~calls[c].crowded /\ ~calls[c].unheard)
  => /\ \A c \in DOMAIN calls : LastSaved(c) =>
          LET g == Saves[calls[c].op] IN view.switches \intersect g = rows[First].set \intersect g
     /\ (~ \E c \in DOMAIN calls : LastSaved(c)) => view.switches = rows[First].set

\* A domain that a page shows pending and that was verified is shown verified to a
\* user who stays, though a fetch failed: refetchInterval of use-domains.ts.  One
\* that it shows failed is not polled for.
Waits(i) == /\ place = "domains" /\ Lists("domains", i, {"off"}) /\ rows[i].state = "on"

VerifiedIsShown == \A i \in Ids : Waits(i) ~> ~Waits(i)
=============================================================================
