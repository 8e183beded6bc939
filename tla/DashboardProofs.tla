-------------------------- MODULE DashboardProofs ---------------------------
(***************************************************************************)
(* Theorems about Dashboard for every set of rows, accounts and tours and  *)
(* every number of calls: DashInv is inductive.  There is a lemma for each *)
(* of its parts (StepShapes, StepUndisturbed, StepListsTrue,               *)
(* StepSavesSeen, StepEditStarts, StepSwitchesTrue, ...), by the moves of  *)
(* DashboardStepsProofs.                                                   *)
(***************************************************************************)
EXTENDS DashboardStepsProofs

-----------------------------------------------------------------------------
(***************************************************************************)
(* What each kind of step leaves alone.                                    *)
(***************************************************************************)
\* the history but for the dialogs that were opened
SameHistory == /\ past'.visit = past.visit /\ past'.missed = past.missed
               /\ past'.otherTab = past.otherTab /\ past'.disturbed = past.disturbed
               /\ past'.wiped = past.wiped

LEMMA SendsFrame ==
  ASSUME Typed, UserSends
  PROVE  /\ UNCHANGED <<auth, place, leaving, rows, cache, past>> /\ Here(place)
         /\ view'.dialog = view.dialog /\ view'.target = view.target /\ view'.base = view.base
         /\ \/ view'.switches = view.switches
            \/ place = "settings" /\ view.switches # None /\ view'.switches # None
<1>1. ASSUME NEW op \in Op, NEW t \in Table, NEW i \in Ids \union {None}, NEW nv \in View,
             Sends(op, t, i, nv)
      PROVE  /\ UNCHANGED <<auth, place, leaving, rows, cache, past>> /\ Here(place)
             /\ SameForms(view')
  BY <1>1 DEF Sends, Send
<1>2. ASSUME NEW op \in {"login", "signup"}, NEW a \in Accounts, Credentials(op, a)
      PROVE  /\ UNCHANGED <<auth, place, leaving, rows, cache, past>> /\ Here(place)
             /\ view'.dialog = view.dialog /\ view'.target = view.target
             /\ view'.base = view.base /\ view'.switches = view.switches
  <2>1. /\ view'.dialog = view.dialog /\ view'.target = view.target
        /\ view'.base = view.base /\ view'.switches = view.switches
    BY <1>2, CredentialsTyped
  <2>2. QED
    BY <1>2, <2>1 DEF Credentials, Here
<1>3. ASSUME ToggleSwitch
      PROVE  /\ UNCHANGED <<auth, place, leaving, rows, cache, past>> /\ Here(place)
             /\ view'.dialog = view.dialog /\ view'.target = view.target
             /\ view'.base = view.base
             /\ place = "settings" /\ view.switches # None /\ view'.switches # None
  <2>1. \E op \in DOMAIN Saves : \E s \in Saves[op] :
           /\ Flipped(s) \in SUBSET Switch /\ view.switches # None
           /\ view'.switches = Flipped(s) /\ SettingsPage
           /\ view'.dialog = view.dialog /\ view'.target = view.target
           /\ view'.base = view.base
           /\ UNCHANGED <<auth, place, leaving, rows, cache, past>>
    BY <1>3, ToggleTyped
  <2>2. QED
    BY <2>1, ClientAssumption DEF SettingsPage, Ready, Here
<1>4. QED
  BY <1>1, <1>2, <1>3 DEF UserSends, SameForms

LEMMA ShowsFrame ==
  ASSUME Typed, UserShows
  PROVE  /\ UNCHANGED <<auth, place, leaving, rows, cache>> /\ SameHistory /\ Awake
         /\ view'.base = view.base /\ view'.switches = view.switches
         /\ view'.dialog \in DOMAIN Chosen =>
              \/ view'.dialog = view.dialog /\ view'.target = view.target
              \/ IsRow(view'.target, Chosen[view'.dialog])
<1>1. ASSUME NEW nv \in View, Opens(nv)
      PROVE  /\ UNCHANGED <<auth, place, leaving, rows, cache>> /\ SameHistory /\ Awake
             /\ view'.base = view.base /\ view'.switches = view.switches
             /\ view'.dialog \in DOMAIN Chosen => IsRow(view'.target, Chosen[view'.dialog])
  BY <1>1, OpenedIs DEF Opens, OpenDialog, SameHistory, Here
<1>2. ASSUME NEW nv \in View, Closes(nv)
      PROVE  /\ UNCHANGED <<auth, place, leaving, rows, cache, past>> /\ Awake
             /\ view'.base = view.base /\ view'.switches = view.switches
             /\ view'.dialog \notin DOMAIN Chosen
  BY <1>2 DEF Closes, CloseDialog, Here, Chosen
<1>3. ASSUME NEW nv \in View, Clicks(nv)
      PROVE  /\ UNCHANGED <<auth, place, leaving, rows, cache, past>> /\ Awake
             /\ view'.base = view.base /\ view'.switches = view.switches
             /\ view'.dialog = view.dialog /\ view'.target = view.target
  BY <1>3 DEF Clicks, Click
<1>4. QED
  BY <1>1, <1>2, <1>3 DEF UserShows, SameHistory

LEMMA ShowsStay ==
  ASSUME Typed, UserShows
  PROVE  /\ Stay
         /\ \A d \in DOMAIN calls :
              /\ SameMade(d) /\ calls'[d].unheard = calls[d].unheard
              /\ calls'[d].won = calls[d].won /\ calls'[d].followed = calls[d].followed
              /\ calls'[d].waits = calls[d].waits /\ calls'[d].pc = calls[d].pc
<1>1. CASE UNCHANGED calls
  BY <1>1 DEF Stay, Fixed, SameMade, Typed
<1>2. CASE \E nv \in View : Closes(nv)
  BY <1>2, DismissEffect DEF Closes, CloseDialog
<1>3. QED
  BY <1>1, <1>2 DEF UserShows, Opens, OpenDialog, Clicks, Click

LEMMA HandlerFrame ==
  ASSUME Typed, NEW c \in DOMAIN calls, HandlerEnds(c)
  PROVE  /\ UNCHANGED <<place, rows, cache, budget, past>>
         /\ view'.base = view.base
         /\ (view'.switches = view.switches \/ (calls[c].op \in DOMAIN Saves /\ Mounted(c)))
         /\ view'.dialog \in DOMAIN Chosen => view'.dialog = view.dialog /\ view'.target = view.target
         /\ calls'[c].followed = calls[c].followed /\ calls'[c].waits = calls[c].waits
         /\ \/ UNCHANGED <<auth, leaving>>
            \/ HandleCredentials(c) \/ HandleDeleteProject(c)
<1>1. ASSUME NEW nv \in View, Finishes(c, nv)
      PROVE  /\ UNCHANGED <<place, rows, cache, budget, past, auth, leaving>>
             /\ view'.base = view.base
             /\ (view'.switches = view.switches \/ (calls[c].op \in DOMAIN Saves /\ Mounted(c)))
             /\ view'.dialog \in DOMAIN Chosen => view'.dialog = view.dialog /\ view'.target = view.target
             /\ calls'[c].followed = calls[c].followed /\ calls'[c].waits = calls[c].waits
  <2>1. /\ UNCHANGED <<place, rows, cache, budget, past, auth, leaving>>
        /\ view' = ViewAfter(c, nv)
        /\ calls'[c].followed = calls[c].followed /\ calls'[c].waits = calls[c].waits
    BY <1>1, FinishesIs
  <2>2. CASE Mounted(c)
    <3>1. "none" \notin DOMAIN Chosen
      BY DEF Chosen
    <3>2. view' = nv
      BY <2>1, <2>2 DEF ViewAfter
    <3>3. QED
      BY <1>1, <2>1, <2>2, <3>1, <3>2 DEF Finishes
  <2>3. CASE ~Mounted(c)
    BY <2>1, <2>3 DEF ViewAfter
  <2>4. QED
    BY <2>2, <2>3
<1>2. ASSUME HandleCredentials(c) \/ HandleDeleteProject(c)
      PROVE  /\ UNCHANGED <<place, rows, cache, budget, past>> /\ SameForms(view')
             /\ calls'[c].followed = calls[c].followed /\ calls'[c].waits = calls[c].waits
  BY <1>2, HandlesCredentialsIs, HandlesDeleteIs
<1>3. QED
  BY <1>1, <1>2 DEF HandlerEnds, SameForms

LEMMA ServesFrame ==
  ASSUME Typed, Shapes, NEW c \in DOMAIN calls, Serves(c)
  PROVE  UNCHANGED <<place, view>> /\ Stay /\ Only(c) /\ SameHere(c) /\ Awake
<1>1. Awake
  BY DEF Serves, ServerCreates, ServerChanges, ServerAnswersFree, ServerRefuses, Answer,
         CallDenied, OrphanDenied, Lose, AtServer
<1>2. ASSUME ServerCreates(c) PROVE UNCHANGED <<place, view>> /\ Stay /\ Only(c) /\ SameHere(c)
  BY <1>2, CreatesIs
<1>3. ASSUME ServerChanges(c) PROVE UNCHANGED <<place, view>> /\ Stay /\ Only(c) /\ SameHere(c)
  BY <1>3, ChangesIs
<1>4. ASSUME ServerAnswersFree(c) PROVE UNCHANGED <<place, view>> /\ Stay /\ Only(c) /\ SameHere(c)
  BY <1>4, AnswersFreeIs
<1>5. ASSUME ServerRefuses(c) \/ CallDenied(c) \/ OrphanDenied(c)
      PROVE  UNCHANGED <<place, view>> /\ Stay /\ Only(c) /\ SameHere(c)
  BY <1>5, RefusesIs, CallDeniedIs, OrphanDeniedIs
<1>6. ASSUME Answer(c) \/ Lose(c)
      PROVE  UNCHANGED <<place, view>> /\ Stay /\ Only(c) /\ SameHere(c)
  BY <1>6, AnswerIs, LoseIs
<1>7. QED
  BY <1>1, <1>2, <1>3, <1>4, <1>5, <1>6 DEF Serves

LEMMA ElsewhereFrame ==
  ASSUME Typed, Elsewhere
  PROVE  UNCHANGED <<place, view, calls>>
<1>1. SignOut \/ UNCHANGED cvars => UNCHANGED <<place, view, calls>>
  BY DEF SignOut, cvars
<1>2. QED
  BY <1>1, PollSetupTyped, OutsideIs, SessionEventIs DEF Elsewhere

LEMMA FetchesFrame ==
  ASSUME Typed, NEW t \in Table, Fetches(t)
  PROVE  /\ UNCHANGED <<place, rows>> /\ Awake
         /\ \A u \in Table : u # t => cache'[u] = cache[u]
         /\ view' = view \/ view' = Rerendered(place, view, cache')
         /\ UNCHANGED calls \/ calls' = Settled(t)
<1>1. CASE Refetches(t)
  BY <1>1, RefetchesIs DEF Refetches
<1>2. QED
  BY <1>1, FetchServedIs, FetchArrivesIs, FetchFailsIs, FetchDeniedIs DEF Fetches

-----------------------------------------------------------------------------
(***************************************************************************)
(* Rows: they keep their table, and what is listed is a row.               *)
(***************************************************************************)
RowsStay ==
  /\ \A i \in Ids : rows[i].state # "unborn" =>
       rows'[i].table = rows[i].table /\ rows'[i].state # "unborn"
  /\ \A i \in Ids : rows'[i].table = "me" => rows[i].table = "me"

LEMMA ServesRows ==
  ASSUME Typed, Shapes, NEW c \in DOMAIN calls, Serves(c)
  PROVE  RowsStay
<1>1. CASE ServerCreates(c)
  <2>1. PICK i \in Ids : /\ rows[i].state = "unborn" /\ calls[c].op \in DOMAIN Creates
                         /\ \A j \in Ids : j # i => rows'[j] = rows[j]
                         /\ rows'[i].table = calls[c].table
    BY <1>1, CreatesIs
  <2>2. calls[c].table # "me"
    BY <2>1 DEF Shapes, Shape
  <2>3. QED
    BY <2>1, <2>2 DEF RowsStay
<1>2. CASE ServerChanges(c)
  BY <1>2, ChangesIs DEF RowsStay, Living
<1>3. CASE ServerAnswersFree(c)
  <2>1. \A j \in Ids : /\ rows'[j].table = rows[j].table
                       /\ rows'[j].state \in {rows[j].state, "gone"}
    BY <1>3, AnswersFreeIs
  <2>2. QED
    BY <2>1 DEF RowsStay
<1>4. CASE UNCHANGED rows
  BY <1>4 DEF RowsStay
<1>5. QED
  BY <1>1, <1>2, <1>3, <1>4, RefusesIs, CallDeniedIs, OrphanDeniedIs, AnswerIs, LoseIs DEF Serves

LEMMA ElsewhereRows ==
  ASSUME Typed, Elsewhere
  PROVE  RowsStay
<1>1. CASE \E i \in Ids : Outside(i)
  BY <1>1, OutsideIs DEF RowsStay, Living
<1>2. CASE UNCHANGED rows
  BY <1>2 DEF RowsStay
<1>3. SignOut \/ UNCHANGED cvars => UNCHANGED rows
  BY DEF SignOut, cvars
<1>4. QED
  BY <1>1, <1>2, <1>3, PollSetupTyped, SessionEventIs DEF Elsewhere

LEMMA StepRows ==
  ASSUME Typed, Shapes, Step
  PROVE  RowsStay
<1>1. CASE UNCHANGED rows
  BY <1>1 DEF RowsStay
<1>2. ASSUME NEW c \in DOMAIN calls, NEW p \in Place, Returns(c, p) PROVE UNCHANGED rows
  BY <1>2, ReturnsIs, RouteIs
<1>3. ASSUME NEW p \in Place, Follows(p) PROVE UNCHANGED rows
  BY <1>3, FollowsLeaves, RouteIs
<1>4. QED
  BY <1>1, <1>2, <1>3, ServesRows, ElsewhereRows, SendsFrame, ShowsFrame, HandlerFrame,
     FetchesFrame, LoadIs DEF Step

WillBe(i, t) == i \in Ids /\ rows'[i].table = t /\ rows'[i].state # "unborn"

LEMMA RowKept ==
  ASSUME RowsStay, NEW i, NEW t, IsRow(i, t)
  PROVE  WillBe(i, t)
  BY DEF RowsStay, IsRow, WillBe

-----------------------------------------------------------------------------
\* what a step makes of the data of a list
ItemsStep(t) ==
  /\ \/ cache'[t].loaded = cache[t].loaded /\ cache'[t].data = cache[t].data
     \/ cache'[t].loaded /\ cache'[t].data = cache[t].got
     \/ ~cache'[t].loaded /\ cache'[t].data = {} /\ Load
  /\ cache'[t].got \in {cache[t].got, {}, Listing(t, cache[t].as)}

LEMMA AnswerItems ==
  ASSUME Typed, Shapes, NEW c \in DOMAIN calls, Answer(c), NEW t \in Table
  PROVE  ItemsStep(t)
<1> DEFINE q == Invalidated(t)
<1>1. /\ q.loaded = cache[t].loaded /\ q.data = cache[t].data
      /\ Restarts(t) => q.got = {}
      /\ ~Restarts(t) => q.got = cache[t].got
  BY InvalidatedIs
<1>2. cache'[t] = q \/ cache'[t] = cache[t]
  BY AnswerIs
<1> HIDE DEF q
<1>3. QED
  BY <1>1, <1>2 DEF ItemsStep

LEMMA PollItems ==
  ASSUME Typed, PollSetup, NEW t \in Table
  PROVE  ItemsStep(t)
<1> DEFINE q == Invalidated(t)
<1>1. /\ q.loaded = cache[t].loaded /\ q.data = cache[t].data
      /\ Restarts(t) => q.got = {}
      /\ ~Restarts(t) => q.got = cache[t].got
  BY InvalidatedIs
<1>2. cache'[t] = q \/ cache'[t] = cache[t]
  BY PollSetupTyped
<1> HIDE DEF q
<1>3. QED
  BY <1>1, <1>2 DEF ItemsStep

LEMMA RouteItems ==
  ASSUME Typed, NEW p \in Place, Route(p), NEW t \in Table
  PROVE  ItemsStep(t)
<1>1. cache'[t] = OnMount(cache[t]) \/ cache'[t] = cache[t]
  BY RouteIs
<1>2. OnMount(cache[t]) = cache[t] \/ OnMount(cache[t]) = Started(cache[t])
  BY CacheOf, OnMountIs
<1>3. /\ Started(cache[t]).loaded = cache[t].loaded /\ Started(cache[t]).data = cache[t].data
      /\ Started(cache[t]).got = {}
  BY CacheOf, StartedIs
<1>4. QED
  BY <1>1, <1>2, <1>3 DEF ItemsStep

LEMMA FetchItems ==
  ASSUME Typed, NEW u \in Table, Fetches(u), NEW t \in Table
  PROVE  ItemsStep(t)
<1>1. CASE t # u
  BY <1>1, FetchesFrame DEF ItemsStep
<1>2. CASE t = u
  <2>1. CASE FetchServed(u)
    BY <1>2, <2>1, FetchServedIs DEF ItemsStep
  <2>2. CASE FetchArrives(u)
    BY <1>2, <2>2, FetchArrivesIs DEF ItemsStep
  <2>3. CASE FetchFails(u)
    BY <1>2, <2>3, FetchFailsIs DEF ItemsStep
  <2>4. CASE FetchDenied(u)
    BY <1>2, <2>4, FetchDeniedIs DEF ItemsStep
  <2>5. QED
    BY <1>2, <2>1, <2>2, <2>3, <2>4, RefetchesIs DEF Fetches, ItemsStep
<1>3. QED
  BY <1>1, <1>2

LEMMA LoadItems ==
  ASSUME Typed, Load, NEW t \in Table
  PROVE  ItemsStep(t)
<1>1. place' \in Place /\ cache' = Loaded(place')
  BY LoadIs, PlaceNames
<1>2. ~cache'[t].loaded /\ cache'[t].data = {} /\ cache'[t].got = {}
  BY <1>1, LoadedIs
<1>3. QED
  BY <1>2 DEF ItemsStep

LEMMA StepItems ==
  ASSUME Typed, Shapes, Step, NEW t \in Table
  PROVE  ItemsStep(t)
<1>1. CASE UNCHANGED cache
  BY <1>1 DEF ItemsStep
<1>2. ASSUME NEW c \in DOMAIN calls, Serves(c) PROVE ItemsStep(t)
  BY <1>1, <1>2, AnswerItems, CreatesIs, ChangesIs, AnswersFreeIs, RefusesIs, CallDeniedIs,
     OrphanDeniedIs, LoseIs DEF Serves
<1>3. CASE Elsewhere
  <2>1. SignOut \/ UNCHANGED cvars => UNCHANGED cache
    BY DEF SignOut, cvars
  <2>2. QED
    BY <1>1, <1>3, <2>1, PollItems, OutsideIs, SessionEventIs DEF Elsewhere
<1>4. ASSUME NEW c \in DOMAIN calls, NEW p \in Place, Returns(c, p) PROVE ItemsStep(t)
  BY <1>4, ReturnsIs, RouteItems
<1>5. ASSUME NEW p \in Place, Follows(p) PROVE ItemsStep(t)
  BY <1>5, FollowsLeaves, RouteItems
<1>6. QED
  BY <1>1, <1>2, <1>3, <1>4, <1>5, SendsFrame, ShowsFrame, HandlerFrame, FetchItems, LoadItems DEF Step

LEMMA ListsKnown ==
  ASSUME Typed, RowsKnown, RowsStay, NEW t \in Table, ItemsStep(t)
  PROVE  /\ ~cache'[t].loaded => cache'[t].data = {}
         /\ \A x \in cache'[t].data \union cache'[t].got : WillBe(x.id, TableOf(t)) /\ (t = "template" => x.id = First)
<1>1. /\ ~cache[t].loaded => cache[t].data = {}
      /\ \A x \in Items(t) : /\ IsRow(x.id, TableOf(t))
                             /\ t = "template" => x.id = First
  BY DEF RowsKnown
<1>2. ASSUME NEW x \in Listing(t, cache[t].as)
      PROVE  IsRow(x.id, TableOf(t)) /\ (t = "template" => x.id = First)
  <2>1. x.id \in RowsOf(t) /\ rows[x.id].state \in Living
    BY <1>2, ListingTyped
  <2>2. QED
    BY <2>1 DEF RowsOf, TableOf, IsRow, Living
<1>3. \A x \in cache'[t].data \union cache'[t].got : x \in Items(t) \union Listing(t, cache[t].as)
  BY DEF ItemsStep, Items
<1>4. \A x \in cache'[t].data \union cache'[t].got : IsRow(x.id, TableOf(t)) /\ (t = "template" => x.id = First)
  BY <1>1, <1>2, <1>3
<1>5. \A x \in cache'[t].data \union cache'[t].got : WillBe(x.id, TableOf(t))
  BY <1>4, RowKept DEF TableOf
<1>6. QED
  BY <1>1, <1>4, <1>5 DEF ItemsStep

-----------------------------------------------------------------------------
(***************************************************************************)
(* What the page shows is of rows, and so are the calls.                   *)
(***************************************************************************)
LEMMA SwitchHandled ==
  ASSUME Typed, NEW c \in DOMAIN calls, HandleSwitch(c), Mounted(c), view.switches # None
  PROVE  /\ view'.switches = IF calls[c].pc = "won" THEN view.switches ELSE RolledBack(c)
         /\ RolledBack(c) \in SUBSET Switch /\ view.switches \in SUBSET Switch
         /\ view'.switches # None
<1>1. view \in View /\ view.switches \in SUBSET Switch
  BY DEF Typed, View
<1>2. calls[c].was \in SUBSET Switch
  BY CallOf DEF Call
<1>3. RolledBack(c) \in SUBSET Switch
  BY <1>1, <1>2 DEF RolledBack
<1>4. view' = IF calls[c].pc = "won" THEN view ELSE [view EXCEPT !.switches = RolledBack(c)]
  BY DEF HandleSwitch, Finish
<1>5. view'.switches = IF calls[c].pc = "won" THEN view.switches ELSE RolledBack(c)
  BY <1>1, <1>4 DEF View
<1>6. QED
  BY <1>1, <1>3, <1>5, ClientAssumption

\* a step on a page, or one to another page
PageStep ==
  /\ (past'.visit = past.visit /\ place' = place) \/ past'.visit = past.visit + 1
  /\ view'.dialog \in DOMAIN Chosen =>
       \/ view'.dialog = view.dialog /\ view'.target = view.target
       \/ IsRow(view'.target, Chosen[view'.dialog])
  /\ place' = "template" /\ view'.base # None =>
       \/ HasForm(cache'["template"])
       \/ place = "template" /\ view.base # None /\ ~Load
  /\ place' = "settings" /\ view'.switches # None =>
       HasForm(cache'["me"]) \/ (place = "settings" /\ view.switches # None)
  /\ past'.visit = past.visit /\ view.switches # None => view'.switches # None

LEMMA NoneChosen == "none" \notin DOMAIN Chosen
  BY DEF Chosen

LEMMA SamePageView ==
  ASSUME Typed, past'.visit = past.visit, place' = place, ~Load,
         view'.dialog = view.dialog, view'.target = view.target, view'.base = view.base,
         view'.switches = view.switches
  PROVE  PageStep
  BY DEF PageStep

LEMMA ServesPage ==
  ASSUME Typed, Shapes, NEW c \in DOMAIN calls, Serves(c)
  PROVE  past'.visit = past.visit
<1>1. CASE ServerCreates(c)
  BY <1>1, CreatesIs
<1>2. CASE ServerChanges(c)
  BY <1>2, ChangesIs
<1>3. CASE ServerAnswersFree(c)
  BY <1>3, AnswersFreeIs
<1>4. CASE ServerRefuses(c) \/ CallDenied(c) \/ OrphanDenied(c)
  BY <1>4, RefusesIs, CallDeniedIs, OrphanDeniedIs
<1>5. CASE Answer(c) \/ Lose(c)
  BY <1>5, AnswerIs, LoseIs
<1>6. QED
  BY <1>1, <1>2, <1>3, <1>4, <1>5 DEF Serves

LEMMA VisitMoves == ASSUME Typed PROVE past.visit # past.visit + 1
  BY DEF Typed, Past

\* Load leaves the page it was on
LEMMA LoadAway == ASSUME Typed, Load PROVE past'.visit # past.visit
<1>1. past'.visit = past.visit + 1
  BY LoadIs
<1>2. QED
  BY <1>1, VisitMoves

LEMMA RerenderPage ==
  ASSUME Typed, NEW p \in Place, NEW nv \in View, cache' \in [Table -> Query],
         view' = Rerendered(p, nv, cache')
  PROVE  /\ view'.dialog = nv.dialog /\ view'.target = nv.target
         /\ p = "template" /\ view'.base # None => HasForm(cache'["template"])
         /\ p = "settings" /\ view'.switches # None =>
              HasForm(cache'["me"]) \/ nv.switches # None
         /\ view'.switches = nv.switches \/ nv.switches = None
<1>1. p # "settings" => view'.switches = nv.switches
  BY RerenderedIs
<1>2. p = "settings" => view'.switches = IF nv.switches = None /\ HasForm(cache'["me"])
                                         THEN Shown(cache'["me"]).set ELSE nv.switches
  BY RerenderedIs
<1>3. p = "template" => view'.base = IF ~HasForm(cache'["template"]) THEN None
                          ELSE IF nv.base # None THEN nv.base ELSE Shown(cache'["template"]).rev
  BY RerenderedIs
<1>4. view'.dialog = nv.dialog /\ view'.target = nv.target
  BY RerenderedIs
<1>5. QED
  BY <1>1, <1>2, <1>3, <1>4

LEMMA LeavesPage ==
  ASSUME Typed, NEW p \in Place, Route(p), place' # place
  PROVE  PageStep
<1>1. /\ view' = Rerendered(place', Blank, cache') /\ place' \in Place
      /\ cache' \in [Table -> Query] /\ past'.visit = past.visit + 1
  BY RouteIs
<1>2. Blank \in View /\ Blank.dialog = "none" /\ Blank.switches = None
  BY BlankIs
<1> DEFINE q == place'
<1>3. q = place' /\ q \in Place /\ view' = Rerendered(q, Blank, cache')
  BY <1>1
<1> HIDE DEF q
<1>4. /\ view'.dialog = "none"
      /\ q = "template" /\ view'.base # None => HasForm(cache'["template"])
      /\ q = "settings" /\ view'.switches # None => HasForm(cache'["me"])
  BY <1>1, <1>2, <1>3, RerenderPage
<1>5. QED
  BY <1>1, <1>3, <1>4, NoneChosen, VisitMoves DEF PageStep

LEMMA StepPage ==
  ASSUME Typed, Calling, Shapes, Step
  PROVE  PageStep
<1>1. CASE Load
  <2>1. /\ past'.visit = past.visit + 1 /\ view' = Blank
    BY <1>1, LoadIs
  <2>2. QED
    BY <2>1, BlankIs, NoneChosen, VisitMoves DEF PageStep
<1>2. SUFFICES ASSUME ~Load PROVE PageStep
  BY <1>1
<1>3. CASE UserSends
  <2>1. /\ UNCHANGED <<place, past>> /\ view'.dialog = view.dialog
        /\ view'.target = view.target /\ view'.base = view.base
        /\ \/ view'.switches = view.switches
           \/ place = "settings" /\ view.switches # None /\ view'.switches # None
    BY <1>3, SendsFrame
  <2>2. QED
    BY <1>2, <2>1 DEF PageStep
<1>4. CASE UserShows
  <2>1. /\ place' = place /\ past'.visit = past.visit
        /\ view'.base = view.base /\ view'.switches = view.switches
        /\ view'.dialog \in DOMAIN Chosen =>
             \/ view'.dialog = view.dialog /\ view'.target = view.target
             \/ IsRow(view'.target, Chosen[view'.dialog])
    BY <1>4, ShowsFrame DEF SameHistory
  <2>2. QED
    BY <1>2, <2>1 DEF PageStep
<1>5. ASSUME NEW c \in DOMAIN calls, Serves(c) PROVE PageStep
  BY <1>2, <1>5, ServesFrame, ServesPage, SamePageView
<1>6. ASSUME NEW c \in DOMAIN calls, HandlerEnds(c) PROVE PageStep
  <2>1. /\ UNCHANGED <<place, past>> /\ view'.base = view.base
        /\ (view'.switches = view.switches \/ (calls[c].op \in DOMAIN Saves /\ Mounted(c)))
        /\ view'.dialog \in DOMAIN Chosen => view'.dialog = view.dialog /\ view'.target = view.target
    BY <1>6, HandlerFrame
  <2>2. CASE view'.switches = view.switches
    BY <1>2, <2>1, <2>2 DEF PageStep
  <2>3. CASE calls[c].op \in DOMAIN Saves /\ Mounted(c)
    <3>1. view.switches # None /\ calls[c].op \in Offers[place] /\ place \in Place
      BY <2>3 DEF Shapes, Shape, Calling, SentFromHere, Typed
    <3>2. place = "settings"
      BY <2>3, <3>1, PlaceNames, OpNames DEF Offers
    <3>3. HandleSwitch(c)
      BY <1>6, <2>3, OpNames DEF HandlerEnds, Finishes, HandleCredentials, HandleDeleteProject
    <3>4. view'.switches # None
      BY <2>3, <3>1, <3>3, SwitchHandled
    <3>5. QED
      BY <1>2, <2>1, <3>1, <3>2, <3>4 DEF PageStep
  <2>4. QED
    BY <2>1, <2>2, <2>3
<1>7. ASSUME NEW c \in DOMAIN calls, NEW p \in Place, Returns(c, p) PROVE PageStep
  <2>1. Route(p)
    BY <1>7, ReturnsIs
  <2>2. CASE place' = place
    BY <1>2, <1>7, <2>2, ReturnsAway, SamePageView
  <2>3. QED
    BY <2>1, <2>2, LeavesPage
<1>8. ASSUME NEW p \in Place, Follows(p) PROVE PageStep
  BY <1>8, FollowsLeaves, LeavesPage
<1>9. ASSUME NEW t \in Table, Fetches(t) PROVE PageStep
  <2>1. Quiet /\ Typed'
    BY <1>9, FetchesQuietly
  <2>2. place' = place /\ past'.visit = past.visit
    BY <2>1 DEF Quiet, SamePage
  <2>3. CASE view' = view
    BY <1>2, <2>2, <2>3 DEF PageStep
  <2>4. CASE view' = Rerendered(place, view, cache')
    <3>1. place \in Place /\ view \in View /\ cache' \in [Table -> Query]
      BY <2>1 DEF Typed
    <3>2. /\ view'.dialog = view.dialog /\ view'.target = view.target
          /\ place = "template" /\ view'.base # None => HasForm(cache'["template"])
          /\ place = "settings" /\ view'.switches # None =>
               HasForm(cache'["me"]) \/ view.switches # None
          /\ view'.switches = view.switches \/ view.switches = None
      BY <2>4, <3>1, RerenderPage
    <3>3. QED
      BY <2>2, <3>2 DEF PageStep
  <2>5. QED
    BY <1>9, <2>3, <2>4, FetchesFrame
<1>10. CASE Elsewhere
  <2>1. past'.visit = past.visit
    BY <1>10, ElsewhereQuietly DEF Quiet, SamePage
  <2>2. QED
    BY <1>2, <1>10, <2>1, ElsewhereFrame, SamePageView
<1>11. QED
  BY <1>2, <1>3, <1>4, <1>5, <1>6, <1>7, <1>8, <1>9, <1>10 DEF Step

LEMMA StepRowsKnown ==
  ASSUME Typed, Calling, RowsKnown, Shapes, Step
  PROVE  RowsKnown'
<1>1. RowsStay /\ PageStep /\ \A t \in Table : ItemsStep(t)
  BY StepRows, StepPage, StepItems
<1>2. (\A i \in Ids : rows[i].table = "me" => i = First)'
  BY <1>1 DEF RowsStay, RowsKnown
<1>3. \A t \in Table : /\ ~cache'[t].loaded => cache'[t].data = {}
                       /\ \A x \in cache'[t].data \union cache'[t].got : WillBe(x.id, TableOf(t)) /\ (t = "template" => x.id = First)
  BY <1>1, ListsKnown
<1>4. view'.dialog \in DOMAIN Chosen => WillBe(view'.target, Chosen[view'.dialog])
  <2>1. view'.dialog \in DOMAIN Chosen => IsRow(view'.target, Chosen[view'.dialog])
    BY <1>1 DEF PageStep, RowsKnown
  <2> DEFINE i == view'.target  u == Chosen[view'.dialog]
  <2>2. view'.dialog \in DOMAIN Chosen => IsRow(i, u)
    BY <2>1
  <2> HIDE DEF i, u
  <2>3. view'.dialog \in DOMAIN Chosen => WillBe(i, u)
    BY <1>1, <2>2, RowKept
  <2>4. QED
    BY <2>3 DEF i, u
<1>5. place' = "template" /\ view'.base # None => cache'["template"].loaded /\ WillBe(First, "templates")
  <2>1. SUFFICES ASSUME place' = "template", view'.base # None
                 PROVE  cache'["template"].loaded /\ WillBe(First, "templates")
    OBVIOUS
  <2>2. CASE HasForm(cache'["template"])
    <3>1. PICK x \in cache'["template"].data : TRUE
      BY <2>2 DEF HasForm
    <3>2. "template" \in Table
      BY PlaceNames
    <3>3. x \in cache'["template"].data \union cache'["template"].got
      BY <3>1
    <3>4. WillBe(x.id, TableOf("template")) /\ x.id = First /\ cache'["template"].loaded
      BY <1>3, <3>1, <3>2, <3>3
    <3>5. QED
      BY <3>4 DEF TableOf
  <2>3. CASE place = "template" /\ view.base # None /\ ~Load
    <3>1. cache["template"].loaded /\ IsRow(First, "templates")
      BY <2>3 DEF RowsKnown
    <3>2. cache'["template"].loaded
      BY <1>1, <2>3, <3>1, PlaceNames DEF ItemsStep
    <3>3. QED
      BY <1>1, <3>1, <3>2, RowKept
  <2>4. QED
    BY <1>1, <2>1, <2>2, <2>3 DEF PageStep
<1>6. place' = "settings" /\ view'.switches # None => WillBe(First, "me")
  <2>1. SUFFICES ASSUME place' = "settings", view'.switches # None PROVE WillBe(First, "me")
    OBVIOUS
  <2>2. CASE HasForm(cache'["me"])
    <3>1. PICK x \in cache'["me"].data : TRUE
      BY <2>2 DEF HasForm
    <3>2. "me" \in Table
      BY PlaceNames
    <3>3. x \in cache'["me"].data \union cache'["me"].got
      BY <3>1
    <3>4. WillBe(x.id, "me")
      BY <1>3, <3>2, <3>3 DEF TableOf
    <3>5. x.id = First
      BY <1>2, <3>4 DEF WillBe
    <3>6. QED
      BY <3>4, <3>5
  <2>3. CASE place = "settings" /\ view.switches # None
    BY <1>1, <2>3, RowKept DEF RowsKnown
  <2>4. QED
    BY <1>1, <2>1, <2>2, <2>3 DEF PageStep
<1>7. (\A t \in Table : /\ ~cache[t].loaded => cache[t].data = {}
                        /\ \A x \in Items(t) : /\ IsRow(x.id, TableOf(t))
                                               /\ t = "template" => x.id = First)'
  BY <1>3 DEF IsRow, WillBe, Items
<1>8. (view.dialog \in DOMAIN Chosen => IsRow(view.target, Chosen[view.dialog]))'
  BY <1>4 DEF IsRow, WillBe
<1>9. (place = "template" /\ view.base # None =>
         cache["template"].loaded /\ IsRow(First, "templates"))'
  BY <1>5 DEF IsRow, WillBe
<1>10. (place = "settings" /\ view.switches # None => IsRow(First, "me"))'
  BY <1>6 DEF IsRow, WillBe
<1>11. QED
  BY <1>2, <1>7, <1>8, <1>9, <1>10 DEF RowsKnown

-----------------------------------------------------------------------------
(***************************************************************************)
(* The calls keep their shape.                                             *)
(***************************************************************************)
LEMMA NotYetMounted ==
  ASSUME Typed, InOrder, PageStep, NEW c \in DOMAIN calls, Fixed(c), calls'[c].visit = past'.visit
  PROVE  Mounted(c) /\ past'.visit = past.visit /\ place' = place
<1>1. /\ calls[c].visit <= past.visit /\ calls[c].visit \in Nat /\ past.visit \in Nat
      /\ calls'[c].visit = calls[c].visit
  BY CallOf DEF InOrder, Call, Fixed, Typed, Past
<1>2. (past'.visit = past.visit /\ place' = place) \/ past'.visit = past.visit + 1
  BY DEF PageStep
<1>3. QED
  BY <1>1, <1>2 DEF Mounted

LEMMA ShapeKept ==
  ASSUME Typed, InOrder, RowsStay, PageStep, NEW c \in DOMAIN calls, Fixed(c), Shape(c)
  PROVE  Shape(c)'
<1> DEFINE op == calls[c].op  t == calls[c].table  i == calls[c].id
<1>1. /\ calls'[c].op = op /\ calls'[c].table = t /\ calls'[c].id = i
      /\ calls'[c].acct = calls[c].acct /\ calls'[c].set = calls[c].set
      /\ calls'[c].was = calls[c].was
  BY DEF Fixed
<1>2. /\ IF op \in {"login", "signup"} THEN calls[c].acct \in Accounts ELSE t \in Table
      /\ op \in DOMAIN Creates => /\ t \in Table \ {"me", "template"}
                                  /\ op # "duplicate_template" => i = None
      /\ op \in OfRow => IsRow(i, t)
      /\ op \in DOMAIN Saves => /\ t = "me" /\ calls[c].set \union calls[c].was \subseteq Saves[op]
                                /\ Mounted(c) => view.switches # None
      /\ op = "update_template" => t = "templates" /\ i = First
  BY DEF Shape
<1> HIDE DEF op, t, i
<1>3. op \in OfRow => i \in Ids /\ rows'[i].table = t /\ rows'[i].state # "unborn"
  BY <1>2, RowKept DEF WillBe
<1>4. op \in DOMAIN Saves /\ calls'[c].visit = past'.visit => view'.switches # None
  BY <1>2, NotYetMounted DEF PageStep
<1>5. QED
  BY <1>1, <1>2, <1>3, <1>4 DEF Shape, IsRow, Mounted

\* the shape of a call that is sent
ShapeOf(n) ==
  /\ IF n.op \in {"login", "signup"} THEN n.acct \in Accounts ELSE n.table \in Table
  /\ n.op \in DOMAIN Creates => /\ n.table \in Table \ {"me", "template"}
                                /\ n.op # "duplicate_template" => n.id = None
  /\ n.op \in OfRow => IsRow(n.id, n.table)
  /\ n.op \in DOMAIN Saves => /\ n.table = "me" /\ n.set \union n.was \subseteq Saves[n.op]
                              /\ view'.switches # None
  /\ n.op = "update_template" => n.table = "templates" /\ n.id = First

LEMMA SendsShape ==
  ASSUME Typed, RowsKnown, UserSends
  PROVE  \E n \in Call : Sent(n) /\ ShapeOf(n)
<1>1. ASSUME NEW op \in Op, NEW t \in Table, NEW i \in Ids \union {None}, NEW nv \in View,
             Sends(op, t, i, nv)
      PROVE  \E n \in Call : Sent(n) /\ ShapeOf(n)
  <2> DEFINE n == NewCall(op, t, i, auth.token)
  <2>1. n \in Call /\ Sent(n)
    BY <1>1, SendsTyped, SendsSent
  <2>2. n.op = op /\ n.table = t /\ n.id = i
    BY NewFields
  <2>3. /\ op \notin DOMAIN Saves \union {"login", "signup"}
        /\ op \in DOMAIN Creates =>
             t \notin {"me", "template"} /\ (op # "duplicate_template" => i = None)
        /\ op \in OfRow => IsRow(i, t)
        /\ op = "update_template" => t = "templates" /\ i = First
    BY <1>1 DEF Sends
  <2> HIDE DEF n
  <2>4. ShapeOf(n)
    BY <2>2, <2>3 DEF ShapeOf
  <2>5. QED
    BY <2>1, <2>4
<1>2. ASSUME NEW op \in {"login", "signup"}, NEW a \in Accounts, Credentials(op, a)
      PROVE  \E n \in Call : Sent(n) /\ ShapeOf(n)
  <2> DEFINE n == NewCall(op, "session", None, a)
  <2>1. n \in Call /\ Sent(n)
    BY <1>2, CredentialsTyped, CredentialsSent
  <2>2. n.op = op /\ n.acct = a
    BY NewFields
  <2> HIDE DEF n
  <2>3. ShapeOf(n)
    BY <2>2, OpNames DEF ShapeOf, OfRow, Edits
  <2>4. QED
    BY <2>1, <2>3
<1>3. ASSUME ToggleSwitch PROVE \E n \in Call : Sent(n) /\ ShapeOf(n)
  <2>0. PICK op \in DOMAIN Saves : \E s \in Saves[op] :
           /\ Toggled(op, s) \in Call /\ Flipped(s) \in SUBSET Switch /\ view.switches # None
           /\ view'.switches = Flipped(s)
           /\ view'.dialog = view.dialog /\ view'.made = view.made
           /\ view'.timers = view.timers /\ view'.step = view.step
           /\ calls' = Append(calls, Toggled(op, s))
           /\ SettingsPage /\ UNCHANGED <<place, past>>
    BY <1>3, ToggleTyped
  <2>1. PICK s \in Saves[op] :
           /\ Toggled(op, s) \in Call /\ Flipped(s) \in SUBSET Switch /\ view.switches # None
           /\ view'.switches = Flipped(s)
           /\ view'.dialog = view.dialog /\ view'.made = view.made
           /\ view'.timers = view.timers /\ view'.step = view.step
           /\ calls' = Append(calls, Toggled(op, s))
           /\ SettingsPage /\ UNCHANGED <<place, past>>
    BY <2>0
  <2> DEFINE n == Toggled(op, s)
  <2>2. n \in Call /\ Sent(n)
    BY <2>1, ToggleSent DEF FormsShown
  <2>3. /\ n.op = op /\ n.table = "me" /\ n.id = First
        /\ n.set = Flipped(s) \intersect Saves[op] /\ n.was = view.switches \intersect Saves[op]
    BY ToggledIs
  <2>4. view'.switches # None /\ place = "settings"
    BY <2>1, ClientAssumption DEF SettingsPage, Ready, Here
  <2>5. IsRow(First, "me") /\ "me" \in Table
    BY <2>1, <2>4, PlaceNames DEF RowsKnown
  <2> HIDE DEF n
  <2>6. ShapeOf(n)
    BY <2>3, <2>4, <2>5, OpNames DEF ShapeOf
  <2>7. QED
    BY <2>2, <2>6
<1>4. QED
  BY <1>1, <1>2, <1>3 DEF UserSends

LEMMA SentShapes ==
  ASSUME Typed, InOrder, RowsStay, PageStep, Shapes, NEW n \in Call, Sent(n), ShapeOf(n)
  PROVE  Shapes'
<1>1. PICK e : e = Len(calls) + 1
  OBVIOUS
<1>2. /\ DOMAIN calls' = DOMAIN calls \union {e} /\ calls'[e] = n
      /\ \A d \in DOMAIN calls : calls'[d] = calls[d]
  BY <1>1, AppendEffect DEF Sent
<1>3. ASSUME NEW c \in DOMAIN calls PROVE Shape(c)'
  BY <1>2, ShapeKept DEF Shapes, Fixed
<1>4. Shape(e)'
  <2>1. n.op \in OfRow => n.id \in Ids /\ rows'[n.id].table = n.table /\ rows'[n.id].state # "unborn"
    BY RowKept DEF ShapeOf, WillBe
  <2>2. /\ IF n.op \in {"login", "signup"} THEN n.acct \in Accounts ELSE n.table \in Table
        /\ n.op \in DOMAIN Creates => /\ n.table \in Table \ {"me", "template"}
                                      /\ n.op # "duplicate_template" => n.id = None
        /\ n.op \in DOMAIN Saves => /\ n.table = "me" /\ n.set \union n.was \subseteq Saves[n.op]
                                    /\ view'.switches # None
        /\ n.op = "update_template" => n.table = "templates" /\ n.id = First
    BY DEF ShapeOf
  <2>3. QED
    BY <1>2, <2>1, <2>2 DEF Shape, IsRow
<1>5. \A c \in DOMAIN calls' : c = e \/ c \in DOMAIN calls
  BY <1>2
<1>6. QED
  BY <1>3, <1>4, <1>5 DEF Shapes

LEMMA StayShapes ==
  ASSUME Typed, InOrder, RowsStay, PageStep, Shapes, Stay
  PROVE  Shapes'
<1>1. ASSUME NEW c \in DOMAIN calls PROVE Shape(c)'
  BY ShapeKept DEF Shapes, Stay
<1>2. QED
  BY <1>1 DEF Shapes, Stay

\* every step but a send leaves the calls there
LEMMA StepStays ==
  ASSUME Typed, Calling, Shapes, Step
  PROVE  UserSends \/ Stay
<1>1. UNCHANGED calls => Stay
  BY DEF Stay, Fixed, Typed
<1>2. ASSUME NEW c \in DOMAIN calls, HandlerEnds(c) PROVE Stay
  BY <1>2, HandlerEndsEnds DEF Ends
<1>3. ASSUME NEW c \in DOMAIN calls, NEW p \in Place, Returns(c, p) PROVE Stay
  BY <1>3, ReturnsIs
<1>4. ASSUME NEW t \in Table, Fetches(t) PROVE Stay
  BY <1>4, FetchesQuietly DEF Quiet
<1>5. QED
  BY <1>1, <1>2, <1>3, <1>4, ShowsStay, ServesFrame, FollowsLeaves, LoadIs, ElsewhereFrame DEF Step

LEMMA StepShapes ==
  ASSUME Typed, Calling, RowsKnown, Shapes, Step
  PROVE  Shapes'
<1>1. RowsStay /\ PageStep /\ InOrder
  BY StepRows, StepPage DEF Calling
<1>2. CASE UserSends
  BY <1>1, <1>2, SendsShape, SentShapes
<1>3. CASE Stay
  BY <1>1, <1>3, StayShapes
<1>4. QED
  BY <1>2, <1>3, StepStays

-----------------------------------------------------------------------------
(***************************************************************************)
(* The session: whose what is shown and fetched is.                        *)
(***************************************************************************)
\* whose a list is after a step
OwnerStep(t) ==
  \/ cache'[t].as = cache[t].as /\ (cache'[t].fetch # "idle" => cache[t].fetch # "idle")
     /\ (cache'[t].loaded => cache[t].loaded \/ cache[t].fetch # "idle")
  \/ cache'[t].as = auth.token /\ cache'[t].fetch # "idle" /\ place' # "login"
     /\ (cache'[t].loaded => cache[t].loaded)
  \/ ~cache'[t].loaded /\ cache'[t].fetch = "idle"

LEMMA LoginMounts == Mounts["login"] = {}
  BY DEF Mounts

LEMMA InvalidatedOwner ==
  ASSUME Typed, NEW t \in Table, cache'[t] \in {Invalidated(t), cache[t]}, place' = place
  PROVE  OwnerStep(t)
<1>1. CASE cache'[t] = cache[t]
  BY <1>1 DEF OwnerStep
<1>2. CASE cache'[t] = Invalidated(t)
  <2> DEFINE q == Invalidated(t)
  <2>1. /\ q.loaded = cache[t].loaded
        /\ Restarts(t) => q.fetch = "out" /\ q.as = auth.token
        /\ ~Restarts(t) => q.fetch = cache[t].fetch /\ q.as = cache[t].as
    BY InvalidatedIs
  <2>2. cache'[t] = q
    BY <1>2
  <2>3. Restarts(t) => place # "login"
    BY LoginMounts DEF Restarts
  <2> HIDE DEF q
  <2>4. QED
    BY <2>1, <2>2, <2>3 DEF OwnerStep
<1>3. QED
  BY <1>1, <1>2

LEMMA RouteOwner ==
  ASSUME Typed, NEW p \in Place, Route(p), NEW t \in Table
  PROVE  OwnerStep(t)
<1>1. CASE cache'[t] = cache[t]
  BY <1>1 DEF OwnerStep
<1>2. CASE cache'[t] # cache[t]
  <2>1. cache'[t] = OnMount(cache[t]) /\ t \in Mounts[place']
    BY <1>2, RouteIs
  <2>2. OnMount(cache[t]) = Started(cache[t])
    BY <1>2, <2>1, CacheOf, OnMountIs
  <2>3. /\ Started(cache[t]).loaded = cache[t].loaded /\ Started(cache[t]).as = auth.token
        /\ Started(cache[t]).fetch = "out"
    BY CacheOf, StartedIs
  <2>4. place' # "login"
    BY <2>1, LoginMounts
  <2>5. QED
    BY <2>1, <2>2, <2>3, <2>4 DEF OwnerStep
<1>3. QED
  BY <1>1, <1>2

LEMMA FetchOwner ==
  ASSUME Typed, NEW u \in Table, Fetches(u), NEW t \in Table
  PROVE  OwnerStep(t)
<1>1. CASE t # u
  BY <1>1, FetchesFrame DEF OwnerStep
<1>2. CASE t = u
  <2>1. CASE Refetches(t)
    <3>1. place' = place /\ t \in Mounts[place]
      BY <2>1 DEF Refetches
    <3>2. place' # "login"
      BY <3>1, LoginMounts
    <3>3. QED
      BY <2>1, <3>2, RefetchesIs DEF OwnerStep
  <2>2. CASE FetchServed(t)
    BY <2>2, FetchServedIs DEF OwnerStep
  <2>3. CASE FetchArrives(t)
    BY <2>3, FetchArrivesIs DEF OwnerStep
  <2>4. CASE FetchFails(t)
    BY <2>4, FetchFailsIs DEF OwnerStep
  <2>5. CASE FetchDenied(t)
    BY <2>5, FetchDeniedIs DEF OwnerStep
  <2>6. QED
    BY <1>2, <2>1, <2>2, <2>3, <2>4, <2>5 DEF Fetches
<1>3. QED
  BY <1>1, <1>2

LEMMA LoadOwner ==
  ASSUME Typed, Load, NEW t \in Table
  PROVE  OwnerStep(t)
<1>1. PICK p \in Place : p = place' /\ cache' = Loaded(p)
  BY LoadIs, PlaceNames
<1>2. ~cache'[t].loaded
  BY <1>1, LoadedIs
<1>3. IF t \in Mounts[p] \/ (t = "whoami" /\ p # "login" /\ auth.stored = None)
      THEN cache'[t].fetch = "out" /\ cache'[t].as = auth.token
      ELSE cache'[t].fetch = "idle"
  BY <1>1, LoadedIs
<1>4. cache'[t].fetch = "idle" \/ place' # "login"
  BY <1>1, <1>3, LoginMounts
<1>5. QED
  BY <1>2, <1>3, <1>4 DEF OwnerStep

LEMMA ServesOwner ==
  ASSUME Typed, Shapes, NEW c \in DOMAIN calls, Serves(c), NEW t \in Table
  PROVE  OwnerStep(t)
<1>1. CASE UNCHANGED cache
  BY <1>1 DEF OwnerStep
<1>2. CASE Answer(c)
  <2>1. cache'[t] \in {Invalidated(t), cache[t]} /\ place' = place
    BY <1>2, AnswerIs
  <2>2. QED
    BY <2>1, InvalidatedOwner
<1>3. CASE ServerCreates(c)
  BY <1>1, <1>3, CreatesIs
<1>4. CASE ServerChanges(c)
  BY <1>1, <1>4, ChangesIs
<1>5. CASE ServerAnswersFree(c)
  BY <1>1, <1>5, AnswersFreeIs
<1>6. QED
  BY <1>1, <1>2, <1>3, <1>4, <1>5, RefusesIs, CallDeniedIs, OrphanDeniedIs, LoseIs DEF Serves

LEMMA ElsewhereOwner ==
  ASSUME Typed, Elsewhere, NEW t \in Table
  PROVE  OwnerStep(t)
<1>1. CASE UNCHANGED cache
  BY <1>1 DEF OwnerStep
<1>2. CASE PollSetup
  <2>1. cache'[t] \in {Invalidated(t), cache[t]} /\ place' = place
    BY <1>2, PollSetupTyped
  <2>2. QED
    BY <2>1, InvalidatedOwner
<1>3. SignOut \/ UNCHANGED cvars => UNCHANGED cache
  BY DEF SignOut, cvars
<1>4. QED
  BY <1>1, <1>2, <1>3, OutsideIs, SessionEventIs DEF Elsewhere

LEMMA StepOwner ==
  ASSUME Typed, Shapes, Step, NEW t \in Table
  PROVE  OwnerStep(t)
<1>1. CASE UNCHANGED cache
  BY <1>1 DEF OwnerStep
<1>2. ASSUME NEW c \in DOMAIN calls, NEW p \in Place, Returns(c, p) PROVE OwnerStep(t)
  BY <1>2, ReturnsIs, RouteOwner
<1>3. ASSUME NEW p \in Place, Follows(p) PROVE OwnerStep(t)
  BY <1>3, FollowsLeaves, RouteOwner
<1>4. QED
  BY <1>1, <1>2, <1>3, ServesOwner, ElsewhereOwner, FetchOwner, LoadOwner,
     SendsFrame, ShowsFrame, HandlerFrame DEF Step

-----------------------------------------------------------------------------
\* the token changes only where the tab is to load a page or another tab did it
TokenStep == /\ \/ auth'.token = auth.token
                \/ leaving' # None
                \/ past'.otherTab
             /\ \/ leaving' # None
                \/ past'.otherTab
                \/ leaving = None /\ ~past.otherTab
                \/ Load

LEMMA LeavingNames == {"login", "overview"} \intersect {None} = {}
  BY ClientAssumption

LEMMA QuietToken ==
  ASSUME auth'.token = auth.token, leaving' = leaving, past'.otherTab = past.otherTab
  PROVE  TokenStep
  BY DEF TokenStep

LEMMA ServesToken ==
  ASSUME Typed, Shapes, NEW c \in DOMAIN calls, Serves(c)
  PROVE  TokenStep
<1>1. CASE Answer(c)
  <2>1. calls[c].acct \in Signed
    BY CallOf DEF Call
  <2>2. QED
    BY <1>1, <2>1, AnswerIs, StoresIs, QuietToken
<1>2. CASE ServerCreates(c)
  BY <1>2, CreatesIs, QuietToken
<1>3. CASE ServerChanges(c)
  BY <1>3, ChangesIs, QuietToken
<1>4. CASE ServerAnswersFree(c)
  BY <1>4, AnswersFreeIs, QuietToken
<1>5. CASE CallDenied(c)
  BY <1>5, CallDeniedIs, LeavingNames DEF TokenStep
<1>6. CASE ServerRefuses(c) \/ OrphanDenied(c) \/ Lose(c)
  BY <1>6, RefusesIs, OrphanDeniedIs, LoseIs, QuietToken
<1>7. QED
  BY <1>1, <1>2, <1>3, <1>4, <1>5, <1>6 DEF Serves

LEMMA FetchToken ==
  ASSUME Typed, NEW t \in Table, Fetches(t)
  PROVE  TokenStep
<1>1. CASE FetchArrives(t)
  <2>1. cache[t].as \in Signed
    BY CacheOf DEF Query
  <2>2. QED
    BY <1>1, <2>1, FetchArrivesIs, StoresIs, QuietToken
<1>2. CASE FetchDenied(t)
  BY <1>2, FetchDeniedIs, LeavingNames DEF TokenStep
<1>3. CASE Refetches(t)
  BY <1>3, QuietToken DEF Refetches
<1>4. CASE FetchServed(t) \/ FetchFails(t)
  BY <1>4, FetchServedIs, FetchFailsIs, QuietToken
<1>5. QED
  BY <1>1, <1>2, <1>3, <1>4 DEF Fetches

LEMMA ElsewhereToken ==
  ASSUME Typed, Elsewhere
  PROVE  TokenStep
<1>1. CASE SignOut
  BY <1>1, LeavingNames DEF SignOut, TokenStep
<1>2. CASE OtherTab \/ TokenExpires \/ CookieExpires
  BY <1>2, SessionEventIs DEF TokenStep
<1>3. UNCHANGED cvars => UNCHANGED <<auth, leaving, past>>
  BY DEF cvars
<1>4. QED
  BY <1>1, <1>2, <1>3, PollSetupTyped, OutsideIs, QuietToken DEF Elsewhere

LEMMA HandlerToken ==
  ASSUME Typed, NEW c \in DOMAIN calls, HandlerEnds(c)
  PROVE  TokenStep
<1>1. CASE UNCHANGED <<auth, leaving>>
  BY <1>1, HandlerFrame, QuietToken
<1>2. CASE HandleCredentials(c)
  BY <1>1, <1>2, HandlesCredentialsIs, LeavingNames DEF TokenStep
<1>3. CASE HandleDeleteProject(c)
  BY <1>1, <1>3, HandlesDeleteIs, LeavingNames DEF TokenStep
<1>4. QED
  BY <1>1, <1>2, <1>3, HandlerFrame

LEMMA StepToken ==
  ASSUME Typed, Shapes, Step
  PROVE  TokenStep
<1>1. CASE UserSends
  BY <1>1, SendsFrame, QuietToken
<1>2. CASE UserShows
  BY <1>2, ShowsFrame, QuietToken DEF SameHistory
<1>3. ASSUME NEW p \in Place, Route(p) PROVE TokenStep
  BY <1>3, RouteIs, QuietToken
<1>4. CASE Load
  BY <1>4, LoadIs DEF TokenStep
<1>5. QED
  BY <1>1, <1>2, <1>3, <1>4, ServesToken, FetchToken, ElsewhereToken, HandlerToken,
     ReturnsIs, FollowsLeaves DEF Step

LEMMA StepOfToken ==
  ASSUME Typed, Shapes, OfToken, Step
  PROVE  OfToken'
<1>1. SUFFICES ASSUME leaving' = None, ~past'.otherTab, NEW t \in Table,
                      cache'[t].loaded \/ cache'[t].fetch # "idle"
               PROVE  cache'[t].as = auth'.token
  BY DEF OfToken
<1>2. auth'.token = auth.token /\ OwnerStep(t) /\ TokenStep
  BY <1>1, StepOwner, StepToken DEF TokenStep
<1>3. CASE Load
  <2>1. PICK p \in Place : cache' = Loaded(p)
    BY <1>3, LoadIs, PlaceNames
  <2>2. ~cache'[t].loaded
    BY <2>1, LoadedIs
  <2>3. cache'[t].as = auth.token
    <3>1. IF t \in Mounts[p] \/ (t = "whoami" /\ p # "login" /\ auth.stored = None)
          THEN cache'[t].fetch = "out" /\ cache'[t].as = auth.token
          ELSE cache'[t].fetch = "idle"
      BY <2>1, LoadedIs
    <3>2. QED
      BY <1>1, <2>2, <3>1
  <2>4. QED
    BY <1>2, <2>3
<1>4. CASE ~Load
  <2>1. leaving = None /\ ~past.otherTab
    BY <1>1, <1>2, <1>4 DEF TokenStep
  <2>2. QED
    BY <1>1, <1>2, <2>1 DEF OwnerStep, OfToken
<1>5. QED
  BY <1>3, <1>4

-----------------------------------------------------------------------------
(***************************************************************************)
(* The session: unless it was disturbed from outside, it is one of the     *)
(* states that signing in and out go through.                              *)
(***************************************************************************)
Flying == {"sent", "ok", "settling", "won", "lost"}

LEMMA Flies == ASSUME NEW c PROVE InFlight(c) <=> calls[c].pc \in Flying
  BY DEF InFlight, Unfinished, Continues, Flying

\* whether the calls and the cache go on as they were
FlyOn(d) == /\ calls'[d].pc \in Flying => calls[d].pc \in Flying
            /\ calls[d].pc = "lost" => calls'[d].pc \in {"lost", "over"}

Calm ==
  /\ auth'.token = auth.token /\ auth'.cookie = auth.cookie
  /\ \/ auth'.stored = auth.stored /\ auth'.tenant = auth.tenant
     \/ auth'.stored = auth.token /\ auth'.tenant = auth.token
     \/ leaving = "login"
  /\ UNCHANGED <<place, leaving>> /\ past'.visit = past.visit
  /\ past'.wiped = past.wiped /\ past'.disturbed = past.disturbed
  /\ Stay /\ \A d \in DOMAIN calls : FlyOn(d)
  /\ \A t \in Table : OwnerStep(t)
  /\ place = "login" /\ leaving = None => view'.lock = view.lock

LEMMA Modes ==
  ASSUME Typed
  PROVE  /\ leaving \in {None, "login", "overview"} /\ None # "login" /\ None # "overview"
         /\ "login" # "overview" /\ None \notin Accounts
  BY ClientAssumption DEF Typed

LEMMA CalmUndisturbed ==
  ASSUME Typed, Undisturbed, Calm
  PROVE  Undisturbed'
<1>1. SUFFICES ASSUME ~past.disturbed PROVE Undisturbed'
  BY DEF Undisturbed, Calm
<1>2. /\ DOMAIN calls' = DOMAIN calls
      /\ \A d \in DOMAIN calls : /\ InFlight(d)' => InFlight(d)
                                 /\ Credential(d)' <=> Credential(d)
                                 /\ calls'[d].acct = calls[d].acct
                                 /\ Mounted(d)' <=> Mounted(d)
                                 /\ calls[d].pc = "lost" /\ InFlight(d)' => calls'[d].pc = "lost"
  BY DEF Calm, Stay, Fixed, FlyOn, Flying, InFlight, Unfinished, Continues, Credential, Mounted
<1>3. \A t \in Table : \/ cache'[t].as = cache[t].as /\ (cache'[t].fetch # "idle" => cache[t].fetch # "idle")
                       \/ cache'[t].as = auth.token /\ place # "login"
                       \/ cache'[t].fetch = "idle"
  BY DEF Calm, OwnerStep
<1>4. /\ auth'.token = auth.token /\ auth'.cookie = auth.cookie
      /\ UNCHANGED <<place, leaving>> /\ past'.wiped = past.wiped
      /\ \/ auth'.stored = auth.stored /\ auth'.tenant = auth.tenant
         \/ auth'.stored = auth.token /\ auth'.tenant = auth.token
         \/ leaving = "login"
      /\ place = "login" /\ leaving = None => view'.lock = view.lock
  BY DEF Calm
<1>5. ~past.wiped
  BY <1>1 DEF Undisturbed
<1>6. CASE leaving = None /\ place = "login"
  <2>1. SigningIn
    BY <1>1, <1>6 DEF Undisturbed
  <2>2. SigningIn'
    BY <1>2, <1>3, <1>4, <1>6, <2>1 DEF SigningIn, NoFetch
  <2>3. QED
    BY <1>4, <1>5, <1>6, <2>2, Modes DEF Undisturbed
<1>7. CASE leaving = None /\ place # "login"
  <2>1. SignedInHere
    BY <1>1, <1>7 DEF Undisturbed
  <2>2. (\A c \in DOMAIN calls : InFlight(c) => calls[c].acct = auth.token /\ ~Credential(c))'
    BY <1>2, <1>4, <2>1 DEF SignedInHere
  <2>3. (\A t \in Table : cache[t].fetch # "idle" => cache[t].as = auth.token)'
    BY <1>3, <1>4, <2>1 DEF SignedInHere
  <2>4. SignedInHere'
    BY <1>4, <1>7, <2>1, <2>2, <2>3, Modes DEF SignedInHere
  <2>5. QED
    BY <1>4, <1>5, <1>7, <2>4, Modes DEF Undisturbed
<1>8. CASE leaving = "overview"
  <2>1. JustSignedIn
    BY <1>1, <1>8 DEF Undisturbed
  <2>2. JustSignedIn'
    BY <1>2, <1>3, <1>4, <1>8, <2>1 DEF JustSignedIn, NoFetch
  <2>3. QED
    BY <1>4, <1>5, <1>8, <2>2, Modes DEF Undisturbed
<1>9. CASE leaving = "login"
  <2>1. SignedOff
    BY <1>1, <1>9 DEF Undisturbed
  <2>2. SignedOff'
    BY <1>2, <1>4, <2>1 DEF SignedOff
  <2>3. QED
    BY <1>4, <1>5, <1>9, <2>2, Modes DEF Undisturbed
<1>10. QED
  BY <1>6, <1>7, <1>8, <1>9, Modes

-----------------------------------------------------------------------------
(***************************************************************************)
(* The session under answers and fetches.                                  *)
(***************************************************************************)
LEMMA GoesFly == ASSUME NEW d, GoesOn(d) PROVE FlyOn(d)
  BY DEF GoesOn, Goes, FlyOn, Flying

\* a call that is not of the login page is of one who is signed in
LEMMA FlightOf ==
  ASSUME Typed, Undisturbed, ~past.disturbed, NEW c \in DOMAIN calls, InFlight(c), ~Credential(c)
  PROVE  /\ leaving # "overview" /\ (leaving = None => place # "login")
         /\ calls[c].acct = auth.token \/ leaving = "login"
<1>1. leaving = None /\ place = "login" => SigningIn
  BY DEF Undisturbed
<1>2. leaving = None /\ place # "login" => SignedInHere
  BY DEF Undisturbed
<1>3. leaving = "overview" => JustSignedIn
  BY DEF Undisturbed
<1>4. QED
  BY <1>1, <1>2, <1>3, Modes DEF SigningIn, SignedInHere, JustSignedIn

LEMMA FetchOf ==
  ASSUME Typed, Undisturbed, ~past.disturbed, NEW t \in Table, cache[t].fetch # "idle"
  PROVE  /\ leaving # "overview" /\ (leaving = None => place # "login")
         /\ cache[t].as = auth.token \/ leaving = "login"
<1>1. leaving = None /\ place = "login" => SigningIn
  BY DEF Undisturbed
<1>2. leaving = None /\ place # "login" => SignedInHere
  BY DEF Undisturbed
<1>3. leaving = "overview" => JustSignedIn
  BY DEF Undisturbed
<1>4. QED
  BY <1>1, <1>2, <1>3, Modes DEF SigningIn, SignedInHere, JustSignedIn, NoFetch

\* at the end of a session, nothing is denied to another one
LEMMA NotWiped ==
  ASSUME Typed, Undisturbed, ~past.disturbed, NEW a, a = auth.token \/ auth.token = None
  PROVE  ~Wiped(a)
<1>1. None \notin auth.live
  BY AuthIs, ClientAssumption
<1>2. QED
  BY <1>1 DEF Wiped

LEMMA QuietCalm ==
  ASSUME Typed, Quiet, leaving' = leaving, UNCHANGED view,
         auth'.token = auth.token, auth'.cookie = auth.cookie,
         \/ auth'.stored = auth.stored /\ auth'.tenant = auth.tenant
         \/ auth'.stored = auth.token /\ auth'.tenant = auth.token
         \/ leaving = "login",
         past'.wiped = past.wiped, past'.disturbed = past.disturbed,
         \A t \in Table : OwnerStep(t)
  PROVE  Calm
<1>1. \A d \in DOMAIN calls : FlyOn(d)
  BY GoesFly DEF Quiet
<1>2. QED
  BY <1>1 DEF Calm, Quiet, SamePage

LEMMA AnswerCalm ==
  ASSUME Typed, Shapes, Undisturbed, ~past.disturbed, NEW c \in DOMAIN calls, Answer(c)
  PROVE  Calm
<1>1. /\ calls[c].pc = "ok" /\ UNCHANGED <<place, leaving, view>>
      /\ past'.wiped = past.wiped /\ past'.disturbed = past.disturbed
      /\ auth' = IF calls[c].op = "update_profile" THEN Stores(calls[c].acct) ELSE auth
  BY AnswerIs
<1>2. Serves(c)
  BY DEF Serves
<1>3. Quiet /\ \A t \in Table : OwnerStep(t)
  BY <1>2, ServesQuietly, ServesOwner
<1>4. CASE calls[c].op # "update_profile"
  BY <1>1, <1>3, <1>4, QuietCalm
<1>5. CASE calls[c].op = "update_profile"
  <2>1. InFlight(c) /\ ~Credential(c)
    BY <1>1, <1>5 DEF InFlight, Unfinished, Credential
  <2>2. calls[c].acct = auth.token \/ leaving = "login"
    BY <2>1, FlightOf
  <2>3. calls[c].acct \in Signed
    BY CallOf DEF Call
  <2>4. /\ auth'.token = auth.token /\ auth'.cookie = auth.cookie
        /\ auth'.stored = calls[c].acct /\ auth'.tenant = calls[c].acct
    BY <1>1, <1>5, <2>3, StoresIs
  <2>5. QED
    BY <1>1, <1>3, <2>2, <2>4, QuietCalm
<1>6. QED
  BY <1>4, <1>5

LEMMA DeniedUndisturbed ==
  ASSUME Typed, Undisturbed, ~past.disturbed, NEW a, a = auth.token \/ auth.token = None,
         auth' = SignedOut, leaving' = "login", past'.disturbed = past.disturbed,
         past'.wiped = (past.wiped \/ Wiped(a)), Stay,
         \A d \in DOMAIN calls : FlyOn(d),
         \A d \in DOMAIN calls : InFlight(d)' /\ Credential(d) => calls'[d].pc = "lost"
  PROVE  Undisturbed'
<1>1. ~past'.wiped
  BY NotWiped DEF Undisturbed
<1>2. SignedOff'
  <2>1. auth'.token = None /\ ~auth'.cookie
    BY AuthIs
  <2>2. \A d \in DOMAIN calls' : d \in DOMAIN calls /\ (Credential(d)' <=> Credential(d))
    BY DEF Stay, Fixed, Credential
  <2>3. (\A d \in DOMAIN calls : InFlight(d) /\ Credential(d) => calls[d].pc = "lost")'
    BY <2>2
  <2>4. QED
    BY <2>1, <2>3 DEF SignedOff
<1>3. QED
  BY <1>1, <1>2, Modes DEF Undisturbed

LEMMA CallDeniedKeeps ==
  ASSUME Typed, Shapes, Undisturbed, ~past.disturbed, NEW c \in DOMAIN calls, CallDenied(c)
  PROVE  Undisturbed'
<1>1. /\ Stay /\ Only(c) /\ calls[c].pc = "sent" /\ calls'[c].pc = "lost"
      /\ auth' = SignedOut /\ leaving' = "login" /\ place' = place
      /\ past'.disturbed = past.disturbed /\ past'.wiped = (past.wiped \/ Wiped(calls[c].acct))
  BY CallDeniedIs
<1>2. /\ InFlight(c) /\ DOMAIN calls' = DOMAIN calls
      /\ \A d \in DOMAIN calls : d # c => calls'[d] = calls[d]
  BY <1>1 DEF InFlight, Unfinished, Stay, Only
<1>3. \A d \in DOMAIN calls : FlyOn(d)
  BY <1>1, <1>2 DEF FlyOn, Flying
<1>4. /\ leaving = None /\ place = "login" => SigningIn
      /\ leaving = None /\ place # "login" => SignedInHere
      /\ leaving = "overview" => JustSignedIn
      /\ leaving = "login" => SignedOff
  BY DEF Undisturbed
<1>5. calls[c].acct = auth.token \/ auth.token = None
  BY <1>2, <1>4, Modes DEF SigningIn, SignedInHere, JustSignedIn, SignedOff
<1>6. ASSUME NEW d \in DOMAIN calls, InFlight(d)', Credential(d) PROVE calls'[d].pc = "lost"
  <2>1. CASE d = c
    BY <1>1, <2>1
  <2>2. CASE d # c
    <3>1. InFlight(d) /\ calls'[d] = calls[d]
      BY <1>2, <1>6, <2>2 DEF InFlight, Unfinished, Continues
    <3>2. QED
      BY <1>2, <1>4, <1>6, <2>2, <3>1, Modes DEF SigningIn, SignedInHere, JustSignedIn, SignedOff
  <2>3. QED
    BY <2>1, <2>2
<1>7. QED
  BY <1>1, <1>3, <1>5, <1>6, DeniedUndisturbed

LEMMA FetchDeniedKeeps ==
  ASSUME Typed, Undisturbed, ~past.disturbed, NEW t \in Table, FetchDenied(t)
  PROVE  Undisturbed'
<1>1. /\ Stay /\ cache[t].fetch = "out" /\ auth' = SignedOut /\ leaving' = "login"
      /\ past'.disturbed = past.disturbed /\ past'.wiped = (past.wiped \/ Wiped(cache[t].as))
  BY FetchDeniedIs
<1>2. \A d \in DOMAIN calls : FlyOn(d)
  BY FetchesQuietly, GoesFly DEF Fetches, Quiet
<1>3. leaving # "overview" /\ (leaving = None => place # "login")
      /\ (cache[t].as = auth.token \/ leaving = "login")
  BY <1>1, FetchOf
<1>4. CASE leaving = "login"
  <2>1. SignedOff
    BY <1>4 DEF Undisturbed
  <2>2. \A d \in DOMAIN calls : InFlight(d)' /\ Credential(d) => calls'[d].pc = "lost"
    BY <1>2, <2>1 DEF SignedOff, FlyOn, Flying, InFlight, Unfinished, Continues
  <2>3. QED
    BY <1>1, <1>2, <2>1, <2>2, DeniedUndisturbed DEF SignedOff
<1>5. CASE leaving # "login"
  <2>1. SignedInHere
    BY <1>3, <1>5, Modes DEF Undisturbed
  <2>2. \A d \in DOMAIN calls : InFlight(d)' /\ Credential(d) => calls'[d].pc = "lost"
    BY <1>2, <2>1 DEF SignedInHere, FlyOn, Flying, InFlight, Unfinished, Continues
  <2>3. QED
    BY <1>1, <1>2, <1>3, <1>5, <2>2, DeniedUndisturbed
<1>6. QED
  BY <1>4, <1>5

LEMMA ServesUndisturbed ==
  ASSUME Typed, Shapes, Undisturbed, ~past.disturbed, NEW c \in DOMAIN calls, Serves(c)
  PROVE  Undisturbed'
<1>1. Quiet /\ (\A t \in Table : OwnerStep(t)) /\ view' = view
  BY ServesQuietly, ServesOwner, ServesFrame
<1>2. CASE Answer(c)
  BY <1>2, AnswerCalm, CalmUndisturbed
<1>3. CASE CallDenied(c)
  BY <1>3, CallDeniedKeeps
<1>4. CASE ServerCreates(c)
  <2>1. Calm
    BY <1>1, <1>4, CreatesIs, QuietCalm
  <2>2. QED
    BY <2>1, CalmUndisturbed
<1>5. CASE ServerChanges(c)
  <2>1. Calm
    BY <1>1, <1>5, ChangesIs, QuietCalm
  <2>2. QED
    BY <2>1, CalmUndisturbed
<1>6. CASE ServerAnswersFree(c)
  <2>1. Calm
    BY <1>1, <1>6, AnswersFreeIs, QuietCalm
  <2>2. QED
    BY <2>1, CalmUndisturbed
<1>7. CASE ServerRefuses(c) \/ OrphanDenied(c) \/ Lose(c)
  <2>1. Calm
    BY <1>1, <1>7, RefusesIs, OrphanDeniedIs, LoseIs, QuietCalm
  <2>2. QED
    BY <2>1, CalmUndisturbed
<1>8. QED
  BY <1>2, <1>3, <1>4, <1>5, <1>6, <1>7 DEF Serves

LEMMA FetchesUndisturbed ==
  ASSUME Typed, Undisturbed, ~past.disturbed, NEW t \in Table, Fetches(t)
  PROVE  Undisturbed'
<1>1. Quiet /\ \A u \in Table : OwnerStep(u)
  BY FetchesQuietly, FetchOwner
<1>2. CASE FetchDenied(t)
  BY <1>2, FetchDeniedKeeps
<1>3. CASE Refetches(t)
  <2>1. Calm
    BY <1>1, <1>3, QuietCalm DEF Refetches
  <2>2. QED
    BY <2>1, CalmUndisturbed
<1>4. CASE FetchServed(t)
  <2>1. Calm
    BY <1>1, <1>4, FetchServedIs, QuietCalm
  <2>2. QED
    BY <2>1, CalmUndisturbed
<1>5. CASE FetchArrives(t) \/ FetchFails(t)
  <2>1. cache[t].fetch # "idle"
    BY <1>5 DEF FetchArrives, FetchFails
  <2>2. /\ leaving = None => place # "login"
        /\ cache[t].as = auth.token \/ leaving = "login"
    BY <2>1, FetchOf
  <2>3. /\ auth'.token = auth.token /\ auth'.cookie = auth.cookie
        /\ \/ auth'.stored = auth.stored /\ auth'.tenant = auth.tenant
           \/ auth'.stored = auth.token /\ auth'.tenant = auth.token
           \/ leaving = "login"
        /\ leaving' = leaving /\ past'.wiped = past.wiped /\ past'.disturbed = past.disturbed
    <3>1. CASE FetchFails(t)
      BY <3>1, FetchFailsIs
    <3>2. CASE FetchArrives(t)
      <4>1. cache[t].as \in Signed
        BY CacheOf DEF Query
      <4>2. QED
        BY <2>2, <3>2, <4>1, FetchArrivesIs, StoresIs
    <3>3. QED
      BY <1>5, <3>1, <3>2
  <2>4. \A d \in DOMAIN calls : FlyOn(d)
    BY <1>1, GoesFly DEF Quiet
  <2>5. Calm
    BY <1>1, <2>2, <2>3, <2>4 DEF Calm, Quiet, SamePage
  <2>6. QED
    BY <2>5, CalmUndisturbed
<1>6. QED
  BY <1>2, <1>3, <1>4, <1>5 DEF Fetches

-----------------------------------------------------------------------------
(***************************************************************************)
(* The session when something is sent.                                     *)
(***************************************************************************)
LEMMA SentFlight ==
  ASSUME Typed, NEW n, Sent(n)
  PROVE  /\ \A d \in DOMAIN calls' : \/ d \in DOMAIN calls /\ calls'[d] = calls[d]
                                     \/ d \notin DOMAIN calls /\ calls'[d] = n
         /\ \A d, e \in DOMAIN calls' : d \notin DOMAIN calls /\ e \notin DOMAIN calls => d = e
<1>1. n \in Call /\ calls' = Append(calls, n)
  BY DEF Sent
<1>2. /\ DOMAIN calls' = DOMAIN calls \union {Len(calls) + 1}
      /\ \A d \in DOMAIN calls : calls'[d] = calls[d] /\ d < Len(calls) + 1
      /\ calls'[Len(calls) + 1] = n
  BY <1>1, AppendEffect
<1>3. Len(calls) \in Nat
  BY DEF Typed
<1>4. Len(calls) + 1 \notin DOMAIN calls
  BY <1>2, <1>3
<1>5. QED
  BY <1>2, <1>4

LEMMA LoginOffers == Offers["login"] = {"login", "signup"}
  BY DEF Offers

LEMMA SentUndisturbed ==
  ASSUME Typed, Undisturbed, ~past.disturbed, NEW n, Sent(n), n.op \notin {"login", "signup"},
         n.acct = auth.token, leaving = None, UNCHANGED <<auth, place, leaving, cache, past>>
  PROVE  Undisturbed'
<1>1. place # "login"
  BY LoginOffers DEF Sent
<1>2. SignedInHere
  BY <1>1 DEF Undisturbed
<1>3. SignedInHere'
  <2>1. ASSUME NEW d \in DOMAIN calls', calls'[d].pc \in Flying
        PROVE  calls'[d].acct = auth.token /\ calls'[d].op \notin {"login", "signup"}
    <3>1. CASE d \in DOMAIN calls /\ calls'[d] = calls[d]
      <4>1. InFlight(d)
        BY <2>1, <3>1, Flies
      <4>2. QED
        BY <1>2, <3>1, <4>1 DEF SignedInHere, Credential
    <3>2. CASE calls'[d] = n
      BY <3>2
    <3>3. QED
      BY <2>1, <3>1, <3>2, SentFlight
  <2>2. (\A d \in DOMAIN calls : InFlight(d) => calls[d].acct = auth.token /\ ~Credential(d))'
    BY <2>1 DEF InFlight, Unfinished, Continues, Flying, Credential
  <2>3. QED
    BY <1>2, <2>2 DEF SignedInHere
<1>4. QED
  BY <1>1, <1>3, Modes DEF Undisturbed

LEMMA CredentialsUndisturbed ==
  ASSUME Typed, Undisturbed, ~past.disturbed, NEW op \in {"login", "signup"}, NEW a \in Accounts,
         Credentials(op, a)
  PROVE  Undisturbed'
<1> DEFINE n == NewCall(op, "session", None, a)
<1>1. /\ place = "login" /\ leaving = None /\ view.lock = None
      /\ UNCHANGED <<auth, place, leaving, cache, past>>
  BY DEF Credentials, Here
<1>2. Sent(n) /\ n.op = op /\ n.visit = past.visit /\ view'.lock = a
  BY CredentialsSent, NewFields, CredentialsTyped
<1> HIDE DEF n
<1>3. SigningIn
  BY <1>1 DEF Undisturbed
<1>4. \A d \in DOMAIN calls : ~InFlight(d)
  BY <1>1, <1>3 DEF SigningIn
<1>5. \A d \in DOMAIN calls' : calls'[d].pc \in Flying => d \notin DOMAIN calls /\ calls'[d] = n
  BY <1>2, <1>4, SentFlight, Flies
<1>6. SigningIn'
  <2>1. a # None
    BY ClientAssumption
  <2>2. ASSUME NEW d \in DOMAIN calls', InFlight(d)'
        PROVE  (/\ Credential(d) /\ Mounted(d) /\ view.lock # None
                /\ \A e \in DOMAIN calls : InFlight(e) => e = d)'
    <3>1. calls'[d].pc \in Flying
      BY <2>2 DEF InFlight, Unfinished, Continues, Flying
    <3>2. calls'[d] = n /\ d \notin DOMAIN calls
      BY <1>5, <3>1
    <3>3. (Credential(d) /\ Mounted(d) /\ view.lock # None)'
      BY <1>1, <1>2, <2>1, <3>2 DEF Credential, Mounted
    <3>4. ASSUME NEW e \in DOMAIN calls', InFlight(e)' PROVE e = d
      <4>1. calls'[e].pc \in Flying
        BY <3>4 DEF InFlight, Unfinished, Continues, Flying
      <4>2. QED
        BY <1>2, <1>5, <3>2, <4>1, SentFlight
    <3>5. QED
      BY <3>3, <3>4
  <2>3. QED
    BY <1>1, <1>3, <2>2 DEF SigningIn, NoFetch
<1>7. QED
  BY <1>1, <1>6, Modes DEF Undisturbed

LEMMA SendsUndisturbed ==
  ASSUME Typed, Undisturbed, ~past.disturbed, UserSends
  PROVE  Undisturbed'
<1>1. /\ UNCHANGED <<auth, place, leaving, cache, past>> /\ leaving = None
  BY SendsFrame DEF Here
<1>2. CASE \E op \in Op, t \in Table, i \in Ids \union {None}, nv \in View : Sends(op, t, i, nv)
  <2>1. PICK op \in Op, t \in Table, i \in Ids \union {None}, nv \in View : Sends(op, t, i, nv)
    BY <1>2
  <2>2. PICK n : n = NewCall(op, t, i, auth.token)
    OBVIOUS
  <2>3. Sent(n)
    BY <2>1, <2>2, SendsSent
  <2>4. n.op = op /\ n.acct = auth.token /\ op \notin {"login", "signup"}
    BY <2>1, <2>2, NewFields DEF Sends
  <2>5. QED
    BY <1>1, <2>3, <2>4, SentUndisturbed
<1>3. CASE \E op \in {"login", "signup"}, a \in Accounts : Credentials(op, a)
  BY <1>3, CredentialsUndisturbed
<1>4. CASE ToggleSwitch
  <2>0. PICK op \in DOMAIN Saves : \E s \in Saves[op] :
           /\ Toggled(op, s) \in Call /\ calls' = Append(calls, Toggled(op, s)) /\ SettingsPage
           /\ view'.dialog = view.dialog /\ view'.made = view.made
           /\ view'.timers = view.timers /\ view'.step = view.step
    BY <1>4, ToggleTyped
  <2>1. PICK s \in Saves[op] :
           /\ Toggled(op, s) \in Call /\ calls' = Append(calls, Toggled(op, s)) /\ SettingsPage
           /\ view'.dialog = view.dialog /\ view'.made = view.made
           /\ view'.timers = view.timers /\ view'.step = view.step
    BY <2>0
  <2>2. PICK n : n = Toggled(op, s)
    OBVIOUS
  <2>3. Sent(n)
    BY <1>1, <2>1, <2>2, ToggleSent DEF FormsShown
  <2>4. n.op = op /\ n.acct = auth.token /\ op \notin {"login", "signup"}
    BY <2>1, <2>2, ToggledIs, OpNames
  <2>5. QED
    BY <1>1, <2>3, <2>4, SentUndisturbed
<1>5. QED
  BY <1>2, <1>3, <1>4 DEF UserSends

LEMMA ShowsUndisturbed ==
  ASSUME Typed, Undisturbed, UserShows
  PROVE  Undisturbed'
<1>1. UNCHANGED <<auth, place, leaving, cache>> /\ SameHistory /\ Stay
  BY ShowsFrame, ShowsStay
<1>2. \A d \in DOMAIN calls : FlyOn(d)
  BY ShowsStay DEF FlyOn
<1>3. \A t \in Table : OwnerStep(t)
  BY <1>1 DEF OwnerStep
<1>4. place = "login" => view'.lock = view.lock
  <2>1. PICK nv \in View : Opens(nv) \/ Closes(nv) \/ Clicks(nv)
    BY DEF UserShows
  <2>2. QED
    BY <2>1 DEF Opens, OpenDialog, Closes, Clicks, Click
<1>5. Calm
  BY <1>1, <1>2, <1>3, <1>4 DEF Calm, SameHistory
<1>6. QED
  BY <1>5, CalmUndisturbed

-----------------------------------------------------------------------------
(***************************************************************************)
(* The session when a handler ends or the page changes.                    *)
(***************************************************************************)
\* what is known of the session
LEMMA SessionModes ==
  ASSUME Typed, Undisturbed, ~past.disturbed
  PROVE  /\ leaving = None /\ place = "login" => SigningIn
         /\ leaving = None /\ place # "login" => SignedInHere
         /\ leaving = "overview" => JustSignedIn
         /\ leaving = "login" => SignedOff
         /\ leaving \in {None, "login", "overview"} /\ ~past.wiped
  BY Modes DEF Undisturbed

LEMMA EndsFlight ==
  ASSUME Typed, NEW c \in DOMAIN calls, Ends(c)
  PROVE  /\ Stay /\ InFlight(c)
         /\ \A d \in DOMAIN calls : FlyOn(d) /\ (InFlight(d)' => d # c /\ InFlight(d) /\ calls'[d] = calls[d])
<1>1. /\ Stay /\ calls[c].pc \in {"won", "lost"} /\ calls'[c].pc = "over"
      /\ \A d \in DOMAIN calls : d # c => calls'[d] = calls[d]
  BY DEF Ends, Only
<1>2. InFlight(c)
  BY <1>1 DEF InFlight, Continues
<1>3. \A d \in DOMAIN calls : FlyOn(d)
  BY <1>1 DEF FlyOn, Flying
<1>4. \A d \in DOMAIN calls : InFlight(d)' => d # c /\ InFlight(d) /\ calls'[d] = calls[d]
  BY <1>1 DEF InFlight, Unfinished, Continues
<1>5. QED
  BY <1>1, <1>2, <1>3, <1>4

LEMMA FinishesUndisturbed ==
  ASSUME Typed, Undisturbed, ~past.disturbed, NEW c \in DOMAIN calls, NEW nv \in View,
         Finishes(c, nv)
  PROVE  Undisturbed'
<1>1. UNCHANGED <<auth, place, leaving, cache, past>> /\ Ends(c)
  BY FinishesIs, FinishesEnds
<1>2. Stay /\ InFlight(c) /\ \A d \in DOMAIN calls : FlyOn(d)
  BY <1>1, EndsFlight
<1>3. leaving = None => place # "login"
  BY <1>2, FlightOf DEF Finishes, Credential
<1>4. \A t \in Table : OwnerStep(t)
  BY <1>1 DEF OwnerStep
<1>5. Calm
  BY <1>1, <1>2, <1>3, <1>4 DEF Calm
<1>6. QED
  BY <1>5, CalmUndisturbed

LEMMA CredentialsEndUndisturbed ==
  ASSUME Typed, Shapes, Undisturbed, ~past.disturbed, NEW c \in DOMAIN calls, HandleCredentials(c)
  PROVE  Undisturbed'
<1>1. Ends(c)
  BY HandlerEndsEnds DEF HandlerEnds
<1>2. /\ Stay /\ InFlight(c)
      /\ \A d \in DOMAIN calls : FlyOn(d) /\ (InFlight(d)' => d # c /\ InFlight(d) /\ calls'[d] = calls[d])
  BY <1>1, EndsFlight
<1>3. /\ calls[c].op \in {"login", "signup"} /\ calls[c].pc \in {"won", "lost"}
      /\ calls[c].pc = "won" => auth' = SignedIn(calls[c].acct) /\ leaving' = "overview"
      /\ calls[c].pc = "lost" => UNCHANGED <<auth, leaving>>
      /\ UNCHANGED <<place, cache, past>>
  BY HandlesCredentialsIs
<1>4. calls[c].acct \in Accounts
  BY <1>3 DEF Shapes, Shape
<1>5. Credential(c)
  BY <1>3 DEF Credential
<1>6. CASE leaving = None
  <2>1. place = "login" /\ SigningIn
    BY <1>2, <1>5, <1>6, SessionModes DEF SignedInHere
  <2>2. \A d \in DOMAIN calls : ~InFlight(d)'
    BY <1>2, <2>1 DEF SigningIn
  <2>3. (\A d \in DOMAIN calls : ~InFlight(d))'
    BY <1>2, <2>2 DEF Stay
  <2>4. CASE calls[c].pc = "lost"
    <3>1. SigningIn'
      BY <1>3, <2>1, <2>3, <2>4 DEF SigningIn, NoFetch
    <3>2. QED
      BY <1>3, <1>6, <2>1, <2>4, <3>1, SessionModes, Modes DEF Undisturbed
  <2>5. CASE calls[c].pc = "won"
    <3>1. /\ auth'.cookie /\ auth'.token \in Accounts /\ auth'.tenant = auth'.token
          /\ auth'.stored = auth'.token
      <4>1. PICK a \in Signed : a = calls[c].acct
        BY <1>4 DEF Signed
      <4>2. auth' = SignedIn(a)
        BY <1>3, <2>5, <4>1
      <4>3. QED
        BY <1>4, <4>1, <4>2, StoresIs
    <3>2. JustSignedIn'
      BY <1>3, <2>1, <2>3, <3>1 DEF JustSignedIn, SigningIn, NoFetch
    <3>3. QED
      BY <1>3, <2>5, <3>2, SessionModes, Modes DEF Undisturbed
  <2>6. QED
    BY <1>3, <2>4, <2>5
<1>7. CASE leaving = "overview"
  BY <1>2, <1>7, SessionModes DEF JustSignedIn
<1>8. CASE leaving = "login"
  <2>1. SignedOff /\ calls[c].pc = "lost"
    BY <1>2, <1>5, <1>8, SessionModes DEF SignedOff
  <2>2. \A t \in Table : OwnerStep(t)
    BY <1>3 DEF OwnerStep
  <2>3. Calm
    BY <1>2, <1>3, <1>8, <2>1, <2>2, Modes DEF Calm
  <2>4. QED
    BY <2>3, CalmUndisturbed
<1>9. QED
  BY <1>6, <1>7, <1>8, SessionModes

LEMMA DeleteEndsUndisturbed ==
  ASSUME Typed, Shapes, Undisturbed, ~past.disturbed, NEW c \in DOMAIN calls, HandleDeleteProject(c)
  PROVE  Undisturbed'
<1>1. Ends(c)
  BY HandlerEndsEnds DEF HandlerEnds
<1>2. /\ Stay /\ InFlight(c)
      /\ \A d \in DOMAIN calls : FlyOn(d) /\ (InFlight(d)' => d # c /\ InFlight(d) /\ calls'[d] = calls[d])
  BY <1>1, EndsFlight
<1>3. /\ calls[c].op = "delete_account" /\ calls[c].pc \in {"won", "lost"}
      /\ calls[c].pc = "won" => auth' = Forgotten /\ leaving' = "login"
      /\ calls[c].pc = "lost" => UNCHANGED <<auth, leaving>>
      /\ UNCHANGED <<place, cache, past>>
  BY HandlesDeleteIs
<1>4. leaving # "overview" /\ (leaving = None => place # "login")
  BY <1>2, <1>3, FlightOf DEF Credential
<1>5. CASE calls[c].pc = "won"
  <2>1. ASSUME NEW d \in DOMAIN calls, InFlight(d)', Credential(d)' PROVE calls'[d].pc = "lost"
    <3>1. InFlight(d) /\ Credential(d) /\ calls'[d] = calls[d]
      BY <1>2, <2>1 DEF Credential
    <3>2. QED
      BY <1>4, <3>1, SessionModes DEF SignedInHere, SignedOff
  <2>2. auth'.token = None /\ ~auth'.cookie
    BY <1>3, <1>5, AuthIs
  <2>3. (\A d \in DOMAIN calls : InFlight(d) /\ Credential(d) => calls[d].pc = "lost")'
    BY <1>2, <2>1 DEF Stay
  <2>4. SignedOff'
    BY <2>2, <2>3 DEF SignedOff
  <2>5. QED
    BY <1>3, <1>5, <2>4, SessionModes, Modes DEF Undisturbed
<1>6. CASE calls[c].pc = "lost"
  <2>1. \A t \in Table : OwnerStep(t)
    BY <1>3 DEF OwnerStep
  <2>2. Calm
    BY <1>2, <1>3, <1>4, <1>6, <2>1 DEF Calm
  <2>3. QED
    BY <2>2, CalmUndisturbed
<1>7. QED
  BY <1>3, <1>5, <1>6

LEMMA RouteUndisturbed ==
  ASSUME Typed, Undisturbed, ~past.disturbed, NEW p \in Place, p # "login", Route(p),
         leaving # "overview", leaving = None => place # "login", Stay,
         \A d \in DOMAIN calls : FlyOn(d)
  PROVE  Undisturbed'
<1>1. /\ place' = (IF auth.cookie THEN p ELSE "login") /\ UNCHANGED <<auth, leaving>>
      /\ past'.disturbed = past.disturbed /\ past'.wiped = past.wiped
  BY RouteIs
<1>2. \A t \in Table : OwnerStep(t)
  BY RouteOwner
<1>3. CASE leaving = None
  <2>1. SignedInHere /\ place' # "login"
    BY <1>1, <1>3, SessionModes DEF SignedInHere
  <2>2. ASSUME NEW d \in DOMAIN calls, InFlight(d)'
        PROVE  calls'[d].acct = auth.token /\ ~Credential(d)'
    <3>1. InFlight(d)
      BY <2>2 DEF FlyOn, Flying, InFlight, Unfinished, Continues
    <3>2. QED
      BY <2>1, <3>1 DEF SignedInHere, Stay, Fixed, Credential
  <2>3. (\A d \in DOMAIN calls : InFlight(d) => calls[d].acct = auth.token /\ ~Credential(d))'
    BY <1>1, <2>2 DEF Stay
  <2>4. (\A t \in Table : cache[t].fetch # "idle" => cache[t].as = auth.token)'
    BY <1>1, <1>2, <2>1 DEF OwnerStep, SignedInHere
  <2>5. SignedInHere'
    BY <1>1, <2>1, <2>3, <2>4 DEF SignedInHere
  <2>6. QED
    BY <1>1, <1>3, <2>1, <2>5, SessionModes, Modes DEF Undisturbed
<1>4. CASE leaving = "login"
  <2>1. SignedOff
    BY <1>4, SessionModes
  <2>2. ASSUME NEW d \in DOMAIN calls, InFlight(d)', Credential(d)' PROVE calls'[d].pc = "lost"
    <3>1. InFlight(d) /\ Credential(d)
      BY <2>2 DEF FlyOn, Flying, InFlight, Unfinished, Continues, Stay, Fixed, Credential
    <3>2. QED
      BY <2>1, <2>2, <3>1 DEF SignedOff, FlyOn, InFlight, Unfinished, Continues
  <2>3. (\A d \in DOMAIN calls : InFlight(d) /\ Credential(d) => calls[d].pc = "lost")'
    BY <2>2 DEF Stay
  <2>4. SignedOff'
    BY <1>1, <2>1, <2>3 DEF SignedOff
  <2>5. QED
    BY <1>1, <1>4, <2>4, SessionModes, Modes DEF Undisturbed
<1>5. QED
  BY <1>3, <1>4, SessionModes

LEMMA LoadUndisturbed ==
  ASSUME Typed, Undisturbed, ~past.disturbed, Load
  PROVE  Undisturbed'
<1>1. /\ leaving # None /\ leaving' = None /\ place' = (IF auth.cookie THEN leaving ELSE "login")
      /\ place' \in Place /\ cache' = Loaded(place') /\ Stay /\ Awake
      /\ calls' = [c \in DOMAIN calls |-> AfterUnload(c)]
      /\ auth'.token = auth.token /\ auth'.stored = auth.stored
      /\ auth'.tenant = auth.stored /\ auth'.cookie = auth.cookie
      /\ past'.disturbed = past.disturbed /\ past'.wiped = past.wiped
  BY LoadIs, PlaceNames
<1>2. \A d \in DOMAIN calls : calls'[d].pc \in {"orphan", "over"}
  BY <1>1, UnloadEffect
<1>3. (\A d \in DOMAIN calls : ~InFlight(d))'
  BY <1>1, <1>2 DEF Stay, InFlight, Unfinished, Continues
<1>4. PICK p \in Place : p = place'
  BY <1>1
<1>5. \A t \in Table : IF t \in Mounts[p] \/ (t = "whoami" /\ p # "login" /\ auth.stored = None)
                       THEN cache'[t].fetch = "out" /\ cache'[t].as = auth.token
                       ELSE cache'[t].fetch = "idle"
  BY <1>1, <1>4, LoadedIs
<1>6. CASE leaving = "overview"
  <2>1. JustSignedIn
    BY <1>6, SessionModes
  <2>2. place' = "overview"
    BY <1>1, <1>6, <2>1 DEF JustSignedIn
  <2>3. (\A t \in Table : cache[t].fetch # "idle" => cache[t].as = auth.token)'
    BY <1>1, <1>5
  <2>4. SignedInHere'
    BY <1>1, <1>3, <2>1, <2>3 DEF JustSignedIn, SignedInHere
  <2>5. QED
    BY <1>1, <2>2, <2>4, SessionModes, Modes DEF Undisturbed
<1>7. CASE leaving = "login"
  <2>1. SignedOff
    BY <1>7, SessionModes
  <2>2. place' = "login"
    BY <1>1, <2>1 DEF SignedOff
  <2>3. NoFetch'
    BY <1>4, <1>5, <2>2, LoginMounts DEF NoFetch
  <2>4. SigningIn'
    BY <1>1, <1>3, <2>1, <2>3 DEF SignedOff, SigningIn
  <2>5. QED
    BY <1>1, <2>2, <2>4, SessionModes, Modes DEF Undisturbed
<1>8. QED
  BY <1>1, <1>6, <1>7, SessionModes

LEMMA SignOutUndisturbed ==
  ASSUME Typed, Undisturbed, ~past.disturbed, SignOut
  PROVE  Undisturbed'
<1>1. /\ place # "login" /\ leaving = None /\ auth' = Forgotten /\ leaving' = "login"
      /\ UNCHANGED <<place, calls, past>>
  BY DEF SignOut, Here
<1>2. SignedInHere
  BY <1>1, SessionModes
<1>3. auth'.token = None /\ ~auth'.cookie
  BY <1>1, AuthIs
<1>4. (\A d \in DOMAIN calls : InFlight(d) /\ Credential(d) => calls[d].pc = "lost")'
  BY <1>1, <1>2 DEF SignedInHere, InFlight, Unfinished, Continues, Credential
<1>5. SignedOff'
  BY <1>3, <1>4 DEF SignedOff
<1>6. QED
  BY <1>1, <1>5, SessionModes, Modes DEF Undisturbed

LEMMA ElsewhereUndisturbed ==
  ASSUME Typed, Undisturbed, ~past.disturbed, Elsewhere
  PROVE  Undisturbed'
<1>1. Quiet /\ UNCHANGED <<place, view, calls>> /\ \A t \in Table : OwnerStep(t)
  BY ElsewhereQuietly, ElsewhereFrame, ElsewhereOwner
<1>2. CASE SignOut
  BY <1>2, SignOutUndisturbed
<1>3. CASE PollSetup
  <2>1. Calm
    BY <1>1, <1>3, PollSetupTyped, QuietCalm
  <2>2. QED
    BY <2>1, CalmUndisturbed
<1>4. CASE \E i \in Ids : Outside(i)
  <2>1. Calm
    BY <1>1, <1>4, OutsideIs, QuietCalm
  <2>2. QED
    BY <2>1, CalmUndisturbed
<1>5. CASE OtherTab \/ CookieExpires
  <2>1. past'.disturbed
    BY <1>5 DEF OtherTab, CookieExpires, SessionEvent, Typed, Past
  <2>2. QED
    BY <2>1 DEF Undisturbed
<1>6. CASE TokenExpires
  <2>1. PICK a \in auth.live : SessionEvent([auth EXCEPT !.live = @ \ {a}], past)
    BY <1>6 DEF TokenExpires
  <2>2. /\ auth'.token = auth.token /\ auth'.cookie = auth.cookie
        /\ auth'.stored = auth.stored /\ auth'.tenant = auth.tenant
        /\ leaving' = leaving /\ past' = past
    BY <2>1 DEF SessionEvent, Typed, Auth
  <2>3. Calm
    BY <1>1, <2>2, QuietCalm
  <2>4. QED
    BY <2>3, CalmUndisturbed
<1>7. CASE UNCHANGED cvars
  <2>1. Calm
    BY <1>1, <1>7, QuietCalm DEF cvars
  <2>2. QED
    BY <2>1, CalmUndisturbed
<1>8. QED
  BY <1>2, <1>3, <1>4, <1>5, <1>6, <1>7 DEF Elsewhere

-----------------------------------------------------------------------------
(***************************************************************************)
(* The session: every step.                                                *)
(***************************************************************************)
LEMMA StepUndisturbed ==
  ASSUME Typed, Calling, Shapes, Undisturbed, Step
  PROVE  Undisturbed'
<1>1. CASE past.disturbed
  <2>1. past'.disturbed
    <3>1. CASE UserSends \/ UserShows
      BY <1>1, <3>1, SendsFrame, ShowsFrame DEF SameHistory
    <3>2. CASE \E c \in DOMAIN calls : Serves(c)
      <4>1. PICK c \in DOMAIN calls : Serves(c)
        BY <3>2
      <4>2. QED
        BY <1>1, <4>1, CreatesIs, ChangesIs, AnswersFreeIs, RefusesIs, AnswerIs, CallDeniedIs,
           OrphanDeniedIs, LoseIs DEF Serves
    <3>3. CASE \E c \in DOMAIN calls : HandlerEnds(c)
      BY <1>1, <3>3, HandlerFrame
    <3>4. CASE (\E c \in DOMAIN calls, p \in Place : Returns(c, p)) \/ \E p \in Place : Follows(p)
      <4>1. PICK p \in Place : Route(p)
        BY <3>4, ReturnsIs, FollowsLeaves
      <4>2. past'.disturbed = past.disturbed
        BY <4>1, RouteIs
      <4>3. QED
        BY <1>1, <4>2
    <3>5. CASE \E t \in Table : Fetches(t)
      BY <1>1, <3>5, FetchServedIs, FetchArrivesIs, FetchFailsIs, FetchDeniedIs DEF Fetches, Refetches
    <3>6. CASE Load
      BY <1>1, <3>6, LoadIs
    <3>7. CASE Elsewhere
      <4>1. CASE SignOut \/ UNCHANGED cvars
        BY <1>1, <4>1 DEF SignOut, cvars
      <4>2. CASE PollSetup
        BY <1>1, <4>2, PollSetupTyped
      <4>3. CASE \E i \in Ids : Outside(i)
        BY <1>1, <4>3, OutsideIs
      <4>4. CASE OtherTab \/ TokenExpires \/ CookieExpires
        BY <1>1, <4>4, SessionEventIs
      <4>5. QED
        BY <3>7, <4>1, <4>2, <4>3, <4>4 DEF Elsewhere
    <3>8. QED
      BY <3>1, <3>2, <3>3, <3>4, <3>5, <3>6, <3>7 DEF Step
  <2>2. QED
    BY <2>1 DEF Undisturbed
<1>2. CASE ~past.disturbed
  <2>1. CASE UserSends
    BY <1>2, <2>1, SendsUndisturbed
  <2>2. CASE UserShows
    BY <2>2, ShowsUndisturbed
  <2>3. CASE \E c \in DOMAIN calls : Serves(c) \/ HandlerEnds(c)
    <3>1. PICK c \in DOMAIN calls : Serves(c) \/ HandlerEnds(c)
      BY <2>3
    <3>2. QED
      BY <1>2, <3>1, ServesUndisturbed, FinishesUndisturbed, CredentialsEndUndisturbed,
         DeleteEndsUndisturbed DEF HandlerEnds
  <2>4. CASE \E c \in DOMAIN calls, p \in Place : Returns(c, p)
    <3>1. PICK c \in DOMAIN calls, p \in Place : Returns(c, p)
      BY <2>4
    <3>2. /\ Stay /\ Only(c) /\ Route(p) /\ calls[c].pc = "won" /\ calls'[c].pc = "over"
      BY <3>1, ReturnsIs
    <3>3. InFlight(c) /\ ~Credential(c) /\ p # "login"
      BY <3>1, <3>2 DEF Returns, InFlight, Continues, Credential
    <3>4. \A d \in DOMAIN calls : FlyOn(d)
      BY <3>2 DEF Only, FlyOn, Flying
    <3>5. leaving # "overview" /\ (leaving = None => place # "login")
      BY <1>2, <3>3, FlightOf
    <3>6. QED
      BY <1>2, <3>2, <3>3, <3>4, <3>5, RouteUndisturbed
  <2>5. CASE \E t \in Table : Fetches(t)
    BY <1>2, <2>5, FetchesUndisturbed
  <2>6. CASE \E p \in Place : Follows(p)
    <3>1. PICK p \in Place : Follows(p)
      BY <2>6
    <3>2. Stay /\ calls' = calls /\ Route(p)
      BY <3>1, FollowsLeaves DEF Leaves
    <3>3. p # "login" /\ place # "login" /\ leaving = None
      BY <3>1 DEF Follows, Here
    <3>4. \A d \in DOMAIN calls : FlyOn(d)
      BY <3>2 DEF FlyOn
    <3>5. QED
      BY <1>2, <3>2, <3>3, <3>4, RouteUndisturbed, Modes
  <2>7. CASE Load
    BY <1>2, <2>7, LoadUndisturbed
  <2>8. CASE Elsewhere
    BY <1>2, <2>8, ElsewhereUndisturbed
  <2>9. QED
    BY <2>1, <2>2, <2>3, <2>4, <2>5, <2>6, <2>7, <2>8 DEF Step
<1>3. QED
  BY <1>1, <1>2

-----------------------------------------------------------------------------
(***************************************************************************)
(* Lists: no list that is mounted is stale and at rest without an error.   *)
(***************************************************************************)
StaleStep(t) ==
  (t \in Mounts[place'] /\ cache'[t].fetch = "idle" /\ cache'[t].stale) =>
    \/ cache'[t].error
    \/ t \in Mounts[place] /\ cache'[t] = cache[t]

LEMMA StaleInvalidated ==
  ASSUME Typed, StaleFetched, NEW t \in Table, cache'[t] \in {Invalidated(t), cache[t]}, place' = place
  PROVE  StaleStep(t)
<1>1. CASE cache'[t] = cache[t]
  BY <1>1 DEF StaleStep
<1>2. CASE cache'[t] = Invalidated(t) /\ Restarts(t)
  BY <1>2, InvalidatedIs DEF StaleStep
<1>3. CASE cache'[t] = Invalidated(t) /\ ~Restarts(t)
  <2>1. cache'[t].fetch = cache[t].fetch
    BY <1>3, InvalidatedIs
  <2>2. t \in Mounts[place] => cache[t].fetch # "idle"
    BY <1>3 DEF Restarts
  <2>3. QED
    BY <2>1, <2>2 DEF StaleStep
<1>4. QED
  BY <1>1, <1>2, <1>3

LEMMA StaleRoute ==
  ASSUME Typed, NEW p \in Place, Route(p), NEW t \in Table
  PROVE  StaleStep(t)
<1>1. cache'[t] = IF t \in Mounts[place'] \ Mounts[place] THEN OnMount(cache[t]) ELSE cache[t]
  BY RouteIs
<1>2. CASE t \in Mounts[place'] \ Mounts[place]
  <2>1. cache'[t] = OnMount(cache[t])
    BY <1>1, <1>2
  <2>2. cache'[t].fetch = "idle" => cache'[t] = cache[t] /\ ~cache[t].stale
    BY <2>1, CacheOf, OnMountIs
  <2>3. QED
    BY <2>2 DEF StaleStep
<1>3. CASE t \notin Mounts[place'] \ Mounts[place]
  BY <1>1, <1>3 DEF StaleStep
<1>4. QED
  BY <1>2, <1>3

LEMMA StaleFetch ==
  ASSUME Typed, NEW u \in Table, Fetches(u), NEW t \in Table
  PROVE  StaleStep(t)
<1>1. CASE t # u
  BY <1>1, FetchesFrame DEF StaleStep
<1>2. CASE t = u
  <2>1. CASE FetchServed(t)
    BY <2>1, FetchServedIs DEF StaleStep
  <2>2. CASE FetchArrives(t)
    BY <2>2, FetchArrivesIs DEF StaleStep
  <2>3. CASE FetchFails(t)
    BY <2>3, FetchFailsIs DEF StaleStep
  <2>4. CASE FetchDenied(t)
    BY <2>4, FetchDeniedIs DEF StaleStep
  <2>5. CASE Refetches(t)
    BY <2>5, RefetchesIs DEF StaleStep
  <2>6. QED
    BY <1>2, <2>1, <2>2, <2>3, <2>4, <2>5 DEF Fetches
<1>3. QED
  BY <1>1, <1>2

\* whether the cache of a list is left alone
LEMMA ServesCache ==
  ASSUME Typed, Shapes, NEW c \in DOMAIN calls, Serves(c), ~Answer(c), NEW t \in Table
  PROVE  cache'[t] = cache[t]
BY DEF Serves, ServerCreates, ServerChanges, ServerAnswersFree, ServerRefuses, CallDenied,
       OrphanDenied, Lose

LEMMA ElsewhereCache ==
  ASSUME Typed, Elsewhere, NEW t \in Table, ~PollSetup
  PROVE  cache'[t] = cache[t]
BY SessionEventIs, OutsideIs DEF Elsewhere, SignOut, cvars

LEMMA StepStale ==
  ASSUME Typed, Shapes, StaleFetched, Step, NEW t \in Table
  PROVE  StaleStep(t)
<1>1. CASE UserSends \/ UserShows
  BY <1>1, SendsFrame, ShowsFrame DEF StaleStep
<1>2. CASE \E c \in DOMAIN calls : Serves(c)
  <2>1. PICK c \in DOMAIN calls : Serves(c)
    BY <1>2
  <2>2. place' = place
    BY <2>1, ServesFrame
  <2>3. cache'[t] \in {Invalidated(t), cache[t]}
    BY <2>1, ServesCache, AnswerIs
  <2>4. QED
    BY <2>2, <2>3, StaleInvalidated
<1>3. CASE \E c \in DOMAIN calls : HandlerEnds(c)
  BY <1>3, HandlerFrame DEF StaleStep
<1>4. CASE (\E c \in DOMAIN calls, p \in Place : Returns(c, p)) \/ \E p \in Place : Follows(p)
  BY <1>4, ReturnsIs, FollowsLeaves, StaleRoute
<1>5. CASE \E u \in Table : Fetches(u)
  BY <1>5, StaleFetch
<1>6. CASE Load
  <2>1. PICK p \in Place : p = place' /\ cache' = Loaded(p)
    BY <1>6, LoadIs, PlaceNames
  <2>2. ~cache'[t].stale
    BY <2>1, LoadedIs
  <2>3. QED
    BY <2>2 DEF StaleStep
<1>7. CASE Elsewhere
  <2>1. place' = place
    BY <1>7, ElsewhereFrame
  <2>2. cache'[t] \in {Invalidated(t), cache[t]}
    <3>1. CASE PollSetup
      BY <3>1, PollSetupTyped
    <3>2. CASE ~PollSetup
      BY <1>7, <3>2, ElsewhereCache
    <3>3. QED
      BY <3>1, <3>2
  <2>3. QED
    BY <2>1, <2>2, StaleInvalidated
<1>8. QED
  BY <1>1, <1>2, <1>3, <1>4, <1>5, <1>6, <1>7 DEF Step

LEMMA StepStaleFetched ==
  ASSUME Typed, Shapes, StaleFetched, Step
  PROVE  StaleFetched'
<1>1. place' \in Place
  BY StepTyped DEF Typed
<1>2. ASSUME NEW t \in Mounts[place'], cache'[t].fetch = "idle", cache'[t].stale PROVE cache'[t].error
  <2>1. t \in Table
    BY <1>1, PlaceNames
  <2>2. StaleStep(t)
    BY <2>1, StepStale
  <2>3. QED
    BY <1>2, <2>2 DEF StaleStep, StaleFetched
<1>3. QED
  BY <1>2 DEF StaleFetched

-----------------------------------------------------------------------------
(***************************************************************************)
(* Lists: what is at rest or in flight is what the server has.             *)
(***************************************************************************)
ListTrue(t) == Current(t) =>
  /\ AtRest(t) => cache[t].data = Listing(t, cache[t].as)
  /\ cache[t].fetch = "back" => cache[t].got = Listing(t, cache[t].as)

Counts(i, t, a) == i \in RowsOf(t) /\ rows[i].acct = a /\ rows[i].state \in Living

SameRow(i) == /\ rows'[i].table = rows[i].table /\ rows'[i].acct = rows[i].acct
              /\ rows'[i].state = rows[i].state /\ rows'[i].rev = rows[i].rev
              /\ rows'[i].set = rows[i].set

\* the rows of a list that are not gone stay what they were, and there are no others
LEMMA ListingKept ==
  ASSUME NEW t, NEW a, \A i \in Ids : Counts(i, t, a) \/ Counts(i, t, a)' => SameRow(i)
  PROVE  Listing(t, a)' = Listing(t, a)
<1>1. PICK S : S = {j \in RowsOf(t) : rows[j].acct = a /\ rows[j].state \in Living}
  OBVIOUS
<1>2. PICK T : T = {j \in RowsOf(t)' : rows'[j].acct = a /\ rows'[j].state \in Living}
  OBVIOUS
<1>3. ASSUME NEW j PROVE j \in S <=> j \in T
  <2>1. j \in S => j \in Ids /\ Counts(j, t, a)
    BY <1>1 DEF Counts, RowsOf
  <2>2. j \in T => j \in Ids /\ Counts(j, t, a)'
    BY <1>2 DEF Counts, RowsOf
  <2>3. j \in S => SameRow(j)
    BY <2>1
  <2>4. j \in T => SameRow(j)
    BY <2>2
  <2>5. CASE j \in S
    BY <1>1, <1>2, <2>3, <2>5 DEF SameRow, RowsOf
  <2>6. CASE j \in T
    BY <1>1, <1>2, <2>4, <2>6 DEF SameRow, RowsOf
  <2>7. QED
    BY <2>5, <2>6
<1>4. S = T
  BY <1>3
<1>5. \A i \in S : rows'[i].state = rows[i].state /\ rows'[i].rev = rows[i].rev /\ rows'[i].set = rows[i].set
  <2>1. ASSUME NEW i \in S PROVE Counts(i, t, a) /\ i \in Ids
    BY <1>1 DEF Counts, RowsOf
  <2>2. QED
    BY <2>1 DEF SameRow
<1>6. PICK X : X = Listing(t, a)
  OBVIOUS
<1>7. PICK Y : Y = Listing(t, a)'
  OBVIOUS
<1>8. \A x : x \in X <=> \E i \in S : x = [id |-> i, state |-> rows[i].state, rev |-> rows[i].rev, set |-> rows[i].set]
  BY <1>1, <1>6 DEF Listing
<1>9. \A x : x \in Y <=> \E i \in T : x = [id |-> i, state |-> rows'[i].state, rev |-> rows'[i].rev, set |-> rows'[i].set]
  BY <1>2, <1>7 DEF Listing
<1>10. \A x : x \in X <=> x \in Y
  BY <1>4, <1>5, <1>8, <1>9
<1>11. X = Y
  BY <1>10
<1>12. QED
  BY <1>6, <1>7, <1>11

LEMMA ListKept ==
  ASSUME NEW t, ListTrue(t), Current(t)' => Current(t), NEW a, a = cache[t].as,
         Current(t)' => Listing(t, a)' = Listing(t, a),
         cache'[t] = cache[t]
  PROVE  ListTrue(t)'
<1>1. SUFFICES ASSUME Current(t)' PROVE (/\ AtRest(t) => cache[t].data = Listing(t, a)
                                         /\ cache[t].fetch = "back" => cache[t].got = Listing(t, a))'
  BY DEF ListTrue, Listing, RowsOf
<1>2. QED
  BY <1>1 DEF ListTrue, AtRest

-----------------------------------------------------------------------------
(***************************************************************************)
(* Lists under the server.                                                 *)
(***************************************************************************)
\* what makes a list one that was not current before
Fades(t) ==
  /\ t \in past.missed => t \in past'.missed
  /\ auth.closed \subseteq auth'.closed
  /\ cache'[t].as = cache[t].as
  /\ \A c \in DOMAIN calls : (calls[c].pc = "ok" /\ t \in Invalidates(c)) =>
       \/ t \in past'.missed
       \/ /\ c \in DOMAIN calls' /\ calls'[c].pc = "ok"
          /\ calls'[c].op = calls[c].op /\ calls'[c].table = calls[c].table

LEMMA FadesCurrent ==
  ASSUME NEW t, Fades(t), Current(t)' PROVE Current(t)
<1>1. t \notin past.missed /\ cache[t].as \notin auth.closed
  BY DEF Fades, Current
<1>2. ASSUME NEW c \in DOMAIN calls, calls[c].pc = "ok", t \in Invalidates(c) PROVE FALSE
  BY <1>2 DEF Fades, Current, Invalidates
<1>3. QED
  BY <1>1, <1>2 DEF Current

\* the calls that are answered go on being that
LEMMA StayFades ==
  ASSUME Stay, NEW t, t \in past.missed => t \in past'.missed,
         auth.closed \subseteq auth'.closed, cache'[t].as = cache[t].as,
         \A c \in DOMAIN calls : calls[c].pc = "ok" /\ t \in Invalidates(c) =>
           calls'[c].pc = "ok" \/ t \in past'.missed
  PROVE  Fades(t)
BY DEF Stay, Fixed, Fades

LEMMA RowsKept ==
  ASSUME NEW t, NEW a, UNCHANGED rows PROVE Listing(t, a)' = Listing(t, a)
BY ListingKept DEF SameRow

LEMMA FadeKept ==
  ASSUME NEW t, ListTrue(t), Fades(t), cache'[t] = cache[t],
         Current(t)' => \A a : a = cache[t].as => Listing(t, a)' = Listing(t, a)
  PROVE  ListTrue(t)'
<1>1. Current(t)' => Current(t)
  BY FadesCurrent
<1>2. QED
  BY <1>1, ListKept

-----------------------------------------------------------------------------
\* a call that changes a row names the lists the row is in
LEMMA InvalidatesTable ==
  ASSUME Shapes, NEW c \in DOMAIN calls, calls[c].op \notin Silent,
         NEW t \in Table, calls[c].table = TableOf(t)
  PROVE  t \in Invalidates(c)
BY DEF Invalidates, TableOf

\* what the server did for a call is still to be told
LEMMA DoneTells ==
  ASSUME Typed, Stay, NEW c \in DOMAIN calls, NEW t, t \in Invalidates(c),
         calls[c].pc \in {"sent", "orphan"}, calls'[c].pc = Done(c),
         Unheard(c) \subseteq past'.missed
  PROVE  ~Current(t)'
<1>1. CASE calls[c].pc = "sent"
  <2>1. calls'[c].pc = "ok" /\ c \in DOMAIN calls'
    BY <1>1 DEF Done, Stay
  <2>2. t \in Invalidates(c)'
    BY DEF Stay, Fixed, Invalidates
  <2>3. QED
    BY <2>1, <2>2 DEF Current
<1>2. CASE calls[c].pc = "orphan"
  BY <1>2 DEF Unheard, Current
<1>3. QED
  BY <1>1, <1>2

LEMMA OneFades ==
  ASSUME Typed, Stay, NEW c \in DOMAIN calls, Only(c), calls[c].pc # "ok", NEW t,
         t \in past.missed => t \in past'.missed,
         auth.closed \subseteq auth'.closed, cache'[t] = cache[t]
  PROVE  Fades(t)
<1>1. \A d \in DOMAIN calls : calls[d].pc = "ok" => calls'[d].pc = "ok"
  BY DEF Only
<1>2. QED
  BY <1>1, StayFades

LEMMA CreatesLists ==
  ASSUME Typed, Shapes, NEW c \in DOMAIN calls, ServerCreates(c), NEW t \in Table, ListTrue(t)
  PROVE  ListTrue(t)'
<1>1. PICK i \in Ids, s \in {"on", "off"} :
           /\ Stay /\ Only(c) /\ calls[c].op \in DOMAIN Creates
           /\ rows[i].state = "unborn" /\ calls'[c].pc = Done(c)
           /\ \A j \in Ids : j # i => rows'[j] = rows[j]
           /\ rows'[i].table = calls[c].table
           /\ past'.missed = past.missed \union Unheard(c)
           /\ UNCHANGED <<auth, cache>>
  BY CreatesIs
<1>2. calls[c].pc \in {"sent", "orphan"}
  BY DEF ServerCreates, AtServer
<1>3. Fades(t)
  BY <1>1, <1>2, OneFades
<1>4. ASSUME Current(t)', NEW a PROVE Listing(t, a)' = Listing(t, a)
  <2>1. calls[c].table # TableOf(t)
    <3>1. calls[c].op \notin Silent
      BY <1>1, OpNames DEF Silent, Free
    <3>2. QED
      BY <1>1, <1>2, <1>4, <3>1, InvalidatesTable, DoneTells
  <2>2. ASSUME NEW j \in Ids, Counts(j, t, a) \/ Counts(j, t, a)' PROVE SameRow(j)
    <3>1. CASE j # i
      BY <1>1, <3>1 DEF SameRow
    <3>2. CASE j = i
      <4>1. ~Counts(j, t, a)
        BY <1>1, <3>2 DEF Counts, Living
      <4>2. ~Counts(j, t, a)'
        BY <1>1, <2>1, <3>2 DEF Counts, RowsOf, TableOf
      <4>3. QED
        BY <2>2, <4>1, <4>2
    <3>3. QED
      BY <3>1, <3>2
  <2>3. QED
    BY <2>2, ListingKept
<1>5. QED
  BY <1>1, <1>3, <1>4, FadeKept

LEMMA ChangesLists ==
  ASSUME Typed, Shapes, NEW c \in DOMAIN calls, ServerChanges(c), NEW t \in Table, ListTrue(t)
  PROVE  ListTrue(t)'
<1> DEFINE i == calls[c].id
<1> DEFINE op == calls[c].op
<1>1. /\ Stay /\ Only(c) /\ op \notin DOMAIN Creates \union Free /\ i \in Ids
      /\ calls'[c].pc = Done(c) /\ \A j \in Ids : j # i => rows'[j] = rows[j]
      /\ rows'[i].table = rows[i].table /\ rows'[i].acct = rows[i].acct
      /\ op \notin DOMAIN Sets => rows'[i].state = rows[i].state
      /\ op \notin Edits => rows'[i].rev = rows[i].rev
      /\ op \notin DOMAIN Saves => rows'[i].set = rows[i].set
      /\ past'.missed = past.missed \union Unheard(c) \union AlsoChanges(op)
      /\ UNCHANGED <<auth, cache>>
  BY ChangesIs
<1>2. calls[c].pc \in {"sent", "orphan"}
  BY DEF ServerChanges, AtServer
<1>3. Fades(t)
  BY <1>1, <1>2, OneFades
<1>4. ASSUME Current(t)', NEW a PROVE Listing(t, a)' = Listing(t, a)
  <2>1. op \in OfRow => rows[i].table # TableOf(t)
    <3>1. SUFFICES ASSUME op \in OfRow, rows[i].table = TableOf(t) PROVE FALSE
      OBVIOUS
    <3>2. calls[c].table = TableOf(t)
      BY <3>1 DEF Shapes, Shape, IsRow
    <3>3. CASE op \notin DOMAIN Saves
      <4>1. t \in Invalidates(c)
        <5>1. op \notin Silent
          BY <3>1, <3>3, OpNames DEF OfRow, Edits, Silent, Free
        <5>2. QED
          BY <3>2, <5>1, InvalidatesTable
      <4>2. Unheard(c) \subseteq past'.missed
        BY <1>1
      <4>3. QED
        BY <1>1, <1>2, <1>4, <4>1, <4>2, DoneTells
    <3>4. CASE op \in DOMAIN Saves
      <4>1. t = "me"
        BY <3>2, <3>4 DEF Shapes, Shape, TableOf
      <4>2. t \in past'.missed
        BY <1>1, <3>4, <4>1 DEF AlsoChanges
      <4>3. QED
        BY <1>4, <4>2 DEF Current
    <3>5. QED
      BY <3>3, <3>4
  <2>2. ASSUME NEW j \in Ids, Counts(j, t, a) \/ Counts(j, t, a)' PROVE SameRow(j)
    <3>1. CASE j # i
      BY <1>1, <3>1 DEF SameRow
    <3>2. CASE j = i
      <4>1. rows[i].table = TableOf(t)
        BY <1>1, <2>2, <3>2 DEF Counts, RowsOf, TableOf
      <4>2. op \notin OfRow
        BY <2>1, <4>1
      <4>3. QED
        BY <1>1, <3>2, <4>2 DEF SameRow, OfRow
    <3>3. QED
      BY <3>1, <3>2
  <2>3. QED
    BY <2>2, ListingKept
<1>5. QED
  BY <1>1, <1>3, <1>4, FadeKept

LEMMA FreeLists ==
  ASSUME Typed, Shapes, NEW c \in DOMAIN calls, ServerAnswersFree(c), NEW t \in Table, ListTrue(t)
  PROVE  ListTrue(t)'
<1>1. /\ Stay /\ Only(c) /\ calls[c].pc \in {"sent", "orphan"}
      /\ auth'.closed = IF calls[c].op = "delete_account" THEN auth.closed \union {calls[c].acct} ELSE auth.closed
      /\ \A j \in Ids : /\ rows'[j].table = rows[j].table /\ rows'[j].acct = rows[j].acct
                        /\ rows'[j].rev = rows[j].rev /\ rows'[j].set = rows[j].set
                        /\ calls[c].op # "delete_account" \/ rows[j].acct # calls[c].acct => rows'[j] = rows[j]
      /\ UNCHANGED <<cache, past>>
  BY AnswersFreeIs
<1>2. auth.closed \subseteq auth'.closed
  BY <1>1
<1>3. Fades(t)
  BY <1>1, <1>2, OneFades
<1>4. ASSUME Current(t)', NEW a, a = cache[t].as PROVE Listing(t, a)' = Listing(t, a)
  <2>1. calls[c].op = "delete_account" => a # calls[c].acct
    BY <1>1, <1>4 DEF Current
  <2>2. ASSUME NEW j \in Ids, Counts(j, t, a) \/ Counts(j, t, a)' PROVE SameRow(j)
    <3>1. rows[j].acct = a
      BY <1>1, <2>2 DEF Counts
    <3>2. rows'[j] = rows[j]
      BY <1>1, <2>1, <3>1
    <3>3. QED
      BY <3>2 DEF SameRow
  <2>3. QED
    BY <2>2, ListingKept
<1>5. QED
  BY <1>1, <1>3, <1>4, FadeKept

-----------------------------------------------------------------------------
(***************************************************************************)
(* Lists under answers and fetches.                                        *)
(***************************************************************************)
LEMMA InvalidatedList ==
  ASSUME Typed, NEW t \in Table, ListTrue(t), UNCHANGED rows, cache'[t] = Invalidated(t),
         t \in Mounts[place], ~Restarts(t) => Fades(t)
  PROVE  ListTrue(t)'
<1>1. CASE Restarts(t)
  <2>1. cache'[t].fetch = "out"
    BY <1>1, InvalidatedIs
  <2>2. QED
    BY <2>1 DEF ListTrue, AtRest
<1>2. CASE ~Restarts(t)
  <2>1. /\ cache'[t].loaded = cache[t].loaded /\ cache'[t].data = cache[t].data
        /\ cache'[t].fetch = cache[t].fetch /\ cache'[t].got = cache[t].got
        /\ cache'[t].as = cache[t].as
    BY <1>2, InvalidatedIs
  <2>2. SUFFICES ASSUME Current(t)'
                 PROVE  (/\ AtRest(t) => cache[t].data = Listing(t, cache[t].as)
                         /\ cache[t].fetch = "back" => cache[t].got = Listing(t, cache[t].as))'
    BY DEF ListTrue
  <2>3. cache[t].fetch # "idle" /\ ~cache[t].loaded
    BY <1>2 DEF Restarts
  <2>4. ~AtRest(t)'
    BY <2>1, <2>3 DEF AtRest
  <2>5. CASE cache[t].fetch = "back"
    <3>1. PICK a : a = cache[t].as
      OBVIOUS
    <3>2. Fades(t)
      BY <1>2
    <3>3. Current(t)
      BY <2>2, <3>2, FadesCurrent
    <3>4. Listing(t, a)' = Listing(t, a)
      BY RowsKept
    <3>5. cache'[t].got = Listing(t, a)
      BY <2>1, <2>5, <3>1, <3>3 DEF ListTrue
    <3>6. (cache[t].got = Listing(t, cache[t].as))'
      BY <2>1, <3>1, <3>4, <3>5 DEF Listing, RowsOf
    <3>7. QED
      BY <2>4, <3>6
  <2>6. CASE cache[t].fetch # "back"
    BY <2>1, <2>4, <2>6
  <2>7. QED
    BY <2>5, <2>6
<1>3. QED
  BY <1>1, <1>2

LEMMA AnswerLists ==
  ASSUME Typed, Shapes, NEW c \in DOMAIN calls, Answer(c), NEW t \in Table, ListTrue(t)
  PROVE  ListTrue(t)'
<1>1. /\ Stay /\ Only(c) /\ calls[c].pc = "ok"
      /\ cache'[t] = IF t \in Invalidates(c) THEN Invalidated(t) ELSE cache[t]
      /\ past'.missed = past.missed \union FirstAnswers(c)
      /\ auth'.closed = auth.closed /\ UNCHANGED <<place, rows>>
  <2>1. auth'.closed = auth.closed
    <3>1. PICK a \in Signed : a = calls[c].acct
      BY CallOf DEF Call
    <3>2. QED
      BY <3>1, AnswerIs, StoresIs
  <2>2. QED
    BY <2>1, AnswerIs
<1>2. CASE t \notin Invalidates(c)
  <2>1. Fades(t)
    <3>1. \A d \in DOMAIN calls : calls[d].pc = "ok" /\ t \in Invalidates(d) => calls'[d].pc = "ok"
      BY <1>1, <1>2 DEF Only
    <3>2. QED
      BY <1>1, <1>2, <3>1, StayFades
  <2>2. QED
    BY <1>1, <1>2, <2>1, RowsKept, FadeKept
<1>3. CASE t \in Invalidates(c)
  <2>1. SUFFICES ASSUME Current(t)' PROVE ListTrue(t)'
    BY DEF ListTrue
  <2>2. t \notin FirstAnswers(c)
    BY <1>1, <2>1 DEF Current
  <2>3. cache[t].fetch = "back" => cache[t].loaded /\ t \in Mounts[place]
    BY <1>3, <2>2 DEF FirstAnswers
  <2>4. CASE Restarts(t)
    <3>1. cache'[t].fetch = "out"
      BY <1>1, <1>3, <2>4, InvalidatedIs
    <3>2. QED
      BY <3>1 DEF ListTrue, AtRest
  <2>5. CASE ~Restarts(t)
    <3>1. /\ cache'[t].loaded = cache[t].loaded /\ cache'[t].fetch = cache[t].fetch
          /\ cache'[t].stale <=> cache[t].stale \/ cache[t].loaded
      BY <1>1, <1>3, <2>5, InvalidatedIs
    <3>2. ~AtRest(t)'
      BY <3>1 DEF AtRest
    <3>3. cache[t].fetch # "back"
      BY <2>3, <2>5 DEF Restarts
    <3>4. QED
      BY <3>1, <3>2, <3>3 DEF ListTrue
  <2>6. QED
    BY <2>4, <2>5
<1>4. QED
  BY <1>2, <1>3

LEMMA LoseLists ==
  ASSUME Typed, Shapes, NEW c \in DOMAIN calls, Lose(c), NEW t \in Table, ListTrue(t)
  PROVE  ListTrue(t)'
<1>1. /\ Stay /\ Only(c) /\ past'.missed = past.missed \union Invalidates(c)
      /\ UNCHANGED <<auth, rows, cache>>
  BY LoseIs
<1>2. \A d \in DOMAIN calls : calls[d].pc = "ok" /\ t \in Invalidates(d) =>
        calls'[d].pc = "ok" \/ t \in past'.missed
  BY <1>1 DEF Only
<1>3. Fades(t)
  BY <1>1, <1>2, StayFades
<1>4. QED
  BY <1>1, <1>3, RowsKept, FadeKept

LEMMA DeniedLists ==
  ASSUME Typed, Shapes, NEW c \in DOMAIN calls,
         ServerRefuses(c) \/ CallDenied(c) \/ OrphanDenied(c), NEW t \in Table, ListTrue(t)
  PROVE  ListTrue(t)'
<1>1. /\ Stay /\ Only(c) /\ calls[c].pc # "ok" /\ past'.missed = past.missed
      /\ auth'.closed = auth.closed /\ UNCHANGED <<rows, cache>>
  <2>1. CASE ServerRefuses(c)
    BY <2>1, RefusesIs DEF ServerRefuses
  <2>2. CASE CallDenied(c)
    BY <2>2, CallDeniedIs, AuthIs DEF CallDenied
  <2>3. CASE OrphanDenied(c)
    BY <2>3, OrphanDeniedIs
  <2>4. QED
    BY <2>1, <2>2, <2>3
<1>2. Fades(t)
  BY <1>1, OneFades
<1>3. QED
  BY <1>1, <1>2, RowsKept, FadeKept

LEMMA ServesLists ==
  ASSUME Typed, Shapes, NEW c \in DOMAIN calls, Serves(c), NEW t \in Table, ListTrue(t)
  PROVE  ListTrue(t)'
BY CreatesLists, ChangesLists, FreeLists, AnswerLists, LoseLists, DeniedLists DEF Serves

-----------------------------------------------------------------------------
\* Fetches
LEMMA SettleFades ==
  ASSUME Typed, NEW u \in Table, calls' = Settled(u), NEW t,
         past'.missed = past.missed, auth'.closed = auth.closed, cache'[t].as = cache[t].as
  PROVE  Fades(t)
<1>1. Stay /\ \A d \in DOMAIN calls : calls[d].pc = "ok" => calls'[d].pc = "ok"
  BY SettleEffect
<1>2. QED
  BY <1>1, StayFades

LEMMA SameFades ==
  ASSUME Typed, UNCHANGED calls, NEW t, t \in past.missed => t \in past'.missed,
         auth'.closed = auth.closed, cache'[t].as = cache[t].as
  PROVE  Fades(t)
BY DEF Fades

LEMMA FetchLists ==
  ASSUME Typed, NEW u \in Table, Fetches(u), NEW t \in Table, ListTrue(t)
  PROVE  ListTrue(t)'
<1>1. CASE Refetches(u)
  <2>1. /\ UNCHANGED <<auth, rows, calls, past>> /\ \A v \in Table : v # u => cache'[v] = cache[v]
        /\ cache'[u].fetch = "out"
    BY <1>1, RefetchesIs DEF Refetches
  <2>2. CASE t = u
    BY <2>1, <2>2 DEF ListTrue, AtRest
  <2>3. CASE t # u
    BY <2>1, <2>3, SameFades, RowsKept, FadeKept
  <2>4. QED
    BY <2>2, <2>3
<1>2. CASE FetchServed(u)
  <2>1. /\ UNCHANGED <<auth, rows, calls>> /\ \A v \in Table : v # u => cache'[v] = cache[v]
        /\ cache'[u].fetch = "back" /\ cache'[u].got = Listing(u, cache[u].as)
        /\ cache'[u].as = cache[u].as /\ past'.missed = past.missed \ {u}
    BY <1>2, FetchServedIs
  <2>2. CASE t = u
    <3>1. PICK a : a = cache[t].as
      OBVIOUS
    <3>2. Listing(t, a)' = Listing(t, a)
      BY <2>1, RowsKept
    <3>3. (cache[t].got = Listing(t, cache[t].as))'
      BY <2>1, <2>2, <3>1, <3>2 DEF Listing, RowsOf
    <3>4. QED
      BY <2>1, <2>2, <3>3 DEF ListTrue, AtRest
  <2>3. CASE t # u
    BY <2>1, <2>3, SameFades, RowsKept, FadeKept
  <2>4. QED
    BY <2>2, <2>3
<1>3. CASE FetchFails(u) \/ FetchDenied(u)
  <2>1. /\ calls' = Settled(u) /\ \A v \in Table : v # u => cache'[v] = cache[v]
        /\ cache'[u].fetch = "idle" /\ cache'[u].error
        /\ past'.missed = past.missed /\ auth'.closed = auth.closed /\ rows' = rows
    BY <1>3, FetchFailsIs, FetchDeniedIs, AuthIs
  <2>2. CASE t = u
    BY <2>1, <2>2 DEF ListTrue, AtRest
  <2>3. CASE t # u
    BY <2>1, <2>3, SettleFades, RowsKept, FadeKept
  <2>4. QED
    BY <2>2, <2>3
<1>4. CASE FetchArrives(u)
  <2>1. auth'.closed = auth.closed
    <3>1. PICK a \in Signed : a = cache[u].as
      BY CacheOf DEF Query
    <3>2. QED
      BY <1>4, <3>1, FetchArrivesIs, StoresIs
  <2>2. /\ calls' = Settled(u) /\ \A v \in Table : v # u => cache'[v] = cache[v]
        /\ cache[u].fetch = "back" /\ cache'[u].fetch = "idle" /\ cache'[u].data = cache[u].got
        /\ cache'[u].as = cache[u].as /\ UNCHANGED <<rows, past>>
    BY <1>4, FetchArrivesIs
  <2>3. CASE t = u
    <3>1. PICK a : a = cache[t].as
      OBVIOUS
    <3>2. Listing(t, a)' = Listing(t, a)
      BY <2>2, RowsKept
    <3>3. SUFFICES ASSUME Current(t)' PROVE (cache[t].data = Listing(t, cache[t].as))'
      BY <2>2, <2>3 DEF ListTrue
    <3>4. Current(t)
      BY <2>1, <2>2, <2>3, <3>3, SettleFades, FadesCurrent
    <3>5. cache'[t].data = Listing(t, a)
      BY <2>2, <2>3, <3>1, <3>4 DEF ListTrue
    <3>6. QED
      BY <2>2, <2>3, <3>1, <3>2, <3>5 DEF Listing, RowsOf
  <2>4. CASE t # u
    BY <2>1, <2>2, <2>4, SettleFades, RowsKept, FadeKept
  <2>5. QED
    BY <2>3, <2>4
<1>5. QED
  BY <1>1, <1>2, <1>3, <1>4 DEF Fetches

-----------------------------------------------------------------------------
(***************************************************************************)
(* Lists when the page changes, and every step.                            *)
(***************************************************************************)
LEMMA RouteLists ==
  ASSUME Typed, NEW p \in Place, Route(p), NEW t \in Table, ListTrue(t), Stay,
         \A d \in DOMAIN calls : calls[d].pc = "ok" => calls'[d].pc = "ok"
  PROVE  ListTrue(t)'
<1>1. UNCHANGED <<auth, rows>> /\ past'.missed = past.missed
  BY RouteIs
<1>2. cache'[t] = cache[t] \/ cache'[t].fetch = "out"
  BY RouteIs, CacheOf, OnMountIs, StartedIs
<1>3. CASE cache'[t] = cache[t]
  <2>1. Fades(t)
    BY <1>1, <1>3, StayFades
  <2>2. QED
    BY <1>1, <1>3, <2>1, RowsKept, FadeKept
<1>4. CASE cache'[t].fetch = "out"
  BY <1>4 DEF ListTrue, AtRest
<1>5. QED
  BY <1>2, <1>3, <1>4

LEMMA OutsideLists ==
  ASSUME Typed, NEW i \in Ids, Outside(i), NEW t \in Table, ListTrue(t)
  PROVE  ListTrue(t)'
<1>1. /\ UNCHANGED <<auth, cache, calls>> /\ \A j \in Ids : j # i => rows'[j] = rows[j]
      /\ rows'[i].table = rows[i].table
      /\ past'.missed = past.missed \union {u \in Table : i \in RowsOf(u)}
  BY OutsideIs
<1>2. Fades(t)
  BY <1>1, SameFades
<1>3. ASSUME Current(t)', NEW a PROVE Listing(t, a)' = Listing(t, a)
  <2>1. i \notin RowsOf(t)
    BY <1>1, <1>3 DEF Current
  <2>2. ASSUME NEW j \in Ids, Counts(j, t, a) \/ Counts(j, t, a)' PROVE SameRow(j)
    <3>1. j # i
      <4>1. j \in RowsOf(t) \/ j \in RowsOf(t)'
        BY <2>2 DEF Counts
      <4>2. QED
        BY <1>1, <2>1, <4>1 DEF RowsOf
    <3>2. QED
      BY <1>1, <3>1 DEF SameRow
  <2>3. QED
    BY <2>2, ListingKept
<1>4. QED
  BY <1>1, <1>2, <1>3, FadeKept

LEMMA PollLists ==
  ASSUME Typed, PollSetup, NEW t \in Table, ListTrue(t)
  PROVE  ListTrue(t)'
<1>1. /\ UNCHANGED <<auth, rows, calls, past>> /\ place \in {"providers", "routing"}
      /\ \A u \in Table : u # "providers" => cache'[u] = cache[u]
      /\ cache'["providers"] = Invalidated("providers")
  BY PollSetupTyped DEF PollSetup
<1>2. CASE t # "providers"
  BY <1>1, <1>2, SameFades, RowsKept, FadeKept
<1>3. CASE t = "providers"
  <2>1. t \in Mounts[place]
    BY <1>1, <1>3 DEF Mounts
  <2>2. ~Restarts(t) => Fades(t)
    BY <1>1, <1>3, InvalidatedIs, SameFades
  <2>3. QED
    BY <1>1, <1>3, <2>1, <2>2, InvalidatedList
<1>4. QED
  BY <1>2, <1>3

LEMMA ElsewhereLists ==
  ASSUME Typed, Elsewhere, NEW t \in Table, ListTrue(t)
  PROVE  ListTrue(t)'
<1>1. CASE PollSetup
  BY <1>1, PollLists
<1>2. CASE \E i \in Ids : Outside(i)
  BY <1>2, OutsideLists
<1>3. CASE SignOut \/ OtherTab \/ TokenExpires \/ CookieExpires \/ UNCHANGED cvars
  <2>1. UNCHANGED <<rows, cache, calls>> /\ auth'.closed = auth.closed /\ past'.missed = past.missed
    <3>1. CASE SignOut
      BY <3>1, AuthIs DEF SignOut
    <3>2. CASE OtherTab \/ TokenExpires \/ CookieExpires
      BY <3>2, SessionEventIs
    <3>3. CASE UNCHANGED cvars
      BY <3>3 DEF cvars
    <3>4. QED
      BY <1>3, <3>1, <3>2, <3>3
  <2>2. Fades(t)
    BY <2>1, SameFades
  <2>3. QED
    BY <2>1, <2>2, RowsKept, FadeKept
<1>4. QED
  BY <1>1, <1>2, <1>3 DEF Elsewhere

LEMMA HandlerLists ==
  ASSUME Typed, NEW c \in DOMAIN calls, HandlerEnds(c), NEW t \in Table, ListTrue(t)
  PROVE  ListTrue(t)'
<1>1. /\ Stay /\ Only(c) /\ calls[c].pc # "ok"
  BY HandlerEndsEnds DEF Ends
<1>2. UNCHANGED <<rows, cache, past>>
  BY HandlerFrame
<1>3. auth'.closed = auth.closed
  <2>1. CASE HandleCredentials(c)
    <3>1. PICK a \in Signed : a = calls[c].acct
      BY CallOf DEF Call
    <3>2. QED
      BY <2>1, <3>1, HandlesCredentialsIs, StoresIs
  <2>2. CASE HandleDeleteProject(c)
    BY <2>2, HandlesDeleteIs, AuthIs
  <2>3. CASE UNCHANGED auth
    BY <2>3
  <2>4. QED
    BY <2>1, <2>2, <2>3, HandlerFrame
<1>4. Fades(t)
  BY <1>1, <1>2, <1>3, OneFades
<1>5. QED
  BY <1>2, <1>4, RowsKept, FadeKept

LEMMA UserLists ==
  ASSUME Typed, UserSends \/ UserShows, NEW t \in Table, ListTrue(t)
  PROVE  ListTrue(t)'
<1>1. UNCHANGED <<auth, rows, cache>> /\ past'.missed = past.missed
  BY SendsFrame, ShowsFrame DEF SameHistory
<1>2. \A c \in DOMAIN calls : /\ c \in DOMAIN calls' /\ calls'[c].pc = calls[c].pc
                              /\ calls'[c].op = calls[c].op /\ calls'[c].table = calls[c].table
  <2>1. CASE UserSends
    <3>1. PICK n \in Call : Sent(n)
      BY <2>1, SendsOne
    <3>2. QED
      BY <3>1, AppendEffect DEF Sent
  <2>2. CASE UserShows
    BY <2>2, ShowsStay DEF Stay, Fixed
  <2>3. QED
    BY <2>1, <2>2
<1>3. Fades(t)
  BY <1>1, <1>2 DEF Fades
<1>4. QED
  BY <1>1, <1>3, RowsKept, FadeKept

LEMMA LoadLists ==
  ASSUME Typed, Load, NEW t \in Table
  PROVE  ListTrue(t)'
<1>1. PICK p \in Place : p = place' /\ cache' = Loaded(p)
  BY LoadIs, PlaceNames
<1>2. ~cache'[t].loaded /\ cache'[t].fetch \in {"out", "idle"}
  BY <1>1, LoadedIs
<1>3. QED
  BY <1>2 DEF ListTrue, AtRest

LEMMA StepListsTrue ==
  ASSUME Typed, Calling, Shapes, ListsTrue, Step
  PROVE  ListsTrue'
<1>1. ASSUME NEW t \in Table PROVE ListTrue(t)'
  <2>1. ListTrue(t)
    BY DEF ListsTrue, ListTrue
  <2>2. CASE UserSends \/ UserShows
    BY <2>1, <2>2, UserLists
  <2>3. CASE \E c \in DOMAIN calls : Serves(c) \/ HandlerEnds(c)
    BY <2>1, <2>3, ServesLists, HandlerLists
  <2>4. CASE \E c \in DOMAIN calls, p \in Place : Returns(c, p)
    <3>1. PICK c \in DOMAIN calls, p \in Place : Returns(c, p)
      BY <2>4
    <3>2. Stay /\ Only(c) /\ Route(p) /\ calls[c].pc = "won"
      BY <3>1, ReturnsIs
    <3>3. \A d \in DOMAIN calls : calls[d].pc = "ok" => calls'[d].pc = "ok"
      BY <3>2 DEF Only
    <3>4. QED
      BY <2>1, <3>2, <3>3, RouteLists
  <2>5. CASE \E u \in Table : Fetches(u)
    BY <2>1, <2>5, FetchLists
  <2>6. CASE \E p \in Place : Follows(p)
    <3>1. PICK p \in Place : Follows(p)
      BY <2>6
    <3>2. Stay /\ Route(p) /\ calls' = calls
      BY <3>1, FollowsLeaves DEF Leaves
    <3>3. QED
      BY <2>1, <3>2, RouteLists
  <2>7. CASE Load
    BY <2>7, LoadLists
  <2>8. CASE Elsewhere
    BY <2>1, <2>8, ElsewhereLists
  <2>9. QED
    BY <2>2, <2>3, <2>4, <2>5, <2>6, <2>7, <2>8 DEF Step
<1>2. QED
  BY <1>1 DEF ListsTrue, ListTrue

-----------------------------------------------------------------------------
(***************************************************************************)
(* What a step makes of a list, and of the revision and switches of the    *)
(* row there is from the start.                                            *)
(***************************************************************************)
Holds(t)   == /\ cache'[t].loaded = cache[t].loaded /\ cache'[t].data = cache[t].data
              /\ cache'[t].fetch = cache[t].fetch /\ cache'[t].got = cache[t].got
              /\ cache'[t].error = cache[t].error
Starts(t)  == /\ cache'[t].loaded = cache[t].loaded /\ cache'[t].data = cache[t].data
              /\ cache'[t].fetch = "out" /\ cache'[t].got = {}
              /\ cache'[t].error <=> cache[t].error /\ cache[t].loaded
Served(t)  == /\ cache'[t].loaded = cache[t].loaded /\ cache'[t].data = cache[t].data
              /\ cache[t].fetch = "out" /\ cache'[t].fetch = "back"
              /\ cache'[t].got = Listing(t, cache[t].as)
              /\ cache'[t].error = cache[t].error /\ rows' = rows
Arrives(t) == /\ cache'[t].loaded /\ cache'[t].data = cache[t].got /\ cache[t].fetch = "back"
              /\ cache'[t].fetch = "idle" /\ ~cache'[t].error /\ cache'[t].got = {}
Fails(t)   == /\ cache'[t].loaded = cache[t].loaded /\ cache'[t].data = cache[t].data
              /\ cache'[t].fetch = "idle" /\ cache'[t].error /\ cache'[t].got = cache[t].got
Empties(t) == /\ ~cache'[t].loaded /\ cache'[t].data = {} /\ cache'[t].got = {}
              /\ cache'[t].fetch # "back"

ListStep(t) == Holds(t) \/ Starts(t) \/ Served(t) \/ Arrives(t) \/ Fails(t) \/ Empties(t)

LEMMA InvalidatedStep ==
  ASSUME Typed, NEW t \in Table, cache'[t] = Invalidated(t)
  PROVE  (Holds(t) /\ ~Restarts(t)) \/ Starts(t)
<1>1. CASE Restarts(t)
  BY <1>1, InvalidatedIs DEF Starts
<1>2. CASE ~Restarts(t)
  BY <1>2, InvalidatedIs DEF Holds
<1>3. QED
  BY <1>1, <1>2

LEMMA RouteStep ==
  ASSUME Typed, NEW p \in Place, Route(p), NEW t \in Table
  PROVE  Holds(t) \/ Starts(t)
<1>1. cache'[t] = cache[t] \/ cache'[t] = Started(cache[t])
  BY RouteIs, CacheOf, OnMountIs
<1>2. CASE cache'[t] = cache[t]
  BY <1>2 DEF Holds
<1>3. CASE cache'[t] = Started(cache[t])
  BY <1>3, CacheOf, StartedIs DEF Starts
<1>4. QED
  BY <1>1, <1>2, <1>3

LEMMA FetchStep ==
  ASSUME Typed, NEW u \in Table, Fetches(u), NEW t \in Table
  PROVE  /\ t # u => Holds(t)
         /\ t = u => Starts(t) \/ Served(t) \/ Arrives(t) \/ Fails(t)
         /\ t = u /\ (Arrives(t) \/ Fails(t)) => calls' = Settled(t)
         /\ t = u /\ ~(Arrives(t) \/ Fails(t)) => calls' = calls
<1>1. CASE t # u
  BY <1>1, FetchesFrame DEF Holds
<1>2. CASE t = u
  <2>1. CASE FetchServed(t)
    BY <2>1, <1>2, FetchServedIs DEF Served, Arrives, Fails
  <2>2. CASE FetchArrives(t)
    BY <2>2, <1>2, FetchArrivesIs DEF Arrives
  <2>3. CASE FetchFails(t)
    BY <2>3, <1>2, FetchFailsIs DEF Fails
  <2>4. CASE FetchDenied(t)
    BY <2>4, <1>2, FetchDeniedIs DEF Fails
  <2>5. CASE Refetches(t)
    <3>1. Starts(t) /\ calls' = calls
      BY <2>5, RefetchesIs DEF Starts, Refetches
    <3>2. QED
      BY <1>2, <3>1 DEF Starts, Arrives, Fails
  <2>6. QED
    BY <1>2, <2>1, <2>2, <2>3, <2>4, <2>5 DEF Fetches
<1>3. QED
  BY <1>1, <1>2

LEMMA LoadStep ==
  ASSUME Typed, Load, NEW t \in Table PROVE Empties(t)
<1>1. PICK p \in Place : p = place' /\ cache' = Loaded(p)
  BY LoadIs, PlaceNames
<1>2. QED
  BY <1>1, LoadedIs DEF Empties

LEMMA ServesStep ==
  ASSUME Typed, Shapes, NEW c \in DOMAIN calls, Serves(c), NEW t \in Table
  PROVE  Holds(t) \/ Starts(t)
<1>1. CASE Answer(c)
  <2>1. cache'[t] = Invalidated(t) \/ cache'[t] = cache[t]
    BY <1>1, AnswerIs
  <2>2. QED
    BY <2>1, InvalidatedStep DEF Holds
<1>2. CASE ~Answer(c)
  BY <1>2, ServesCache DEF Holds
<1>3. QED
  BY <1>1, <1>2

LEMMA ElsewhereStep ==
  ASSUME Typed, Elsewhere, NEW t \in Table
  PROVE  Holds(t) \/ Starts(t)
<1>1. CASE PollSetup
  <2>1. cache'[t] = Invalidated(t) \/ cache'[t] = cache[t]
    BY <1>1, PollSetupTyped
  <2>2. QED
    BY <2>1, InvalidatedStep DEF Holds
<1>2. CASE ~PollSetup
  BY <1>2, ElsewhereCache DEF Holds
<1>3. QED
  BY <1>1, <1>2

-----------------------------------------------------------------------------
\* the first row, once it is there, is not made again, its revision grows and
\* its switches change when they are saved
FirstStays == /\ rows[First].rev <= rows'[First].rev
              /\ rows'[First].set = rows[First].set

LEMMA FirstIs ==
  ASSUME Typed
  PROVE  First \in Ids /\ rows[First] \in Row /\ rows[First].rev \in Nat
BY ClientAssumption DEF Typed, Row

LEMMA SameRows ==
  ASSUME Typed, UNCHANGED rows PROVE FirstStays
BY FirstIs DEF FirstStays

LEMMA ServesFirst ==
  ASSUME Typed, Shapes, NEW c \in DOMAIN calls, Serves(c), rows[First].state # "unborn"
  PROVE  FirstStays \/ (ServerChanges(c) /\ calls[c].op \in DOMAIN Saves)
<1>1. CASE ServerCreates(c)
  BY <1>1, CreatesIs, FirstIs DEF FirstStays
<1>2. CASE ServerChanges(c) /\ calls[c].op \notin DOMAIN Saves
  <2>1. PICK i : i = calls[c].id
    OBVIOUS
  <2>2. /\ \A j \in Ids : j # i => rows'[j] = rows[j]
        /\ rows'[i].rev = rows[i].rev \/ rows'[i].rev = rows[i].rev + 1
        /\ rows'[i].set = rows[i].set
    BY <1>2, <2>1, ChangesIs
  <2>3. CASE i = First
    BY <2>2, <2>3, FirstIs DEF FirstStays
  <2>4. CASE i # First
    BY <2>2, <2>4, FirstIs DEF FirstStays
  <2>5. QED
    BY <2>3, <2>4
<1>3. CASE ServerAnswersFree(c)
  <2>1. \A j \in Ids : rows'[j].rev = rows[j].rev /\ rows'[j].set = rows[j].set
    BY <1>3, AnswersFreeIs
  <2>2. QED
    BY <2>1, FirstIs DEF FirstStays
<1>4. CASE ~ServerCreates(c) /\ ~ServerChanges(c) /\ ~ServerAnswersFree(c)
  <2>1. UNCHANGED rows
    BY <1>4 DEF Serves, ServerRefuses, Answer, CallDenied, OrphanDenied, Lose, Denied
  <2>2. QED
    BY <2>1, SameRows
<1>5. QED
  BY <1>1, <1>2, <1>3, <1>4

LEMMA ElsewhereFirst ==
  ASSUME Typed, Elsewhere PROVE FirstStays
<1>1. CASE \E i \in Ids : Outside(i)
  BY <1>1, OutsideIs, FirstIs DEF FirstStays
<1>2. CASE ~ \E i \in Ids : Outside(i)
  <2>1. UNCHANGED rows
    BY <1>2, PollSetupTyped, SessionEventIs DEF Elsewhere, SignOut, cvars
  <2>2. QED
    BY <2>1, SameRows
<1>3. QED
  BY <1>1, <1>2

-----------------------------------------------------------------------------
(***************************************************************************)
(* The template's form: a save that was heard is in what is shown.         *)
(***************************************************************************)
LEMMA DetailTables == "template" \in Table /\ "me" \in Table
  BY PlaceNames

LEMMA ListingFirst ==
  ASSUME Typed, NEW a, NEW x \in Listing("template", a)
  PROVE  x.rev = rows[First].rev
<1>1. x.id \in RowsOf("template") /\ x.rev = rows[x.id].rev
  BY ListingTyped
<1>2. QED
  BY <1>1 DEF RowsOf

LEMMA AnswerKept ==
  ASSUME Typed, ListStep("template"), NEW c \in DOMAIN calls, calls'[c].rev = calls[c].rev,
         calls[c].rev <= rows[First].rev, AnswerNotOlder(c)
  PROVE  AnswerNotOlder(c)'
<1>1. CASE Holds("template")
  BY <1>1 DEF Holds, AnswerNotOlder, NotOlder
<1>2. CASE Served("template")
  <2>1. \A x \in cache'["template"].got : x.rev = rows[First].rev
    BY <1>2, ListingFirst DEF Served
  <2>2. rows[First].rev \in Nat /\ calls[c].rev \in Nat
    BY FirstIs, CallOf DEF Call
  <2>3. \A x \in cache'["template"].got : x.rev >= calls'[c].rev
    BY <2>1, <2>2
  <2>4. QED
    BY <2>3 DEF AnswerNotOlder, NotOlder
<1>3. CASE ~Holds("template") /\ ~Served("template")
  <2>1. cache'["template"].fetch # "back"
    BY <1>3 DEF ListStep, Starts, Arrives, Fails, Empties
  <2>2. QED
    BY <2>1 DEF AnswerNotOlder
<1>4. QED
  BY <1>1, <1>2, <1>3

LEMMA ArrivesKept ==
  ASSUME Typed, Arrives("template") \/ Fails("template"), NEW c \in DOMAIN calls,
         calls'[c].rev = calls[c].rev, AnswerNotOlder(c)
  PROVE  (~cache["template"].error => NotOlder(cache["template"].data, c))'
BY DEF Arrives, Fails, AnswerNotOlder, NotOlder

LEMMA DataKept ==
  ASSUME Typed, RowsKnown, ListStep("template"), NEW c \in DOMAIN calls,
         calls'[c].rev = calls[c].rev, AnswerNotOlder(c),
         ~cache["template"].error => NotOlder(cache["template"].data, c)
  PROVE  (~cache["template"].error => NotOlder(cache["template"].data, c))'
<1>1. CASE Arrives("template") \/ Fails("template")
  BY <1>1, ArrivesKept
<1>2. CASE Holds("template") \/ Served("template")
  BY <1>2 DEF Holds, Served, NotOlder
<1>3. CASE Empties("template")
  BY <1>3 DEF Empties, NotOlder
<1>4. CASE Starts("template")
  <2>1. ~cache["template"].loaded => cache["template"].data = {}
    BY DetailTables DEF RowsKnown
  <2>2. QED
    BY <1>4, <2>1 DEF Starts, NotOlder
<1>5. QED
  BY <1>1, <1>2, <1>3, <1>4 DEF ListStep

LEMMA KeptSeen ==
  ASSUME Typed, Typed', RowsKnown, NEW c \in DOMAIN calls, SaveSeen(c), ListStep("template"),
         calls'[c].rev = calls[c].rev, rows[First].rev <= rows'[First].rev,
         Mounted(c)' => Mounted(c) /\ cache'["template"].loaded,
         calls'[c].followed =>
           /\ calls[c].followed \/ (Mounted(c) /\ calls[c].pc = "won")
           /\ calls'[c].pc = "over",
         Mounted(c)' /\ calls'[c].pc = "settling" =>
           calls[c].pc = "settling" /\ calls'[c].waits = calls[c].waits /\ cache'["template"].fetch # "idle",
         Mounted(c)' /\ calls'[c].pc = "won" =>
           calls[c].pc = "won" \/ (calls[c].pc = "settling" /\ (Arrives("template") \/ Fails("template")))
  PROVE  SaveSeen(c)'
<1>1. calls'[c].rev <= rows'[First].rev
  <2>1. calls[c].rev \in Nat /\ rows[First].rev \in Nat
    BY FirstIs, CallOf DEF Call
  <2>2. rows'[First].rev \in Nat
    BY ClientAssumption DEF Typed, Row
  <2>3. QED
    BY <2>1, <2>2 DEF SaveSeen
<1>2. calls[c].rev <= rows[First].rev
  BY DEF SaveSeen
<1>3. ASSUME Mounted(c)', calls'[c].pc = "settling"
      PROVE  (calls[c].waits = {"template"} /\ cache["template"].fetch # "idle" /\ AnswerNotOlder(c))'
  <2>1. calls[c].waits = {"template"} /\ AnswerNotOlder(c)
    BY <1>3 DEF SaveSeen
  <2>2. AnswerNotOlder(c)'
    BY <1>2, <2>1, AnswerKept
  <2>3. QED
    BY <1>3, <2>1, <2>2
<1>4. ASSUME calls'[c].followed \/ (Mounted(c)' /\ calls'[c].pc = "won")
      PROVE  (/\ ~cache["template"].error => NotOlder(cache["template"].data, c)
              /\ AnswerNotOlder(c))'
  <2>1. CASE calls[c].followed \/ (Mounted(c) /\ calls[c].pc = "won")
    <3>1. (~cache["template"].error => NotOlder(cache["template"].data, c)) /\ AnswerNotOlder(c)
      BY <2>1 DEF SaveSeen
    <3>2. QED
      BY <1>2, <3>1, AnswerKept, DataKept
  <2>2. CASE Mounted(c) /\ calls[c].pc = "settling" /\ (Arrives("template") \/ Fails("template"))
    <3>1. AnswerNotOlder(c)
      BY <2>2 DEF SaveSeen
    <3>2. QED
      BY <1>2, <2>2, <3>1, AnswerKept, ArrivesKept
  <2>3. QED
    BY <1>4, <2>1, <2>2
<1>5. QED
  BY <1>1, <1>3, <1>4 DEF SaveSeen

\* a list that is loaded stays loaded until the page is
LEMMA StillLoaded ==
  ASSUME NEW t, cache[t].loaded, Holds(t) \/ Starts(t) \/ Served(t) \/ Arrives(t) \/ Fails(t)
  PROVE  cache'[t].loaded
BY DEF Holds, Starts, Served, Arrives, Fails

\* the steps that leave a call of the form as it is
LEMMA SameSeen ==
  ASSUME Typed, Typed', RowsKnown, NEW c \in DOMAIN calls, SaveSeen(c),
         Holds("template") \/ Starts("template") \/ Served("template"),
         rows[First].rev <= rows'[First].rev, Mounted(c)' => Mounted(c),
         calls'[c].rev = calls[c].rev, calls'[c].pc = calls[c].pc,
         calls'[c].followed = calls[c].followed, calls'[c].waits = calls[c].waits
  PROVE  SaveSeen(c)'
<1>1. Mounted(c)' => cache'["template"].loaded
  BY StillLoaded DEF SaveSeen
<1>2. Mounted(c) /\ calls[c].pc = "settling" => cache'["template"].fetch # "idle"
  BY DEF SaveSeen, Holds, Starts, Served
<1>3. calls'[c].followed => calls'[c].pc = "over"
  BY DEF SaveSeen
<1>4. QED
  BY <1>1, <1>2, <1>3, KeptSeen DEF ListStep

\* the steps after which the call waits for nothing
LEMMA EndSeen ==
  ASSUME Typed, Typed', RowsKnown, NEW c \in DOMAIN calls, SaveSeen(c),
         Holds("template") \/ Starts("template"),
         rows[First].rev <= rows'[First].rev, Mounted(c)' => Mounted(c),
         calls'[c].rev = calls[c].rev, calls'[c].pc \notin {"settling", "won"},
         calls'[c].followed => calls[c].followed \/ (Mounted(c) /\ calls[c].pc = "won"),
         calls'[c].followed => calls'[c].pc = "over"
  PROVE  SaveSeen(c)'
<1>1. Mounted(c)' => cache'["template"].loaded
  BY StillLoaded DEF SaveSeen
<1>2. QED
  BY <1>1, KeptSeen DEF ListStep

-----------------------------------------------------------------------------
(***************************************************************************)
(* The template's form under the server and the fetches.                   *)
(***************************************************************************)
OfForm(c) == calls[c].op = "update_template"

LEMMA FormCall ==
  ASSUME Typed, Shapes, NEW c \in DOMAIN calls, OfForm(c)
  PROVE  /\ calls[c].table = "templates" /\ calls[c].id = First
         /\ rows[First].state # "unborn" /\ Invalidates(c) = {"templates", "template"}
         /\ calls[c].op \in Edits
         /\ calls[c].op \notin DOMAIN Saves \union Free \union DOMAIN Creates
         /\ calls[c].op \notin {"send_email", "login", "signup", "delete_account"}
<1>1. calls[c].table = "templates" /\ calls[c].id = First /\ IsRow(First, "templates")
  BY DEF OfForm, Shapes, Shape, OfRow, Edits
<1>2. /\ calls[c].op \in Edits /\ calls[c].op \notin Silent
      /\ calls[c].op \notin DOMAIN Saves \union Free \union DOMAIN Creates
      /\ calls[c].op \notin {"send_email", "login", "signup", "delete_account"}
  BY OpNames DEF OfForm, Edits, Silent, Free
<1>3. QED
  BY <1>1, <1>2 DEF IsRow, Invalidates

LEMMA FormPage == \A p \in Place : "update_template" \in Offers[p] => p = "template"
  BY PlaceNames DEF Offers, Saves

LEMMA TemplateMounts == Mounts["template"] = {"template"}
  BY DEF Mounts

LEMMA ServesGrow ==
  ASSUME Typed, Shapes, NEW c \in DOMAIN calls, OfForm(c), NEW d \in DOMAIN calls, Serves(d)
  PROVE  rows[First].rev <= rows'[First].rev
<1>1. rows[First].state # "unborn"
  BY FormCall
<1>2. CASE FirstStays
  BY <1>2 DEF FirstStays
<1>3. CASE ServerChanges(d) /\ calls[d].op \in DOMAIN Saves
  <2>1. calls[d].op \notin Edits
    BY <1>3, OpNames DEF Edits
  <2>2. rows'[First].rev = rows[First].rev
    BY <1>3, <2>1, ChangesIs, FirstIs
  <2>3. QED
    BY <2>2, FirstIs
<1>4. QED
  BY <1>1, <1>2, <1>3, ServesFirst

LEMMA AnswerSeen ==
  ASSUME Typed, Typed', Calling, RowsKnown, Shapes, NEW c \in DOMAIN calls, OfForm(c), SaveSeen(c),
         Answer(c)
  PROVE  SaveSeen(c)'
<1>1. /\ calls[c].pc = "ok" /\ calls'[c].pc = (IF Awaited(c) = {} THEN "won" ELSE "settling")
      /\ calls'[c].waits = Awaited(c) /\ calls'[c].rev = calls[c].rev
      /\ calls'[c].followed = calls[c].followed /\ calls'[c].visit = calls[c].visit
      /\ past'.visit = past.visit /\ rows' = rows
      /\ cache'["template"] = Invalidated("template")
  BY AnswerIs, FormCall, DetailTables DEF SameMade, SameHere, Stay, Fixed
<1>2. ~calls'[c].followed /\ calls'[c].rev <= rows'[First].rev /\ (Mounted(c)' => Mounted(c))
  BY <1>1 DEF SaveSeen, Mounted
<1>3. CASE ~Mounted(c)'
  BY <1>2, <1>3 DEF SaveSeen
<1>4. CASE Mounted(c)'
  <2>1. Mounted(c) /\ place = "template" /\ cache["template"].loaded
    BY <1>2, <1>4, FormPage DEF Calling, SentFromHere, SaveSeen, OfForm, Typed
  <2>2. Awaited(c) = {"template"}
    BY <2>1, FormCall, TemplateMounts DEF Awaited
  <2>3. Restarts("template")
    BY <2>1, TemplateMounts DEF Restarts
  <2>4. cache'["template"].fetch = "out" /\ cache'["template"].loaded
    BY <1>1, <2>1, <2>3, InvalidatedIs, DetailTables
  <2>5. AnswerNotOlder(c)'
    BY <2>4 DEF AnswerNotOlder
  <2>6. calls'[c].pc = "settling" /\ calls'[c].waits = {"template"}
    BY <1>1, <2>2
  <2>7. QED
    BY <1>2, <2>4, <2>5, <2>6 DEF SaveSeen
<1>5. QED
  BY <1>3, <1>4

LEMMA ChangeSeen ==
  ASSUME Typed, Typed', RowsKnown, Shapes, NEW c \in DOMAIN calls, OfForm(c), SaveSeen(c),
         ServerChanges(c)
  PROVE  SaveSeen(c)'
<1>1. /\ calls'[c].rev = rows'[First].rev /\ calls[c].pc \in {"sent", "orphan"}
      /\ calls'[c].pc \in {"ok", "over"} /\ calls'[c].followed = calls[c].followed
      /\ calls'[c].visit = calls[c].visit /\ past'.visit = past.visit /\ cache' = cache
  <2>1. calls[c].id = First /\ calls[c].op \in Edits
    BY FormCall
  <2>2. /\ calls'[c].rev = rows'[calls[c].id].rev /\ Stay /\ SameHere(c)
        /\ calls'[c].pc = Done(c) /\ past'.visit = past.visit /\ UNCHANGED cache
    BY ChangesIs
  <2>3. calls[c].pc \in {"sent", "orphan"}
    BY DEF ServerChanges, AtServer
  <2>4. QED
    BY <2>1, <2>2, <2>3 DEF Done, SameHere, Stay, Fixed
<1>2. ~calls'[c].followed /\ (Mounted(c)' => Mounted(c))
  BY <1>1 DEF SaveSeen, Mounted
<1>3. calls'[c].rev <= rows'[First].rev
  BY <1>1, ClientAssumption DEF Typed, Row
<1>4. QED
  BY <1>1, <1>2, <1>3 DEF SaveSeen

LEMMA ServesSeen ==
  ASSUME Typed, Calling, RowsKnown, Shapes, NEW c \in DOMAIN calls, OfForm(c), SaveSeen(c),
         NEW d \in DOMAIN calls, Serves(d)
  PROVE  SaveSeen(c)'
<1>1. /\ Typed' /\ Stay /\ Only(d) /\ SameHere(d)
      /\ Holds("template") \/ Starts("template")
      /\ rows[First].rev <= rows'[First].rev /\ past'.visit = past.visit
  BY ServesQuietly, ServesFrame, ServesGrow, ServesStep, ServesPage, DetailTables
<1>2. Mounted(c)' => Mounted(c)
  BY <1>1 DEF Stay, Fixed, Mounted
<1>3. CASE c # d
  <2>1. calls'[c] = calls[c]
    BY <1>1, <1>3 DEF Only
  <2>2. QED
    BY <1>1, <1>2, <2>1, SameSeen
<1>4. CASE c = d /\ Answer(c)
  BY <1>1, <1>4, AnswerSeen
<1>5. CASE c = d /\ ServerChanges(c)
  BY <1>1, <1>5, ChangeSeen
<1>6. CASE c = d /\ (ServerRefuses(c) \/ CallDenied(c) \/ OrphanDenied(c) \/ Lose(c))
  <2>1. /\ calls[c].pc # "over" /\ calls'[c].pc \in {"lost", "over"} /\ SameMade(c)
    BY <1>6, RefusesIs, CallDeniedIs, OrphanDeniedIs, LoseIs
  <2>2. ~calls'[c].followed
    BY <1>1, <1>6, <2>1 DEF SaveSeen, SameHere
  <2>3. calls'[c].rev = calls[c].rev
    BY <2>1 DEF SameMade
  <2>4. QED
    BY <1>1, <1>2, <2>1, <2>2, <2>3, EndSeen
<1>7. ~ServerCreates(c) /\ ~ServerAnswersFree(c)
  BY FormCall DEF ServerCreates, ServerAnswersFree
<1>8. QED
  BY <1>3, <1>4, <1>5, <1>6, <1>7 DEF Serves

LEMMA FetchSeen ==
  ASSUME Typed, RowsKnown, NEW c \in DOMAIN calls, OfForm(c), SaveSeen(c),
         NEW u \in Table, Fetches(u)
  PROVE  SaveSeen(c)'
<1>1. /\ Typed' /\ rows[First].rev <= rows'[First].rev
  BY FetchesQuietly, FetchesFrame, SameRows DEF FirstStays
<1>2. Mounted(c)' => Mounted(c)
  BY FetchesQuietly DEF Quiet, Stay, Fixed, SamePage, Mounted
<1>3. CASE calls' = calls
  <2>1. Holds("template") \/ Starts("template") \/ Served("template") \/ Arrives("template") \/ Fails("template")
    BY FetchStep, DetailTables
  <2>2. CASE Holds("template") \/ Starts("template") \/ Served("template")
    BY <1>1, <1>2, <1>3, <2>2, SameSeen
  <2>3. CASE u = "template" /\ (Arrives("template") \/ Fails("template"))
    <3>1. calls' = Settled("template")
      BY <2>3, FetchStep, DetailTables
    <3>2. calls[c].pc = "settling" /\ Mounted(c) => calls[c].waits = {"template"}
      BY DEF SaveSeen
    <3>3. calls[c].pc = "settling" /\ Mounted(c) => FALSE
      BY <1>3, <3>1, <3>2, SettleEffect, DetailTables
    <3>4. Mounted(c)' => cache'["template"].loaded
      BY <1>2, <2>3, StillLoaded DEF SaveSeen
    <3>5. calls[c].followed => calls[c].pc = "over"
      BY DEF SaveSeen
    <3>6. QED
      BY <1>1, <1>2, <1>3, <2>3, <3>3, <3>4, <3>5, KeptSeen DEF ListStep
  <2>4. QED
    BY <2>1, <2>2, <2>3, FetchStep, DetailTables
<1>4. CASE calls' = Settled(u)
  <2>1. /\ SameMade(c) /\ SameHere(c)
        /\ (calls[c].pc = "settling" /\ u \in calls[c].waits) =>
             /\ calls'[c].waits = calls[c].waits \ {u}
             /\ calls'[c].pc \in {"won", "settling"}
             /\ calls'[c].pc = "won" <=> calls'[c].waits = {}
        /\ ~(calls[c].pc = "settling" /\ u \in calls[c].waits) =>
             calls'[c].waits = calls[c].waits /\ calls'[c].pc = calls[c].pc
    BY <1>4, SettleEffect
  <2>2. calls'[c].rev = calls[c].rev /\ calls'[c].followed = calls[c].followed
    BY <2>1 DEF SameMade, SameHere
  <2>3. (calls[c].followed => calls[c].pc = "over")
        /\ (Mounted(c) /\ calls[c].pc = "settling" => calls[c].waits = {"template"} /\ cache["template"].fetch # "idle")
    BY DEF SaveSeen
  <2>4. calls'[c].followed => calls'[c].pc = "over" /\ calls[c].followed
    BY <2>1, <2>2, <2>3
  <2>5. CASE u # "template"
    <3>1. Holds("template")
      BY <2>5, FetchStep, DetailTables
    <3>2. Mounted(c) => calls'[c].waits = calls[c].waits /\ calls'[c].pc = calls[c].pc
      BY <2>1, <2>3, <2>5
    <3>3. Mounted(c)' => cache'["template"].loaded
      BY <1>2, <3>1, StillLoaded DEF SaveSeen
    <3>4. Mounted(c) /\ calls[c].pc = "settling" => cache'["template"].fetch # "idle"
      BY <2>3, <3>1 DEF Holds
    <3>5. QED
      BY <1>1, <1>2, <2>2, <2>4, <3>1, <3>2, <3>3, <3>4, KeptSeen DEF ListStep
  <2>6. CASE u = "template"
    <3>1. Mounted(c) => calls'[c].pc # "settling" /\ (calls'[c].pc = "won" => calls[c].pc \in {"won", "settling"})
      BY <2>1, <2>3, <2>6
    <3>2. CASE Arrives("template") \/ Fails("template")
      <4>1. Mounted(c)' => cache'["template"].loaded
        BY <1>2, <3>2, StillLoaded DEF SaveSeen
      <4>2. QED
        BY <1>1, <1>2, <2>2, <2>4, <3>1, <3>2, <4>1, KeptSeen DEF ListStep
    <3>3. CASE Starts("template") \/ Served("template")
      <4>1. calls' = calls
        BY <2>6, <3>3, FetchStep, DetailTables DEF Starts, Served, Arrives, Fails
      <4>2. QED
        BY <1>3, <4>1
    <3>4. QED
      BY <2>6, <3>2, <3>3, FetchStep, DetailTables
  <2>7. QED
    BY <2>5, <2>6
<1>5. QED
  BY <1>3, <1>4, FetchesFrame

-----------------------------------------------------------------------------
(***************************************************************************)
(* The template's form: every step.                                        *)
(***************************************************************************)
LEMMA SendsForm ==
  ASSUME Typed, UserSends, NEW c \in DOMAIN calls', c \notin DOMAIN calls,
         calls'[c].op = "update_template"
  PROVE  /\ calls'[c].rev = 0 /\ ~calls'[c].followed /\ calls'[c].pc = "sent"
         /\ view.base # None /\ place = "template"
<1>1. ASSUME NEW n \in Call, calls' = Append(calls, n)
      PROVE  calls'[c] = n
  BY <1>1, AppendEffect
<1>2. ASSUME NEW op \in Op, NEW t \in Table, NEW i \in Ids \union {None}, NEW nv \in View,
             Sends(op, t, i, nv)
      PROVE  /\ calls'[c].rev = 0 /\ ~calls'[c].followed /\ calls'[c].pc = "sent"
             /\ view.base # None /\ place = "template"
  <2> DEFINE n == NewCall(op, t, i, auth.token)
  <2>1. n.op = op /\ n.rev = 0 /\ ~n.followed /\ n.pc = "sent"
    BY NewFields
  <2>2. n \in Call /\ calls' = Append(calls, n)
    BY <1>2, SendsTyped
  <2> HIDE DEF n
  <2>3. calls'[c] = n
    BY <1>1, <2>2
  <2>4. op = "update_template"
    BY <2>1, <2>3
  <2>5. view.base # None /\ op \in Offers[place]
    BY <1>2, <2>4 DEF Sends
  <2>6. place \in Place
    BY DEF Typed
  <2>7. QED
    BY <2>1, <2>3, <2>4, <2>5, <2>6, FormPage
<1>3. ASSUME NEW op \in {"login", "signup"}, NEW a \in Accounts, Credentials(op, a)
      PROVE  FALSE
  <2> DEFINE n == NewCall(op, "session", None, a)
  <2>1. n.op = op
    BY NewFields
  <2>2. n \in Call /\ calls' = Append(calls, n)
    BY <1>3, CredentialsTyped DEF Credentials
  <2> HIDE DEF n
  <2>3. QED
    BY <1>1, <2>1, <2>2
<1>4. ASSUME ToggleSwitch PROVE FALSE
  <2>0. PICK op \in DOMAIN Saves : \E s \in Saves[op] :
          Toggled(op, s) \in Call /\ calls' = Append(calls, Toggled(op, s))
    BY <1>4, ToggleTyped
  <2>1. PICK s \in Saves[op] : Toggled(op, s) \in Call /\ calls' = Append(calls, Toggled(op, s))
    BY <2>0
  <2>2. calls'[c].op = op
    BY <1>1, <2>1, ToggledIs
  <2>3. QED
    BY <2>2, OpNames
<1>5. QED
  BY <1>2, <1>3, <1>4 DEF UserSends

LEMMA SendsSeen ==
  ASSUME Typed, Typed', RowsKnown, Shapes, SavesSeen, UserSends, NEW c \in DOMAIN calls',
         calls'[c].op = "update_template"
  PROVE  SaveSeen(c)'
<1>1. UNCHANGED <<auth, place, leaving, rows, cache, past>>
  BY SendsFrame
<1>2. CASE c \in DOMAIN calls
  <2>1. calls'[c] = calls[c]
    <3>1. PICK n \in Call : Sent(n)
      BY SendsOne
    <3>2. QED
      BY <1>2, <3>1, AppendEffect DEF Sent
  <2>2. SaveSeen(c)
    BY <1>2, <2>1 DEF SavesSeen
  <2>3. QED
    BY <1>1, <2>1, <2>2 DEF SaveSeen, AnswerNotOlder, NotOlder, Mounted
<1>3. CASE c \notin DOMAIN calls
  <2>1. /\ calls'[c].rev = 0 /\ ~calls'[c].followed /\ calls'[c].pc = "sent"
        /\ view.base # None /\ place = "template"
    BY <1>3, SendsForm
  <2>2. cache'["template"].loaded
    BY <1>1, <2>1 DEF RowsKnown
  <2>3. calls'[c].rev <= rows'[First].rev
    BY <1>1, <2>1, FirstIs
  <2>4. QED
    BY <2>1, <2>2, <2>3 DEF SaveSeen
<1>4. QED
  BY <1>2, <1>3

LEMMA ShowsSeen ==
  ASSUME Typed, Typed', UserShows, NEW c \in DOMAIN calls, SaveSeen(c)
  PROVE  SaveSeen(c)'
<1>1. UNCHANGED <<rows, cache>> /\ past'.visit = past.visit
  BY ShowsFrame DEF SameHistory
<1>2. /\ calls'[c].rev = calls[c].rev /\ calls'[c].followed = calls[c].followed
      /\ calls'[c].waits = calls[c].waits /\ calls'[c].pc = calls[c].pc
      /\ calls'[c].visit = calls[c].visit
  BY ShowsStay DEF SameMade, Stay, Fixed
<1>3. QED
  BY <1>1, <1>2 DEF SaveSeen, AnswerNotOlder, NotOlder, Mounted

\* a handler that goes on leaves the other calls alone
LEMMA OtherSeen ==
  ASSUME Typed, Typed', RowsKnown, NEW c \in DOMAIN calls, SaveSeen(c),
         Holds("template") \/ Starts("template"), UNCHANGED rows, calls'[c] = calls[c],
         Mounted(c)' => Mounted(c)
  PROVE  SaveSeen(c)'
<1>1. rows[First].rev <= rows'[First].rev
  BY SameRows DEF FirstStays
<1>2. QED
  BY <1>1, SameSeen

LEMMA HandlerSeen ==
  ASSUME Typed, Typed', RowsKnown, Shapes, NEW c \in DOMAIN calls, OfForm(c), SaveSeen(c),
         NEW d \in DOMAIN calls, HandlerEnds(d)
  PROVE  SaveSeen(c)'
<1>1. UNCHANGED <<rows, cache, past>> /\ Ends(d) /\ calls'[d].followed = calls[d].followed
  BY HandlerFrame, HandlerEndsEnds
<1>2. Holds("template") /\ rows[First].rev <= rows'[First].rev
  BY <1>1, SameRows DEF Holds, FirstStays
<1>3. Mounted(c)' => Mounted(c)
  BY <1>1 DEF Ends, Stay, Fixed, Mounted
<1>4. CASE c # d
  <2>1. calls'[c] = calls[c]
    BY <1>1, <1>4 DEF Ends, Only
  <2>2. QED
    BY <1>1, <1>2, <1>3, <2>1, OtherSeen
<1>5. CASE c = d
  <2>1. calls'[c].pc = "over" /\ calls'[c].rev = calls[c].rev /\ calls'[c].followed = calls[c].followed
    BY <1>1, <1>5 DEF Ends, SameMade
  <2>2. QED
    BY <1>2, <1>3, <2>1, EndSeen
<1>6. QED
  BY <1>4, <1>5

\* a page that is left has no call that waits
LEMMA AwaySeen ==
  ASSUME Typed, Typed', Calling, RowsKnown, NEW c \in DOMAIN calls, SaveSeen(c), Leaves,
         UNCHANGED rows, Holds("template") \/ Starts("template") \/ Empties("template"),
         calls'[c].rev = calls[c].rev,
         calls'[c].followed => /\ calls[c].followed \/ (Mounted(c) /\ calls[c].pc = "won")
                               /\ calls'[c].pc = "over"
  PROVE  SaveSeen(c)'
<1>1. rows[First].rev <= rows'[First].rev
  BY SameRows DEF FirstStays
<1>2. ~Mounted(c)'
  <2>1. calls[c].visit <= past.visit /\ past.visit \in Nat /\ calls[c].visit \in Nat
    BY CallOf, PastIs DEF Calling, InOrder, Call, Typed, Past
  <2>2. calls'[c].visit = calls[c].visit /\ past'.visit = past.visit + 1
    BY DEF Leaves, Stay, Fixed
  <2>3. QED
    BY <2>1, <2>2 DEF Mounted
<1>3. QED
  BY <1>1, <1>2, KeptSeen DEF ListStep

LEMMA ReturnsSeen ==
  ASSUME Typed, Typed', Calling, RowsKnown, Shapes, NEW c \in DOMAIN calls, OfForm(c), SaveSeen(c),
         NEW d \in DOMAIN calls, NEW p \in Place, Returns(d, p)
  PROVE  SaveSeen(c)'
<1>1. Route(p) /\ Only(d) /\ SameMade(d) /\ calls[d].pc = "won" /\ calls'[d].pc = "over"
  BY ReturnsIs
<1>2. (Holds("template") \/ Starts("template")) /\ UNCHANGED rows
  BY <1>1, RouteStep, DetailTables DEF Route
<1>3. calls'[c].rev = calls[c].rev
  BY <1>1 DEF Only, SameMade
<1>4. c = d => Mounted(c)
  <2>1. c = d => calls[d].op # "send_email"
    BY DEF OfForm
  <2>2. QED
    BY <2>1 DEF Returns
<1>5. calls'[c].followed => /\ calls[c].followed \/ (Mounted(c) /\ calls[c].pc = "won")
                            /\ calls'[c].pc = "over"
  BY <1>1, <1>4 DEF Only, SaveSeen
<1>6. CASE place' = place
  <2>1. Ends(d) /\ past' = past /\ ~Mounted(d)
    BY <1>6, ReturnsAway
  <2>2. c # d /\ calls'[c] = calls[c] /\ (Mounted(c)' => Mounted(c))
    BY <1>4, <2>1 DEF Ends, Only, Mounted
  <2>3. QED
    BY <1>2, <2>2, OtherSeen
<1>7. CASE place' # place
  <2>1. Leaves
    BY <1>7, ReturnsAway
  <2>2. QED
    BY <1>2, <1>3, <1>5, <2>1, AwaySeen
<1>8. QED
  BY <1>6, <1>7

LEMMA StepSavesSeen ==
  ASSUME Typed, Calling, RowsKnown, Shapes, SavesSeen, Step
  PROVE  SavesSeen'
<1>1. Typed'
  BY StepTyped
<1>2. SUFFICES ASSUME NEW c \in DOMAIN calls', calls'[c].op = "update_template" PROVE SaveSeen(c)'
  BY DEF SavesSeen
<1>3. CASE UserSends
  BY <1>1, <1>2, <1>3, SendsSeen
<1>4. CASE ~UserSends
  <2>1. c \in DOMAIN calls /\ OfForm(c) /\ Stay
    BY <1>2, <1>4, StepStays DEF Stay, Fixed, OfForm
  <2>2. SaveSeen(c)
    BY <2>1 DEF SavesSeen, OfForm
  <2>3. CASE UserShows
    BY <1>1, <2>1, <2>2, <2>3, ShowsSeen
  <2>4. CASE \E d \in DOMAIN calls : Serves(d) \/ HandlerEnds(d)
    BY <1>1, <2>1, <2>2, <2>4, ServesSeen, HandlerSeen
  <2>5. CASE \E d \in DOMAIN calls, p \in Place : Returns(d, p)
    BY <1>1, <2>1, <2>2, <2>5, ReturnsSeen
  <2>6. CASE \E u \in Table : Fetches(u)
    BY <2>1, <2>2, <2>6, FetchSeen
  <2>7. CASE \E p \in Place : Follows(p)
    <3>1. PICK p \in Place : Follows(p)
      BY <2>7
    <3>2. Leaves /\ calls' = calls /\ Route(p)
      BY <3>1, FollowsLeaves
    <3>3. (Holds("template") \/ Starts("template")) /\ UNCHANGED rows
      BY <3>2, RouteStep, DetailTables DEF Route
    <3>4. QED
      BY <1>1, <2>1, <2>2, <3>2, <3>3, AwaySeen DEF SaveSeen
  <2>8. CASE Load
    <3>1. Leaves /\ UNCHANGED rows /\ Empties("template")
      BY <2>8, LoadLeaves, LoadIs, LoadStep, DetailTables
    <3>2. calls'[c].rev = calls[c].rev /\ calls'[c].followed = calls[c].followed
          /\ (calls[c].pc = "over" => calls'[c].pc = "over")
      BY <2>1, <2>8, LoadIs, UnloadEffect DEF SameMade, SameHere
    <3>3. QED
      BY <1>1, <2>1, <2>2, <3>1, <3>2, AwaySeen DEF SaveSeen
  <2>9. CASE Elsewhere
    <3>1. FirstStays /\ (Holds("template") \/ Starts("template")) /\ UNCHANGED calls
      BY <2>9, ElsewhereFirst, ElsewhereStep, ElsewhereFrame, DetailTables
    <3>2. past'.visit = past.visit
      BY <2>9, ElsewhereQuietly DEF Quiet, SamePage
    <3>3. Mounted(c)' => Mounted(c)
      BY <3>1, <3>2 DEF Mounted
    <3>4. QED
      BY <1>1, <2>1, <2>2, <3>1, <3>3, SameSeen DEF FirstStays
  <2>10. QED
    BY <1>4, <2>3, <2>4, <2>5, <2>6, <2>7, <2>8, <2>9 DEF Step
<1>5. QED
  BY <1>3, <1>4

-----------------------------------------------------------------------------
(***************************************************************************)
(* What an edit starts from.                                               *)
(***************************************************************************)
\* what the form starts from after a step
BaseStep == (place' = "template" /\ view'.base # None) =>
  \/ place = "template" /\ view'.base = view.base
  \/ HasForm(cache'["template"]) /\ view'.base = Shown(cache'["template"]).rev

LEMMA RerenderBase ==
  ASSUME Typed, NEW nv \in View, cache' \in [Table -> Query], place' = "template",
         view' = Rerendered(place', nv, cache'), view'.base # None
  PROVE  \/ nv.base # None /\ view'.base = nv.base
         \/ HasForm(cache'["template"]) /\ view'.base = Shown(cache'["template"]).rev
<1>1. "template" \in Place
  BY PlaceNames
<1>2. PICK nc \in [Table -> Query] : nc = cache'
  OBVIOUS
<1>3. view'.base = IF ~HasForm(nc["template"]) THEN None
                   ELSE IF nv.base # None THEN nv.base ELSE Shown(nc["template"]).rev
  BY <1>1, <1>2, RerenderedIs
<1>4. QED
  BY <1>2, <1>3

LEMMA RouteBase ==
  ASSUME Typed, NEW p \in Place, Route(p)
  PROVE  BaseStep
<1>1. CASE place' = place
  BY <1>1, RouteIs DEF BaseStep
<1>2. CASE place' # place
  <2>1. view' = Rerendered(place', Blank, cache') /\ cache' \in [Table -> Query]
    BY <1>2, RouteIs
  <2>2. QED
    BY <2>1, BlankIs, RerenderBase DEF BaseStep
<1>3. QED
  BY <1>1, <1>2

LEMMA FetchBase ==
  ASSUME Typed, NEW t \in Table, Fetches(t)
  PROVE  BaseStep
<1>1. place' = place /\ (view' = view \/ view' = Rerendered(place, view, cache')) /\ Typed'
  BY FetchesFrame, FetchesQuietly
<1>2. cache' \in [Table -> Query] /\ view \in View
  BY <1>1 DEF Typed
<1>3. QED
  BY <1>1, <1>2, RerenderBase DEF BaseStep

LEMMA StepBase ==
  ASSUME Typed, Calling, Shapes, Step
  PROVE  BaseStep
<1>1. CASE \/ UserSends \/ UserShows \/ Elsewhere
           \/ \E c \in DOMAIN calls : Serves(c) \/ HandlerEnds(c)
  BY <1>1, SendsFrame, ShowsFrame, ServesFrame, HandlerFrame, ElsewhereFrame DEF BaseStep
<1>2. CASE \E c \in DOMAIN calls, p \in Place : Returns(c, p)
  BY <1>2, ReturnsIs, RouteBase
<1>3. CASE \E t \in Table : Fetches(t)
  BY <1>3, FetchBase
<1>4. CASE \E p \in Place : Follows(p)
  BY <1>4, FollowsLeaves, RouteBase
<1>5. CASE Load
  BY <1>5, LoadIs DEF BaseStep
<1>6. QED
  BY <1>1, <1>2, <1>3, <1>4, <1>5 DEF Step

\* the saves that took the user back to the list stay what they are
FollowedStay(c) == c \in DOMAIN calls /\ calls[c].followed /\ calls'[c].rev = calls[c].rev

LEMMA ServesOpen ==
  ASSUME NEW d \in DOMAIN calls, Serves(d)
  PROVE  calls[d].pc # "over"
BY DEF Serves, ServerCreates, ServerChanges, ServerAnswersFree, ServerRefuses, Answer, CallDenied,
       OrphanDenied, Lose, AtServer

LEMMA StepFollowed ==
  ASSUME Typed, Calling, Shapes, SavesSeen, Step, place' = "template",
         NEW c \in DOMAIN calls', calls'[c].op = "update_template", calls'[c].followed
  PROVE  FollowedStay(c)
<1>1. CASE UserSends
  <2>1. c \in DOMAIN calls
    BY <1>1, SendsForm
  <2>2. calls'[c] = calls[c]
    <3>1. PICK n \in Call : Sent(n)
      BY <1>1, SendsOne
    <3>2. QED
      BY <2>1, <3>1, AppendEffect DEF Sent
  <2>3. QED
    BY <2>1, <2>2 DEF FollowedStay
<1>2. CASE ~UserSends
  <2>1. Stay /\ c \in DOMAIN calls /\ calls[c].op = "update_template"
    BY <1>2, StepStays DEF Stay, Fixed
  <2>2. CASE UserShows
    BY <2>1, <2>2, ShowsStay DEF FollowedStay, SameMade
  <2>3. ASSUME NEW d \in DOMAIN calls, Serves(d) PROVE FollowedStay(c)
    <3>1. Only(d) /\ SameHere(d) /\ calls[d].pc # "over"
      BY <2>3, ServesFrame, ServesOpen
    <3>2. calls[c].followed => calls[c].pc = "over"
      BY <2>1 DEF SavesSeen, SaveSeen
    <3>3. QED
      BY <2>1, <3>1, <3>2 DEF Only, SameHere, FollowedStay
  <2>4. ASSUME NEW d \in DOMAIN calls, HandlerEnds(d) PROVE FollowedStay(c)
    <3>1. Only(d) /\ SameMade(d) /\ calls'[d].followed = calls[d].followed
      BY <2>4, HandlerEndsEnds, HandlerFrame DEF Ends
    <3>2. QED
      BY <2>1, <3>1 DEF Only, SameMade, FollowedStay
  <2>5. ASSUME NEW d \in DOMAIN calls, NEW p \in Place, Returns(d, p) PROVE FALSE
    <3>1. place' \in {p, "login"} /\ p \in {"campaigns", "templates"}
      BY <2>5, ReturnsIs, RouteIs DEF Returns
    <3>2. QED
      BY <3>1
  <2>6. ASSUME NEW t \in Table, Fetches(t) PROVE FollowedStay(c)
    BY <2>1, <2>6, FetchesFrame, SettleEffect DEF SameMade, SameHere, FollowedStay
  <2>7. CASE Elsewhere \/ \E p \in Place : Follows(p)
    BY <2>1, <2>7, ElsewhereFrame, FollowsLeaves DEF FollowedStay
  <2>8. ~Load
    BY LoadIs
  <2>9. QED
    BY <1>2, <2>2, <2>3, <2>4, <2>5, <2>6, <2>7, <2>8 DEF Step
<1>3. QED
  BY <1>1, <1>2

LEMMA StepEditStarts ==
  ASSUME Typed, Calling, RowsKnown, Shapes, SavesSeen, EditStartsFromOwnLastSave, Step
  PROVE  EditStartsFromOwnLastSave'
<1>1. SUFFICES ASSUME place' = "template", view'.base # None, NEW c \in DOMAIN calls',
                      calls'[c].op = "update_template", calls'[c].followed
               PROVE  view'.base >= calls'[c].rev
  BY DEF EditStartsFromOwnLastSave
<1>2. CASE place = "template" /\ view'.base = view.base
  <2>1. FollowedStay(c)
    BY <1>1, StepFollowed
  <2>2. calls[c].op = "update_template"
    <3>1. CASE UserSends
      <4>1. PICK n \in Call : Sent(n)
        BY <3>1, SendsOne
      <4>2. QED
        BY <1>1, <2>1, <4>1, AppendEffect DEF Sent, FollowedStay
    <3>2. CASE ~UserSends
      BY <1>1, <2>1, <3>2, StepStays DEF Stay, Fixed, FollowedStay
    <3>3. QED
      BY <3>1, <3>2
  <2>3. QED
    BY <1>1, <1>2, <2>1, <2>2 DEF EditStartsFromOwnLastSave, FollowedStay
<1>3. CASE HasForm(cache'["template"]) /\ view'.base = Shown(cache'["template"]).rev
  <2>1. (~cache["template"].error => NotOlder(cache["template"].data, c))'
    BY <1>1, StepSavesSeen DEF SavesSeen, SaveSeen
  <2>2. PICK x \in cache'["template"].data : x = Shown(cache'["template"])
    BY <1>3 DEF HasForm, Shown
  <2>3. x.rev >= calls'[c].rev
    BY <1>3, <2>1 DEF HasForm, NotOlder
  <2>4. QED
    BY <1>3, <2>2, <2>3
<1>4. QED
  BY <1>1, <1>2, <1>3, StepBase DEF BaseStep

-----------------------------------------------------------------------------
(***************************************************************************)
(* The switches of the settings page.                                      *)
(***************************************************************************)
\* the tenant's switches change when they are saved
LEMMA FirstKeeps ==
  ASSUME Typed, Calling, Shapes, Step, rows[First].state # "unborn"
  PROVE  \/ rows'[First].set = rows[First].set
         \/ \E d \in DOMAIN calls : ServerChanges(d) /\ Saved(d)
<1>1. ASSUME UNCHANGED rows PROVE rows'[First].set = rows[First].set
  BY <1>1
<1>2. CASE \E d \in DOMAIN calls : Serves(d)
  BY <1>2, ServesFirst DEF FirstStays, Saved
<1>3. CASE Elsewhere
  BY <1>3, ElsewhereFirst DEF FirstStays
<1>4. CASE ~(\E d \in DOMAIN calls : Serves(d)) /\ ~Elsewhere
  BY <1>1, <1>4, SendsFrame, ShowsFrame, HandlerFrame, ReturnsIs, RouteIs, FetchesFrame,
     FollowsLeaves, LoadIs DEF Step
<1>5. QED
  BY <1>2, <1>3, <1>4

\* what the switches show after a step
Initialised == HasForm(cache'["me"]) /\ view'.switches = Shown(cache'["me"]).set

SwitchStep == (place' = "settings" /\ view'.switches # None) =>
  \/ place = "settings" /\ view'.switches = view.switches
  \/ Initialised /\ (place # "settings" \/ view.switches = None)
  \/ ToggleSwitch
  \/ \E d \in DOMAIN calls : HandlerEnds(d) /\ Saved(d)

LEMMA RerenderSwitches ==
  ASSUME Typed, NEW nv \in View, cache' \in [Table -> Query], place' = "settings",
         view' = Rerendered(place', nv, cache')
  PROVE  \/ view'.switches = nv.switches
         \/ Initialised /\ nv.switches = None
<1>1. "settings" \in Place
  BY PlaceNames
<1>2. PICK nc \in [Table -> Query] : nc = cache'
  OBVIOUS
<1>3. view'.switches = IF nv.switches = None /\ HasForm(nc["me"]) THEN Shown(nc["me"]).set
                       ELSE nv.switches
  BY <1>1, <1>2, RerenderedIs
<1>4. QED
  BY <1>2, <1>3 DEF Initialised

LEMMA RouteSwitches ==
  ASSUME Typed, NEW p \in Place, Route(p)
  PROVE  SwitchStep
<1>1. CASE place' = place
  BY <1>1, RouteIs DEF SwitchStep
<1>2. CASE place' # place
  <2>1. view' = Rerendered(place', Blank, cache') /\ cache' \in [Table -> Query]
    BY <1>2, RouteIs
  <2>2. QED
    BY <1>2, <2>1, BlankIs, RerenderSwitches DEF SwitchStep
<1>3. QED
  BY <1>1, <1>2

LEMMA FetchSwitches ==
  ASSUME Typed, NEW t \in Table, Fetches(t)
  PROVE  SwitchStep
<1>1. place' = place /\ (view' = view \/ view' = Rerendered(place, view, cache')) /\ Typed'
  BY FetchesFrame, FetchesQuietly
<1>2. cache' \in [Table -> Query] /\ view \in View
  BY <1>1 DEF Typed
<1>3. QED
  BY <1>1, <1>2, RerenderSwitches DEF SwitchStep

LEMMA SendsSwitches ==
  ASSUME Typed, UserSends, ~ToggleSwitch
  PROVE  view'.switches = view.switches
<1>1. ASSUME NEW op \in {"login", "signup"}, NEW a \in Accounts, Credentials(op, a)
      PROVE  view'.switches = view.switches
  BY <1>1, CredentialsTyped
<1>2. QED
  BY <1>1 DEF UserSends, Sends, Send, SameForms

LEMMA HandlerSwitches ==
  ASSUME Typed, NEW d \in DOMAIN calls, HandlerEnds(d), ~Saved(d)
  PROVE  view'.switches = view.switches
BY HandlerFrame DEF Saved

LEMMA StepSwitches ==
  ASSUME Typed, Calling, Shapes, Step
  PROVE  SwitchStep
<1>1. CASE UserSends
  BY <1>1, SendsFrame, SendsSwitches DEF SwitchStep
<1>2. CASE \E d \in DOMAIN calls : HandlerEnds(d)
  BY <1>2, HandlerFrame, HandlerSwitches DEF SwitchStep
<1>3. CASE UserShows \/ Elsewhere \/ \E c \in DOMAIN calls : Serves(c)
  BY <1>3, ShowsFrame, ServesFrame, ElsewhereFrame DEF SwitchStep
<1>4. CASE \E c \in DOMAIN calls, p \in Place : Returns(c, p)
  BY <1>4, ReturnsIs, RouteSwitches
<1>5. CASE \E t \in Table : Fetches(t)
  BY <1>5, FetchSwitches
<1>6. CASE \E p \in Place : Follows(p)
  BY <1>6, FollowsLeaves, RouteSwitches
<1>7. CASE Load
  BY <1>7, LoadIs DEF SwitchStep
<1>8. QED
  BY <1>1, <1>2, <1>3, <1>4, <1>5, <1>6, <1>7 DEF Step

-----------------------------------------------------------------------------
\* what a step makes of a list, whatever the step
LEMMA StepList ==
  ASSUME Typed, Calling, Shapes, Step, NEW t \in Table
  PROVE  ListStep(t)
<1>1. ASSUME UNCHANGED cache PROVE Holds(t)
  BY <1>1 DEF Holds
<1>2. CASE UserSends \/ UserShows \/ \E c \in DOMAIN calls : HandlerEnds(c)
  BY <1>1, <1>2, SendsFrame, ShowsFrame, HandlerFrame DEF ListStep
<1>3. CASE Elsewhere \/ \E c \in DOMAIN calls : Serves(c)
  BY <1>3, ElsewhereStep, ServesStep DEF ListStep
<1>4. CASE \E c \in DOMAIN calls, p \in Place : Returns(c, p)
  BY <1>4, ReturnsIs, RouteStep DEF ListStep
<1>5. CASE \E u \in Table : Fetches(u)
  BY <1>5, FetchStep DEF ListStep
<1>6. CASE \E p \in Place : Follows(p)
  BY <1>6, FollowsLeaves, RouteStep DEF ListStep
<1>7. CASE Load
  BY <1>7, LoadStep DEF ListStep
<1>8. QED
  BY <1>2, <1>3, <1>4, <1>5, <1>6, <1>7 DEF Step

LEMMA ListingTenant ==
  ASSUME Typed, RowsKnown, NEW a, NEW x \in Listing("me", a)
  PROVE  x.set = rows[First].set
<1>1. x.id \in RowsOf("me") /\ x.set = rows[x.id].set
  BY ListingTyped
<1>2. x.id \in Ids /\ rows[x.id].table = "me"
  BY <1>1 DEF RowsOf
<1>3. QED
  BY <1>1, <1>2 DEF RowsKnown

LEMMA TenantBorn ==
  ASSUME RowsKnown, NEW x \in Items("me")
  PROVE  rows[First].state # "unborn"
<1>1. IsRow(x.id, "me")
  BY DetailTables DEF RowsKnown, TableOf
<1>2. QED
  BY <1>1 DEF IsRow, RowsKnown

LEMMA SavedStays ==
  ASSUME Typed, Calling, Shapes, Step, NEW c \in DOMAIN calls, Saved(c)
  PROVE  c \in DOMAIN calls' /\ calls'[c].op \in DOMAIN Saves
<1>1. CASE UserSends
  <2>1. PICK n \in Call : Sent(n)
    BY <1>1, SendsOne
  <2>2. QED
    BY <2>1, AppendEffect DEF Sent, Saved
<1>2. CASE ~UserSends
  BY <1>2, StepStays DEF Stay, Fixed, Saved
<1>3. QED
  BY <1>1, <1>2

LEMMA StepUnsaved ==
  ASSUME Typed, Calling, RowsKnown, Shapes, Unsaved, Step
  PROVE  Unsaved'
<1>1. SUFFICES ASSUME \A c \in DOMAIN calls' : calls'[c].op \notin DOMAIN Saves
               PROVE  /\ \A x \in Items("me")' : x.set = rows'[First].set
                      /\ (place' = "settings" /\ view'.switches # None) =>
                           view'.switches = rows'[First].set
  BY DEF Unsaved, Saved
<1>2. \A c \in DOMAIN calls : ~Saved(c)
  BY <1>1, SavedStays
<1>3. \A x \in Items("me") : x.set = rows[First].set
  BY <1>2 DEF Unsaved
<1>4. rows[First].state # "unborn" => rows'[First].set = rows[First].set
  BY <1>2, FirstKeeps
<1>5. \A x \in Items("me")' : x.set = rows'[First].set
  <2>1. CASE Served("me")
    BY <1>3, <2>1, ListingTenant DEF Served, Items
  <2>2. CASE ~Served("me")
    <3>1. Items("me")' \subseteq Items("me")
      BY <2>2, StepList, DetailTables DEF ListStep, Holds, Starts, Arrives, Fails, Empties, Items
    <3>2. QED
      BY <1>3, <1>4, <3>1, TenantBorn
  <2>3. QED
    BY <2>1, <2>2
<1>6. (place' = "settings" /\ view'.switches # None) => view'.switches = rows'[First].set
  <2>1. SUFFICES ASSUME place' = "settings", view'.switches # None
                 PROVE  view'.switches = rows'[First].set
    OBVIOUS
  <2>2. CASE place = "settings" /\ view'.switches = view.switches
    <3>1. IsRow(First, "me") /\ view.switches = rows[First].set
      BY <1>2, <2>1, <2>2 DEF RowsKnown, Unsaved
    <3>2. QED
      BY <1>4, <2>2, <3>1 DEF IsRow
  <2>3. CASE Initialised
    <3>1. PICK x \in cache'["me"].data : x = Shown(cache'["me"])
      BY <2>3 DEF Initialised, HasForm, Shown
    <3>2. x.set = rows'[First].set
      BY <1>5, <3>1 DEF Items
    <3>3. QED
      BY <2>3, <3>1, <3>2 DEF Initialised
  <2>4. ~ToggleSwitch
    <3>1. SUFFICES ASSUME ToggleSwitch PROVE FALSE
      OBVIOUS
    <3>2. PICK op \in DOMAIN Saves : \E s \in Saves[op] :
            Toggled(op, s) \in Call /\ calls' = Append(calls, Toggled(op, s))
      BY <3>1, ToggleTyped
    <3>3. PICK s \in Saves[op] :
            Toggled(op, s) \in Call /\ calls' = Append(calls, Toggled(op, s))
      BY <3>2
    <3>4. Toggled(op, s).op = op
      BY ToggledIs
    <3>5. QED
      BY <1>1, <3>3, <3>4, AppendEffect
  <2>5. QED
    BY <1>2, <2>1, <2>2, <2>3, <2>4, StepSwitches DEF SwitchStep
<1>7. QED
  BY <1>5, <1>6

-----------------------------------------------------------------------------
(***************************************************************************)
(* Saves of a switch end in turn.                                          *)
(***************************************************************************)
LEMMA SavesPage == \A p \in Place : \A op \in DOMAIN Saves : op \in Offers[p] => p = "settings"
  BY PlaceNames, OpNames DEF Offers

\* the saves of the page that is shown
LEMMA SavedIs ==
  ASSUME Typed, Calling, RowsKnown, Shapes, NEW c \in DOMAIN calls, Saved(c)
  PROVE  /\ calls[c].table = "me" /\ calls[c].id = First /\ rows[First].state # "unborn"
         /\ calls[c].set \union calls[c].was \subseteq Saves[calls[c].op]
         /\ Invalidates(c) = {}
         /\ calls[c].op \notin DOMAIN Creates \union Free
         /\ Mounted(c) => view.switches # None /\ place = "settings" /\ calls[c].pc # "orphan"
<1>1. /\ calls[c].table = "me" /\ IsRow(calls[c].id, "me")
      /\ calls[c].set \union calls[c].was \subseteq Saves[calls[c].op]
      /\ (Mounted(c) => view.switches # None)
  BY DEF Shapes, Shape, OfRow, Saved
<1>2. calls[c].id = First /\ rows[First].state # "unborn"
  BY <1>1 DEF IsRow, RowsKnown
<1>3. Mounted(c) => place = "settings" /\ calls[c].pc # "orphan"
  BY SavesPage DEF Typed, Calling, SentFromHere, Saved
<1>4. QED
  BY <1>1, <1>2, <1>3, OpNames DEF Saved, Invalidates, Silent, Free

\* a call that is over stays over
LEMMA StaysOver ==
  ASSUME Typed, Calling, Shapes, Step, NEW c \in DOMAIN calls, calls[c].pc = "over"
  PROVE  calls'[c].pc = "over"
<1>1. CASE UserSends
  <2>1. PICK n \in Call : Sent(n)
    BY <1>1, SendsOne
  <2>2. QED
    BY <2>1, AppendEffect DEF Sent
<1>2. CASE UserShows
  BY <1>2, ShowsStay
<1>3. CASE \E d \in DOMAIN calls : Serves(d)
  BY <1>3, ServesFrame, ServesOpen DEF Only
<1>4. CASE \E d \in DOMAIN calls : HandlerEnds(d)
  BY <1>4, HandlerEndsEnds DEF Ends, Only
<1>5. CASE \E d \in DOMAIN calls, p \in Place : Returns(d, p)
  BY <1>5, ReturnsIs DEF Only
<1>6. CASE \E t \in Table : Fetches(t)
  BY <1>6, FetchesFrame, SettleEffect
<1>7. CASE Elsewhere \/ \E p \in Place : Follows(p)
  BY <1>7, ElsewhereFrame, FollowsLeaves
<1>8. CASE Load
  BY <1>8, LoadLeaves DEF Leaves
<1>9. QED
  BY <1>1, <1>2, <1>3, <1>4, <1>5, <1>6, <1>7, <1>8 DEF Step

\* what is sent while nothing is on its way comes after what was sent before
LEMMA SendsInTurn ==
  ASSUME Typed, Calling, InTurn, NEW n, Sent(n),
         n.crowded <=> \E c \in DOMAIN calls : Unfinished(c)
  PROVE  InTurn'
<1>1. /\ \A c \in DOMAIN calls : calls'[c] = calls[c]
      /\ past'.visit = past.visit /\ Awake
      /\ DOMAIN calls' = DOMAIN calls \union {Len(calls) + 1} /\ calls'[Len(calls) + 1] = n
      /\ \A c \in DOMAIN calls : c < Len(calls) + 1
  BY AppendEffect DEF Sent, SamePage
<1>2. SUFFICES ASSUME NEW c \in DOMAIN calls', NEW d \in DOMAIN calls', Saved(c)', Saved(d)',
                      Mounted(c)', c < d, ~calls'[d].crowded
               PROVE  calls'[c].pc = "over"
  BY DEF InTurn
<1>3. c \in DOMAIN calls
  <2>1. DOMAIN calls \subseteq Nat /\ Len(calls) \in Nat /\ \A e \in DOMAIN calls : e <= Len(calls)
    BY DEF Typed
  <2>2. QED
    BY <1>1, <1>2, <2>1
<1>4. Mounted(c) /\ Saved(c) /\ calls'[c] = calls[c]
  BY <1>1, <1>2, <1>3 DEF Mounted, Saved
<1>5. CASE d \in DOMAIN calls
  BY <1>1, <1>2, <1>3, <1>4, <1>5 DEF InTurn, Saved
<1>6. CASE d \notin DOMAIN calls
  <2>1. calls'[d] = n
    BY <1>1, <1>2, <1>6
  <2>2. ~Unfinished(c) /\ ~Continues(c)
    BY <1>1, <1>2, <1>3, <2>1 DEF Awake
  <2>3. calls[c].pc # "orphan" /\ calls[c].pc \in CallPC
    BY <1>3, <1>4, CallOf DEF Calling, SentFromHere, Call
  <2>4. QED
    BY <1>4, <2>2, <2>3 DEF Unfinished, Continues, CallPC
<1>7. QED
  BY <1>5, <1>6

LEMMA SendsCrowded ==
  ASSUME Typed, UserSends
  PROVE  \E n \in Call : Sent(n) /\ (n.crowded <=> \E c \in DOMAIN calls : Unfinished(c))
<1>1. ASSUME NEW op \in Op, NEW t \in Table, NEW i \in Ids \union {None}, NEW nv \in View,
             Sends(op, t, i, nv)
      PROVE  \E n \in Call : Sent(n) /\ (n.crowded <=> \E c \in DOMAIN calls : Unfinished(c))
  <2> DEFINE n == NewCall(op, t, i, auth.token)
  <2>1. n \in Call /\ Sent(n)
    BY <1>1, SendsTyped, SendsSent
  <2>2. n.crowded <=> \E c \in DOMAIN calls : Unfinished(c)
    BY NewFields
  <2>3. QED
    BY <2>1, <2>2
<1>2. ASSUME NEW op \in {"login", "signup"}, NEW a \in Accounts, Credentials(op, a)
      PROVE  \E n \in Call : Sent(n) /\ (n.crowded <=> \E c \in DOMAIN calls : Unfinished(c))
  <2> DEFINE n == NewCall(op, "session", None, a)
  <2>1. n \in Call /\ Sent(n)
    BY <1>2, CredentialsTyped, CredentialsSent
  <2>2. n.crowded <=> \E c \in DOMAIN calls : Unfinished(c)
    BY NewFields
  <2>3. QED
    BY <2>1, <2>2
<1>3. ASSUME ToggleSwitch
      PROVE  \E n \in Call : Sent(n) /\ (n.crowded <=> \E c \in DOMAIN calls : Unfinished(c))
  <2>1. PICK op \in DOMAIN Saves : \E s \in Saves[op] :
          /\ Toggled(op, s) \in Call /\ SettingsPage /\ calls' = Append(calls, Toggled(op, s))
          /\ view'.dialog = view.dialog /\ view'.step = view.step
          /\ view'.made = view.made /\ view'.timers = view.timers
          /\ UNCHANGED <<place, past>>
    BY <1>3, ToggleTyped
  <2>2. PICK s \in Saves[op] :
          /\ Toggled(op, s) \in Call /\ SettingsPage /\ calls' = Append(calls, Toggled(op, s))
          /\ view'.dialog = view.dialog /\ view'.step = view.step
          /\ view'.made = view.made /\ view'.timers = view.timers
          /\ UNCHANGED <<place, past>>
    BY <2>1
  <2>3. Sent(Toggled(op, s))
    BY <2>2, ToggleSent DEF FormsShown
  <2>4. QED
    BY <2>2, <2>3, ToggledIs
<1>4. QED
  BY <1>1, <1>2, <1>3 DEF UserSends

LEMMA StepInTurn ==
  ASSUME Typed, Calling, Shapes, InTurn, Step
  PROVE  InTurn'
<1>1. CASE UserSends
  BY <1>1, SendsCrowded, SendsInTurn
<1>2. CASE ~UserSends
  <2>1. Stay /\ PageStep
    BY <1>2, StepStays, StepPage
  <2>2. SUFFICES ASSUME NEW c \in DOMAIN calls, NEW d \in DOMAIN calls, Saved(c)', Saved(d)',
                        Mounted(c)', c < d, ~calls'[d].crowded
                 PROVE  calls'[c].pc = "over"
    BY <2>1 DEF InTurn, Stay
  <2>3. Fixed(c) /\ Fixed(d)
    BY <2>1 DEF Stay
  <2>4. Mounted(c)
    BY <2>1, <2>2, <2>3, NotYetMounted DEF Mounted, Calling
  <2>5. Saved(c) /\ Saved(d) /\ ~calls[d].crowded
    BY <2>2, <2>3 DEF Saved, Fixed
  <2>6. calls[c].pc = "over"
    BY <2>2, <2>4, <2>5 DEF InTurn
  <2>7. QED
    BY <2>6, StaysOver
<1>3. QED
  BY <1>1, <1>2

-----------------------------------------------------------------------------
(***************************************************************************)
(* One switch, one save at a time: the row, the page and the call agree.   *)
(***************************************************************************)
LEMMA ServesFrom ==
  ASSUME NEW d \in DOMAIN calls, Serves(d)
  PROVE  calls[d].pc \in {"sent", "ok", "orphan"}
BY DEF Serves, ServerCreates, ServerChanges, ServerAnswersFree, ServerRefuses, Answer, CallDenied,
       OrphanDenied, Lose, AtServer

\* what was lost stays unheard
LEMMA StaysUnheard ==
  ASSUME Typed, Calling, Shapes, Step, ~UserSends, NEW c \in DOMAIN calls, calls[c].unheard
  PROVE  calls'[c].unheard
<1>1. calls[c].pc \notin {"sent", "ok", "orphan"}
  BY DEF Calling, Told
<1>2. CASE UserShows
  BY <1>2, ShowsStay
<1>3. CASE \E d \in DOMAIN calls : Serves(d)
  BY <1>1, <1>3, ServesFrame, ServesFrom DEF Only
<1>4. CASE \E d \in DOMAIN calls : HandlerEnds(d)
  BY <1>4, HandlerEndsEnds DEF Ends, Only
<1>5. CASE \E d \in DOMAIN calls, p \in Place : Returns(d, p)
  BY <1>5, ReturnsIs DEF Only
<1>6. CASE \E t \in Table : Fetches(t)
  BY <1>6, FetchesFrame, SettleEffect
<1>7. CASE Elsewhere \/ \E p \in Place : Follows(p)
  BY <1>7, ElsewhereFrame, FollowsLeaves
<1>8. CASE Load
  BY <1>8, LoadLeaves DEF Leaves
<1>9. QED
  BY <1>2, <1>3, <1>4, <1>5, <1>6, <1>7, <1>8 DEF Step

\* what was saved before a step was saved on this page too
LEMMA OneBefore ==
  ASSUME Typed, Calling, Shapes, Step, ~UserSends, OneByOne'
  PROVE  /\ OneByOne /\ Stay /\ place' = place /\ past'.visit = past.visit
         /\ \E c \in DOMAIN calls : Saved(c) /\ Mounted(c)
<1>1. Stay /\ PageStep
  BY StepStays, StepPage
<1>2. ASSUME NEW c \in DOMAIN calls, Saved(c)
      PROVE  /\ Mounted(c) /\ ~calls[c].crowded /\ ~calls[c].unheard
             /\ place' = place /\ past'.visit = past.visit
  <2>1. Fixed(c) /\ c \in DOMAIN calls'
    BY <1>1 DEF Stay
  <2>2. Saved(c)'
    BY <1>2, <2>1 DEF Saved, Fixed
  <2>3. Mounted(c)' /\ ~calls'[c].crowded /\ ~calls'[c].unheard
    BY <2>1, <2>2 DEF OneByOne
  <2>4. Mounted(c) /\ place' = place /\ past'.visit = past.visit
    BY <1>1, <2>1, <2>3, NotYetMounted DEF Mounted, Calling
  <2>5. ~calls[c].unheard
    BY <2>3, StaysUnheard
  <2>6. QED
    BY <2>1, <2>3, <2>4, <2>5 DEF Fixed
<1>3. PICK c \in DOMAIN calls : Saved(c)
  BY <1>1 DEF OneByOne, Saved, Stay, Fixed
<1>4. QED
  BY <1>1, <1>2, <1>3 DEF OneByOne

LEMMA OthersOver ==
  ASSUME Typed, InTurn, OneByOne, NEW d \in DOMAIN calls, Saved(d), calls[d].pc # "over",
         NEW c \in DOMAIN calls, Saved(c), c # d
  PROVE  calls[c].pc = "over" /\ c < d
<1>1. c \in Nat /\ d \in Nat
  BY DEF Typed
<1>2. c < d \/ d < c
  BY <1>1
<1>3. QED
  BY <1>2 DEF InTurn, OneByOne

\* at most one call is the last that the server took
LEMMA LastIsOne ==
  ASSUME Typed, NEW c \in DOMAIN calls, LastReached(c), NEW d \in DOMAIN calls, LastReached(d)
  PROVE  c = d
<1>1. c \in Nat /\ d \in Nat
  BY DEF Typed
<1>2. c <= d /\ d <= c
  BY DEF LastReached
<1>3. QED
  BY <1>1, <1>2

\* the calls the server took stay the same, so do those it took last
LEMMA SameRight ==
  ASSUME Stay, \A c \in DOMAIN calls : Reached(c)' <=> Reached(c)
  PROVE  \A op \in DOMAIN Saves : Right(op)' <=> Right(op)
<1>1. \A c \in DOMAIN calls : LastReached(c)' <=> LastReached(c)
  BY DEF LastReached, Stay
<1>2. QED
  BY <1>1 DEF Right, Stay, Fixed

LEMMA SavedSame ==
  ASSUME Stay, NEW c \in DOMAIN calls
  PROVE  /\ Saved(c)' <=> Saved(c)
         /\ calls'[c].op = calls[c].op /\ calls'[c].set = calls[c].set
         /\ calls'[c].was = calls[c].was
         /\ c \in DOMAIN calls'
BY DEF Saved, Stay, Fixed

\* the two groups have no switch in common
LEMMA GroupsApart ==
  ASSUME NEW op \in DOMAIN Saves, NEW p \in DOMAIN Saves, p # op
  PROVE  Saves[op] \intersect Saves[p] = {}
<1>1. /\ Saves["save_tracking"] = {"opens", "clicks"} /\ Saves["save_alerts"] = Alerts
      /\ DOMAIN Saves = {"save_tracking", "save_alerts"}
  BY DEF Saves
<1>2. QED
  BY <1>1, ClientAssumption

LEMMA SameAgrees ==
  ASSUME NEW op \in DOMAIN Saves, Agrees(op), Stay,
         \A c \in DOMAIN calls : Saved(c) =>
           /\ calls'[c].pc = calls[c].pc
           /\ calls'[c].won = calls[c].won,
         view'.switches = view.switches, rows'[First].set = rows[First].set
  PROVE  Agrees(op)'
<1>1. Showing(op)' = Showing(op) /\ Having(op)' = Having(op)
  BY DEF Showing, Having
<1>2. \A c \in DOMAIN calls : /\ Saved(c)' <=> Saved(c)
                              /\ calls'[c].op = calls[c].op /\ calls'[c].set = calls[c].set
                              /\ calls'[c].was = calls[c].was
  BY SavedSame
<1>3. Right(op)' <=> Right(op)
  <2>1. \A c \in DOMAIN calls : Reached(c)' <=> Reached(c)
    BY <1>2 DEF Reached
  <2>2. QED
    BY <2>1, SameRight
<1>4. ASSUME NEW c \in DOMAIN calls, Saved(c), calls[c].pc # "over"
      PROVE  calls'[c].pc # "settling" /\ (calls'[c].op = op => Pending(c, op)')
  <2>1. calls[c].pc # "settling" /\ (calls[c].op = op => Pending(c, op)) /\ calls'[c].pc = calls[c].pc
    BY <1>4 DEF Agrees
  <2>2. QED
    BY <1>1, <1>2, <1>3, <2>1 DEF Pending
<1>5. (Right(op)' /\ \A c \in DOMAIN calls : Saved(c)' /\ calls'[c].op = op => calls'[c].pc = "over")
        => Showing(op)' = Having(op)'
  BY <1>1, <1>2, <1>3 DEF Agrees
<1>6. QED
  BY <1>2, <1>4, <1>5 DEF Agrees, Stay

\* only d is not over
LEMMA OneAgrees ==
  ASSUME NEW op \in DOMAIN Saves, Stay, NEW d \in DOMAIN calls, Saved(d), calls'[d].pc \notin {"over", "settling"},
         calls[d].op = op => Pending(d, op)',
         calls[d].op # op => (Right(op)' => Showing(op)' = Having(op)'),
         \A c \in DOMAIN calls : Saved(c) /\ c # d => calls'[c].pc = "over"
  PROVE  Agrees(op)'
<1>1. \A c \in DOMAIN calls : (Saved(c)' <=> Saved(c)) /\ calls'[c].op = calls[c].op
  BY SavedSame
<1>2. DOMAIN calls' = DOMAIN calls
  BY DEF Stay
<1>3. \A c \in DOMAIN calls' : Saved(c)' /\ calls'[c].pc # "over" =>
         calls'[c].pc # "settling" /\ (calls'[c].op = op => Pending(c, op)')
  BY <1>1, <1>2
<1>4. ASSUME Right(op)', \A c \in DOMAIN calls' : Saved(c)' /\ calls'[c].op = op => calls'[c].pc = "over"
      PROVE  Showing(op)' = Having(op)'
  <2>1. calls[d].op # op
    BY <1>1, <1>2, <1>4
  <2>2. QED
    BY <1>4, <2>1
<1>5. QED
  BY <1>3, <1>4 DEF Agrees

LEMMA ServesAgrees ==
  ASSUME Typed, Calling, RowsKnown, Shapes, InTurn, NEW op \in DOMAIN Saves,
         OneByOne, OneByOne', Agrees(op),
         NEW d \in DOMAIN calls, Serves(d), Saved(d)
  PROVE  Agrees(op)'
<1>1. /\ Stay /\ Only(d) /\ UNCHANGED <<place, view>> /\ Fixed(d)
      /\ calls'[d].won = calls[d].won
  BY ServesFrame DEF Stay, SameHere
<1>2. Mounted(d)
  BY DEF OneByOne
<1>3. calls[d].pc \in {"sent", "ok"}
  BY <1>2, ServesFrom, SavedIs
<1>4. \A c \in DOMAIN calls : Saved(c) /\ c # d => calls'[c] = calls[c] /\ calls[c].pc = "over" /\ c < d
  BY <1>1, <1>3, OthersOver DEF Only
<1>5. calls[d].op = op => Pending(d, op)
  BY <1>3 DEF Agrees
<1>6. calls[d].op # op /\ Right(op) => Showing(op) = Having(op)
  BY <1>4 DEF Agrees
<1>7. /\ Showing(op)' = Showing(op) /\ calls'[d].op = calls[d].op
      /\ calls'[d].set = calls[d].set /\ calls'[d].was = calls[d].was
      /\ \A c \in DOMAIN calls : Saved(c)' <=> Saved(c)
  BY <1>1, SavedSame DEF Showing
<1>8. /\ calls'[d].pc \notin {"over", "settling"} /\ (calls[d].op = op => Pending(d, op)')
      /\ calls[d].op # op => (Right(op)' => Showing(op)' = Having(op)')
  <2>1. CASE ServerChanges(d)
    <3>1. calls[d].id = First /\ calls[d].op \in DOMAIN Saves /\ calls[d].set \subseteq Saves[calls[d].op]
      BY SavedIs DEF Saved
    <3>2. calls'[d].pc = Done(d) /\ rows'[First].set = calls[d].set
      BY <2>1, <3>1, ChangesIs
    <3>3. calls[d].pc = "sent"
      BY <1>3, <2>1 DEF ServerChanges, AtServer
    <3>4. calls'[d].pc = "ok" /\ (calls[d].op = op => Having(op)' = calls[d].set)
      BY <3>1, <3>2, <3>3 DEF Done, Having
    <3>5. LastReached(d)'
      <4>1. \A c \in DOMAIN calls : c <= d \/ ~Saved(c)
        <5>1. \A c \in DOMAIN calls : c \in Nat
          BY DEF Typed
        <5>2. QED
          BY <1>4, <5>1
      <4>2. Reached(d)' /\ DOMAIN calls' = DOMAIN calls
        BY <1>1, <1>7, <3>4 DEF Reached, Stay
      <4>3. QED
        BY <1>7, <4>1, <4>2 DEF LastReached, Reached
    <3>6. calls[d].op # op => ~Right(op)'
      BY <1>1, <1>7, <3>5 DEF Right, Stay
    <3>7. QED
      BY <1>5, <1>7, <3>4, <3>6 DEF Pending
  <2>2. CASE ~ServerChanges(d)
    <3>1. /\ UNCHANGED rows /\ calls'[d].won = calls[d].won
          /\ \/ calls[d].pc = "ok" /\ calls'[d].pc = "won"
             \/ calls[d].pc = "sent" /\ calls'[d].pc = "lost"
      <4>1. CASE Answer(d)
        <5>1. /\ calls[d].pc = "ok" /\ calls'[d].pc = (IF Awaited(d) = {} THEN "won" ELSE "settling")
              /\ UNCHANGED rows
          BY <4>1, AnswerIs
        <5>2. Awaited(d) = {}
          BY SavedIs DEF Awaited
        <5>3. QED
          BY <1>1, <5>1, <5>2
      <4>2. CASE ServerRefuses(d) \/ CallDenied(d)
        BY <1>1, <1>3, <4>2, RefusesIs, CallDeniedIs
      <4>3. CASE Lose(d)
        <5>1. /\ calls'[d].pc = "lost" /\ (calls'[d].unheard <=> calls[d].pc = "ok") /\ UNCHANGED rows
          BY <4>3, LoseIs
        <5>2. ~calls'[d].unheard
          BY <1>1, <1>7 DEF OneByOne, Stay
        <5>3. QED
          BY <1>1, <1>3, <5>1, <5>2
      <4>4. ~ServerCreates(d) /\ ~ServerAnswersFree(d) /\ ~OrphanDenied(d)
        BY <1>3, SavedIs DEF ServerCreates, ServerAnswersFree, OrphanDenied
      <4>5. QED
        BY <2>2, <4>1, <4>2, <4>3, <4>4 DEF Serves
    <3>2. \A c \in DOMAIN calls : Reached(c)' <=> Reached(c)
      BY <1>4, <1>7, <3>1 DEF Reached
    <3>3. (Right(op)' <=> Right(op)) /\ Having(op)' = Having(op)
      BY <1>1, <3>1, <3>2, SameRight DEF Having
    <3>4. calls[d].op = op => Pending(d, op)'
      BY <1>5, <1>7, <3>1, <3>3 DEF Pending
    <3>5. QED
      BY <1>6, <1>7, <3>1, <3>3, <3>4
  <2>3. QED
    BY <2>1, <2>2
<1>9. \A c \in DOMAIN calls : Saved(c) /\ c # d => calls'[c].pc = "over"
  BY <1>4
<1>10. QED
  BY <1>1, <1>8, <1>9, OneAgrees

\* the handler of a failed save puts its group back to what the server has
LEMMA HandlerAgrees ==
  ASSUME Typed, Calling, RowsKnown, Shapes, InTurn, NEW op \in DOMAIN Saves, OneByOne, Agrees(op),
         NEW d \in DOMAIN calls, HandlerEnds(d), Saved(d)
  PROVE  Agrees(op)'
<1>1. /\ Stay /\ Only(d) /\ calls[d].pc \in {"won", "lost"} /\ calls'[d].pc = "over" /\ UNCHANGED rows
      /\ DOMAIN calls' = DOMAIN calls
  BY HandlerEndsEnds, HandlerFrame DEF Ends, Stay
<1>2. Mounted(d)
  BY DEF OneByOne
<1>3. \A c \in DOMAIN calls : Saved(c) /\ c # d => calls'[c] = calls[c] /\ calls[c].pc = "over"
  BY <1>1, OthersOver DEF Only
<1>4. HandleSwitch(d)
  <2>1. ~HandleCredentials(d) /\ ~HandleDeleteProject(d)
    BY OpNames DEF Saved, HandleCredentials, HandleDeleteProject
  <2>2. QED
    BY <2>1 DEF HandlerEnds, Finishes, Saved
<1>5. calls'[d].won <=> calls[d].pc = "won"
  BY HandlerEndsEnds DEF Ends
<1>6. view'.switches = IF calls[d].pc = "won" THEN view.switches ELSE RolledBack(d)
  BY <1>2, <1>4, SavedIs, SwitchHandled
<1>7. \A c \in DOMAIN calls : (Saved(c)' <=> Saved(c)) /\ calls'[c].op = calls[c].op
  BY <1>1, SavedSame
<1>8. Right(op)' <=> Right(op)
  <2>1. ~calls[d].won
    BY <1>1 DEF Calling, Told
  <2>2. \A c \in DOMAIN calls : Reached(c)' <=> Reached(c)
    BY <1>1, <1>3, <1>5, <1>7, <2>1 DEF Reached
  <2>3. QED
    BY <1>1, <2>2, SameRight
<1>9. Having(op)' = Having(op)
  BY <1>1 DEF Having
<1>10. \A c \in DOMAIN calls : Saved(c)' => calls'[c].pc = "over"
  BY <1>1, <1>3, <1>7
<1>11. Right(op) => Showing(op)' = Having(op)
  <2>1. CASE calls[d].op = op
    <3>1. Pending(d, op) /\ calls[d].was \subseteq Saves[op]
      BY <1>1, <2>1, SavedIs DEF Agrees
    <3>2. CASE calls[d].pc = "won"
      BY <1>6, <3>1, <3>2 DEF Pending, Showing
    <3>3. CASE calls[d].pc = "lost"
      <4>1. Showing(op)' = calls[d].was
        BY <1>6, <2>1, <3>1, <3>3 DEF RolledBack, Showing
      <4>2. QED
        BY <3>1, <3>3, <4>1 DEF Pending
    <3>4. QED
      BY <1>1, <3>2, <3>3
  <2>2. CASE calls[d].op # op
    <3>1. Right(op) => Showing(op) = Having(op)
      BY <1>3, <2>2 DEF Agrees
    <3>2. calls[d].was \intersect Saves[op] = {} /\ Saves[calls[d].op] \intersect Saves[op] = {}
      BY <2>2, SavedIs, GroupsApart DEF Saved
    <3>3. Showing(op)' = Showing(op)
      BY <1>6, <3>2 DEF RolledBack, Showing
    <3>4. QED
      BY <3>1, <3>3
  <2>3. QED
    BY <2>1, <2>2
<1>12. QED
  BY <1>1, <1>8, <1>9, <1>10, <1>11 DEF Agrees

-----------------------------------------------------------------------------
(***************************************************************************)
(* The switches: every step.                                               *)
(***************************************************************************)
LEMMA PlainSends ==
  ASSUME Typed, UserSends, ~ToggleSwitch
  PROVE  \E n \in Call : Sent(n) /\ n.op \notin DOMAIN Saves
<1>1. ASSUME NEW op \in Op, NEW t \in Table, NEW i \in Ids \union {None}, NEW nv \in View,
             Sends(op, t, i, nv)
      PROVE  \E n \in Call : Sent(n) /\ n.op \notin DOMAIN Saves
  <2> DEFINE n == NewCall(op, t, i, auth.token)
  <2>1. n \in Call /\ Sent(n)
    BY <1>1, SendsTyped, SendsSent
  <2>2. n.op = op /\ op \notin DOMAIN Saves
    BY <1>1, NewFields DEF Sends
  <2>3. QED
    BY <2>1, <2>2
<1>2. ASSUME NEW op \in {"login", "signup"}, NEW a \in Accounts, Credentials(op, a)
      PROVE  \E n \in Call : Sent(n) /\ n.op \notin DOMAIN Saves
  <2> DEFINE n == NewCall(op, "session", None, a)
  <2>1. n \in Call /\ Sent(n)
    BY <1>2, CredentialsTyped, CredentialsSent
  <2>2. n.op = op /\ op \notin DOMAIN Saves
    BY NewFields, OpNames
  <2>3. QED
    BY <2>1, <2>2
<1>3. QED
  BY <1>1, <1>2 DEF UserSends

\* the calls that were sent before
LEMMA Before ==
  ASSUME Typed, NEW n, Sent(n)
  PROVE  /\ \A c \in DOMAIN calls : /\ c \in DOMAIN calls' /\ calls'[c] = calls[c]
                                    /\ c < Len(calls) + 1
                                    /\ (Saved(c)' <=> Saved(c)) /\ (Mounted(c)' <=> Mounted(c))
         /\ DOMAIN calls' = DOMAIN calls \union {Len(calls) + 1} /\ calls'[Len(calls) + 1] = n
         /\ Len(calls) + 1 \notin DOMAIN calls
<1>1. /\ DOMAIN calls' = DOMAIN calls \union {Len(calls) + 1} /\ calls'[Len(calls) + 1] = n
      /\ \A c \in DOMAIN calls : calls'[c] = calls[c] /\ c < Len(calls) + 1
      /\ past'.visit = past.visit
  BY AppendEffect DEF Sent, SamePage
<1>2. \A c \in DOMAIN calls : (Saved(c)' <=> Saved(c)) /\ (Mounted(c)' <=> Mounted(c))
  BY <1>1 DEF Saved, Mounted
<1>3. Len(calls) + 1 \notin DOMAIN calls
  <2>1. Len(calls) \in Nat /\ DOMAIN calls = 1..Len(calls)
    BY DEF Typed
  <2>2. QED
    BY <2>1
<1>4. QED
  BY <1>1, <1>2, <1>3

LEMMA PlainAgrees ==
  ASSUME Typed, UserSends, ~ToggleSwitch, NEW op \in DOMAIN Saves,
         OneByOne => Agrees(op), OneByOne'
  PROVE  Agrees(op)'
<1>1. PICK n \in Call : Sent(n) /\ n.op \notin DOMAIN Saves
  BY PlainSends
<1>2. \A c \in DOMAIN calls' : Saved(c)' => c \in DOMAIN calls
  BY <1>1, Before DEF Saved
<1>3. OneByOne
  BY <1>1, <1>2, Before DEF OneByOne
<1>4. Showing(op)' = Showing(op) /\ Having(op)' = Having(op)
  BY SendsFrame, SendsSwitches DEF Showing, Having
<1>5. Right(op)' <=> Right(op)
  <2>1. \A c \in DOMAIN calls : Reached(c)' <=> Reached(c)
    BY <1>1, Before DEF Reached
  <2>2. \A c \in DOMAIN calls' : Reached(c)' => c \in DOMAIN calls
    BY <1>2 DEF Reached
  <2>3. DOMAIN calls \subseteq DOMAIN calls'
    BY <1>1, Before
  <2>4. \A c \in DOMAIN calls : LastReached(c)' <=> LastReached(c)
    BY <2>1, <2>2, <2>3 DEF LastReached
  <2>5. \A c \in DOMAIN calls' : LastReached(c)' => c \in DOMAIN calls
    BY <2>2 DEF LastReached
  <2>6. \A c \in DOMAIN calls : calls'[c] = calls[c]
    BY <1>1, Before
  <2>7. QED
    BY <2>3, <2>4, <2>5, <2>6 DEF Right
<1>6. ASSUME Right(op)', \A c \in DOMAIN calls' : Saved(c)' /\ calls'[c].op = op => calls'[c].pc = "over"
      PROVE  Showing(op)' = Having(op)'
  <2>1. \A c \in DOMAIN calls : Saved(c) /\ calls[c].op = op => calls[c].pc = "over"
    BY <1>1, <1>6, Before
  <2>2. QED
    BY <1>3, <1>4, <1>5, <1>6, <2>1 DEF Agrees
<1>7. ASSUME NEW c \in DOMAIN calls', Saved(c)', calls'[c].pc # "over"
      PROVE  calls'[c].pc # "settling" /\ (calls'[c].op = op => Pending(c, op)')
  <2>1. c \in DOMAIN calls /\ calls'[c] = calls[c] /\ Saved(c)
    BY <1>1, <1>2, <1>7, Before
  <2>2. calls[c].pc # "settling" /\ (calls[c].op = op => Pending(c, op))
    BY <1>3, <1>7, <2>1 DEF Agrees
  <2>3. QED
    BY <1>4, <1>5, <2>1, <2>2 DEF Pending
<1>8. QED
  BY <1>6, <1>7 DEF Agrees

\* the switch moves, its group is sent, and the copy is what the server has
LEMMA ToggleAgrees ==
  ASSUME Typed, Calling, Shapes, InTurn, Step, Unsaved, ToggleSwitch, NEW op \in DOMAIN Saves,
         OneByOne => Agrees(op), OneByOne'
  PROVE  Agrees(op)'
<1>0. PICK o \in DOMAIN Saves : \E s \in Saves[o] :
        /\ Toggled(o, s) \in Call /\ SettingsPage /\ calls' = Append(calls, Toggled(o, s))
        /\ view.switches # None /\ view.switches \in SUBSET Switch /\ view'.switches = Flipped(s)
        /\ view'.dialog = view.dialog /\ view'.step = view.step
        /\ view'.made = view.made /\ view'.timers = view.timers
        /\ UNCHANGED <<place, rows, past>>
  BY ToggleTyped
<1>1. PICK s \in Saves[o] :
        /\ Toggled(o, s) \in Call /\ SettingsPage /\ calls' = Append(calls, Toggled(o, s))
        /\ view.switches # None /\ view.switches \in SUBSET Switch /\ view'.switches = Flipped(s)
        /\ view'.dialog = view.dialog /\ view'.step = view.step
        /\ view'.made = view.made /\ view'.timers = view.timers
        /\ UNCHANGED <<place, rows, past>>
  BY <1>0
<1> DEFINE n == Toggled(o, s)
<1>2. PICK l : l = Len(calls) + 1
  OBVIOUS
<1>3. Sent(n)
  BY <1>1, ToggleSent DEF FormsShown
<1>4. /\ n.op = o /\ n.pc = "sent" /\ ~n.won /\ n.set = Flipped(s) \intersect Saves[o]
      /\ n.was = view.switches \intersect Saves[o]
  BY ToggledIs
<1> HIDE DEF n
<1>5. l \in DOMAIN calls' /\ calls'[l] = n /\ l \notin DOMAIN calls
  BY <1>2, <1>3, Before
<1>6. Saved(l)' /\ ~calls'[l].crowded /\ Mounted(l)' /\ ~Reached(l)'
  BY <1>4, <1>5 DEF OneByOne, Saved, Reached
<1>7. /\ \A c \in DOMAIN calls' : c = l \/ c \in DOMAIN calls
      /\ \A c \in DOMAIN calls : /\ c \in DOMAIN calls' /\ calls'[c] = calls[c] /\ c < l
                                 /\ Saved(c)' <=> Saved(c)
                                 /\ Mounted(c)' <=> Mounted(c)
  BY <1>2, <1>3, Before
<1>8. \A c \in DOMAIN calls : Saved(c) => calls'[c].pc = "over" /\ calls[c].pc = "over"
  <2>1. InTurn'
    BY StepInTurn
  <2>2. ASSUME NEW c \in DOMAIN calls, Saved(c) PROVE calls'[c].pc = "over"
    <3>1. c \in DOMAIN calls' /\ Saved(c)' /\ c < l
      BY <1>7, <2>2
    <3>2. Mounted(c)'
      BY <3>1 DEF OneByOne
    <3>3. QED
      BY <1>5, <1>6, <2>1, <3>1, <3>2 DEF InTurn
  <2>3. QED
    BY <1>7, <2>2
<1>9. Right(op)' <=> Right(op)
  <2>1. \A c \in DOMAIN calls : Reached(c)' <=> Reached(c)
    BY <1>7 DEF Reached
  <2>2. \A c \in DOMAIN calls' : Reached(c)' => c \in DOMAIN calls
    BY <1>6, <1>7
  <2>3. \A c \in DOMAIN calls : LastReached(c)' <=> LastReached(c)
    BY <1>7, <2>1, <2>2 DEF LastReached
  <2>4. \A c \in DOMAIN calls' : LastReached(c)' => c \in DOMAIN calls
    BY <2>2 DEF LastReached
  <2>5. QED
    BY <1>7, <2>3, <2>4 DEF Right
<1>10. Right(op) => Showing(op) = Having(op)
  <2>1. CASE \E c \in DOMAIN calls : Saved(c)
    <3>1. OneByOne
      BY <1>7, <2>1 DEF OneByOne
    <3>2. QED
      BY <1>8, <3>1 DEF Agrees
  <2>2. CASE ~ \E c \in DOMAIN calls : Saved(c)
    BY <1>1, <2>2 DEF Unsaved, SettingsPage, Ready, Here, Showing, Having
  <2>3. QED
    BY <2>1, <2>2
<1>11. Having(op)' = Having(op)
  BY <1>1 DEF Having
<1>12. CASE o = op
  <2>1. Showing(op)' = n.set /\ n.was = Showing(op)
    BY <1>1, <1>4, <1>12 DEF Showing
  <2>2. Pending(l, op)'
    BY <1>4, <1>5, <1>9, <1>10, <1>11, <2>1 DEF Pending
  <2>3. \A c \in DOMAIN calls' : Saved(c)' /\ calls'[c].pc # "over" => c = l
    BY <1>7, <1>8
  <2>4. calls'[l].op = op /\ calls'[l].pc = "sent"
    BY <1>4, <1>5, <1>12
  <2>5. QED
    BY <1>5, <1>6, <2>2, <2>3, <2>4 DEF Agrees
<1>13. CASE o # op
  <2>1. s \notin Saves[op]
    BY <1>13, GroupsApart
  <2>2. Showing(op)' = Showing(op)
    BY <1>1, <2>1 DEF Showing, Flipped
  <2>3. \A c \in DOMAIN calls' : Saved(c)' /\ calls'[c].pc # "over" => c = l
    BY <1>7, <1>8
  <2>4. calls'[l].op # op /\ calls'[l].pc = "sent"
    BY <1>4, <1>5, <1>13
  <2>5. QED
    BY <1>9, <1>10, <1>11, <2>2, <2>3, <2>4 DEF Agrees
<1>14. QED
  BY <1>12, <1>13

LEMMA QuietAgrees ==
  ASSUME Typed, Calling, RowsKnown, Shapes, Step, ~UserSends, NEW op \in DOMAIN Saves,
         OneByOne', Agrees(op),
         \A d \in DOMAIN calls : Serves(d) \/ HandlerEnds(d) => ~Saved(d)
  PROVE  Agrees(op)'
<1>1. OneByOne /\ Stay /\ place' = place /\ past'.visit = past.visit
  BY OneBefore
<1>2. PICK c \in DOMAIN calls : Saved(c) /\ Mounted(c)
  BY OneBefore
<1>3. place = "settings" /\ view.switches # None /\ rows[First].state # "unborn"
  BY <1>2, SavedIs
<1>4. rows'[First].set = rows[First].set
  <2>1. ~ \E d \in DOMAIN calls : ServerChanges(d) /\ Saved(d)
    BY DEF Serves
  <2>2. QED
    BY <1>3, <2>1, FirstKeeps
<1>5. view'.switches = view.switches
  <2>1. view'.switches # None
    BY <1>1, <1>3, StepPage DEF PageStep
  <2>2. ~ToggleSwitch
    BY DEF UserSends
  <2>3. QED
    BY <1>1, <1>3, <2>1, <2>2, StepSwitches DEF SwitchStep
<1>6. ASSUME NEW d \in DOMAIN calls, Saved(d)
      PROVE  calls'[d].pc = calls[d].pc /\ calls'[d].won = calls[d].won
  <2>1. CASE UserShows
    BY <2>1, ShowsStay
  <2>2. CASE \E e \in DOMAIN calls : Serves(e)
    BY <1>6, <2>2, ServesFrame DEF Only
  <2>3. CASE \E e \in DOMAIN calls : HandlerEnds(e)
    BY <1>6, <2>3, HandlerEndsEnds DEF Ends, Only
  <2>4. CASE \E e \in DOMAIN calls, p \in Place : Returns(e, p)
    <3>1. PICK e \in DOMAIN calls, p \in Place : Returns(e, p)
      BY <2>4
    <3>2. Only(e) /\ ~Saved(e)
      BY <3>1, ReturnsIs, OpNames DEF Returns, Saved
    <3>3. QED
      BY <1>6, <3>2 DEF Only
  <2>5. CASE \E t \in Table : Fetches(t)
    <3>1. calls[d].pc # "settling"
      BY <1>6 DEF Agrees
    <3>2. PICK t \in Table : UNCHANGED calls \/ calls' = Settled(t)
      BY <2>5, FetchesFrame
    <3>3. CASE UNCHANGED calls
      BY <3>3
    <3>4. CASE calls' = Settled(t)
      BY <3>1, <3>4, SettleEffect DEF SameHere
    <3>5. QED
      BY <3>2, <3>3, <3>4
  <2>6. CASE Elsewhere \/ \E p \in Place : Follows(p)
    BY <2>6, ElsewhereFrame, FollowsLeaves
  <2>7. ~Load
    BY <1>1, LoadAway
  <2>8. QED
    BY <2>1, <2>2, <2>3, <2>4, <2>5, <2>6, <2>7 DEF Step
<1>7. QED
  BY <1>1, <1>4, <1>5, <1>6, SameAgrees

LEMMA StepSwitchesTrue ==
  ASSUME Typed, Calling, RowsKnown, Shapes, Unsaved, SwitchesTrue, Step
  PROVE  SwitchesTrue'
<1>1. InTurn /\ (OneByOne => \A op \in DOMAIN Saves : Agrees(op))
  BY DEF SwitchesTrue
<1>2. InTurn'
  BY <1>1, StepInTurn
<1>3. ASSUME NEW op \in DOMAIN Saves, OneByOne' PROVE Agrees(op)'
  <2>1. CASE ToggleSwitch
    BY <1>1, <1>3, <2>1, ToggleAgrees
  <2>2. CASE UserSends /\ ~ToggleSwitch
    BY <1>1, <1>3, <2>2, PlainAgrees
  <2>3. CASE ~UserSends
    <3>1. OneByOne /\ Agrees(op)
      BY <1>1, <1>3, <2>3, OneBefore
    <3>2. CASE \E d \in DOMAIN calls : (Serves(d) \/ HandlerEnds(d)) /\ Saved(d)
      BY <1>1, <1>3, <3>1, <3>2, ServesAgrees, HandlerAgrees
    <3>3. CASE ~ \E d \in DOMAIN calls : (Serves(d) \/ HandlerEnds(d)) /\ Saved(d)
      BY <1>3, <2>3, <3>1, <3>3, QuietAgrees
    <3>4. QED
      BY <3>2, <3>3
  <2>4. QED
    BY <2>1, <2>2, <2>3 DEF UserSends
<1>4. QED
  BY <1>2, <1>3 DEF SwitchesTrue

-----------------------------------------------------------------------------
(***************************************************************************)
(* The invariant at the start, and through every step.                     *)
(***************************************************************************)
LEMMA ServesMade ==
  ASSUME Typed, Shapes, NEW d \in DOMAIN calls, Serves(d)
  PROVE  calls'[d].made = calls[d].made \/ calls[d].op \in DOMAIN Creates
<1>1. CASE ServerCreates(d)
  BY <1>1 DEF ServerCreates
<1>2. CASE ServerChanges(d)
  <2>1. calls'[d].made = calls[d].made
    BY <1>2, ChangesIs
  <2>2. QED
    BY <2>1
<1>3. CASE ~ServerCreates(d) /\ ~ServerChanges(d)
  <2>1. SameMade(d)
    BY <1>3, AnswersFreeIs, RefusesIs, AnswerIs, CallDeniedIs, OrphanDeniedIs, LoseIs DEF Serves
  <2>2. QED
    BY <2>1 DEF SameMade
<1>4. QED
  BY <1>1, <1>2, <1>3

LEMMA StepMadeByForm ==
  ASSUME Typed, Calling, Shapes, MadeByForm, Step
  PROVE  MadeByForm'
<1>1. CASE UserSends
  <2>1. PICK n \in Call : Sent(n)
    BY <1>1, SendsOne
  <2>2. QED
    BY <2>1, AppendEffect DEF Sent, MadeByForm
<1>2. CASE ~UserSends
  <2>1. Stay
    BY <1>2, StepStays
  <2>2. ASSUME NEW c \in DOMAIN calls
        PROVE  calls'[c].made = calls[c].made \/ calls[c].op \in DOMAIN Creates
    <3>1. CASE UserShows
      BY <3>1, ShowsStay DEF SameMade
    <3>2. CASE \E d \in DOMAIN calls : Serves(d)
      BY <3>2, ServesFrame, ServesMade DEF Only
    <3>3. CASE \E d \in DOMAIN calls : HandlerEnds(d)
      BY <3>3, HandlerEndsEnds DEF Ends, Only, SameMade
    <3>4. CASE \E d \in DOMAIN calls, p \in Place : Returns(d, p)
      BY <3>4, ReturnsIs DEF Only, SameMade
    <3>5. CASE \E t \in Table : Fetches(t)
      BY <3>5, FetchesFrame, SettleEffect DEF SameMade
    <3>6. CASE Elsewhere \/ \E p \in Place : Follows(p)
      BY <3>6, ElsewhereFrame, FollowsLeaves
    <3>7. CASE Load
      BY <3>7, LoadLeaves DEF Leaves
    <3>8. QED
      BY <1>2, <3>1, <3>2, <3>3, <3>4, <3>5, <3>6, <3>7 DEF Step
  <2>3. QED
    BY <2>1, <2>2 DEF MadeByForm, Stay, Fixed
<1>3. QED
  BY <1>1, <1>2

LEMMA StepDashInv ==
  ASSUME DashInv, [Next]_cvars
  PROVE  DashInv'
<1>1. /\ Typed /\ Calling /\ Forms /\ MadeByForm /\ RowsKnown /\ Shapes /\ ListsTrue /\ StaleFetched
      /\ SavesSeen /\ EditStartsFromOwnLastSave /\ OfToken /\ Undisturbed /\ Unsaved /\ SwitchesTrue
  BY DEF DashInv, Calling
<1>2. Step
  BY <1>1, Steps
<1>3. Typed' /\ Calling' /\ Forms' /\ MadeByForm' /\ RowsKnown' /\ Shapes'
  BY <1>1, <1>2, StepTyped, StepForms, StepMadeByForm, StepRowsKnown, StepShapes
<1>4. ListsTrue' /\ StaleFetched' /\ SavesSeen' /\ EditStartsFromOwnLastSave'
  BY <1>1, <1>2, StepListsTrue, StepStaleFetched, StepSavesSeen, StepEditStarts
<1>5. OfToken' /\ Undisturbed' /\ Unsaved' /\ SwitchesTrue'
  BY <1>1, <1>2, StepOfToken, StepUndisturbed, StepUnsaved, StepSwitchesTrue
<1>6. QED
  BY <1>3, <1>4, <1>5 DEF DashInv, Calling

-----------------------------------------------------------------------------
\* what a page that is loaded has of a list
LEMMA InitCache ==
  ASSUME Init
  PROVE  /\ cache \in [Table -> Query]
         /\ \A t \in Table : /\ ~cache[t].loaded /\ cache[t].data = {} /\ cache[t].got = {}
                             /\ ~cache[t].error /\ ~cache[t].stale
                             /\ cache[t].fetch \in {"idle", "out"}
                             /\ cache[t].fetch = "out" => cache[t].as = auth.token
<1>1. auth.token = FirstAccount /\ FirstAccount \in Signed /\ cache = Loaded(place)
  BY ClientAssumption DEF Init, FirstAccount, Signed
<1>2. /\ NoQuery \in Query /\ ~NoQuery.loaded /\ NoQuery.data = {} /\ NoQuery.got = {}
      /\ ~NoQuery.error /\ ~NoQuery.stale /\ NoQuery.fetch = "idle"
  BY NoQueryIs
<1>3. /\ Started(NoQuery) \in Query /\ ~Started(NoQuery).loaded /\ Started(NoQuery).data = {}
      /\ Started(NoQuery).got = {} /\ ~Started(NoQuery).error /\ ~Started(NoQuery).stale
      /\ Started(NoQuery).fetch = "out" /\ Started(NoQuery).as = auth.token
  BY <1>1, <1>2 DEF Started, Query
<1>4. \A t \in Table : cache[t] \in {NoQuery, Started(NoQuery)}
  BY <1>1 DEF Loaded
<1>5. cache \in [Table -> Query]
  BY <1>1, <1>2, <1>3 DEF Loaded
<1>6. QED
  BY <1>2, <1>3, <1>4, <1>5

LEMMA InitRows ==
  ASSUME Init
  PROVE  /\ rows \in [Ids -> Row]
         /\ \A i \in Ids : rows[i].table = "me" => i = First
<1>1. PICK tour \in Tours : rows \in StartRows(tour.pages) /\ tour.pages \subseteq Place
  BY ClientAssumption DEF Init, Tour
<1>2. FirstAccount \in Accounts
  BY ClientAssumption DEF FirstAccount
<1>3. Unborn \in Row
  BY <1>2 DEF Unborn, Row, RowState
<1>4. \A t \in Table : Earlier(t) \subseteq Row
  <2>1. SUFFICES ASSUME NEW t \in Table, NEW r \in Earlier(t) PROVE r \in Row
    OBVIOUS
  <2>2. /\ r \in [table : {t}, acct : {FirstAccount}, rev : {0}, set : SUBSET Switch,
                  state : Living]
    BY <2>1 DEF Earlier, Living
  <2>3. QED
    BY <1>2, <2>2 DEF Row, RowState, Living
<1>5. Stored(tour.pages) \subseteq Table
  BY <1>1 DEF Stored, Table
<1>6. rows \in [Ids -> {Unborn} \union UNION {Earlier(t) : t \in Stored(tour.pages)}]
      /\ \A i \in Ids \ {First} : rows[i].table # "me"
  BY <1>1 DEF StartRows
<1>7. {Unborn} \union UNION {Earlier(t) : t \in Stored(tour.pages)} \subseteq Row
  BY <1>3, <1>4, <1>5
<1>8. QED
  BY <1>6, <1>7

LEMMA InitTyped ==
  ASSUME Init PROVE Typed /\ calls = << >> /\ DOMAIN calls = {}
<1>1. FirstAccount \in Accounts
  BY ClientAssumption DEF FirstAccount
<1>2. auth \in Auth /\ auth.closed \subseteq auth.known /\ auth.live \subseteq auth.known \ auth.closed
  BY <1>1 DEF Init, Auth, Signed
<1>3. PICK tour \in Tours : place \in tour.pages /\ budget = tour
  BY DEF Init
<1>4. tour \in Tour
  BY ClientAssumption
<1>5. place \in Place /\ budget \in Bounds
  BY <1>3, <1>4, ClientAssumption DEF Tour, Bounds
<1>6. calls = << >> /\ DOMAIN calls = {} /\ calls \in Seq(Call) /\ Len(calls) = 0
  BY DEF Init
<1>7. view = Blank /\ view \in View /\ view.made \in 0..Len(calls)
  BY <1>6, BlankIs DEF Init
<1>8. past \in Past /\ leaving = None
  BY DEF Init, Past
<1>9. QED
  BY <1>2, <1>5, <1>6, <1>7, <1>8, InitCache, InitRows DEF Typed

LEMMA InitDashInv == Init => DashInv
<1>1. SUFFICES ASSUME Init PROVE DashInv
  OBVIOUS
<1>2. Typed /\ DOMAIN calls = {}
  BY <1>1, InitTyped
<1>3. InOrder /\ SentFromHere /\ Told /\ MadeByForm /\ Shapes /\ SavesSeen
  BY <1>2 DEF InOrder, SentFromHere, Told, MadeByForm, Shapes, SavesSeen
<1>4. view = Blank /\ leaving = None /\ place # "login"
  <2>1. PICK tour \in Tours : place \in tour.pages
    BY <1>1 DEF Init
  <2>2. tour.pages \subseteq Place \ {"login"}
    BY ClientAssumption DEF Tour
  <2>3. QED
    BY <1>1, <2>1, <2>2 DEF Init
<1>5. view.dialog = "none" /\ view.timers = 0 /\ view.base = None /\ view.switches = None
  BY <1>4, BlankIs
<1>6. Forms
  BY <1>2, <1>5 DEF Forms, TimersHere, OneAtATime, NoReset, FormClosed, SecretShown, SentAgain
<1>7. \A t \in Table : /\ ~cache[t].loaded /\ cache[t].data = {} /\ cache[t].got = {}
                       /\ ~cache[t].stale /\ cache[t].fetch \in {"idle", "out"}
                       /\ cache[t].fetch = "out" => cache[t].as = auth.token
  BY <1>1, InitCache
<1>8. RowsKnown
  BY <1>1, <1>5, <1>7, InitRows, NoneChosen DEF RowsKnown, Items
<1>9. ListsTrue
  BY <1>7 DEF ListsTrue, AtRest
<1>10. StaleFetched
  <2>1. Mounts[place] \subseteq Table
    BY <1>2 DEF Typed, Table
  <2>2. QED
    BY <1>7, <2>1 DEF StaleFetched
<1>11. EditStartsFromOwnLastSave
  BY <1>5 DEF EditStartsFromOwnLastSave
<1>12. OfToken
  BY <1>7 DEF OfToken
<1>13. Undisturbed
  <2>1. auth.cookie /\ auth.token \in Accounts /\ auth.tenant = auth.token /\ auth.stored = auth.token
    BY <1>1, ClientAssumption DEF Init, FirstAccount
  <2>2. SignedInHere
    BY <1>2, <1>7, <2>1 DEF SignedInHere
  <2>3. ~past.wiped
    BY <1>1 DEF Init
  <2>4. None # "login" /\ None # "overview"
    BY ClientAssumption
  <2>5. QED
    BY <1>4, <2>2, <2>3, <2>4 DEF Undisturbed
<1>14. Unsaved
  BY <1>5, <1>7, DetailTables DEF Unsaved, Items
<1>15. SwitchesTrue
  BY <1>2 DEF SwitchesTrue, InTurn, OneByOne
<1>16. QED
  BY <1>2, <1>3, <1>6, <1>8, <1>9, <1>10, <1>11, <1>12, <1>13, <1>14, <1>15 DEF DashInv

-----------------------------------------------------------------------------
(***************************************************************************)
(* The theorems.                                                           *)
(***************************************************************************)
(* The parts of DashInv hold together in every state of the dashboard.     *)
THEOREM DashInvariance == Spec => []DashInv
<1>1. DashInv /\ [Next]_cvars => DashInv'
  BY StepDashInv
<1>2. QED
  BY InitDashInv, <1>1, PTL DEF Spec

(* Session, page, view, rows, cache, calls and history keep their types.   *)
THEOREM DashTypes == Spec => []Typed
BY DashInvariance, PTL DEF DashInv

(* A list at rest that shows no error and missed no change (of another     *)
(* client, of an answer lost or not heard, of a rule that went with its    *)
(* provider, of the settings, or one told while a first fetch or that of a *)
(* page that was left was already served) shows what the server has.       *)
THEOREM ListsSettleAlways == Spec => []ListsSettle
<1>1. DashInv => ListsSettle
  <2>1. SUFFICES ASSUME DashInv, NEW t \in Mounts[place],
                        cache[t].fetch = "idle", cache[t].loaded, ~cache[t].error,
                        t \notin past.missed, cache[t].as = auth.token, auth.token \in auth.live,
                        \A c \in DOMAIN calls : Unfinished(c) => t \notin Invalidates(c)
                 PROVE  cache[t].data = Listing(t, auth.token)
    BY DEF ListsSettle
  <2>2. Typed /\ ListsTrue /\ StaleFetched
    BY <2>1 DEF DashInv
  <2>3. t \in Table
    BY <2>1, <2>2 DEF Typed, Table
  <2>4. AtRest(t)
    BY <2>1, <2>2 DEF StaleFetched, AtRest
  <2>5. Current(t)
    BY <2>1, <2>2 DEF Typed, Current, Unfinished
  <2>6. QED
    BY <2>1, <2>2, <2>3, <2>4, <2>5 DEF ListsTrue
<1>2. QED
  BY DashInvariance, <1>1, PTL

(* A secret the user was given is kept in its dialog, which stays open,    *)
(* until the user closes it or leaves the page, unless the reset of an     *)
(* earlier dialog was due when it was asked for.                           *)
THEOREM SecretsKept == Spec => []SecretKept
<1>1. DashInv => SecretKept
  <2>1. \A op \in SecretOps : Form[op] = op
    BY DEF SecretOps, Form
  <2>2. QED
    BY <2>1 DEF DashInv, Forms, SecretShown, SecretKept, Mounted
<1>2. QED
  BY DashInvariance, <1>1, PTL

(* A form that was opened makes one row, unless the answer about the first *)
(* was lost or an earlier reset brought the form back; the connect dialog  *)
(* and the copies of a template are exempt.                                *)
THEOREM OneRow == Spec => []OneRowPerOpening
<1>1. DashInv => OneRowPerOpening
  <2>1. SUFFICES ASSUME DashInv, NEW c \in DOMAIN calls, NEW d \in DOMAIN calls,
                        c < d, calls[c].op = calls[d].op,
                        calls[c].op \notin {"duplicate_template", "connect"},
                        calls[c].opening = calls[d].opening, calls[c].visit = calls[d].visit,
                        calls[c].made # None, calls[d].made # None
                 PROVE  calls[c].unheard \/ calls[c].reset
    BY DEF OneRowPerOpening
  <2>2. calls[c].op \in DOMAIN Creates
    BY <2>1 DEF DashInv, MadeByForm
  <2>3. calls[c].op \in Refillable
    BY <2>1, <2>2, OpNames DEF Refillable
  <2>4. QED
    BY <2>1, <2>3 DEF DashInv, Forms, SentAgain
<1>2. QED
  BY DashInvariance, <1>1, PTL

(* The edit form does not start from a version older than the save that    *)
(* took the user back to the list.                                         *)
THEOREM EditStarts == Spec => []EditStartsFromOwnLastSave
<1>1. DashInv => EditStartsFromOwnLastSave
  BY DEF DashInv
<1>2. QED
  BY DashInvariance, <1>1, PTL

(* What one user's session fetched or was denied reaches no other one.     *)
THEOREM OneSessionAlways == Spec => []OneSession
<1>1. DashInv => OneSession
  <2>1. SUFFICES ASSUME DashInv PROVE OneSession
    OBVIOUS
  <2>2. Typed /\ OfToken /\ Undisturbed
    BY <2>1 DEF DashInv
  <2>3. ASSUME Looked, place # "login", ~past.otherTab, NEW t \in Mounts[place], cache[t].loaded
        PROVE  cache[t].as = auth.token
    BY <2>2, <2>3 DEF Looked, OfToken, Typed, Table
  <2>4. ASSUME Looked, place # "login", ~past.disturbed
        PROVE  auth.tenant = auth.token
    BY <2>2, <2>4 DEF Looked, Undisturbed, SignedInHere
  <2>5. past.wiped => past.disturbed
    BY <2>2 DEF Undisturbed
  <2>6. QED
    BY <2>3, <2>4, <2>5 DEF OneSession, OneAccountShown
<1>2. QED
  BY DashInvariance, <1>1, PTL

(* While the user stays and the saves of the settings page come one after  *)
(* the other, all answered, the group the server took last is shown as the *)
(* server has it, though others failed since; before any, every switch is. *)
THEOREM SwitchShows == Spec => []SwitchShowsSaved
<1>1. DashInv => SwitchShowsSaved
  <2>1. SUFFICES ASSUME DashInv, place = "settings", view.switches # None,
                        \A c \in DOMAIN calls : calls[c].op \in DOMAIN Saves =>
                          /\ calls[c].pc = "over" /\ calls[c].visit = past.visit
                          /\ ~calls[c].crowded /\ ~calls[c].unheard
                 PROVE  /\ \A c \in DOMAIN calls : LastSaved(c) =>
                             LET g == Saves[calls[c].op]
                             IN  view.switches \intersect g = rows[First].set \intersect g
                        /\ (~ \E c \in DOMAIN calls : LastSaved(c)) =>
                             view.switches = rows[First].set
    BY DEF SwitchShowsSaved
  <2>2. \A c \in DOMAIN calls : LastReached(c) <=> LastSaved(c)
    BY <2>1 DEF LastReached, Reached, LastSaved, Saved
  <2>3. ASSUME \E c \in DOMAIN calls : Saved(c), NEW op \in DOMAIN Saves, Right(op)
        PROVE  Showing(op) = Having(op)
    BY <2>1, <2>3 DEF DashInv, SwitchesTrue, OneByOne, Agrees, Saved, Mounted
  <2>4. ASSUME NEW c \in DOMAIN calls, LastSaved(c)
        PROVE  view.switches \intersect Saves[calls[c].op] = rows[First].set \intersect Saves[calls[c].op]
    <3>1. calls[c].op \in DOMAIN Saves /\ Saved(c)
      BY <2>4 DEF LastSaved, Saved
    <3>2. Right(calls[c].op)
      BY <2>1, <2>2, <2>4, LastIsOne DEF Right, DashInv
    <3>3. QED
      BY <2>3, <3>1, <3>2 DEF Showing, Having
  <2>5. ASSUME ~ \E c \in DOMAIN calls : LastSaved(c)
        PROVE  view.switches = rows[First].set
    <3>1. CASE \E c \in DOMAIN calls : Saved(c)
      <4>1. \A op \in DOMAIN Saves : Showing(op) = Having(op)
        BY <2>2, <2>3, <2>5, <3>1 DEF Right
      <4>2. view.switches \subseteq Switch /\ rows[First].set \subseteq Switch
        BY <2>1, ClientAssumption DEF DashInv, Typed, View, Row
      <4>3. \A s \in Switch : \E op \in DOMAIN Saves : s \in Saves[op]
        BY DEF Switch
      <4>4. \A s \in Switch : s \in view.switches <=> s \in rows[First].set
        BY <4>1, <4>3 DEF Showing, Having
      <4>5. QED
        BY <4>2, <4>4
    <3>2. CASE ~ \E c \in DOMAIN calls : Saved(c)
      BY <2>1, <3>2 DEF DashInv, Unsaved
    <3>3. QED
      BY <3>1, <3>2
  <2>6. QED
    BY <2>4, <2>5
<1>2. QED
  BY DashInvariance, <1>1, PTL

(* A save that ends moves the user only off the page it was sent from; the *)
(* email that was sent, which moves them from anywhere, is exempt.         *)
THEOREM NeverYanked == Spec => NoYank
<1>1. DashInv /\ [Next]_cvars =>
        [\A c \in DOMAIN calls :
           (place' # place /\ Continues(c) /\ calls'[c].pc = "over" /\ calls[c].op # "send_email")
             => Mounted(c)]_cvars
  <2>1. SUFFICES ASSUME DashInv, [Next]_cvars, NEW c \in DOMAIN calls, place' # place,
                        Continues(c), calls'[c].pc = "over", calls[c].op # "send_email"
                 PROVE  Mounted(c)
    OBVIOUS
  <2>2. Typed /\ Shapes /\ RowsKnown
    BY <2>1 DEF DashInv
  <2>3. Step
    BY <2>1, <2>2, Steps
  <2>4. PICK d \in DOMAIN calls, p \in Place : Returns(d, p)
    <3>1. ~Load
      BY <2>1, <2>2, LoadIs DEF Awake
    <3>2. ~ \E p \in Place : Follows(p)
      BY <2>1 DEF Follows, Here, Awake
    <3>3. QED
      BY <2>1, <2>2, <2>3, <3>1, <3>2, SendsFrame, ShowsFrame, ServesFrame, HandlerFrame,
         FetchesFrame, ElsewhereFrame DEF Step
  <2>5. c = d
    BY <2>1, <2>2, <2>4, ReturnsIs DEF Only, Continues
  <2>6. QED
    BY <2>1, <2>4, <2>5 DEF Returns
<1>2. QED
  BY DashInvariance, <1>1, PTL DEF Spec, NoYank
=============================================================================
