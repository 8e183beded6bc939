---------------------------- MODULE MCDashboard ----------------------------
(***************************************************************************)
(* Tours of pages that share queries or hand the user from one to          *)
(* another; what is counted stays small, so that each can go far.          *)
(***************************************************************************)
EXTENDS DashboardTruth

Visiting(pages, called, moved, fetched, trouble, signed) ==
  [pages |-> pages, calls |-> called, moves |-> moved, fetches |-> fetched,
   trouble |-> trouble, signs |-> signed]

MCTours == {
  \* dialogs one after the other, with two calls in flight
  Visiting({"api_keys"}, 2, 2, 0, 0, 0), Visiting({"mcp"}, 2, 2, 0, 0, 0),
  Visiting({"team"}, 2, 1, 0, 0, 0), Visiting({"webhooks"}, 2, 0, 0, 0, 0),
  Visiting({"suppressions"}, 2, 1, 0, 0, 0), Visiting({"domains"}, 2, 0, 0, 0, 0),
  Visiting({"providers"}, 2, 0, 0, 0, 0), Visiting({"send", "campaigns"}, 2, 0, 0, 0, 0),
  \* a failure or another client
  Visiting({"api_keys"}, 1, 1, 1, 1, 0), Visiting({"mcp"}, 1, 1, 1, 1, 0),
  Visiting({"team"}, 1, 0, 0, 1, 0), Visiting({"webhooks"}, 1, 1, 0, 1, 0),
  Visiting({"suppressions"}, 1, 1, 1, 1, 0), Visiting({"domains"}, 1, 1, 0, 0, 0),
  Visiting({"domains"}, 1, 0, 0, 1, 0), Visiting({"domains"}, 0, 0, 0, 2, 0),
  Visiting({"providers"}, 1, 0, 0, 1, 0),
  Visiting({"template_new", "templates"}, 1, 1, 0, 1, 0),
  Visiting({"send", "campaigns"}, 1, 1, 0, 1, 0),
  Visiting({"settings"}, 2, 0, 0, 1, 0), Visiting({"profile", "settings"}, 1, 1, 0, 1, 0),
  \* pages that change under a call
  Visiting({"providers", "routing"}, 1, 1, 0, 0, 0), Visiting({"routing"}, 1, 1, 1, 0, 0),
  Visiting({"templates", "template"}, 2, 2, 0, 0, 0),
  Visiting({"templates", "template"}, 1, 2, 1, 0, 0),
  \* sessions that change under a page
  Visiting({"suppressions"}, 2, 0, 0, 0, 3), Visiting({"overview", "campaigns"}, 1, 1, 0, 0, 3),
  Visiting({"settings"}, 1, 1, 0, 0, 1), Visiting({"settings"}, 1, 0, 0, 0, 2),
  Visiting({"profile"}, 1, 0, 0, 0, 3)}
=============================================================================
