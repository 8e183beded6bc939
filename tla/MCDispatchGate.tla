--------------------------- MODULE MCDispatchGate ---------------------------
(***************************************************************************)
(* Who asks in each scene, and what goes wrong; c1 and c2 are two accounts *)
(* at one provider.                                                        *)
(***************************************************************************)
EXTENDS DispatchGate, TLC

CONSTANTS r1, r2, r3, c1, c2, c3, sendgrid, mailgun

MCTypeOf   == (c1 :> sendgrid) @@ (c2 :> sendgrid) @@ (c3 :> mailgun)
MCPriority == (c1 :> 1) @@ (c2 :> 2) @@ (c3 :> 3)

Asked(a, b, c)  == (r1 :> a) @@ (r2 :> b) @@ (r3 :> c)
Keyed(rs)       == [r \in Requests |-> r \in rs]

In(via, keyed, mode, billed, connected, failing, moved) ==
  [via |-> via, keyed |-> Keyed(keyed), mode |-> mode, billed |-> billed,
   connected |-> connected, slips |-> failing, moods |-> moved]

MCScenes == {
  \* one key asked for twice
  In(Asked("api", "api", "nobody"), {r1, r2}, "byok", FALSE, {c1}, 1, 1),
  In(Asked("api", "api", "nobody"), {r1, r2}, "byok", FALSE, {c1}, 0, 2),
  In(Asked("api", "mcp", "nobody"), {r1, r2}, "byok", FALSE, {c1, c3}, 2, 0),
  \* caps, and two accounts at one provider
  In(Asked("api", "api", "api"), {}, "byok", FALSE, {c1}, 0, 0),
  In(Asked("api", "api", "nobody"), {}, "byok", FALSE, Connections, 1, 1),
  In(Asked("mcp", "mcp", "mcp"), {}, "byok", FALSE, {c1}, 0, 0),
  In(Asked("mcp", "mcp", "nobody"), {r1, r2}, "byok", FALSE, {c1, c2}, 1, 0),
  \* lists, connections and days that change
  In(Asked("api", "api", "nobody"), {r1}, "byok", FALSE, {c1}, 0, 2),
  In(Asked("api", "nobody", "nobody"), {r1}, "byok", FALSE, {c1}, 1, 3),
  \* a cloud service, which hears of each email
  In(Asked("api", "nobody", "nobody"), {r1}, "managed", TRUE, {c1}, 4, 0),
  In(Asked("api", "mcp", "nobody"), {r1, r2}, "demo", TRUE, {}, 1, 0)}
=============================================================================
