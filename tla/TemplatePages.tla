--------------------------- MODULE TemplatePages ---------------------------
(***************************************************************************)
(* Templates and single sends.  base is the version of the template whose  *)
(* fields the edit form holds: a save writes all of them back.             *)
(***************************************************************************)
EXTENDS QueryClient

\* the user follows a link, of the sidebar or of a page
Visit(p) == budget.moves > 0 /\ p # place /\ Route(p) /\ calls' = calls
            /\ budget' = [budget EXCEPT !.moves = @ - 1]

TemplateTable(i) == /\ Ready("templates", "templates")
                    /\ view.dialog = "none" /\ Lists("templates", i, {"on", "off"})

EditTemplate == TemplateTable(First) /\ "template" \in budget.pages /\ Visit("template")

DuplicateTemplate == \E i \in Ids :
  TemplateTable(i) /\ Send("duplicate_template", "templates", i, view)

HandleDuplicate(c) == calls[c].op = "duplicate_template" /\ Continues(c) /\ FinishLatest(c, view)

OpenDeleteTemplate == \E i \in Ids :
  TemplateTable(i) /\ OpenDialog([view EXCEPT !.dialog = "delete_template", !.target = i])

CloseDeleteTemplate == Here("templates") /\ CloseDialog(Closed)

DeleteTemplate ==
  /\ Here("templates") /\ view.dialog = "delete_template" /\ ~IsPending("delete_template")
  /\ Send("delete_template", "templates", view.target, view)

HandleDeleteTemplate(c) ==
  /\ calls[c].op = "delete_template" /\ Continues(c)
  /\ FinishLatest(c, IF calls[c].pc = "won" /\ view.dialog = "delete_template" THEN Closed ELSE view)

-----------------------------------------------------------------------------
\* The form of one template: there is one once there are data, and no error
SaveTemplate ==
  /\ Here("template") /\ view.base # None /\ ~IsPending("update_template")
  /\ Send("update_template", "templates", First, view)

\* a callback of mutate(): it is gone with the page
SavedHere(c) == calls[c].pc = "won" /\ Mounted(c) /\ Latest(c)

\* Mutant: the handler awaits the mutation and goes on wherever the user is.
HandleSaveAnywhere(c) ==
  /\ calls[c].op \in {"update_template", "create_template"} /\ Continues(c)
  /\ IF calls[c].pc = "won" THEN RouteFrom(c, "templates") ELSE Finish(c, view)

HandleSaveTemplate(c) ==
  /\ calls[c].op \in {"update_template", "create_template"} /\ Continues(c)
  /\ IF SavedHere(c) THEN RouteFrom(c, "templates") ELSE Finish(c, view)

-----------------------------------------------------------------------------
\* A new template, typed or generated
Generate == /\ Here("template_new") /\ ~IsPending("generate_template")
            /\ Send("generate_template", "templates", None, view)

HandleGenerate(c) == calls[c].op = "generate_template" /\ Continues(c) /\ FinishLatest(c, view)

CreateTemplate == /\ Here("template_new") /\ ~IsPending("create_template")
                  /\ Send("create_template", "templates", None, view)

-----------------------------------------------------------------------------
\* One email to one recipient, the page called a new campaign

\* Mutant: the button is not disabled while the request is out.
SendFormEnabled == Here("send")

SendForm == Here("send") /\ ~IsPending("send_email")

SendEmail == SendForm /\ Send("send_email", "emails", None, view)

\* the handler awaits the mutation: it goes to the campaigns from anywhere
HandleSend(c) ==
  /\ calls[c].op = "send_email" /\ Continues(c)
  /\ IF calls[c].pc = "won" THEN RouteFrom(c, "campaigns") ELSE Finish(c, view)

TemplateSteps ==
  \/ EditTemplate \/ DuplicateTemplate \/ OpenDeleteTemplate \/ CloseDeleteTemplate
  \/ DeleteTemplate \/ SaveTemplate \/ Generate \/ CreateTemplate \/ SendEmail

TemplateHandlers(c) ==
  \/ HandleDuplicate(c) \/ HandleDeleteTemplate(c) \/ HandleSaveTemplate(c)
  \/ HandleGenerate(c) \/ HandleSend(c)
=============================================================================
