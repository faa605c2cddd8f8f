---------------------------- MODULE TimeBilling -----------------------------
(***************************************************************************)
(* Projects, the time logged on them and the invoices for it.  A request   *)
(* is handled at a time; each user has the time tracking page open, with   *)
(* its two tabs and their dialogs.                                         *)
(***************************************************************************)
EXTENDS Integers, FiniteSets, Functions

CONSTANTS
  Projects, Entries, Invoices,
  MaxHours,           \* hours of an entry
  Users,
  Alone,              \* whether the users, who wait for their calls before they leave a tab, are the only ones
  None

VARIABLES
  project,            \* "absent", "active" or "completed"
  entry,              \* what is stored of each time entry
  invoice,            \* what is stored of each invoice for time
  page,               \* each user's tab: what it shows, and its dialog
  call                \* the request it waits for

vars == <<project, entry, invoice, page, call>>
server == <<project, entry, invoice>>

Hours == 1..MaxHours
Tabs == {"projects", "timesheets", "elsewhere"}
Dialog(kind, on) == [kind |-> kind, on |-> on, items |-> None, ticked |-> {}]
NoDialog == Dialog("none", None)
NoCall == [kind |-> None, on |-> None, ids |-> {}, shown |-> 0, step |-> "idle", here |-> FALSE]

Entry == [project : Projects, hours : Hours, billable : BOOLEAN, invoice : Invoices \cup {None}]
HoursOfSome == UNION {[es -> Hours] : es \in SUBSET Entries}
Invoice == [project : Projects, status : {"sent", "draft", "void"}, shown : Nat, billed : HoursOfSome]
Card == [status : {"active", "completed"}, unbilled : Nat]
Kinds == {"log", "edit", "delete", "project", "deleteProject", "invoice"}
TimePage == [tab : Tabs,
             shown : {None} \cup [Projects -> {None} \cup Card] \cup [Entries -> {None} \cup Entry],
             dialog : [kind : Kinds \cup {"none"}, on : {None} \cup Projects \cup Entries,
                       items : {None} \cup HoursOfSome, ticked : SUBSET Entries]]
Call == [kind : Kinds \cup {None}, on : {None} \cup Projects \cup Entries, ids : SUBSET Entries,
         shown : Nat, step : {"idle", "sent", "done", "refused"}, here : BOOLEAN]
\* What a dialog or a request of a kind is about.
Fits(kind, on) ==
  /\ kind \in {"edit", "delete"} => on \in Entries
  /\ kind \in {"deleteProject", "invoice"} => on \in Projects

TypeOK ==
  /\ project \in [Projects -> {"absent", "active", "completed"}]
  /\ entry \in [Entries -> {None} \cup Entry]
  /\ invoice \in [Invoices -> {None} \cup Invoice]
  /\ page \in [Users -> TimePage] /\ call \in [Users -> Call]
  /\ \A u \in Users : /\ Fits(page[u].dialog.kind, page[u].dialog.on)
                      /\ Fits(call[u].kind, call[u].on)

-----------------------------------------------------------------------------
(* The server                                                              *)

Logged == {e \in Entries : entry[e] # None}
TotalHours(hours) == SumFunctionOnSet(hours, DOMAIN hours)
Unbilled(p) == {e \in Logged : entry[e].project = p /\ entry[e].billable /\ entry[e].invoice = None}
UnbilledHours(p) == TotalHours([e \in Unbilled(p) |-> entry[e].hours])
Cards == [p \in Projects |-> IF project[p] = "absent" THEN None ELSE [status |-> project[p], unbilled |-> UnbilledHours(p)]]

LogTime(e, p, hours, billable) ==
  /\ project[p] = "active" /\ entry[e] = None
  /\ entry' = [entry EXCEPT ![e] = [project |-> p, hours |-> hours, billable |-> billable, invoice |-> None]]
  /\ UNCHANGED <<project, invoice>>

Editable(e) == entry[e] # None /\ entry[e].invoice = None
UpdateTime(e, hours, billable) ==
  /\ Editable(e)
  /\ entry' = [entry EXCEPT ![e].hours = hours, ![e].billable = billable]
  /\ UNCHANGED <<project, invoice>>

DeleteTime(e) ==
  /\ Editable(e)
  /\ entry' = [entry EXCEPT ![e] = None]
  /\ UNCHANGED <<project, invoice>>

(* Faulty variant: every unbilled entry of the project is invoiced. *)
AllUnbilled(p, ids) == Unbilled(p)
Chosen(p, ids) == IF ids = {} THEN Unbilled(p) ELSE Unbilled(p) \cap ids
InvoiceTime(i, p, ids, shown) ==
  LET entries == Chosen(p, ids)
  IN /\ project[p] # "absent" /\ entries # {} /\ invoice[i] = None
     /\ invoice' = [invoice EXCEPT ![i] = [project |-> p, status |-> "sent", shown |-> shown,
                                           billed |-> [e \in entries |-> entry[e].hours]]]
     /\ entry' = [e \in Entries |-> IF e \in entries THEN [entry[e] EXCEPT !.invoice = i] ELSE entry[e]]
     /\ UNCHANGED project

\* A project with invoices is completed, any other goes with its entries.
DeleteProject(p) ==
  LET kept == \/ \E e \in Logged : entry[e].project = p /\ entry[e].invoice # None
              \/ \E i \in Invoices : invoice[i] # None /\ invoice[i].project = p
  IN /\ project[p] # "absent"
     /\ project' = [project EXCEPT ![p] = IF kept THEN "completed" ELSE "absent"]
     /\ entry' = IF kept THEN entry
                 ELSE [e \in Entries |-> IF e \in Logged /\ entry[e].project = p THEN None ELSE entry[e]]
     /\ UNCHANGED invoice

Released(i) == [e \in Entries |-> IF e \in Logged /\ entry[e].invoice = i THEN [entry[e] EXCEPT !.invoice = None]
                                  ELSE entry[e]]
VoidInvoice(i) ==
  /\ invoice[i] # None /\ invoice[i].status # "void"
  /\ invoice' = [invoice EXCEPT ![i].status = "void"]
  /\ entry' = Released(i)
  /\ UNCHANGED <<project, page, call>>

\* A sent invoice goes back to draft with its entries, and is sent again.
SendOrRevert(i) ==
  /\ invoice[i] # None /\ invoice[i].status # "void"
  /\ invoice' = [invoice EXCEPT ![i].status = IF @ = "sent" THEN "draft" ELSE "sent"]
  /\ UNCHANGED <<project, entry, page, call>>

DeleteInvoice(i) ==
  /\ invoice[i] # None /\ invoice[i].status # "sent"
  /\ invoice' = [invoice EXCEPT ![i] = None]
  /\ entry' = Released(i)
  /\ UNCHANGED <<project, page, call>>

SaveProject(p, on, status) ==
  /\ IF on = None THEN project[p] = "absent" /\ status = "active" ELSE p = on /\ project[p] # "absent"
  /\ project' = [project EXCEPT ![p] = status]
  /\ UNCHANGED <<entry, invoice>>

-----------------------------------------------------------------------------
(* A user's page                                                           *)

Stored(tab) == IF tab = "projects" THEN Cards ELSE entry
Load(u) ==
  /\ page[u].shown = None /\ page[u].tab # "elsewhere"
  /\ page' = [page EXCEPT ![u].shown = Stored(page[u].tab)]
  /\ UNCHANGED <<server, call>>

SwitchTab(u, tab) ==
  /\ page[u].tab # tab /\ page[u].dialog = NoDialog /\ (Alone => call[u].step = "idle")
  /\ page' = [page EXCEPT ![u] = [tab |-> tab, shown |-> None, dialog |-> NoDialog]]
  /\ call' = [call EXCEPT ![u].here = FALSE]
  /\ UNCHANGED server

Open(u, dialog) ==
  /\ page[u].shown # None /\ page[u].dialog = NoDialog
  /\ page' = [page EXCEPT ![u].dialog = dialog]
  /\ UNCHANGED <<server, call>>

OpenInvoice(u, p) ==
  /\ page[u].tab = "projects" /\ page[u].shown # None
  /\ page[u].shown[p] # None /\ page[u].shown[p].unbilled > 0
  /\ Open(u, Dialog("invoice", p))

OpenDeleteProject(u, p) ==
  /\ page[u].tab = "projects" /\ page[u].shown # None /\ page[u].shown[p] # None
  /\ Open(u, Dialog("deleteProject", p))

OpenEntry(u, kind, e) ==
  /\ page[u].tab = "timesheets" /\ page[u].shown # None
  /\ page[u].shown[e] # None /\ page[u].shown[e].invoice = None
  /\ Open(u, Dialog(kind, e))

OpenProject(u, p) ==
  /\ page[u].tab = "projects" /\ page[u].shown # None /\ (p # None => page[u].shown[p] # None)
  /\ Open(u, Dialog("project", p))

OpenLog(u) ==
  /\ page[u].tab = "timesheets"
  /\ Open(u, Dialog("log", None))

Close(u) ==
  /\ page[u].dialog # NoDialog
  /\ page' = [page EXCEPT ![u].dialog = NoDialog]
  /\ UNCHANGED <<server, call>>

\* The entries the invoice may cover, all of them ticked.
LoadItems(u) ==
  LET items == [e \in Unbilled(page[u].dialog.on) |-> entry[e].hours]
  IN /\ page[u].dialog.kind = "invoice" /\ page[u].dialog.items = None
     /\ page' = [page EXCEPT ![u].dialog.items = items, ![u].dialog.ticked = DOMAIN items]
     /\ UNCHANGED <<server, call>>

Toggle(u, e) ==
  /\ page[u].dialog.items # None /\ e \in DOMAIN page[u].dialog.items
  /\ page' = [page EXCEPT ![u].dialog.ticked = IF e \in @ THEN @ \ {e} ELSE @ \cup {e}]
  /\ UNCHANGED <<server, call>>

Send(u, kind, on, ids, shown) ==
  /\ call[u].step = "idle"
  /\ call' = [call EXCEPT ![u] = [kind |-> kind, on |-> on, ids |-> ids, shown |-> shown,
                                  step |-> "sent", here |-> TRUE]]
  /\ UNCHANGED <<server, page>>

SubmitInvoice(u) ==
  LET dialog == page[u].dialog
  IN /\ dialog.kind = "invoice" /\ dialog.ticked # {}
     /\ Send(u, "invoice", dialog.on, dialog.ticked, TotalHours([e \in dialog.ticked |-> dialog.items[e]]))

SubmitProject(u) == page[u].dialog.kind = "project" /\ Send(u, "project", page[u].dialog.on, {}, 0)
SubmitEntry(u) == page[u].dialog.kind \in {"log", "edit"} /\ Send(u, page[u].dialog.kind, page[u].dialog.on, {}, 0)
ConfirmDelete(u) ==
  /\ page[u].dialog.kind \in {"delete", "deleteProject"}
  /\ Send(u, page[u].dialog.kind, page[u].dialog.on, {}, 0)

Handled(kind, on, ids, shown) ==
  \/ kind = "log" /\ \E e \in Entries, p \in Projects, h \in Hours, b \in BOOLEAN : LogTime(e, p, h, b)
  \/ kind = "edit" /\ \E h \in Hours, b \in BOOLEAN : UpdateTime(on, h, b)
  \/ kind = "delete" /\ DeleteTime(on)
  \/ kind = "project" /\ \E p \in Projects, s \in {"active", "completed"} : SaveProject(p, on, s)
  \/ kind = "deleteProject" /\ DeleteProject(on)
  \/ kind = "invoice" /\ \E i \in Invoices : InvoiceTime(i, on, ids, shown)

Serve(u) ==
  /\ call[u].step = "sent"
  /\ Handled(call[u].kind, call[u].on, call[u].ids, call[u].shown)
  /\ call' = [call EXCEPT ![u].step = "done"]
  /\ UNCHANGED page

Refused(c) ==
  CASE c.kind \in {"edit", "delete"} -> ~Editable(c.on)
    [] c.kind = "project" -> c.on # None /\ project[c.on] = "absent"
    [] c.kind = "deleteProject" -> project[c.on] = "absent"
    [] c.kind = "invoice" -> project[c.on] = "absent" \/ Chosen(c.on, c.ids) = {}
    [] OTHER -> \A p \in Projects : project[p] # "active"
Refuse(u) ==
  /\ call[u].step = "sent" /\ Refused(call[u])
  /\ call' = [call EXCEPT ![u].step = "refused"]
  /\ UNCHANGED <<server, page>>

\* The form for logging time is the one for editing it.
Form(kind) == IF kind = "log" THEN "edit" ELSE kind
Refresh(of, kind) == [of EXCEPT !.dialog = IF Form(@.kind) = Form(kind) THEN NoDialog ELSE @, !.shown = None]
Answered(u) ==
  /\ call[u].step \in {"done", "refused"}
  /\ page' = IF call[u].step = "done" /\ call[u].here
             THEN [page EXCEPT ![u] = Refresh(page[u], call[u].kind)] ELSE page
  /\ call' = [call EXCEPT ![u] = NoCall]
  /\ UNCHANGED server

-----------------------------------------------------------------------------
Init ==
  /\ project = [p \in Projects |-> "active"]
  /\ entry = [e \in Entries |-> None] /\ invoice = [i \in Invoices |-> None]
  /\ page = [u \in Users |-> [tab |-> "projects", shown |-> None, dialog |-> NoDialog]]
  /\ call = [u \in Users |-> NoCall]

Next ==
  \/ \E u \in Users :
       \/ Load(u) \/ Close(u) \/ OpenLog(u)
       \/ \E tab \in Tabs : SwitchTab(u, tab)
       \/ \E p \in Projects \cup {None} : OpenProject(u, p)
       \/ \E p \in Projects : OpenInvoice(u, p) \/ OpenDeleteProject(u, p)
       \/ \E e \in Entries, kind \in {"edit", "delete"} : OpenEntry(u, kind, e)
       \/ LoadItems(u) \/ \E e \in Entries : Toggle(u, e)
       \/ SubmitInvoice(u) \/ SubmitProject(u) \/ SubmitEntry(u) \/ ConfirmDelete(u)
       \/ Serve(u) \/ Refuse(u) \/ Answered(u)
  \/ \E i \in Invoices :
       /\ Alone => \A u \in Users : page[u].tab = "elsewhere"
       /\ VoidInvoice(i) \/ SendOrRevert(i) \/ DeleteInvoice(i)
  \/ /\ ~Alone /\ UNCHANGED <<page, call>>
     /\ \/ Handled("log", None, {}, 0)
        \/ \E e \in Entries, kind \in {"edit", "delete"} : Handled(kind, e, {}, 0)
        \/ \E p \in Projects, kind \in {"project", "deleteProject", "invoice"} : Handled(kind, p, {}, 0)

Spec == Init /\ [][Next]_vars

-----------------------------------------------------------------------------
(* While requests are handled one at a time, the entries an invoice that   *)
(* stands was made from are the ones marked with it, as they were: an hour *)
(* is billed once, and an hour released is billed by nobody                *)
(* (projects.py: invoice_unbilled_time, update_time_entry;                 *)
(* invoices.py: update_invoice_status, delete_invoice).                    *)
BilledIsLinked ==
  \A i \in Invoices :
    LET linked == {e \in Logged : entry[e].invoice = i}
    IN IF invoice[i] # None /\ invoice[i].status # "void"
       THEN invoice[i].billed = [e \in linked |-> entry[e].hours]
       ELSE linked = {}

(* A user alone invoices the hours the form added up                       *)
(* (InvoiceTimeModal.tsx: totals, onSubmit).                               *)
BilledAsShown == \A i \in Invoices : invoice[i] # None => TotalHours(invoice[i].billed) = invoice[i].shown

(* An hour is billed by one invoice, and by a user alone as the form       *)
(* showed it.                                                              *)
HoursBilledOnce == BilledIsLinked /\ (Alone => BilledAsShown)

(* A user alone who waits for his calls sees the projects, their unbilled  *)
(* hours and the entries as they are stored (ProjectsTab.tsx,              *)
(* TimesheetsTab.tsx: refresh).                                            *)
PagesConverge ==
  \A u \in Users : call[u].step = "idle" /\ page[u].shown # None => page[u].shown = Stored(page[u].tab)

-----------------------------------------------------------------------------
(* Why they hold.  What is ticked is listed.                               *)
TicksAreListed ==
  \A u \in Users :
    page[u].dialog.ticked \subseteq (IF page[u].dialog.items = None THEN {} ELSE DOMAIN page[u].dialog.items)

(* The dialogs and requests of a tab are about what it lists, and a user   *)
(* alone is there until he is answered.                                    *)
OnTab(kind) == CASE kind \in {"log", "edit", "delete"} -> {"timesheets"}
                 [] kind \in {"project", "deleteProject", "invoice"} -> {"projects"}
                 [] OTHER -> Tabs
BelongsToTab ==
  \A u \in Users :
    /\ page[u].tab \in OnTab(page[u].dialog.kind)
    /\ page[u].dialog.items # None => page[u].dialog.kind = "invoice"
    /\ call[u].step # "idle" => call[u].here /\ page[u].tab \in OnTab(call[u].kind)

(* Hours chosen from the entries of a project are those of entries still   *)
(* unbilled, unless the project went with all of them.                     *)
StillUnbilled(p, hours) ==
  \/ Unbilled(p) = {}
  \/ DOMAIN hours \subseteq Unbilled(p) /\ \A e \in DOMAIN hours : hours[e] = entry[e].hours
ItemsAreUnbilled ==
  \A u \in Users :
    \/ page[u].dialog.items = None \/ (call[u].kind = "invoice" /\ call[u].step = "done")
    \/ StillUnbilled(page[u].dialog.on, page[u].dialog.items)
AskedAsShown ==
  \A u \in Users : call[u].kind = "invoice" /\ call[u].step = "sent" =>
    \/ Unbilled(call[u].on) = {}
    \/ /\ call[u].ids # {} /\ call[u].ids \subseteq Unbilled(call[u].on)
       /\ call[u].shown = TotalHours([e \in call[u].ids |-> entry[e].hours])
ShownIsStored ==
  \A u \in Users : page[u].shown # None =>
    page[u].tab # "elsewhere" /\ (call[u].step # "done" => page[u].shown = Stored(page[u].tab))

TimeInv == TypeOK /\ TicksAreListed /\ BilledIsLinked
AloneInv == BelongsToTab /\ ItemsAreUnbilled /\ AskedAsShown /\ BilledAsShown /\ ShownIsStored

(* Of the constants: the entries can be summed, None is none of the rest,  *)
(* and someone alone is one.                                               *)
ConstantsOK ==
  /\ IsFiniteSet(Entries) /\ MaxHours \in Nat
  /\ None \notin Projects \cup Entries \cup Invoices \cup Entry \cup Invoice \cup Card \cup Kinds \cup HoursOfSome
  /\ None \notin [Projects -> {None} \cup Card] \cup [Entries -> {None} \cup Entry]
  /\ Alone => \E u \in Users : Users = {u}
=============================================================================
