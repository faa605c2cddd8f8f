------------------------------- MODULE People -------------------------------
(***************************************************************************)
(* The accounts of an organization, managed from its settings, from its    *)
(* admin panel and from the platform's console, and locked by payroll; the *)
(* platform's own administrators, and the logins of an admin panel.  One   *)
(* page is open; all others act through the same handlers.  A handler is   *)
(* atomic.                                                                 *)
(***************************************************************************)
EXTENDS Integers, FiniteSets

CONSTANTS
  Page,               \* "tenant", "panel", "console", "drawer", "admins", "logins" or "closed"
  People, Employees, Modules,
  Me,                 \* the account of whoever has the page open, or None
  Others,             \* the surfaces others act from: pages, "payroll" and "links"
  Tabs,               \* tabs with an invite link
  Room,               \* how many there may be once more are added
  Records,            \* whether people leave hours and documents behind
  None

VARIABLES
  people,             \* accounts
  employees,          \* the records of payroll
  plan,               \* the modules paid for, or None
  lock,               \* history: what payroll did to each account
  view,               \* the list
  dialog,             \* what is open above it, with what was entered
  call,               \* the request under way
  links               \* accept-invite pages

vars == <<people, employees, plan, lock, view, dialog, call, links>>

OfOrganization == Page \notin {"admins", "logins"}
\* The drawer of an organization asks what the console asks.
Surface == IF Page = "drawer" THEN "console" ELSE Page
Roles == IF OfOrganization THEN {"admin", "staff", "viewer"} ELSE {"admin"}
Access == {None} \cup (IF Modules = {} THEN {} ELSE SUBSET Modules)
Lone == Others = {} \/ Others = {"payroll"}
\* Passwords are told apart where there are links: an administrator's, and those chosen.
ByAdmin == 0
NoRows == [i \in {} |-> None]
Unread == [loading |-> Page # "closed", shown |-> NoRows]
NoDialog == [kind |-> "none", on |-> None, row |-> None, form |-> None, touched |-> {}]
NoCall == [op |-> None, on |-> None, arg |-> None, step |-> "idle", was |-> None]
NoLink == [step |-> "closed", of |-> None, pass |-> None]
NoChange == [role |-> None, active |-> None, here |-> None]
Account(role, pass) ==
  [role |-> role, active |-> TRUE, pass |-> pass, link |-> pass = None, access |-> None, here |-> TRUE, busy |-> FALSE]
\* Accounts there may be to begin with; on the console, an employee's too.
Starts ==
  {[Account(r, ByAdmin) EXCEPT !.active = a, !.access = m] :
     r \in Roles \cup (IF Surface = "console" THEN {"employee"} ELSE {}), a \in BOOLEAN, m \in Access}
  \cup (IF Tabs = {} THEN {} ELSE {Account("staff", None)})

AllRoles == {"admin", "staff", "viewer", "employee"}
Fields == {"role", "active", "here"}
AnAccount == [role : AllRoles, active : BOOLEAN, pass : {None} \cup 0..2, link : BOOLEAN, access : Access,
              here : BOOLEAN, busy : BOOLEAN]
Employee == [active : BOOLEAN, slips : BOOLEAN, login : People \cup {None}]
Row == [role : AllRoles, active : BOOLEAN, access : Access, here : BOOLEAN]
Form == [role : Roles, active : BOOLEAN, here : BOOLEAN]
Change == [role : Roles \cup {None}, active : BOOLEAN \cup {None}, here : BOOLEAN \cup {None}]
Addition == [role : Roles \cup {"employee"}, employee : Employees \cup {None}]
AccessForm == [stored : Access, draft : Access]
Asks == {"create", "update", "delete", "reset", "access"}
Steps == {"sent", "done", "refused"}
Link == [step : {"closed", "ready", "invalid", "refused", "in", "done"}, of : People \cup {None}, pass : {None} \cup 1..2]

\* What is listed is people; what is entered is for what is open; what is asked for is for what
\* is done.
ListFits(v) ==
  /\ v = [loading |-> v.loading, shown |-> v.shown] /\ v.loading \in BOOLEAN
  /\ DOMAIN v.shown \subseteq People /\ \A i \in DOMAIN v.shown : v.shown[i] \in Row
DialogFits(d) ==
  /\ d.kind \in {"none", "create", "edit", "delete", "reset", "overview"} /\ (d.kind = "none" => d = NoDialog)
  /\ d.kind = "create" =>
       d \in [kind : {"create"}, on : {None}, row : {None}, form : SUBSET (IF Page = "tenant" THEN Employees ELSE {}), touched : {{}}]
  /\ d.kind = "edit" =>
       Surface = "console" /\ d \in [kind : {"edit"}, on : People, row : Row, form : Form, touched : SUBSET Fields]
  /\ d.kind \in {"delete", "reset"} =>
       d \in [kind : {"delete", "reset"}, on : People, row : Row, form : {NoChange}, touched : {{}}]
  /\ d.kind = "overview" =>
       /\ d \in [kind : {"overview"}, on : People, row : Row \cup {None}, form : AccessForm \cup {None}, touched : {{}}]
       /\ d.row # None => d.form # None
CallFits(c) ==
  /\ c.step = "idle" => c = NoCall
  /\ c.step # "idle" => c.op \in Asks
  /\ c.op = "create" =>
       /\ c \in [op : {"create"}, on : {None}, arg : Addition, step : Steps, was : {None}]
       /\ IF c.arg.role = "employee" THEN Page = "tenant" /\ c.arg.employee # None ELSE c.arg.employee = None
  /\ c.op = "update" =>
       /\ c \in [op : {"update"}, on : People, arg : Change, step : Steps, was : AnAccount \cup {None}]
       /\ c.arg.here # None => Surface = "console"
  /\ c.op \in {"delete", "reset"} =>
       c \in [op : {"delete", "reset"}, on : People, arg : {NoChange}, step : Steps, was : AnAccount \cup {None}]
  /\ c.op = "access" => c \in [op : {"access"}, on : People, arg : Access, step : Steps, was : AnAccount \cup {None}]

TypeOK ==
  /\ people \in [People -> {None} \cup AnAccount] /\ employees \in [Employees -> {None} \cup Employee]
  /\ plan \in Access /\ lock \in [People -> {"never", "payroll", "reopened"}]
  /\ ListFits(view) /\ DialogFits(dialog) /\ CallFits(call)
  /\ links \in [Tabs -> Link]
  /\ \A t \in Tabs : /\ links[t].step # "closed" => links[t].of \in People
                     /\ links[t].step \in {"in", "done"} => links[t].pass # None

-----------------------------------------------------------------------------
(* The server                                                              *)

Exists == {i \in People : people[i] # None}
Listed == IF Page = "console" THEN Exists ELSE {i \in Exists : people[i].here}
ActiveAdmins == {i \in Exists : people[i].here /\ people[i].role = "admin" /\ people[i].active}
(* Faulty variant: administrators who are not active count. *)
AnyOtherAdmin == Cardinality({i \in Exists : people[i].here /\ people[i].role = "admin"}) > 1
RequireAnotherAdmin == Cardinality(ActiveAdmins) > 1
WouldOrphanOrg(i) == ActiveAdmins = {i}
EmployeeOf(i) == {e \in Employees : employees[e] # None /\ employees[e].login = i}

Changed(p, a) ==
  [p EXCEPT !.role = IF a.role = None THEN @ ELSE a.role, !.active = IF a.active = None THEN @ ELSE a.active,
            !.here = IF a.here = None THEN @ ELSE a.here]

\* An organization's own administrators, a panel's included.
MayUpdate(i, a, actor) ==
  LET p == people[i]
      demoting == a.role \notin {None, "admin"} /\ p.role = "admin"
      deactivating == a.active = FALSE /\ p.active /\ p.role = "admin"
  IN /\ p.here /\ (i = actor => a.role \in {None, "admin"} /\ a.active # FALSE)
     /\ (demoting \/ deactivating => RequireAnotherAdmin)
MayDelete(i, actor) == people[i].here /\ i # actor /\ (people[i].role = "admin" => RequireAnotherAdmin)

\* The console moves accounts between organizations, too.
MayUpdateAnywhere(i, a) ==
  LET p == people[i] q == Changed(p, a)
  IN /\ (q.here # p.here => p.role # "employee")
     /\ (~(q.role = "admin" /\ q.active /\ q.here = p.here) => ~WouldOrphanOrg(i))
MayDeleteAnywhere(i) == ~WouldOrphanOrg(i) /\ ~people[i].busy

MayChangeAdmin(i, a, actor) == a.active = FALSE /\ people[i].active => i # actor /\ Cardinality(ActiveAdmins) > 1
MayDeleteAdmin(i, actor) == i # actor /\ Cardinality(Exists) > 1

MayInvite(a) == a.role = "employee" => a.employee # None /\ employees[a.employee] # None /\ employees[a.employee].login = None
MaySetAccess(i, m) == people[i].here /\ people[i].role = "staff" /\ (m = None \/ plan = None \/ m \subseteq plan)

Allowed(surface, op, i, a, actor) ==
  /\ i # None => people[i] # None
  /\ (surface \in {"tenant", "admins"} => actor # None /\ people[actor] # None /\ people[actor].active)
  /\ (surface = "tenant" => people[actor].role = "admin" /\ people[actor].here)
  /\ CASE op = "create" -> surface \in {"tenant", "panel"} => MayInvite(a)
       [] op = "update" /\ surface \in {"tenant", "panel"} -> MayUpdate(i, a, actor)
       [] op = "update" /\ surface = "console" -> MayUpdateAnywhere(i, a)
       [] op = "update" /\ surface = "admins" -> MayChangeAdmin(i, a, actor)
       [] op = "delete" /\ surface \in {"tenant", "panel"} -> MayDelete(i, actor)
       [] op = "delete" /\ surface = "console" -> MayDeleteAnywhere(i)
       [] op = "delete" /\ surface = "admins" -> MayDeleteAdmin(i, actor)
       [] op = "access" -> MaySetAccess(i, a)
       [] OTHER -> TRUE

Unlinked(i) == [e \in Employees |-> IF e \in EmployeeOf(i) THEN [employees[e] EXCEPT !.login = None] ELSE employees[e]]
\* An account with hours or documents is kept, unless the console was asked.
DeleteAccount(surface, i) ==
  IF surface \in {"tenant", "panel"} /\ people[i].busy
  THEN people' = [people EXCEPT ![i].active = FALSE] /\ UNCHANGED <<employees, lock>>
  ELSE /\ people' = [people EXCEPT ![i] = None]
       /\ employees' = Unlinked(i) /\ lock' = [lock EXCEPT ![i] = "never"]

Create(surface, a) ==
  \E i \in People \ Exists :
    /\ people' = [people EXCEPT ![i] = Account(a.role, IF Tabs # {} /\ surface \in {"tenant", "panel"} THEN None ELSE ByAdmin)]
    /\ employees' = IF a.employee = None THEN employees ELSE [employees EXCEPT ![a.employee].login = i]
    /\ UNCHANGED lock

Effect(surface, op, i, a) ==
  CASE op = "create" -> Create(surface, a)
    [] op = "update" -> /\ people' = [people EXCEPT ![i] = Changed(@, a)]
                        /\ lock' = IF a.active = TRUE /\ ~people[i].active THEN [lock EXCEPT ![i] = "reopened"] ELSE lock
                        /\ UNCHANGED employees
    [] op = "delete" -> DeleteAccount(surface, i)
    [] op = "reset" -> people' = [people EXCEPT ![i].pass = ByAdmin] /\ UNCHANGED <<employees, lock>>
    [] op = "access" -> people' = [people EXCEPT ![i].access = a] /\ UNCHANGED <<employees, lock>>

\* What may be changed in a module: require_write, require_module.
MayEdit(i, m) ==
  /\ people[i].role \in {"admin", "staff"} /\ (plan = None \/ m \in plan)
  /\ people[i].role # "admin" => people[i].access = None \/ m \in people[i].access

-----------------------------------------------------------------------------
(* Payroll                                                                 *)

LockLogin(i) ==
  IF i = None THEN UNCHANGED <<people, lock>>
  ELSE people' = [people EXCEPT ![i].active = FALSE] /\ lock' = [lock EXCEPT ![i] = "payroll"]

UpdateEmployee(e, active) ==
  /\ employees[e] # None
  /\ employees' = [employees EXCEPT ![e].active = active]
  /\ IF active THEN UNCHANGED <<people, lock>> ELSE LockLogin(employees[e].login)
DeleteEmployee(e) ==
  /\ employees[e] # None
  /\ employees' = [employees EXCEPT ![e] = IF employees[e].slips THEN [@ EXCEPT !.active = FALSE] ELSE None]
  /\ LockLogin(employees[e].login)
PayEmployee(e) ==
  /\ employees[e] # None /\ employees[e].active
  /\ employees' = [employees EXCEPT ![e].slips = TRUE] /\ UNCHANGED <<people, lock>>

-----------------------------------------------------------------------------
(* The page                                                                *)

Idle == dialog = NoDialog /\ call = NoCall
Shown(i) == [role |-> people[i].role, active |-> people[i].active, access |-> people[i].access, here |-> people[i].here]
Rows == [i \in Listed |-> Shown(i)]

Load ==
  /\ view.loading
  /\ view' = [loading |-> FALSE, shown |-> Rows]
  /\ UNCHANGED <<people, employees, plan, lock, dialog, call, links>>

CanDelete(i) == Page \in {"tenant", "panel", "admins"} => i # Me
\* The overview of the panel is read again for each account.
Fill(kind, i) ==
  CASE kind = "edit" -> LET r == view.shown[i]
                        IN [role |-> IF r.role \in Roles THEN r.role ELSE "staff", active |-> r.active, here |-> r.here]
    [] kind = "overview" -> None
    [] OTHER -> NoChange
Kinds ==
  CASE Page = "tenant" -> {"reset", "delete"}
    [] Page = "panel" -> {"reset", "delete", "overview"}
    [] Surface = "console" -> {"reset", "delete", "edit"}
    [] Page = "admins" -> {"delete"}
    [] OTHER -> {"reset", "delete"}
Open(kind, i) ==
  /\ Idle /\ ~view.loading /\ kind \in Kinds /\ i \in DOMAIN view.shown
  /\ (kind = "delete" => CanDelete(i))
  /\ dialog' = [kind |-> kind, on |-> i, row |-> IF kind = "overview" THEN None ELSE view.shown[i],
              form |-> Fill(kind, i), touched |-> {}]
  /\ UNCHANGED <<people, employees, plan, lock, view, call, links>>
\* Employees who may be given a login are read when the dialog opens.
OpenCreate ==
  /\ Idle /\ ~view.loading /\ Page # "closed" /\ Cardinality(Exists) < Room
  /\ dialog' = [NoDialog EXCEPT !.kind = "create",
       !.form = IF Page = "tenant" THEN {e \in Employees : employees[e] # None /\ employees[e].active /\ employees[e].login = None} ELSE {}]
  /\ UNCHANGED <<people, employees, plan, lock, view, call, links>>
Close ==
  /\ dialog # NoDialog /\ call = NoCall
  /\ dialog' = NoDialog
  /\ view' = IF dialog.kind = "overview" THEN Unread ELSE view
  /\ UNCHANGED <<people, employees, plan, lock, call, links>>

LoadOverview ==
  /\ dialog.kind = "overview" /\ dialog.row = None /\ dialog.on \in Exists
  /\ dialog' = [dialog EXCEPT !.row = Shown(dialog.on), !.form =
                 IF dialog.form = None \/ dialog.form.stored # people[dialog.on].access
                 THEN [stored |-> people[dialog.on].access, draft |-> people[dialog.on].access] ELSE dialog.form]
  /\ UNCHANGED <<people, employees, plan, lock, view, call, links>>
Draft(m) ==
  /\ dialog.kind = "overview" /\ dialog.row # None /\ dialog.row.role = "staff" /\ m \in Access
  /\ dialog' = [dialog EXCEPT !.form.draft = m]
  /\ UNCHANGED <<people, employees, plan, lock, view, call, links>>
InPlan(m) == plan = None \/ m \in plan
Checked(m) ==
  /\ InPlan(m)
  /\ dialog.row.role = "admin" \/ (dialog.row.role = "staff" /\ (dialog.form.draft = None \/ m \in dialog.form.draft))

Edit(field, value) ==
  /\ dialog.kind = "edit" /\ call = NoCall /\ value # dialog.form[field]
  /\ dialog' = [dialog EXCEPT !.form[field] = value, !.touched = @ \cup {field}]
  /\ UNCHANGED <<people, employees, plan, lock, view, call, links>>

Send(op, i, a) ==
  /\ call = NoCall
  /\ call' = [NoCall EXCEPT !.op = op, !.on = i, !.arg = a, !.step = "sent"]
  /\ UNCHANGED <<people, employees, plan, lock, view, dialog, links>>

\* Straight from the row: a role picked, an account switched on or off.
SetRole(i, role) ==
  /\ Idle /\ ~view.loading /\ Page \in {"tenant", "panel"} /\ i \in DOMAIN view.shown
  /\ role \in Roles \ {view.shown[i].role} /\ Send("update", i, [NoChange EXCEPT !.role = role])
Toggle(i) ==
  /\ Idle /\ ~view.loading /\ Page # "console" /\ i \in DOMAIN view.shown /\ (Page = "admins" => i # Me)
  /\ Send("update", i, [NoChange EXCEPT !.active = ~view.shown[i].active])
ChangeRole(role) ==
  /\ dialog.kind = "overview" /\ dialog.row # None /\ role \in Roles \ {dialog.row.role} /\ dialog.row.role # "employee"
  /\ Send("update", dialog.on, [NoChange EXCEPT !.role = role])
SaveAccess ==
  /\ dialog.kind = "overview" /\ dialog.row # None /\ dialog.row.role = "staff"
  /\ Send("access", dialog.on, IF dialog.form.draft = None THEN None ELSE {m \in dialog.form.draft : InPlan(m)})
Submit ==
  \/ dialog.kind \in {"delete", "reset"} /\ Send(dialog.kind, dialog.on, NoChange)
  \/ dialog.kind = "create" /\ \E r \in Roles : Send("create", None, [role |-> r, employee |-> None])
  \/ dialog.kind = "create" /\ \E e \in dialog.form : Send("create", None, [role |-> "employee", employee |-> e])
  \/ dialog.kind = "edit" /\ Send("update", dialog.on,
       [dialog.form EXCEPT !.here = IF @ = dialog.row.here THEN None ELSE @])

Serve ==
  /\ call.step = "sent" /\ (call.op = "create" => Exists # People)
  /\ LET was == IF call.on = None THEN None ELSE people[call.on]
     IN IF Allowed(Surface, call.op, call.on, call.arg, Me)
        THEN Effect(Surface, call.op, call.on, call.arg) /\ call' = [call EXCEPT !.step = "done", !.was = was]
        ELSE call' = [call EXCEPT !.step = "refused"] /\ UNCHANGED <<people, employees, lock>>
  /\ UNCHANGED <<plan, view, dialog, links>>

Reload(v) == [v EXCEPT !.loading = TRUE]
Answered ==
  /\ call.step \in {"done", "refused"}
  /\ call' = NoCall
  /\ IF call.step = "refused" THEN UNCHANGED <<view, dialog>>
     ELSE IF dialog.kind = "overview" THEN dialog' = [dialog EXCEPT !.row = None] /\ UNCHANGED view
     ELSE dialog' = NoDialog /\ view' = IF call.op = "reset" THEN view ELSE Reload(view)
  /\ UNCHANGED <<people, employees, plan, lock, links>>

-----------------------------------------------------------------------------
(* Everyone else                                                           *)

Changes(surface) ==
  {[NoChange EXCEPT !.role = r] : r \in Roles} \cup {[NoChange EXCEPT !.active = a] : a \in BOOLEAN}
  \cup (IF surface = "console" THEN {[NoChange EXCEPT !.here = h] : h \in BOOLEAN} ELSE {})
Additions(surface) ==
  [role : Roles, employee : {None}] \cup (IF surface = "tenant" THEN [role : {"employee"}, employee : Employees] ELSE {})
Elsewhere(surface) ==
  /\ \E actor \in IF surface \in {"tenant", "admins"} THEN Exists ELSE {None} :
       \/ \E i \in Exists : \/ \E op \in {"delete", "reset"} : Allowed(surface, op, i, NoChange, actor) /\ Effect(surface, op, i, NoChange)
                           \/ \E a \in Changes(surface) : Allowed(surface, "update", i, a, actor) /\ Effect(surface, "update", i, a)
       \/ \E a \in Additions(surface) : /\ Cardinality(Exists) < Room
                                        /\ Allowed(surface, "create", None, a, actor) /\ Create(surface, a)
  /\ UNCHANGED <<plan, view, dialog, call, links>>
\* The one person goes to payroll with nothing open.
AtPayroll ==
  /\ "payroll" \in Others /\ Idle
  /\ \E e \in Employees : DeleteEmployee(e) \/ PayEmployee(e) \/ \E active \in BOOLEAN : UpdateEmployee(e, active)
  /\ view' = IF Page = "closed" THEN view ELSE Unread
  /\ UNCHANGED <<plan, dialog, call, links>>
\* Hours are logged, documents uploaded.
Work ==
  /\ Records /\ \E i \in Exists : ~people[i].busy /\ people[i].role # "employee" /\ people' = [people EXCEPT ![i].busy = TRUE]
  /\ UNCHANGED <<employees, plan, lock, view, dialog, call, links>>

(* Faulty variant: any link that was sent is good. *)
LinkSent(i) == people[i] # None
LinkOpen(i) == people[i] # None /\ people[i].link /\ people[i].pass = None
OpenLink(t, i) ==
  /\ links[t].step = "closed" /\ i \in Exists
  /\ links' = [links EXCEPT ![t] = [NoLink EXCEPT !.step = IF LinkOpen(i) THEN "ready" ELSE "invalid", !.of = i]]
  /\ UNCHANGED <<people, employees, plan, lock, view, dialog, call>>
\* Whoever has set a password is signed in with it, or sent to sign in.
Accept(t, p) ==
  /\ links[t].step = "ready"
  /\ LET i == links[t].of
     IN IF LinkOpen(i)
        THEN /\ people' = [people EXCEPT ![i].pass = p, ![i].link = FALSE]
             /\ links' = [links EXCEPT ![t].step = IF people[i].active THEN "in" ELSE "done", ![t].pass = p]
        ELSE links' = [links EXCEPT ![t].step = "refused"] /\ UNCHANGED people
  /\ UNCHANGED <<employees, plan, lock, view, dialog, call>>

Init ==
  /\ people \in [People -> {None} \cup Starts] /\ ActiveAdmins # {}
  /\ (Me # None => Me \in ActiveAdmins)
  /\ employees \in [Employees -> {[active |-> TRUE, slips |-> FALSE, login |-> None]}]
  /\ plan \in (IF Modules = {} THEN {None} ELSE Access) /\ lock = [i \in People |-> "never"]
  /\ view = Unread /\ dialog = NoDialog /\ call = NoCall
  /\ links = [t \in Tabs |-> NoLink]

Next ==
  \/ Load \/ OpenCreate \/ Close \/ LoadOverview \/ SaveAccess \/ Submit \/ Serve \/ Answered \/ AtPayroll \/ Work
  \/ \E i \in People : Toggle(i) \/ (\E kind \in Kinds : Open(kind, i)) \/ \E role \in Roles : SetRole(i, role)
  \/ \E role \in Roles : ChangeRole(role)
  \/ \E m \in Access : Draft(m)
  \/ \E role \in Roles : Edit("role", role)
  \/ \E b \in BOOLEAN : Edit("active", b) \/ Edit("here", b)
  \/ \E surface \in Others \cap {"tenant", "panel", "console", "admins"} : Elsewhere(surface)
  \/ \E t \in Tabs : (\E i \in People : OpenLink(t, i)) \/ \E p \in 1..2 : Accept(t, p)

Spec == Init /\ [][Next]_vars

-----------------------------------------------------------------------------
(* An organization keeps an active administrator, and so does the          *)
(* platform, whoever changes, moves or deletes accounts from where; payroll *)
(* alone does not look (org_users.py: _require_another_admin;              *)
(* platform_admin.py: _would_orphan_org, update_admin, delete_admin).      *)
LastAdminStays == Page # "logins" /\ "payroll" \notin Others => ActiveAdmins # {}

(* The boxes of the panel's access editor show what the server lets the    *)
(* user change, when nothing is left to save (UserOverviewModal.tsx:       *)
(* ModuleAccessEditor; deps.py: require_module).                           *)
AccessAsShown ==
  dialog.kind = "overview" /\ dialog.row # None /\ call = NoCall /\ Lone /\ dialog.form.draft = dialog.form.stored =>
    \A m \in Modules : Checked(m) <=> MayEdit(dialog.on, m)

(* The list shows the accounts as they are stored, once nothing is under   *)
(* way and no overview is open (UsersSettings.tsx, UsersPage.tsx,          *)
(* AdminsPage.tsx, OrgDetailDrawer.tsx: OrgUsersTab, PanelAdminsTab).       *)
PeopleConverge ==
  Lone /\ Page # "closed" /\ call.step = "idle" /\ ~view.loading /\ dialog.kind # "overview" =>
    view.shown = Rows

(* Saving the console's form changes what was touched in it, except that   *)
(* an employee becomes staff (PlatformUserModals.tsx:                      *)
(* EditPlatformUserModal).                                                 *)
EditKeepsTheRest ==
  Lone /\ call.step = "done" /\ dialog.kind = "edit" =>
    \A field \in {"role", "active", "here"} \ dialog.touched :
      \/ people[call.on][field] = call.was[field]
      \/ field = "role" /\ call.was.role = "employee" /\ people[call.on].role = "staff"

(* Whoever was dismissed cannot sign in, unless the login was activated    *)
(* again by hand (payroll.py: update_employee, delete_employee;            *)
(* InviteUserModal.tsx: unlinkedEmployees).                                *)
DismissedIsLocked ==
  \A e \in Employees : employees[e] # None /\ ~employees[e].active /\ employees[e].login # None =>
    ~people[employees[e].login].active \/ lock[employees[e].login] = "reopened"

(* A page that has set a password has set the one in force, unless an      *)
(* administrator replaced it (AcceptInvitePage.tsx; auth.py:               *)
(* accept_invite).                                                         *)
AcceptedIsMine ==
  \A t \in Tabs : links[t].step \in {"in", "done"} =>
    people[links[t].of] = None \/ people[links[t].of].pass \in {links[t].pass, ByAdmin}

-----------------------------------------------------------------------------
(* To someone alone, pages show and do what they say; whoever was          *)
(* dismissed cannot sign in; and where nobody is added, an invitation sets *)
(* the password of the one who accepted it.                                *)
AccountsAsDecided ==
  /\ AccessAsShown /\ PeopleConverge /\ EditKeepsTheRest
  /\ Lone => DismissedIsLocked
  /\ Room = 0 => AcceptedIsMine

(* Why they hold.  Logins are accounts there are; the platform's own       *)
(* accounts are all administrators; where nobody is added, none is asked   *)
(* for; and where no page is open, nothing is.                             *)
LoginsExist == \A e \in Employees : employees[e] # None /\ employees[e].login # None => people[employees[e].login] # None
PlatformIsAdmins == ~OfOrganization => \A i \in Exists : people[i].role = "admin" /\ people[i].here
NobodyIsAdded == Room = 0 => dialog.kind # "create" /\ call.op # "create"
ClosedIsIdle == Page = "closed" => ~view.loading /\ view.shown = NoRows /\ Idle

(* To someone alone, what a page and its dialogs show is stored or about   *)
(* to be read again; a form differs from its row where it was touched; and *)
(* a login is only offered and sent for employees who work here.           *)
ListIsStored ==
  Page = "closed" \/ view.loading \/ dialog.kind = "overview" \/ view.shown = Rows \/ (call.step = "done" /\ call.op # "reset")
OverviewIsStored ==
  dialog.kind = "overview" /\ dialog.row # None /\ call.step # "done" =>
    dialog.on \in Exists /\ dialog.row = Shown(dialog.on) /\ dialog.form.stored = people[dialog.on].access
EditIsStored ==
  dialog.kind = "edit" =>
    /\ call.step # "done" => dialog.on \in Exists /\ dialog.row = Shown(dialog.on)
    /\ dialog.form.role # (IF dialog.row.role \in Roles THEN dialog.row.role ELSE "staff") => "role" \in dialog.touched
    /\ \A field \in {"active", "here"} : dialog.form[field] # dialog.row[field] => field \in dialog.touched
    /\ call.step # "idle" =>
         /\ call.op = "update" /\ call.on = dialog.on
         /\ call.arg = [dialog.form EXCEPT !.here = IF @ = dialog.row.here THEN None ELSE @]
LoginsForStaff ==
  /\ dialog.kind = "create" => \A e \in dialog.form : employees[e] # None /\ employees[e].active
  /\ call.op = "create" /\ call.step = "sent" /\ call.arg.employee # None =>
       employees[call.arg.employee] # None /\ employees[call.arg.employee].active

PeopleInv == TypeOK /\ LoginsExist /\ PlatformIsAdmins /\ NobodyIsAdded /\ ClosedIsIdle
LoneInv == ListIsStored /\ OverviewIsStored /\ EditIsStored /\ LoginsForStaff /\ DismissedIsLocked /\ EditKeepsTheRest

(* Of the constants: an organization's accounts are managed from its own   *)
(* pages, the platform's administrators and a panel's logins from theirs;  *)
(* people can be counted; and None is none of the rest.                    *)
ConstantsOK ==
  /\ Page \in {"tenant", "panel", "console", "drawer", "admins", "logins", "closed"}
  /\ Others \subseteq IF OfOrganization THEN {"tenant", "panel", "console", "payroll", "links"} ELSE {Page}
  /\ ~OfOrganization => Tabs = {} /\ Employees = {}
  /\ IsFiniteSet(People) /\ Me \in People \cup {None} /\ Room \in Nat
  /\ None \notin BOOLEAN /\ None \notin 0..2 /\ None \notin AllRoles \cup Asks
  /\ None \notin People /\ None \notin Employees /\ \A m \in SUBSET Modules : m # None
  /\ None \notin AnAccount /\ None \notin Employee /\ None \notin Row /\ None \notin AccessForm
=============================================================================
