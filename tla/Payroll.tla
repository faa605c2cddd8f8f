------------------------------ MODULE Payroll -------------------------------
(***************************************************************************)
(* Employees, their leave and the pay runs.  A pay run is created as a     *)
(* draft with a payslip for each active employee, approved, and paid from  *)
(* a bank account or the cash drawer; until it is paid it may be deleted.  *)
(* A request reads, then writes; a payment claims its run and then posts,  *)
(* in one transaction that holds the run's row.                            *)
(***************************************************************************)
EXTENDS Integers, FiniteSets, Functions

CONSTANTS
  Employees, Periods, Accounts,   \* Accounts: "cash", "bank"
  Gross, Deductions, Cash,        \* an employee's salary, and what the drawer holds at first
  Runs,                           \* the ids pay runs may be given: 1..n
  Admins, Kinds,                  \* administrators' pages, and what they do with pay runs
  Workers,                        \* requests the server handles at a time
  Waits, Loses,                   \* whether an administrator leaves no call behind, and answers get lost
  None

VARIABLES
  employee,                       \* "absent", "active" or "inactive"
  leave,                          \* the days of unpaid leave on record: <<employee, period>>
  payRun,                         \* what is stored of each pay run
  paid,                           \* the withdrawals posted for each: how often, how much, how much of it cash
  work,                           \* the requests under way
  page                            \* each administrator's list of pay runs and dialog

vars == <<employee, leave, payRun, paid, work, page>>
people == <<employee, leave>>
server == <<employee, leave, payRun, paid>>

Statuses == {"draft", "approved", "paid"}
Steps == {"read", "write", "claim", "post", "done", "refused"}
NoDialog == [kind |-> None, run |-> None]
Nothing == [times |-> 0, amount |-> 0, cash |-> 0]

\* A request, with the page or the form of the administrator that waits for it.
Request(by, kind, run, step, from, period, typed, account, net) ==
  [by |-> by, kind |-> kind, run |-> run, step |-> step, from |-> from,
   period |-> period, typed |-> typed, account |-> account, net |-> net]

Nets == UNION {[S -> 0..Gross] : S \in SUBSET Employees}
PayRuns == [period : Periods, status : Statuses \cup {"deleted"}, net : Nets]

Dialogs == [kind : Kinds \cup {None}, run : Runs \cup {None}]
Requests == [by : Admins, kind : Kinds \cup {None}, run : Runs \cup {None}, step : Steps,
             from : {"page", "form", "closed", "gone"}, period : Periods \cup {None},
             typed : SUBSET Employees, account : Accounts \cup {None}, net : Nets \cup {None}]

ASSUME ConstantsAssumption ==
  /\ IsFiniteSet(Employees) /\ IsFiniteSet(Runs) /\ Runs \subseteq Int
  /\ Gross \in Nat /\ Deductions \in Nat /\ Cash \in Nat
  /\ None \notin PayRuns \cup Requests

TypeOK ==
  /\ employee \in [Employees -> {"absent", "active", "inactive"}]
  /\ leave \subseteq Employees \X Periods
  /\ payRun \in [Runs -> PayRuns \cup {None}]
  /\ paid \in [Runs -> [times : Nat, amount : Nat, cash : Nat]]
  /\ work \in [Workers -> Requests \cup {None}]
  /\ page \in [Admins -> [rows : {None} \cup [Runs -> Statuses \cup {None}], dialog : Dialogs]]

-----------------------------------------------------------------------------
(* The server                                                              *)

Stored == {r \in DOMAIN payRun : payRun[r] # None /\ payRun[r].status # "deleted"}
Listed == [r \in Runs |-> IF r \in Stored THEN payRun[r].status ELSE None]
Unused == {r \in Runs : payRun[r] = None}
TotalNet(r) == SumFunctionOnSet(payRun[r].net, DOMAIN payRun[r].net)
Drawer == Cash - SumFunctionOnSet([r \in DOMAIN paid |-> paid[r].cash], DOMAIN paid)

Step(w, step) == work' = [work EXCEPT ![w].step = step]
At(w, kind, step) == work[w] # None /\ work[w].kind = kind /\ work[w].step = step
(* Faulty variant: the claim takes no lock. *)
Unlocked(r) == FALSE
\* A payment between its claim and its commit holds the run's row.
Held(r) == \E w \in Workers : At(w, "pay", "post") /\ work[w].run = r

\* What the administrator typed wins; else the unpaid leave of the period counts.
LossOfPay(e, period, typed) == IF e \in typed \/ <<e, period>> \in leave THEN 1 ELSE 0
NetPay(e, period, typed) == Gross - LossOfPay(e, period, typed) - Deductions

CreateRead(w) ==
  LET period == work[w].period
      active == {e \in Employees : employee[e] = "active"}
  IN /\ At(w, "create", "read")
     /\ IF \/ \E r \in Stored : payRun[r].period = period
           \/ active = {}
           \/ \E e \in active : NetPay(e, period, work[w].typed) < 0
        THEN Step(w, "refused")
        ELSE work' = [work EXCEPT ![w] = Request(@.by, "create", @.run, "write", @.from, period, @.typed, @.account,
                                                 [e \in active |-> NetPay(e, period, @.typed)])]
     /\ UNCHANGED <<server, page>>

\* A period has one pay run, and a payslip's employee exists: the database sees to it.
CreateWrite(w) ==
  LET period == work[w].period
      refused == \/ \E r \in Stored : payRun[r].period = period
                 \/ \E e \in DOMAIN work[w].net : employee[e] = "absent"
  IN /\ At(w, "create", "write")
     /\ \/ refused /\ Step(w, "refused") /\ UNCHANGED payRun
        \/ /\ ~refused /\ Step(w, "done")
           /\ \E r \in Unused :
                /\ \A q \in Unused : r <= q
                /\ payRun' = [payRun EXCEPT ![r] = [period |-> period, status |-> "draft", net |-> work[w].net]]
     /\ UNCHANGED <<people, paid, page>>

Approve(w) ==
  LET r == work[w].run
  IN /\ At(w, "approve", "read") /\ ~Held(r)
     /\ IF r \in Stored /\ payRun[r].status = "draft"
        THEN /\ payRun' = [payRun EXCEPT ![r].status = "approved"] /\ Step(w, "done")
        ELSE /\ Step(w, "refused") /\ UNCHANGED payRun
     /\ UNCHANGED <<people, paid, page>>

PayRead(w) ==
  LET r == work[w].run
  IN /\ At(w, "pay", "read")
     /\ Step(w, IF r \in Stored /\ payRun[r].status = "approved" THEN "claim" ELSE "refused")
     /\ UNCHANGED <<server, page>>

(* Faulty variant: the status read before is relied on. *)
ClaimRead(r) == r \in Stored
Claimable(r) == r \in Stored /\ payRun[r].status = "approved"
PayClaim(w) ==
  /\ At(w, "pay", "claim") /\ ~Held(work[w].run)
  /\ Step(w, IF Claimable(work[w].run) THEN "post" ELSE "refused")
  /\ UNCHANGED <<server, page>>

Covers(account, amount) == account # "cash" \/ Drawer >= amount
\* The journal entry and the withdrawal; a drawer that does not cover it rolls the claim back.
PayPost(w) ==
  LET r == work[w].run
      account == work[w].account
  IN /\ At(w, "pay", "post")
     /\ IF Covers(account, TotalNet(r))
        THEN /\ payRun' = [payRun EXCEPT ![r].status = "paid"]
             /\ paid' = [paid EXCEPT ![r] =
                  [times |-> @.times + 1, amount |-> @.amount + TotalNet(r),
                   cash |-> @.cash + (IF account = "cash" THEN TotalNet(r) ELSE 0)]]
             /\ Step(w, "done")
        ELSE /\ Step(w, "refused") /\ UNCHANGED <<payRun, paid>>
     /\ UNCHANGED <<people, page>>

Deletable(r) == r \in Stored /\ payRun[r].status # "paid"
DeleteRead(w) ==
  /\ At(w, "delete", "read")
  /\ Step(w, IF Deletable(work[w].run) THEN "write" ELSE "refused")
  /\ UNCHANGED <<server, page>>

\* The run is deleted by its id, whatever became of it.
DeleteWrite(w) ==
  LET r == work[w].run
  IN /\ At(w, "delete", "write") /\ ~Held(r)
     /\ payRun' = [payRun EXCEPT ![r].status = "deleted"]
     /\ Step(w, "done")
     /\ UNCHANGED <<people, paid, page>>

-----------------------------------------------------------------------------
(* Employees and their leave                                               *)

Employ(e) ==
  /\ employee[e] = "absent"
  /\ employee' = [employee EXCEPT ![e] = "active"]
  /\ UNCHANGED <<leave, payRun, paid, work, page>>

\* An employee with payslips is kept.
HasPayslips(e) == \E r \in Stored : e \in DOMAIN payRun[r].net
Dismiss(e) ==
  /\ employee[e] # "absent"
  /\ employee' = [employee EXCEPT ![e] = IF HasPayslips(e) THEN "inactive" ELSE "absent"]
  /\ leave' = IF HasPayslips(e) THEN leave ELSE {l \in leave : l[1] # e}
  /\ UNCHANGED <<payRun, paid, work, page>>

RecordOrRemoveLeave(e, p) ==
  /\ employee[e] # "absent"
  /\ leave' = IF <<e, p>> \in leave THEN leave \ {<<e, p>>} ELSE leave \cup {<<e, p>>}
  /\ UNCHANGED <<employee, payRun, paid, work, page>>

-----------------------------------------------------------------------------
(* An administrator's page                                                 *)

Mine(a) == {w \in Workers : work[w] # None /\ work[w].by = a}
\* Approving and deleting share their state with the page; paying and creating have that of their form.
Busy(a) ==
  \E w \in Mine(a) :
    IF page[a].dialog.kind \in {"approve", "delete"} THEN work[w].from = "page" ELSE work[w].from = "form"
Leaving(a, from, to) == [w \in Workers |-> IF w \in Mine(a) /\ work[w].from \in from
                                           THEN [work[w] EXCEPT !.from = to] ELSE work[w]]

Load(a) ==
  /\ page[a].rows = None
  /\ page' = [page EXCEPT ![a].rows = Listed]
  /\ UNCHANGED <<server, work>>

Reload(dialog) == [rows |-> None, dialog |-> dialog]

SwitchTab(a) ==
  /\ page[a].rows # None /\ (Waits => Mine(a) = {})
  /\ page' = [page EXCEPT ![a] = Reload(NoDialog)]
  /\ work' = Leaving(a, {"page", "form", "closed"}, "gone")
  /\ UNCHANGED server

OpenDialog(a, kind, r) ==
  /\ page[a].rows # None /\ page[a].dialog = NoDialog
  /\ CASE kind = "create" -> r = None
       [] kind = "pay" -> r # None /\ page[a].rows[r] = "approved"
       [] OTHER -> r # None /\ page[a].rows[r] = "draft"
  /\ page' = [page EXCEPT ![a].dialog = [kind |-> kind, run |-> r]]
  /\ UNCHANGED <<server, work>>

\* Escape closes it even while it is busy.
CloseDialog(a) ==
  /\ page[a].dialog # NoDialog
  /\ page' = [page EXCEPT ![a].dialog = NoDialog]
  /\ work' = Leaving(a, {"form"}, "closed")
  /\ UNCHANGED server

Send(a, w, period, typed, account) ==
  LET kind == page[a].dialog.kind
  IN /\ ~Busy(a) /\ work[w] = None
     /\ work' = [work EXCEPT ![w] =
          Request(a, kind, page[a].dialog.run, "read", IF kind \in {"approve", "delete"} THEN "page" ELSE "form",
                  period, typed, account, None)]
     /\ UNCHANGED <<server, page>>

Confirm(a, w) == page[a].dialog.kind \in {"approve", "delete"} /\ Send(a, w, None, {}, None)
SubmitPayment(a, w) == page[a].dialog.kind = "pay" /\ \E account \in Accounts : Send(a, w, None, {}, account)
\* Only loss of pay above zero is sent.
SubmitRun(a, w) ==
  page[a].dialog.kind = "create" /\ \E period \in Periods, typed \in SUBSET Employees : Send(a, w, period, typed, None)

\* Done: the dialog of its kind closes, whichever pay run it is about by now.  Refused or lost: it stays open.
Answered(w, lost) ==
  LET a == work[w].by
      done == work[w].step = "done" /\ ~lost /\ work[w].from # "gone"
      dialog == IF page[a].dialog.kind = work[w].kind THEN NoDialog ELSE page[a].dialog
  IN /\ work[w] # None /\ work[w].step \in {"done", "refused"} /\ (lost => Loses)
     /\ page' = IF done THEN [page EXCEPT ![a] = Reload(dialog)] ELSE page
     /\ work' = [work EXCEPT ![w] = None]
     /\ UNCHANGED server

-----------------------------------------------------------------------------
Init ==
  /\ employee = [e \in Employees |-> "active"] /\ leave = {}
  /\ payRun = [r \in Runs |-> None] /\ paid = [r \in Runs |-> Nothing]
  /\ work = [w \in Workers |-> None]
  /\ page = [a \in Admins |-> [rows |-> None, dialog |-> NoDialog]]

Handle(w) ==
  \/ CreateRead(w) \/ CreateWrite(w) \/ Approve(w)
  \/ PayRead(w) \/ PayClaim(w) \/ PayPost(w)
  \/ DeleteRead(w) \/ DeleteWrite(w)

Next ==
  \/ \E w \in Workers : Handle(w) \/ \E lost \in BOOLEAN : Answered(w, lost)
  \/ \E a \in Admins :
       \/ Load(a) \/ SwitchTab(a) \/ CloseDialog(a)
       \/ \E kind \in Kinds, r \in Runs \cup {None} : OpenDialog(a, kind, r)
       \/ \E w \in Workers : Confirm(a, w) \/ SubmitPayment(a, w) \/ SubmitRun(a, w)
  \/ \E e \in Employees : Employ(e) \/ Dismiss(e) \/ \E p \in Periods : RecordOrRemoveLeave(e, p)

Spec == Init /\ [][Next]_vars

-----------------------------------------------------------------------------
(* Salaries leave a bank account once, and all of them, for every pay run  *)
(* that is paid, however often and at whatever moment it is confirmed: two *)
(* tabs, a form closed and opened again, an answer that was lost           *)
(* (payroll.py: pay_pay_run).                                              *)
PaidOnce ==
  \A r \in Stored : paid[r] = [times |-> IF payRun[r].status = "paid" THEN 1 ELSE 0,
                               amount |-> IF payRun[r].status = "paid" THEN TotalNet(r) ELSE 0,
                               cash |-> paid[r].cash]

(* The withdrawal for salaries comes after the journal number was taken,   *)
(* and so does its check: the cash drawer is never overdrawn by it         *)
(* (bank.py: check_cash_overdraft).                                        *)
DrawerCovers == Drawer >= 0

(* While requests are handled one at a time, the pay run a withdrawal is   *)
(* for stays on record.                                                    *)
OneAtATime == \A v, w \in DOMAIN work : v = w
PaidStays == \A r \in DOMAIN paid : paid[r].times > 0 => payRun[r].status = "paid"

SalariesLeaveOnce == PaidOnce /\ DrawerCovers /\ (OneAtATime => PaidStays)

(* Parts of the inductive invariant: nothing was paid for a run there is   *)
(* not; whoever is about to post holds a run that is approved, alone; and, *)
(* one request at a time, what is about to be deleted is not paid.         *)
UnusedIsUnpaid == \A r \in DOMAIN payRun : payRun[r] = None => paid[r] = Nothing
ClaimsHold ==
  \A w \in DOMAIN work : At(w, "pay", "post") =>
    /\ Claimable(work[w].run)
    /\ \A v \in DOMAIN work : At(v, "pay", "post") /\ work[v].run = work[w].run => v = w
DeletionsHold ==
  \A w \in DOMAIN work : At(w, "delete", "write") =>
    work[w].run \in DOMAIN payRun /\ payRun[work[w].run] # None /\ (OneAtATime => Deletable(work[w].run))
CreationsHold ==
  \A w \in DOMAIN work : work[w] # None /\ work[w].kind = "create" =>
    work[w].period \in Periods /\ (work[w].step = "write" => work[w].net \in Nets)
PayrollInv ==
  TypeOK /\ SalariesLeaveOnce /\ UnusedIsUnpaid /\ ClaimsHold /\ DeletionsHold /\ CreationsHold

(* An administrator alone who waits for his calls sees each pay run as it  *)
(* is stored (PayRunsTab.tsx: reload).                                     *)
PayRunsConverge == \A a \in Admins : Mine(a) = {} /\ page[a].rows # None => page[a].rows = Listed

\* It is inductive with this: his page, which he does not leave meanwhile, shows what is stored,
\* or is read again by what was done and is not answered yet.
OneWhoWaits == Waits /\ ~Loses /\ \A a, b \in Admins : a = b
NobodyLeft == \A w \in Workers : work[w] # None => work[w].from # "gone"
ListIsFresh ==
  \A a \in Admins : page[a].rows \in {None, Listed} \/ \E w \in Mine(a) : work[w].step = "done"
ListInv == OneWhoWaits => NobodyLeft /\ ListIsFresh
=============================================================================
