------------------------------ MODULE Registers ------------------------------
(***************************************************************************)
(* The list pages for bills, vendor payments, expenses, contacts and       *)
(* items: what each row offers, ticks and bulk deletion, filters, search   *)
(* and paging, and the dialogs.  One page at a time; the server's handlers *)
(* are atomic.                                                             *)
(***************************************************************************)
EXTENDS Integers, FiniteSets, Functions

CONSTANTS
  Page,               \* "bills", "made", "expenses", "contacts" or "items"
  Rows,               \* 1..n, in the order the list shows
  Matching,           \* the rows the search finds
  Total, PageSize,
  Patient,            \* whether the user, who waits for the page before he goes on, is the only one
  Loses,              \* whether calls fail and answers get lost
  None

VARIABLES
  stored,             \* what is stored of each row
  view,               \* filter, search, page and ticks, with what was read for them
  dialog,             \* the dialog open
  detail,             \* the detail dialog, below it
  call                \* the request under way

vars == <<stored, view, dialog, detail, call>>

Ops == {"save", "open", "void", "delete", "pay", "unpay"}
NoDialog == [kind |-> "none", on |-> 0, row |-> None]
NoDetail == [on |-> 0, data |-> None]
NoCall == [op |-> None, on |-> 0, row |-> None, amount |-> 0, asked |-> {}, todo |-> {}, failed |-> {},
           told |-> 0, processed |-> 0, over |-> FALSE, step |-> "idle", ok |-> FALSE]
Fresh == [filter |-> "all", search |-> FALSE, debounced |-> FALSE, number |-> 1, loading |-> TRUE, shown |-> None,
          stats |-> None, ticked |-> {}, all |-> FALSE]

Filters == CASE Page = "bills" -> {"all", "draft", "unpaid", "overdue", "paid"}
             [] Page = "contacts" -> {"all", "inactive too"}
             [] OTHER -> {"all"}
Starts == CASE Page = "bills" -> [status : {"draft", "open"}, used : {0}, late : BOOLEAN]
            [] Page \in {"contacts", "items"} -> [status : {"active"}, used : {0}, late : {FALSE}]
            [] OTHER -> [status : {"recorded"}, used : {0}, late : {FALSE}]

Statuses == CASE Page = "bills" -> {"draft", "open", "void"}
              [] Page \in {"contacts", "items"} -> {"active", "inactive"}
              [] OTHER -> {"recorded"}
Row == [status : Statuses, used : 0..Total, late : BOOLEAN]
OpsHere == IF Page = "bills" THEN Ops ELSE {"save", "delete"}
Bulk == IF Page = "contacts" THEN {"bulk", "all"} ELSE {"bulk"}
Dialog == [kind : {"none"} \cup OpsHere \cup Bulk, on : {0} \cup Rows, row : {None} \cup Row]
Detail == [on : {0} \cup Rows, data : {None} \cup Row]
Call == [op : {None} \cup OpsHere \cup Bulk, on : {0} \cup Rows, row : {None} \cup Row, amount : 0..Total,
         asked : SUBSET Rows, todo : SUBSET Rows, failed : SUBSET Rows, told : Nat, processed : Nat,
         over : BOOLEAN, step : {"idle", "sent", "bulk", "done"}, ok : BOOLEAN]
ViewFits(v) ==
  /\ v \in [filter : Filters, search : BOOLEAN, debounced : BOOLEAN, number : {1} \cup Rows, loading : BOOLEAN,
            shown : {v.shown}, stats : {v.stats}, ticked : SUBSET Rows, all : BOOLEAN]
  /\ v.shown # None => /\ v.shown.total \in Nat /\ DOMAIN v.shown.rows \subseteq Rows
                       /\ \A i \in DOMAIN v.shown.rows : v.shown.rows[i] \in Row
  /\ (v.all => Page = "contacts")

\* Dialogs and requests are about a row, unless they are a form for a new one or about many.
Fits(kind, on, row) ==
  /\ kind \in Ops \ {"save"} => on # 0
  /\ kind \in Ops /\ on # 0 => row # None

TypeOK ==
  /\ stored \in [Rows -> {None} \cup Row] /\ ViewFits(view)
  /\ dialog \in Dialog /\ Fits(dialog.kind, dialog.on, dialog.row)
  /\ detail \in Detail /\ (detail.on = 0 => detail = NoDetail)
  /\ call \in Call /\ Fits(call.op, call.on, call.row)
  /\ (call.step = "sent" => call.op \in IF Page = "contacts" THEN Ops \cup Bulk ELSE Ops)
  /\ (call.step = "bulk" => call.op = "bulk" /\ Page # "contacts")
  /\ call.failed \subseteq call.asked /\ call.todo \subseteq call.asked

-----------------------------------------------------------------------------
(* The server                                                              *)

Exists == {i \in Rows : stored[i] # None}
Accepted(op, i, amount) ==
  LET r == stored[i]
  IN IF op = "save" /\ i = 0 THEN TRUE
     ELSE /\ r # None
          /\ Page = "bills" =>
               CASE op = "open" -> r.status = "draft"
                 [] op = "pay" -> r.status = "open" /\ amount \in 1..Total - r.used
                 [] op = "unpay" -> r.used > 0
                 [] op = "delete" -> r.used = 0
                 [] OTHER -> r.used = 0 /\ r.status # "void"

\* What has documents is made inactive instead of deleted.
Removed(i) == IF Page \in {"contacts", "items"} /\ stored[i].used > 0 THEN [stored[i] EXCEPT !.status = "inactive"] ELSE None
Effect(op, i, amount) ==
  CASE op = "save" -> \E j \in (IF i = 0 THEN Rows \ Exists ELSE {i}), r \in Starts :
                        stored' = [stored EXCEPT ![j] =
                          IF i # 0 /\ (stored[i].status = "open" \/ Page # "bills") THEN stored[i] ELSE r]
    [] op = "open" -> stored' = [stored EXCEPT ![i].status = "open"]
    [] op = "void" -> stored' = [stored EXCEPT ![i].status = "void"]
    [] op = "delete" -> stored' = [stored EXCEPT ![i] = Removed(i)]
    [] op = "pay" -> stored' = [stored EXCEPT ![i].used = @ + amount]
    [] op = "unpay" -> stored' = [stored EXCEPT ![i].used = @ - 1]

Room(op, i) == op = "save" /\ i = 0 => Exists # Rows

\* The status a bill is listed with.
Status(r) ==
  IF r.status # "open" THEN r.status
  ELSE IF r.used = Total THEN "paid"
  ELSE IF r.late THEN "overdue"
  ELSE IF r.used > 0 THEN "partially_paid" ELSE "open"

Listed(filter, search) ==
  {i \in Exists :
    /\ search => i \in Matching
    /\ Page = "bills" => CASE filter = "all" -> TRUE
                           [] filter = "unpaid" -> stored[i].status = "open" /\ stored[i].used < Total
                           [] OTHER -> Status(stored[i]) = filter
    /\ Page \in {"contacts", "items"} /\ filter = "all" => stored[i].status = "active"}

Position(i, of) == Cardinality({j \in of : j <= i})
OnPage(of, n) == {i \in of : (n - 1) * PageSize < Position(i, of) /\ Position(i, of) <= n * PageSize}
Read == LET of == Listed(view.filter, view.debounced)
        IN [rows |-> [i \in OnPage(of, view.number) |-> stored[i]], total |-> Cardinality(of)]

Balance(r) == IF r.status = "open" THEN Total - r.used ELSE 0
Stats ==
  CASE Page = "bills" -> [due |-> SumFunctionOnSet([i \in Exists |-> Balance(stored[i])], Exists),
                          drafts |-> Cardinality(Listed("draft", FALSE))]
    [] Page \in {"made", "expenses", "items"} -> [due |-> 0, drafts |-> Cardinality(Listed("all", FALSE))]
    [] OTHER -> None

(* Faulty variant: the filter of the list is left out. *)
AllFound == {i \in Exists : view.debounced => i \in Matching}
AllMatching == Listed(view.filter, view.debounced)

-----------------------------------------------------------------------------
(* What the page offers                                                    *)

RowsShown == IF view.loading \/ view.shown = None THEN {} ELSE DOMAIN view.shown.rows
RowOf(i) == view.shown.rows[i]

CanEditBill(r) == Status(r) \in {"draft", "open", "overdue"} /\ r.used = 0
IsPayable(r) == Status(r) \in {"open", "partially_paid", "overdue"} /\ Total - r.used > 0
Deletable(r) == Page = "bills" => r.used = 0

BillOffers(r) ==
  (IF CanEditBill(r) THEN {"save"} ELSE {}) \cup (IF IsPayable(r) THEN {"pay"} ELSE {})
  \cup (IF r.status = "draft" THEN {"open"} ELSE {}) \cup (IF r.status # "void" THEN {"void"} ELSE {})
  \cup (IF Deletable(r) THEN {"delete"} ELSE {})
PaymentOffers == {"delete"}
ExpenseOffers == {"save", "delete"}
ContactOffers == {"save", "delete"}
ItemOffers == {"save", "delete"}
Offers(r) ==
  CASE Page = "bills" -> BillOffers(r)
    [] Page = "made" -> PaymentOffers
    [] Page = "expenses" -> ExpenseOffers
    [] Page = "contacts" -> ContactOffers
    [] OTHER -> ItemOffers

Idle == dialog = NoDialog /\ detail = NoDetail
Settled == ~view.loading /\ view.search = view.debounced /\ view.shown # None
Free == Patient => call.step = "idle"

Load ==
  /\ view.loading
  /\ view' = [view EXCEPT !.loading = FALSE, !.shown = Read, !.stats = IF @ = None THEN Stats ELSE @]
  /\ UNCHANGED <<stored, dialog, detail, call>>

\* Changing page drops the ticks of contacts, unless all pages are ticked.
Kept(v) == IF Page = "contacts" /\ ~v.all THEN {} ELSE v.ticked
Turn(v) == IF v.number = view.number THEN v ELSE [v EXCEPT !.ticked = Kept(v)]
SetFilter(filter) ==
  /\ Idle /\ Free /\ filter # view.filter
  /\ view' = Turn([view EXCEPT !.filter = filter, !.number = 1, !.loading = TRUE])
  /\ UNCHANGED <<stored, dialog, detail, call>>

Search ==
  /\ Idle /\ Free /\ Page \in {"bills", "contacts", "items"}
  /\ view' = Turn([view EXCEPT !.search = ~@, !.number = 1, !.loading = @ \/ view.number # 1])
  /\ UNCHANGED <<stored, dialog, detail, call>>

\* The search is sent once the typing has stopped.
Debounce ==
  /\ view.debounced # view.search
  /\ view' = [view EXCEPT !.debounced = view.search, !.loading = TRUE]
  /\ UNCHANGED <<stored, dialog, detail, call>>

SetPage(n) ==
  /\ Idle /\ Free /\ RowsShown # {} /\ n # view.number /\ (n - 1) * PageSize < view.shown.total
  /\ view' = Turn([view EXCEPT !.number = n, !.loading = TRUE])
  /\ UNCHANGED <<stored, dialog, detail, call>>

Tickable == {i \in RowsShown : Deletable(RowOf(i))}
Tick(i) ==
  /\ Idle /\ Free /\ Page # "made" /\ i \in Tickable
  /\ view' = [view EXCEPT !.ticked = IF i \in @ THEN @ \ {i} ELSE @ \cup {i}]
  /\ UNCHANGED <<stored, dialog, detail, call>>

TickAll ==
  /\ Idle /\ Free /\ Page # "made" /\ Tickable # {}
  /\ view' = [view EXCEPT !.ticked = IF Cardinality(@) = Cardinality(Tickable) \/ view.all THEN {} ELSE Tickable,
                          !.all = FALSE]
  /\ UNCHANGED <<stored, dialog, detail, call>>

\* Unticking a row, or the header's box, leaves this on.
TickAllPages ==
  /\ Idle /\ Free /\ Page = "contacts" /\ RowsShown # {} /\ view.shown.total > Cardinality(RowsShown)
  /\ view' = [view EXCEPT !.all = ~@, !.ticked = IF view.all THEN {} ELSE RowsShown]
  /\ UNCHANGED <<stored, dialog, detail, call>>

-----------------------------------------------------------------------------
(* Dialogs                                                                 *)

Show(kind, i, row) ==
  /\ Free /\ (Patient => Settled) /\ dialog = NoDialog
  /\ dialog' = [kind |-> kind, on |-> i, row |-> row]
  /\ UNCHANGED <<stored, view, detail, call>>
OpenRow(op, i) == detail = NoDetail /\ i \in RowsShown /\ op \in Offers(RowOf(i)) /\ Show(op, i, RowOf(i))
OpenForm == Idle /\ Show("save", 0, None)
OpenBulk == Idle /\ Page # "made" /\ RowsShown # {} /\ (view.ticked # {} \/ view.all) /\ Show("bulk", 0, None)
OpenDeleteAll == Idle /\ Page = "contacts" /\ RowsShown # {} /\ view.ticked = {} /\ ~view.all /\ Show("all", 0, None)

OpenDetail(i) ==
  /\ Idle /\ Free /\ (Patient => Settled) /\ Page \in {"bills", "contacts", "items"} /\ i \in RowsShown
  /\ detail' = [on |-> i, data |-> IF Page = "items" THEN RowOf(i) ELSE None]
  /\ UNCHANGED <<stored, view, dialog, call>>
LoadDetail ==
  /\ detail.on # 0 /\ detail.data = None /\ stored[detail.on] # None
  /\ detail' = [detail EXCEPT !.data = stored[detail.on]]
  /\ UNCHANGED <<stored, view, dialog, call>>
\* From its detail a bill is paid and loses payments, a contact is edited.
DetailOffers(r) ==
  CASE Page = "bills" -> (IF IsPayable(r) THEN {"pay"} ELSE {}) \cup (IF r.used > 0 THEN {"unpay"} ELSE {})
    [] Page = "contacts" -> {"save"}
    [] OTHER -> {}
OpenFromDetail(op) ==
  /\ detail.data # None /\ op \in DetailOffers(detail.data)
  /\ Show(op, detail.on, detail.data)

Close ==
  /\ Patient => call.step = "idle"
  /\ IF dialog # NoDialog THEN dialog' = NoDialog /\ UNCHANGED detail
     ELSE detail # NoDetail /\ detail' = NoDetail /\ UNCHANGED dialog
  /\ UNCHANGED <<stored, view, call>>

\* Bills, contacts and items are entered on a page of their own.
Leaves(op) == op = "save" /\ Page \in {"bills", "contacts", "items"}
Send(op, amount) ==
  /\ call.step = "idle"
  /\ call' = [NoCall EXCEPT !.op = op, !.on = dialog.on, !.row = dialog.row, !.amount = amount,
                            !.over = detail # NoDetail, !.step = "sent"]
  /\ UNCHANGED <<stored, view, dialog, detail>>
Confirm == dialog.kind \in Ops \ {"pay"} /\ Send(dialog.kind, 0)
SubmitPayment(amount) == dialog.kind = "pay" /\ amount \in 1..Total - dialog.row.used /\ Send("pay", amount)

Found == IF view.shown = None THEN 0 ELSE view.shown.total
ConfirmBulk ==
  LET all == dialog.kind = "all" \/ view.all
      told == IF all THEN Found ELSE Cardinality(view.ticked)
  IN /\ dialog.kind \in {"bulk", "all"} /\ call.step = "idle" /\ told > 0
     /\ dialog' = NoDialog
     /\ call' = [NoCall EXCEPT !.op = IF all THEN "all" ELSE "bulk", !.told = told, !.asked = view.ticked,
                               !.todo = view.ticked, !.step = IF Page = "contacts" THEN "sent" ELSE "bulk"]
     /\ UNCHANGED <<stored, view, detail>>

-----------------------------------------------------------------------------
(* Requests                                                                *)

Serve ==
  /\ call.step = "sent" /\ call.op \in Ops /\ Room(call.op, call.on)
  /\ LET ok == Accepted(call.op, call.on, call.amount)
     IN /\ call' = [call EXCEPT !.ok = ok, !.step = "done"]
        /\ IF ok THEN Effect(call.op, call.on, call.amount) ELSE UNCHANGED stored
  /\ UNCHANGED <<view, dialog, detail>>

\* Contacts are deleted in one request: those ticked, or all that match.
ServeBulk ==
  LET of == IF call.op = "all" THEN AllMatching ELSE call.asked \cap Exists
  IN /\ call.step = "sent" /\ call.op \in {"bulk", "all"}
     /\ stored' = [i \in Rows |-> IF i \in of THEN Removed(i) ELSE stored[i]]
     /\ call' = [call EXCEPT !.processed = Cardinality(of), !.ok = TRUE, !.step = "done"]
     /\ UNCHANGED <<view, dialog, detail>>

Failed(i, c) == [c EXCEPT !.todo = @ \ {i}, !.failed = @ \cup {i}]
\* All others are deleted one by one; a failure is remembered and the rest goes on.
BulkStep(i) ==
  /\ call.step = "bulk" /\ i \in call.todo
  /\ \/ /\ Accepted("delete", i, 0)
        /\ Effect("delete", i, 0)
        /\ call' = [call EXCEPT !.todo = @ \ {i}]
     \/ /\ Loses /\ Accepted("delete", i, 0)
        /\ Effect("delete", i, 0)
        /\ call' = Failed(i, call)
     \/ /\ ~Accepted("delete", i, 0) \/ Loses
        /\ call' = Failed(i, call) /\ UNCHANGED stored
  /\ UNCHANGED <<view, dialog, detail>>
BulkOver ==
  /\ call.step = "bulk" /\ call.todo = {}
  /\ call' = [call EXCEPT !.ok = TRUE, !.step = "done"]
  /\ UNCHANGED <<stored, view, dialog, detail>>

Lose ==
  /\ Loses /\ call.step \in {"sent", "done"} /\ call.op \in Ops \cup {"all"}
  /\ call' = [call EXCEPT !.ok = FALSE, !.step = "done"]
  /\ UNCHANGED <<stored, view, dialog, detail>>

(* Faulty variant: the figures are read again, the list is not. *)
StatsOnly(v) == [v EXCEPT !.stats = Stats]
RefreshAll(v) == [v EXCEPT !.loading = TRUE, !.stats = None]
After(v) ==
  IF Leaves(call.op) THEN Fresh
  ELSE IF call.op = "bulk" /\ Page # "contacts" THEN [RefreshAll(v) EXCEPT !.ticked = call.failed]
  ELSE IF call.op \in {"bulk", "all"} THEN [RefreshAll(v) EXCEPT !.ticked = {}, !.all = FALSE]
  ELSE RefreshAll(v)

\* A detail dialog is read again when a payment is taken out of it, not when one is added.
Answered ==
  /\ call.step = "done"
  /\ call' = NoCall
  /\ IF call.ok
     THEN /\ view' = After(view)
          /\ dialog' = IF dialog.kind = call.op THEN NoDialog ELSE dialog
          /\ detail' = IF Leaves(call.op) THEN NoDetail
                       ELSE IF call.op = "unpay" THEN [detail EXCEPT !.data = None] ELSE detail
     ELSE UNCHANGED <<view, dialog, detail>>
  /\ UNCHANGED stored

Elsewhere ==
  \/ /\ ~Patient
     /\ \E op \in (IF Page = "bills" THEN Ops ELSE {"save", "delete"}), i \in Exists, amount \in 1..Total :
          Accepted(op, i, amount) /\ Effect(op, i, amount)
     /\ UNCHANGED <<view, dialog, detail, call>>
  \* Time passes, or a document is recorded, while the page is not open.
  \/ /\ Patient => Idle /\ call.step = "idle"
     /\ \E i \in Exists :
          stored' = [stored EXCEPT ![i] = IF Page = "bills" THEN [@ EXCEPT !.late = TRUE] ELSE [@ EXCEPT !.used = 1]]
     /\ view' = IF Patient THEN Fresh ELSE view
     /\ UNCHANGED <<dialog, detail, call>>

Init ==
  /\ stored \in [Rows -> Starts \cup {None}]
  /\ view = Fresh /\ dialog = NoDialog /\ detail = NoDetail /\ call = NoCall

Next ==
  \/ Load \/ Search \/ Debounce \/ TickAll \/ TickAllPages
  \/ \E filter \in Filters : SetFilter(filter)
  \/ \E i \in Rows : SetPage(i) \/ Tick(i) \/ OpenDetail(i) \/ BulkStep(i) \/ \E op \in Ops : OpenRow(op, i)
  \/ OpenForm \/ OpenBulk \/ OpenDeleteAll \/ LoadDetail \/ \E op \in Ops : OpenFromDetail(op)
  \/ Close \/ Confirm \/ ConfirmBulk \/ \E amount \in 1..Total : SubmitPayment(amount)
  \/ Serve \/ ServeBulk \/ BulkOver \/ Lose \/ Answered \/ Elsewhere

Spec == Init /\ [][Next]_vars

-----------------------------------------------------------------------------
(* A user alone who waits for the page sees the rows and the figures as    *)
(* they are stored (BillsPage.tsx, ExpensesPage.tsx, PaymentsMadePage.tsx, *)
(* ItemsPage.tsx: refreshAll; ContactsPage.tsx: list.reload).              *)
PagesConverge ==
  Patient /\ ~Loses /\ call.step = "idle" /\ Settled => view.shown = Read /\ view.stats = Stats

(* What a page offers is accepted by the server, as long as nobody else    *)
(* acts: but for voiding a bill with payments, offered and refused, and    *)
(* for what was opened over a detail dialog that is not read again         *)
(* (BillsPage.tsx: canEditBill, isPayable, columns; bills.py, payments.py).*)
OffersAccepted ==
  Patient /\ call.step = "done" /\ ~call.ok /\ ~Loses =>
    call.over \/ (call.op = "void" /\ call.row.used > 0)

(* The number of contacts a confirmation names is the number deleted, less *)
(* the ticked ones deleted on their own, for a user alone who waits for    *)
(* the list (ContactsPage.tsx: confirmBulkDelete; contacts.py:             *)
(* bulk_delete_contacts).                                                  *)
BulkAsTold ==
  Patient /\ ~Loses /\ call.step = "done" /\ call.ok /\ call.op \in Bulk /\ Page = "contacts" =>
    IF call.op = "all" THEN call.processed = call.told
    ELSE call.processed <= call.told /\ call.told - call.processed <= Cardinality({i \in call.asked : stored[i] = None})

(* Whatever fails on the way, each row a bulk deletion was asked for is    *)
(* gone, or is kept ticked (BillsPage.tsx, ExpensesPage.tsx,               *)
(* ItemsPage.tsx: confirmBulkDelete).                                      *)
BulkSettles ==
  call.step = "done" /\ call.op = "bulk" /\ Page # "contacts" =>
    \A i \in call.asked : i \in call.failed \/ stored[i] = None \/ stored[i].status = "inactive"

\* A page offers what is accepted and deletes what it says.
RegisterActsAsShown == OffersAccepted /\ BulkAsTold /\ BulkSettles

-----------------------------------------------------------------------------
(* Why they hold.  Of the rows of a bulk deletion, one by one, those done  *)
(* with are settled.                                                       *)
DoneIsSettled ==
  call.step \in {"bulk", "done"} /\ call.op = "bulk" /\ Page # "contacts" =>
    \A i \in call.asked \ call.todo : i \in call.failed \/ stored[i] = None \/ stored[i].status = "inactive"
NothingIsLeft == call.step = "done" /\ call.op = "bulk" /\ Page # "contacts" => call.todo = {}

\* As long as nothing was changed by the request, the list shows what is stored or is read again.
Unchanged == call.step \in {"idle", "sent"} \/ (call.step = "done" /\ ~call.ok)
ListIsStored ==
  Unchanged => /\ view.loading \/ (view.shown = Read /\ view.stats = Stats)
               /\ view.stats \in {None, Stats}

\* A dialog over the list is about a row as stored, of which the list offered it; a request is that
\* of the dialog open, and a confirmation counts what there is.
DialogIsStored ==
  Unchanged /\ dialog.kind \in Ops /\ dialog.on # 0 /\ detail = NoDetail =>
    dialog.row = stored[dialog.on] /\ dialog.kind \in Offers(dialog.row)
CallIsAsked ==
  /\ call.step # "idle" => call.op \in Ops \cup Bulk
  /\ call.step # "idle" /\ call.op \in Ops =>
       /\ call.op = dialog.kind /\ call.on = dialog.on /\ call.row = dialog.row
       /\ call.over <=> detail # NoDetail
       /\ call.op = "pay" => call.amount \in 1..Total - call.row.used
  /\ call.step # "idle" /\ call.op \in Bulk => dialog = NoDialog
CountIsRight ==
  /\ dialog.kind \in Bulk => call.step = "idle" /\ Settled
  /\ call.op \in Bulk /\ call.step = "sent" => view.search = view.debounced
  /\ call.op = "all" /\ call.step = "sent" => call.told = Cardinality(AllMatching)
  /\ call.op = "bulk" => call.told = Cardinality(call.asked)

RegisterInv == TypeOK /\ DoneIsSettled /\ NothingIsLeft
AloneInv == ListIsStored /\ DialogIsStored /\ CallIsAsked /\ CountIsRight /\ OffersAccepted /\ BulkAsTold

(* Of the constants: rows and pages are counted from one, and None is none *)
(* of the rest.                                                            *)
ConstantsOK ==
  /\ Page \in {"bills", "made", "expenses", "contacts", "items"}
  /\ IsFiniteSet(Rows) /\ Rows = 1..Cardinality(Rows) /\ Total \in Nat \ {0} /\ PageSize \in Nat \ {0}
  /\ None \notin Row \cup Ops \cup Bulk
=============================================================================
