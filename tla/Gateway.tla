------------------------------ MODULE Gateway ------------------------------
(***************************************************************************)
(* Payments through the payment gateway.  The gateway is external; what it *)
(* knows reaches the books by the checkout's verification, by webhooks, by *)
(* the sync, and by people who match payments to invoices, categorize and  *)
(* refund them.  A verification and a refund take two steps, a sync one    *)
(* per page; other handlers are atomic, each with its answer.  A payment   *)
(* is of Amount, a refund of one unit.                                     *)
(***************************************************************************)
EXTENDS Integers, FiniteSets

CONSTANTS
  Page,               \* the page that is open: "payments", "hub" or "closed"
  Payments, Invoices, Refunds,
  Amount,             \* of a payment
  Total,              \* of an invoice
  Categories,         \* those a person picks, and a rule sets
  Others,             \* of "checkout", "links", "hooks", "sync", "staff" and "rules"
  None

VARIABLES
  gate,               \* the gateway's payments
  hooks, seen,        \* events sent, and those recorded
  record,             \* payments the books know of
  rows,               \* refunds the books know of
  books,              \* customer payments booked for each payment
  invoice,
  rule,               \* the category rule, or None
  checkout,           \* a checkout window
  sync,               \* the run under way
  refunding,          \* the refund request under way
  view,               \* the open page
  human               \* history: what a person decided of each payment

vars == <<gate, hooks, seen, record, rows, books, invoice, rule, checkout, sync, refunding, view, human>>

Lone == Others = {}
NoCheckout == [step |-> "closed", of |-> None, pay |-> None]
NoSync == [step |-> "never", full |-> TRUE, todo |-> {}, page |-> None, refunds |-> {}, touched |-> {}]
NoRefund == [step |-> "idle", pay |-> None, id |-> None, was |-> 0]
NoDetail == [on |-> None, data |-> None, matches |-> {}]
Unread == [loading |-> Page # "closed", shown |-> <<>>, detail |-> NoDetail, row |-> None]
NewRecord ==
  [status |-> "created", refund |-> 0, invoice |-> None, booked |-> FALSE, recon |-> "unmatched",
   category |-> None, source |-> None, settled |-> FALSE]

Statuses == {"created", "authorized", "captured", "failed", "partially_refunded", "refunded"}
Recons == {"unmatched", "suggested", "matched", "ignored"}
AllCategories == Categories \cup {None, "failed_payment", "refund", "customer_payment", "uncategorized"}
Record == [status : Statuses, refund : Nat, invoice : Invoices \cup {None}, booked : BOOLEAN,
           recon : Recons, category : AllCategories,
           source : {"rule", "auto", "invoice", "manual", None}, settled : BOOLEAN]
Events == [kind : {"captured", "failed"}, pay : Payments, id : {None}]
            \cup [kind : {"refund.created", "refund.processed"}, pay : Payments, id : Refunds]
PageRow == [pay : Payments, status : {"authorized", "captured", "failed"}, refunds : Nat]
Detail == [on : Payments \cup {None}, data : Record \cup {None}, matches : SUBSET Invoices]

ASSUME ConstantsAssumption ==
  /\ None \notin Payments \cup Invoices \cup Refunds \cup Record \cup PageRow
  /\ IsFiniteSet(Refunds)
  /\ Amount \in Nat /\ Total \in Nat

TypeOK ==
  /\ gate \in [Payments -> [status : {"new", "authorized", "captured", "failed"},
                            of : Invoices \cup {None}, refunds : SUBSET Refunds, old : BOOLEAN]]
  /\ hooks \subseteq Events /\ seen \subseteq hooks
  /\ record \in [Payments -> Record \cup {None}]
  /\ rows \subseteq Payments \X Refunds
  /\ books \in [Payments -> Nat]
  /\ invoice \in [Invoices -> [paid : Nat, void : BOOLEAN]]
  /\ rule \in Categories \cup {None}
  /\ checkout \in {NoCheckout} \cup [step : {"paying", "verify", "committing", "done", "error"},
                                     of : Invoices, pay : Payments]
  /\ sync \in [step : {"never", "pages", "completed", "partial", "failed"}, full : BOOLEAN,
               todo : SUBSET Payments, page : PageRow \cup {None},
               refunds : SUBSET (Payments \X Refunds), touched : SUBSET Payments]
  /\ refunding \in {NoRefund} \cup [step : {"asked"}, pay : Payments, id : Refunds, was : Nat]
  /\ view \in [loading : BOOLEAN, shown : {view.shown}, detail : Detail, row : Payments \cup {None}]
  /\ view.shown \in [DOMAIN view.shown -> Record]
  /\ human \in [Payments -> [category : AllCategories, recon : BOOLEAN]]

-----------------------------------------------------------------------------
(* Records and invoices                                                    *)

Known == {p \in Payments : record[p] # None}
Exists == {p \in Payments : gate[p].status # "new"}
Refunded(r, n) == [r EXCEPT !.refund = n, !.status = IF n >= Amount THEN "refunded" ELSE "partially_refunded"]
RowsOf(p, rs) == Cardinality({id \in Refunds : <<p, id>> \in rs})

Categorise(r) ==
  CASE rule # None -> [category |-> rule, source |-> "rule"]
    [] rule = None /\ r.status = "failed" -> [category |-> "failed_payment", source |-> "auto"]
    [] rule = None /\ r.status # "failed" /\ r.refund > 0 -> [category |-> "refund", source |-> "auto"]
    [] rule = None /\ r.status # "failed" /\ r.refund = 0 /\ r.invoice # None ->
         [category |-> "customer_payment", source |-> "invoice"]
    [] OTHER -> [category |-> IF r.status = "captured" THEN "customer_payment" ELSE "uncategorized", source |-> "auto"]
Decided(r) == r.source = "manual" \/ r.settled
ApplyCategorisation(r) ==
  LET c == Categorise(r)
  IN IF Decided(r) THEN r
     ELSE [r EXCEPT !.category = c.category, !.source = c.source, !.settled = c.source \in {"rule", "invoice"}]

Balance(i) == Total - invoice[i].paid
Open == {i \in Invoices : ~invoice[i].void /\ Balance(i) > 0}
Book(p, i) ==
  /\ books' = [books EXCEPT ![p] = @ + 1]
  /\ invoice' = [invoice EXCEPT ![i].paid = @ + Amount]

-----------------------------------------------------------------------------
(* The gateway (external)                                                  *)

Event(kind, p, id) == [kind |-> kind, pay |-> p, id |-> id]
Emit(events) == hooks' = IF "hooks" \in Others THEN hooks \cup events ELSE hooks
Touch(p) == sync' = IF sync.step \in {"pages", "completed"} THEN [sync EXCEPT !.touched = @ \cup {p}] ELSE sync
\* What Razorpay lets a refund do.
Refundable(p) == gate[p].status = "captured" /\ Cardinality(gate[p].refunds) < Amount
Unused(id) == \A p \in Payments : id \notin gate[p].refunds
RefundAtGate(p, id) ==
  /\ gate' = [gate EXCEPT ![p].refunds = @ \cup {id}]
  /\ Emit({Event("refund.created", p, id), Event("refund.processed", p, id)}) /\ Touch(p)

Settle(p, status) ==
  /\ gate' = [gate EXCEPT ![p].status = status]
  /\ Emit(IF status = "authorized" THEN {} ELSE {Event(status, p, None)}) /\ Touch(p)

\* Someone pays by a link of the gateway's own; an authorized payment is captured later.
PayElsewhere(p) ==
  /\ "links" \in Others /\ gate[p].status = "new" /\ gate[p].of = None
  /\ \E status \in {"authorized", "captured", "failed"} : Settle(p, status)
  /\ UNCHANGED <<seen, record, rows, books, invoice, rule, checkout, refunding, view, human>>
Capture(p) ==
  /\ gate[p].status = "authorized" /\ Settle(p, "captured")
  /\ UNCHANGED <<seen, record, rows, books, invoice, rule, checkout, refunding, view, human>>
\* From the gateway's own dashboard.
RefundElsewhere(p, id) ==
  /\ "links" \in Others /\ Refundable(p) /\ Unused(id) /\ RefundAtGate(p, id)
  /\ UNCHANGED <<seen, record, rows, books, invoice, rule, checkout, refunding, view, human>>

-----------------------------------------------------------------------------
(* The checkout                                                            *)

\* Modal and handler refuse an amount above the balance.
CreateOrder(p, i) ==
  /\ "checkout" \in Others /\ checkout.step = "closed" /\ gate[p].status = "new" /\ gate[p].of = None
  /\ ~invoice[i].void /\ Balance(i) >= Amount
  /\ checkout' = [step |-> "paying", of |-> i, pay |-> p]
  /\ gate' = [gate EXCEPT ![p].of = i]
  /\ UNCHANGED <<hooks, seen, record, rows, books, invoice, rule, sync, refunding, view, human>>
PayHere ==
  /\ checkout.step = "paying"
  /\ \E status \in {"authorized", "captured", "failed"} :
       Settle(checkout.pay, status) /\ checkout' = IF status = "failed" THEN NoCheckout ELSE [checkout EXCEPT !.step = "verify"]
  /\ UNCHANGED <<seen, record, rows, books, invoice, rule, refunding, view, human>>
\* The window is dismissed, or its browser dies.
LeaveCheckout ==
  /\ checkout.step \in {"paying", "verify", "done", "error"} /\ checkout' = NoCheckout
  /\ UNCHANGED <<gate, hooks, seen, record, rows, books, invoice, rule, sync, refunding, view, human>>

VerifyRead ==
  /\ checkout.step = "verify"
  /\ checkout' = [checkout EXCEPT !.step = IF record[checkout.pay] # None THEN "done" ELSE "committing"]
  /\ UNCHANGED <<gate, hooks, seen, record, rows, books, invoice, rule, sync, refunding, view, human>>
(* Faulty variant: a payment may be recorded twice. *)
AnyRecord(p) == TRUE
NewPayment(p) == record[p] = None
\* Booking and record are one transaction; the payment's id is unique.
VerifyCommit ==
  /\ checkout.step = "committing"
  /\ LET p == checkout.pay i == checkout.of
     IN IF NewPayment(p)
        THEN /\ record' = [record EXCEPT ![p] = ApplyCategorisation(
                  [NewRecord EXCEPT !.status = "captured", !.invoice = i, !.booked = TRUE, !.recon = "matched"])]
             /\ Book(p, i) /\ checkout' = [checkout EXCEPT !.step = "done"]
        ELSE checkout' = [checkout EXCEPT !.step = "error"] /\ UNCHANGED <<record, books, invoice>>
  /\ UNCHANGED <<gate, hooks, seen, rows, rule, sync, refunding, view, human>>

-----------------------------------------------------------------------------
(* Webhooks: in any order, any number of times                             *)

Handle(ev) ==
  LET p == ev.pay
  IN CASE ev.kind = "captured" /\ record[p] = None /\ gate[p].of # None ->
            record' = [record EXCEPT ![p] = [NewRecord EXCEPT !.status = "captured", !.invoice = gate[p].of]] /\ UNCHANGED rows
       [] ev.kind = "failed" /\ record[p] # None ->
            record' = [record EXCEPT ![p].status = "failed"] /\ UNCHANGED rows
       [] ev.kind \in {"refund.created", "refund.processed"} /\ record[p] # None /\ <<p, ev.id>> \notin rows ->
            record' = [record EXCEPT ![p] = Refunded(@, @.refund + 1)] /\ rows' = rows \cup {<<p, ev.id>>}
       [] OTHER -> UNCHANGED <<record, rows>>
Deliver(ev) ==
  /\ ev \notin seen
  /\ seen' = seen \cup {ev} /\ Handle(ev)
  /\ UNCHANGED <<gate, hooks, books, invoice, rule, checkout, sync, refunding, view, human>>

-----------------------------------------------------------------------------
(* The sync                                                                *)

Idle == sync.step \in {"never", "completed", "partial", "failed"}
\* Payments and refunds are asked for by when they were created.
StartSync(full) ==
  /\ ("sync" \in Others \/ Page = "payments") /\ Idle /\ (sync.step = "never" => full)
  /\ sync' = [step |-> "pages", full |-> full, page |-> None, touched |-> {},
              todo |-> {p \in Exists : full \/ ~gate[p].old},
              refunds |-> UNION {{<<p, id>> : id \in gate[p].refunds} : p \in Payments}]
  /\ UNCHANGED <<gate, hooks, seen, record, rows, books, invoice, rule, checkout, refunding, view, human>>
FetchPage(p) ==
  /\ sync.step = "pages" /\ sync.page = None /\ p \in sync.todo
  /\ sync' = [sync EXCEPT !.page = [pay |-> p, status |-> gate[p].status, refunds |-> Cardinality(gate[p].refunds)]]
  /\ UNCHANGED <<gate, hooks, seen, record, rows, books, invoice, rule, checkout, refunding, view, human>>

FromPage(r, page) ==
  LET s == [r EXCEPT !.refund = page.refunds, !.status = page.status]
  IN IF page.status = "captured" /\ page.refunds > 0 THEN Refunded(s, page.refunds) ELSE s
(* Faulty variant: every captured payment is looked at again. *)
SuggestAny(r) == r.status = "captured"
Suggests(r) == r.status = "captured" /\ r.invoice = None
SavePage ==
  /\ sync.step = "pages" /\ sync.page # None
  /\ LET p == sync.page.pay
         r == FromPage(IF record[p] = None THEN NewRecord ELSE record[p], sync.page)
     IN /\ \E recon \in IF ~Suggests(r) THEN {r.recon} ELSE IF Open = {} THEN {"unmatched"} ELSE {"unmatched", "suggested"} :
             record' = [record EXCEPT ![p] = ApplyCategorisation([r EXCEPT !.recon = recon])]
        /\ sync' = [sync EXCEPT !.page = None, !.todo = @ \ {p}]
  /\ UNCHANGED <<gate, hooks, seen, rows, books, invoice, rule, checkout, refunding, view, human>>

(* Faulty variant: a refund that is recorded already adds nothing to the payment. *)
SumNew(p, new) == RowsOf(p, new)
SumRows(p, new) == RowsOf(p, rows \cup new)
\* A remount of the tab closes what is open above it.
FinishSync(step) ==
  /\ sync' = [sync EXCEPT !.step = step, !.page = None, !.todo = {}, !.refunds = {}, !.touched = IF step = "completed" THEN @ ELSE {}]
  /\ gate' = IF step = "failed" THEN gate ELSE [p \in Payments |-> [gate[p] EXCEPT !.old = gate[p].status # "new"]]
  /\ view' = IF Page = "payments" /\ "sync" \notin Others THEN Unread ELSE view
SyncRefunds ==
  /\ sync.step = "pages" /\ sync.todo = {} /\ sync.page = None
  /\ LET found == {x \in sync.refunds : record[x[1]] # None}
         of == {x[1] : x \in found}
     IN /\ rows' = rows \cup found
        /\ record' = [p \in Payments |-> IF p \in of THEN Refunded(record[p], SumRows(p, found \ rows)) ELSE record[p]]
  /\ FinishSync("completed")
  /\ UNCHANGED <<hooks, seen, books, invoice, rule, checkout, refunding, human>>
\* The gateway cannot be reached: without refunds, or not at all.
SyncStops ==
  /\ sync.step = "pages" /\ FinishSync(IF sync.todo = {} /\ sync.page = None THEN "partial" ELSE "failed")
  /\ UNCHANGED <<hooks, seen, record, rows, books, invoice, rule, checkout, refunding, human>>

-----------------------------------------------------------------------------
(* Refunds from the books                                                  *)

RefundAsk(p, id) ==
  /\ refunding.step = "idle" /\ record[p] # None /\ record[p].refund < Amount
  /\ Refundable(p) /\ Unused(id) /\ RefundAtGate(p, id)
  /\ refunding' = [step |-> "asked", pay |-> p, id |-> id, was |-> record[p].refund]
  /\ UNCHANGED <<seen, record, rows, books, invoice, rule, checkout, human>>
ReloadAll(v) == Unread
RefundCommit ==
  /\ refunding.step = "asked" /\ refunding' = NoRefund
  /\ LET p == refunding.pay
     IN IF <<p, refunding.id>> \in rows
        THEN UNCHANGED <<record, rows, invoice, view>>
        ELSE /\ rows' = rows \cup {<<p, refunding.id>>}
             /\ record' = [record EXCEPT ![p] = Refunded(@, refunding.was + 1)]
             /\ invoice' = IF record[p].invoice = None THEN invoice
                           ELSE [invoice EXCEPT ![record[p].invoice].paid = IF @ > 0 THEN @ - 1 ELSE 0]
             /\ view' = IF Page = "hub" THEN ReloadAll(view) ELSE view
  /\ UNCHANGED <<gate, hooks, seen, books, rule, checkout, sync, human>>

CanRefund(row) == row.status = "captured" \/ (row.status = "partially_refunded" /\ Amount > row.refund)
OpenRefund(p) ==
  /\ Page = "hub" /\ ~view.loading /\ view.row = None /\ p \in DOMAIN view.shown /\ CanRefund(view.shown[p])
  /\ view' = [view EXCEPT !.row = p]
  /\ UNCHANGED <<gate, hooks, seen, record, rows, books, invoice, rule, checkout, sync, refunding, human>>
CloseRefund ==
  /\ Page = "hub" /\ view.row # None /\ refunding.step = "idle" /\ view' = [view EXCEPT !.row = None]
  /\ UNCHANGED <<gate, hooks, seen, record, rows, books, invoice, rule, checkout, sync, refunding, human>>
ProcessRefund(id) == Page = "hub" /\ view.row # None /\ view.shown[view.row].refund < Amount /\ RefundAsk(view.row, id) /\ UNCHANGED view

-----------------------------------------------------------------------------
(* Payments reviewed                                                       *)

SetCategory(p, category, accept) ==
  /\ record' = [record EXCEPT ![p] =
       IF accept /\ @.category = category THEN [@ EXCEPT !.settled = TRUE]
       ELSE [@ EXCEPT !.category = category, !.source = "manual", !.settled = TRUE]]
  /\ human' = [human EXCEPT ![p].category = category]
MatchInvoice(p, i) ==
  /\ ~record[p].booked /\ record[p].status \in {"captured", "refunded", "partially_refunded"} /\ ~invoice[i].void
  /\ Book(p, i)
  /\ record' = [record EXCEPT ![p] = [@ EXCEPT !.invoice = i, !.booked = TRUE, !.recon = "matched",
                  !.category = "customer_payment", !.source = "manual", !.settled = TRUE]]
  /\ human' = [human EXCEPT ![p] = [category |-> "customer_payment", recon |-> FALSE]]
SetReconciliation(p, recon) ==
  /\ recon = "matched" => record[p].invoice # None
  /\ record' = [record EXCEPT ![p].recon = recon] /\ human' = [human EXCEPT ![p].recon = TRUE]
Reapply == record' = [p \in Payments |-> IF record[p] = None \/ record[p].settled THEN record[p] ELSE ApplyCategorisation(record[p])]

\* Others at the same pages.
Staff(p) ==
  /\ "staff" \in Others /\ record[p] # None
  /\ \/ \E c \in Categories, accept \in BOOLEAN : SetCategory(p, c, accept) /\ UNCHANGED <<books, invoice>>
     \/ \E i \in Open : MatchInvoice(p, i)
     \/ \E recon \in {"matched", "ignored"} : SetReconciliation(p, recon) /\ UNCHANGED <<books, invoice>>
  /\ UNCHANGED <<gate, hooks, seen, rows, rule, checkout, sync, refunding, view>>
StaffRefund(p, id) == "staff" \in Others /\ RefundAsk(p, id) /\ UNCHANGED view
Void(i) ==
  /\ "staff" \in Others /\ ~invoice[i].void /\ invoice[i].paid = 0 /\ invoice' = [invoice EXCEPT ![i].void = TRUE]
  /\ UNCHANGED <<gate, hooks, seen, record, rows, books, rule, checkout, sync, refunding, view, human>>
\* The tab of the rules; those of payments are mounted anew after it.
AtRules ==
  /\ "rules" \in Others \/ (Page = "payments" /\ view.detail = NoDetail)
  /\ \/ \E c \in Categories \cup {None} : rule' = c /\ rule # c /\ UNCHANGED record
     \/ Reapply /\ UNCHANGED rule
  /\ view' = IF Page = "payments" THEN Unread ELSE view
  /\ UNCHANGED <<gate, hooks, seen, rows, books, invoice, checkout, sync, refunding, human>>

Load ==
  /\ view.loading /\ view' = [view EXCEPT !.loading = FALSE, !.shown = [p \in Known |-> record[p]]]
  /\ UNCHANGED <<gate, hooks, seen, record, rows, books, invoice, rule, checkout, sync, refunding, human>>
OpenDetail(p) ==
  /\ Page = "payments" /\ ~view.loading /\ view.detail = NoDetail /\ p \in DOMAIN view.shown
  /\ view' = [view EXCEPT !.detail.on = p]
  /\ UNCHANGED <<gate, hooks, seen, record, rows, books, invoice, rule, checkout, sync, refunding, human>>
ReadDetail(p) == [on |-> p, data |-> record'[p], matches |-> {i \in Invoices : ~invoice'[i].void /\ Total - invoice'[i].paid > 0}]
LoadDetail ==
  /\ view.detail.on # None /\ view.detail.data = None
  /\ UNCHANGED <<gate, hooks, seen, record, rows, books, invoice, rule, checkout, sync, refunding, human>>
  /\ view' = [view EXCEPT !.detail = ReadDetail(view.detail.on)]
CloseDetail ==
  /\ view.detail # NoDetail /\ view' = [view EXCEPT !.detail = NoDetail]
  /\ UNCHANGED <<gate, hooks, seen, record, rows, books, invoice, rule, checkout, sync, refunding, human>>

Changed(detail) == [view EXCEPT !.detail = detail, !.loading = TRUE]
Ready == view.detail.data # None
Choose(c) ==
  /\ Ready /\ record[view.detail.on] # None
  /\ \/ ~view.detail.data.settled /\ c = view.detail.data.category /\ SetCategory(view.detail.on, c, TRUE)
     \/ c # view.detail.data.category /\ SetCategory(view.detail.on, c, FALSE)
  /\ view' = Changed([view.detail EXCEPT !.data = record'[view.detail.on]])
  /\ UNCHANGED <<gate, hooks, seen, rows, books, invoice, rule, checkout, sync, refunding>>
ConfirmMatch(i) ==
  /\ Ready /\ view.detail.data.invoice = None /\ i \in view.detail.matches /\ MatchInvoice(view.detail.on, i)
  /\ view' = Changed(ReadDetail(view.detail.on))
  /\ UNCHANGED <<gate, hooks, seen, rows, rule, checkout, sync, refunding>>
Ignore(p) ==
  /\ Page = "payments" /\ ~view.loading /\ view.detail = NoDetail /\ p \in DOMAIN view.shown /\ view.shown[p].invoice = None
  /\ SetReconciliation(p, "ignored") /\ view' = [view EXCEPT !.loading = TRUE]
  /\ UNCHANGED <<gate, hooks, seen, rows, books, invoice, rule, checkout, sync, refunding>>

-----------------------------------------------------------------------------
Init ==
  /\ \E paid \in IF Lone THEN SUBSET Payments ELSE {{}} :
       /\ gate = [p \in Payments |-> [status |-> IF p \in paid THEN "captured" ELSE "new", of |-> None, refunds |-> {}, old |-> FALSE]]
       /\ record = [p \in Payments |-> IF p \in paid THEN [NewRecord EXCEPT !.status = "captured",
                                          !.category = "customer_payment", !.source = "auto"] ELSE None]
  /\ hooks = {} /\ seen = {} /\ rows = {} /\ books = [p \in Payments |-> 0]
  /\ invoice = [i \in Invoices |-> [paid |-> 0, void |-> FALSE]]
  /\ rule = None /\ checkout = NoCheckout /\ sync = NoSync /\ refunding = NoRefund /\ view = Unread
  /\ human = [p \in Payments |-> [category |-> None, recon |-> FALSE]]

Next ==
  \/ PayHere \/ LeaveCheckout \/ VerifyRead \/ VerifyCommit \/ SavePage \/ SyncRefunds \/ SyncStops
  \/ RefundCommit \/ CloseRefund \/ AtRules \/ Load \/ LoadDetail \/ CloseDetail
  \/ \E p \in Payments :
       \/ PayElsewhere(p) \/ Capture(p) \/ FetchPage(p) \/ OpenRefund(p) \/ Staff(p) \/ OpenDetail(p) \/ Ignore(p)
       \/ \E id \in Refunds : RefundElsewhere(p, id) \/ StaffRefund(p, id)
       \/ \E i \in Invoices : CreateOrder(p, i)
  \/ \E id \in Refunds : ProcessRefund(id)
  \/ \E i \in Invoices : Void(i) \/ ConfirmMatch(i)
  \/ \E full \in BOOLEAN : StartSync(full)
  \/ \E ev \in hooks : Deliver(ev)
  \/ \E c \in Categories \cup {"customer_payment"} : Choose(c)

Spec == Init /\ [][Next]_vars

-----------------------------------------------------------------------------
(* A payment is booked once at most, and then under its invoice, whether   *)
(* the checkout verified it or someone matched it, whatever webhooks and   *)
(* syncs did in between (razorpay.py: verify_payment,                      *)
(* match_payment_to_invoice; models.py: uq_payments_razorpay_payment_id).  *)
BookedOnce ==
  \A p \in Payments : books[p] <= 1 /\ (books[p] = 1 <=> record[p] # None /\ record[p].booked /\ record[p].invoice # None)

(* A category that a person accepted or chose stays, through syncs, rules  *)
(* and their re-run (razorpay_categorize.py: apply_categorisation).        *)
HumanChoiceStays == \A p \in Payments : human[p].category # None => record[p].category = human[p].category

(* A payment that is booked stays matched until someone marks it           *)
(* otherwise: no sync puts it up for review again (razorpay_sync.py:       *)
(* _upsert_payment).                                                       *)
BookedStaysMatched == \A p \in Payments : books[p] > 0 /\ ~human[p].recon => record[p].recon = "matched"

(* What people decided of a payment stays: both of the above.              *)
DecisionsStay == HumanChoiceStays /\ BookedStaysMatched

(* A full sync that completes leaves the books with the gateway's status   *)
(* and refunds of every payment that did not change meanwhile, however     *)
(* webhooks and refunds of the books' own ran into it (razorpay_sync.py:   *)
(* sync_organization, _sync_refunds).                                      *)
SyncAgrees ==
  sync.step = "completed" /\ sync.full => \A p \in Exists \ sync.touched :
    /\ record[p] # None /\ record[p].refund = Cardinality(gate[p].refunds)
    /\ {id \in Refunds : <<p, id>> \in rows} = gate[p].refunds
    /\ record[p].status = IF record[p].refund = 0 THEN gate[p].status ELSE Refunded(record[p], record[p].refund).status

(* To one person, the pages show payments as they are stored once nothing  *)
(* is under way (RazorpayTransactionDetail.tsx, RazorpayReconciliation.tsx, *)
(* RazorpayPaymentsPage.tsx; FinancialDashboardPage.tsx: reloadAll).        *)
GatewayConverges ==
  Lone /\ ~view.loading /\ Page # "closed" /\ Idle /\ refunding.step = "idle" =>
    /\ view.shown = [p \in Known |-> record[p]]
    /\ view.detail.data # None => view.detail.data = record[view.detail.on]

(* Why: what is settled is never categorized again; pages name payments    *)
(* that are recorded, a sync those that exist.                             *)
SettledByHuman ==
  \A p \in Payments : human[p].category # None => record[p] # None /\ record[p].settled
OnRecord ==
  /\ DOMAIN view.shown \subseteq Known
  /\ view.detail.on # None => view.detail.on \in Known
  /\ view.detail.data # None => view.detail.on # None
  /\ refunding.step = "asked" => refunding.pay \in Known
  /\ sync.todo \subseteq Exists
GatewayInv == TypeOK /\ BookedOnce /\ DecisionsStay /\ SettledByHuman /\ OnRecord

(* Why a sync agrees: orders await payment, refunds are those of a         *)
(* captured payment at the gateway, wherever they are known, and until the *)
(* refunds are read each untouched payment is still to be saved, or saved  *)
(* as it is but for them.                                                  *)
RefundsAreAtGate ==
  /\ \A p \in Payments : gate[p].refunds # {} => gate[p].status = "captured"
  /\ \A ev \in hooks : IF ev.kind \in {"captured", "failed"} THEN gate[ev.pay].status = ev.kind
                                                               ELSE ev.id \in gate[ev.pay].refunds
  /\ \A p \in Payments, id \in Refunds : <<p, id>> \in rows \cup sync.refunds => id \in gate[p].refunds
  /\ refunding.step = "asked" => refunding.id \in gate[refunding.pay].refunds
  /\ checkout.step = "paying" => gate[checkout.pay].status = "new" /\ gate[checkout.pay].of # None
SyncedSoFar ==
  sync.step = "pages" =>
    /\ sync.page # None => sync.page.pay \in sync.todo
    /\ \A p \in Exists \ sync.touched :
         /\ \A id \in gate[p].refunds : <<p, id>> \in sync.refunds
         /\ sync.page # None /\ sync.page.pay = p =>
              sync.page.status = gate[p].status /\ sync.page.refunds = Cardinality(gate[p].refunds)
         /\ sync.full /\ p \notin sync.todo =>
              /\ record[p] # None
              /\ gate[p].refunds = {} => record[p].refund = 0 /\ record[p].status = gate[p].status
SyncInv == GatewayInv /\ RefundsAreAtGate /\ SyncedSoFar /\ SyncAgrees

(* Why pages converge: to one person nothing reaches the books but by a    *)
(* sync, at the page of payments, which reads all anew when it ends, and   *)
(* by what he does, which the page shows or reads again.                   *)
OnlyHisOwn ==
  /\ hooks = {} /\ checkout.step = "closed"
  /\ ~Idle => Page = "payments"
  /\ refunding.step = "asked" => Page = "hub"
ViewIsFresh ==
  Idle /\ Page # "closed" =>
    /\ ~view.loading => view.shown = [p \in Known |-> record[p]]
    /\ view.detail.data # None => view.detail.data = record[view.detail.on]
LoneInv == Lone => OnlyHisOwn /\ ViewIsFresh
=============================================================================
