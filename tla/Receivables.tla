---------------------------- MODULE Receivables ----------------------------
(***************************************************************************)
(* Sales invoices, customer payments, the journal entries they post and    *)
(* the stock they move: backend/routers/invoices.py, the customer half of  *)
(* backend/routers/payments.py and the services they call.                 *)
(*                                                                         *)
(* A request is served by a worker thread with a database session of its   *)
(* own.  It first reads the rows it decides on, outside any transaction;   *)
(* its first write takes the write lock (SQLite) or the row of the journal *)
(* number sequence (PostgreSQL), and from there to the commit nothing else *)
(* writes.  So a request is two steps here: Load... reads and checks, the  *)
(* snapshot staying in the ORM objects, and the operation's own action     *)
(* does everything from the first write to the commit.  Abort is a request *)
(* refused, failed or lost before it committed: it is rolled back.         *)
(*                                                                         *)
(* The organization has one customer and one stocked item; a line with no  *)
(* units is a service.  Money is in whole units.                           *)
(***************************************************************************)
EXTENDS Integers, Sequences, FiniteSets, Functions

CONSTANTS
  Invoices, Payments,   \* identifiers of the documents
  Workers,              \* threads that serve requests
  None,                 \* no invoice, no payment
  Accounts,             \* receivables accounts a customer can be pointed at
  Advances,             \* account 2400, payments not applied to an invoice
  Inventory,            \* account 1200
  Amounts, Units,       \* amounts and quantities a form can carry
  OpeningStock, UnitCost,
  MaxEdits, MaxEntries, \* bounds: edits of an invoice, times it is posted
  Isolated              \* operations that have their documents to themselves

InvoiceOps == {"update_invoice", "mark_sent", "mark_void", "revert_to_draft",
               "delete_invoice"}
Ops == InvoiceOps \cup {"create_customer_payment", "delete_customer_payment"}

ASSUME ConstantsAssumption ==
  /\ IsFiniteSet(Invoices) /\ IsFiniteSet(Payments)
  /\ None \notin Invoices \cup Payments
  /\ Invoices \cap Payments = {}
  /\ Accounts # {} /\ Advances \notin Accounts /\ Inventory \notin Accounts
  /\ Amounts \subseteq Nat /\ Units \subseteq Nat
  /\ OpeningStock \in Nat /\ UnitCost \in Nat
  /\ MaxEdits \in Nat /\ MaxEntries \in Nat
  /\ Isolated \subseteq Ops

VARIABLES
  invoices,   \* the invoice rows: status, total, paid
  lines,      \* the line rows of each invoice
  edits,      \* line rows ever written for each invoice (identifies a line)
  payments,   \* the customer payment rows
  sales,      \* journal entries of source type "invoice"
  cogs,       \* journal entries of source type "invoice_cogs"
  receipts,   \* journal entries of source type "customer_payment"
  deposits,   \* payments with a movement in the bank register
  stock,      \* the item's stock_on_hand
  arAccount,  \* the receivables account the customer points at
  requests    \* what each worker is serving

documents == <<invoices, lines, edits, payments>>
ledger == <<sales, cogs, receipts>>
vars == <<documents, ledger, deposits, stock, arAccount, requests>>

----------------------------------------------------------------------------
(* Rows *)

Missing == {"none", "deleted"}
Posted  == {"sent", "partially_paid", "paid"}
Row     == [status : Missing \cup Posted \cup {"draft", "void"},
            total : Nat, paid : Int]
Line    == [no : Nat, amount : Nat, units : Nat]
LineSet == {ls \in SUBSET Line : IsFiniteSet(ls)}
PaymentRow == [state : {"none", "live", "deleted"}, amount : Nat,
               invoice : Invoices \cup {None}]

(* A journal entry moves `amount` on `account`; each reversing entry that
   names it (reference REV:<its number>) undoes it once. *)
Entry == [account : Accounts \cup {Advances, Inventory}, amount : Nat,
          reversals : Nat]

Form == [amount : Amounts, units : Units, send : BOOLEAN]

NoInvoice == [status |-> "none", total |-> 0, paid |-> 0]
NoPayment == [state |-> "none", amount |-> 0, invoice |-> None]

Exists(i) == invoices[i].status \notin Missing
AmountOf(ls) == SumFunctionOnSet([l \in ls |-> l.amount], ls)
UnitsOf(ls)  == SumFunctionOnSet([l \in ls |-> l.units], ls)

----------------------------------------------------------------------------
(* Requests *)

Idle == [op |-> "idle", invoice |-> None, payment |-> None]

InvoiceSnapshot == [row : Row, lines : LineSet, sales : Seq(Entry),
                    cogs : Seq(Entry), account : Accounts]
PaymentSnapshot == [row : PaymentRow, receipts : Seq(Entry)]

SeenInvoice(i) == [row |-> invoices[i], lines |-> lines[i],
                   sales |-> sales[i], cogs |-> cogs[i], account |-> arAccount]
SeenPayment(p) == [row |-> payments[p], receipts |-> receipts[p]]

Request ==
  {Idle} \cup
  [op : {"update_invoice"}, invoice : Invoices, payment : {None}, form : Form,
   seen : InvoiceSnapshot] \cup
  [op : InvoiceOps \ {"update_invoice"}, invoice : Invoices, payment : {None},
   form : {None}, seen : InvoiceSnapshot] \cup
  [op : {"create_customer_payment"}, invoice : Invoices \cup {None},
   payment : {None}, amount : Nat, account : Accounts] \cup
  [op : {"delete_customer_payment"}, invoice : Invoices \cup {None},
   payment : Payments, seen : PaymentSnapshot]

(* The documents a request reads or writes, and those no other request in
   flight may share with it when its operation is among the isolated ones. *)
Uses(r) == {r.invoice, r.payment} \ {None}
Held(r) ==
  IF r.op \notin Isolated THEN {}
  ELSE CASE r.op \in InvoiceOps -> {r.invoice}
         [] r.op = "delete_customer_payment" -> {r.payment}
         [] OTHER -> {}

Compatible(r, q) == Held(r) \cap Uses(q) = {} /\ Held(q) \cap Uses(r) = {}

Start(w, r) ==
  /\ requests[w] = Idle
  /\ \A v \in Workers : Compatible(requests[v], r)
  /\ requests' = [requests EXCEPT ![w] = r]
  /\ UNCHANGED <<documents, ledger, deposits, stock, arAccount>>

StartInvoiceOp(w, op, i, form) ==
  Start(w, [op |-> op, invoice |-> i, payment |-> None, form |-> form,
            seen |-> SeenInvoice(i)])

Finish(w) == requests' = [requests EXCEPT ![w] = Idle]

----------------------------------------------------------------------------
(* The journal *)

NewEntry(account, amount) ==
  [account |-> account, amount |-> amount, reversals |-> 0]

Live(entries) == {k \in DOMAIN entries : entries[k].reversals = 0}

Reverse(entries, ks) ==
  [k \in DOMAIN entries |->
     IF k \in ks
       THEN [account |-> entries[k].account, amount |-> entries[k].amount,
             reversals |-> entries[k].reversals + 1]
       ELSE entries[k]]

(* Faulty variant of Reversals: the reversing entries are never posted. *)
NoReversals(seen, now) == {now}

(* reverse_entries_for_source: the entries were listed, and the first of
   them found unreversed, before anything was written; whether a later one
   is already reversed is read under the write lock. *)
Reversals(seen, now) ==
  IF Live(seen) = {} THEN {now}
  ELSE {Reverse(now, {k} \cup (Live(seen) \cap Live(now))) : k \in Live(seen)}

(* The books an invoice is posted to: its entries, and the stock. *)
Books(i) == [sales |-> sales[i], cogs |-> cogs[i], stock |-> stock]

Record(i, b) ==
  /\ sales' = [sales EXCEPT ![i] = b.sales]
  /\ cogs' = [cogs EXCEPT ![i] = b.cogs]
  /\ stock' = b.stock

(* Faulty variant of CanPost: the stock is not compared with the lines. *)
CanPostOversold(b, total, ls) ==
  total > 0 /\ AmountOf(ls) = total /\ Len(b.sales) < MaxEntries

(* post_invoice: the journal entry must balance and not be empty, and the
   stock must cover the lines. *)
CanPost(b, total, ls) ==
  /\ total > 0
  /\ AmountOf(ls) = total
  /\ UnitsOf(ls) <= b.stock
  /\ Len(b.sales) < MaxEntries

Post(b, account, total, ls) ==
  [sales |-> Append(b.sales, NewEntry(account, total)),
   cogs  |-> IF UnitCost * UnitsOf(ls) > 0
               THEN Append(b.cogs, NewEntry(Inventory, UnitCost * UnitsOf(ls)))
               ELSE b.cogs,
   stock |-> b.stock - UnitsOf(ls)]

(* Faulty variant of WasPosted: a void invoice is taken for a posted one. *)
WasPostedUnlessDraft(r) == r.seen.row.status # "draft"

WasPosted(r) == r.seen.row.status \notin {"draft", "void"}

(* What a request knows of its invoice past the reversals: once one has been
   posted it holds the write lock, and reads the current rows. *)
CogsRead(r) ==
  IF Live(r.seen.sales) # {} THEN cogs[r.invoice] ELSE r.seen.cogs
Rereads(r) == WasPosted(r) /\ Live(r.seen.sales) \cup Live(r.seen.cogs) # {}
LinesRead(r)   == IF Rereads(r) THEN lines[r.invoice] ELSE r.seen.lines
AccountRead(r) == IF Rereads(r) THEN arAccount ELSE r.seen.account

(* unpost_invoice, for the invoices that are posted; the outcome depends on
   the order the database lists the entries in. *)
Unposted(r) ==
  IF ~WasPosted(r) THEN {Books(r.invoice)}
  ELSE {[sales |-> s, cogs |-> c, stock |-> stock + UnitsOf(LinesRead(r))] :
          s \in Reversals(r.seen.sales, sales[r.invoice]),
          c \in Reversals(CogsRead(r), cogs[r.invoice])}

(* A flush writes the columns whose value differs from the one loaded. *)
Flush(now, seen, new) ==
  [status |-> IF new.status = seen.status THEN now.status ELSE new.status,
   total  |-> IF new.total = seen.total THEN now.total ELSE new.total,
   paid   |-> now.paid]

----------------------------------------------------------------------------
(* Invoices *)

Init ==
  /\ invoices = [i \in Invoices |-> NoInvoice]
  /\ lines = [i \in Invoices |-> {}]
  /\ edits = [i \in Invoices |-> 0]
  /\ payments = [p \in Payments |-> NoPayment]
  /\ sales = [i \in Invoices |-> <<>>]
  /\ cogs = [i \in Invoices |-> <<>>]
  /\ receipts = [p \in Payments |-> <<>>]
  /\ deposits = {}
  /\ stock = OpeningStock
  /\ arAccount \in Accounts
  /\ requests = [w \in Workers |-> Idle]

NewLine(i, form) ==
  [no |-> edits[i] + 1, amount |-> form.amount, units |-> form.units]

(* create_invoice takes its number first, so it holds the write lock from
   the start and is a single step. *)
CreateInvoice(i, form) ==
  LET written == {NewLine(i, form)}
  IN /\ invoices[i].status = "none"
     /\ edits[i] < MaxEdits
     /\ invoices' = [invoices EXCEPT ![i] =
          [status |-> IF form.send THEN "sent" ELSE "draft",
           total |-> form.amount, paid |-> 0]]
     /\ lines' = [lines EXCEPT ![i] = written]
     /\ edits' = [edits EXCEPT ![i] = @ + 1]
     /\ IF form.send
          THEN /\ CanPost(Books(i), form.amount, written)
               /\ Record(i, Post(Books(i), arAccount, form.amount, written))
          ELSE UNCHANGED <<sales, cogs, stock>>
     /\ UNCHANGED <<payments, receipts, deposits, arAccount, requests>>

(* update_invoice: not once a payment is recorded, nor a void invoice. *)
LoadUpdate(w, i, form) ==
  /\ invoices[i].status \in {"draft", "sent"}
  /\ invoices[i].paid <= 0
  /\ edits[i] < MaxEdits
  /\ StartInvoiceOp(w, "update_invoice", i, form)

UpdateInvoice(w) ==
  LET r       == requests[w]
      i       == r.invoice
      send    == r.form.send \/ WasPosted(r)
      written == {NewLine(i, r.form)}
  IN /\ r.op = "update_invoice"
     /\ Exists(i)
     /\ edits[i] < MaxEdits
     /\ invoices' = [invoices EXCEPT ![i] = Flush(@, r.seen.row,
          [status |-> IF send THEN "sent" ELSE "draft", total |-> r.form.amount])]
     /\ lines' = [lines EXCEPT ![i] = (@ \ LinesRead(r)) \cup written]
     /\ edits' = [edits EXCEPT ![i] = @ + 1]
     /\ \E b \in Unposted(r) :
          IF send
            THEN /\ CanPost(b, r.form.amount, written)
                 /\ Record(i, Post(b, AccountRead(r), r.form.amount, written))
            ELSE Record(i, b)
     /\ Finish(w)
     /\ UNCHANGED <<payments, receipts, deposits, arAccount>>

(* Faulty variant of LoadMarkSent: an invoice already sent is sent again. *)
LoadMarkSentAgain(w, i) ==
  Exists(i) /\ StartInvoiceOp(w, "mark_sent", i, None)

(* change_status to "sent", and the emailing of a draft, which issues it. *)
LoadMarkSent(w, i) ==
  /\ invoices[i].status = "draft"
  /\ StartInvoiceOp(w, "mark_sent", i, None)

MarkSent(w) ==
  LET r == requests[w]
      i == r.invoice
  IN /\ r.op = "mark_sent"
     /\ Exists(i)
     /\ CanPost(Books(i), r.seen.row.total, r.seen.lines)
     /\ Record(i, Post(Books(i), r.seen.account, r.seen.row.total, r.seen.lines))
     /\ invoices' = [invoices EXCEPT ![i].status = "sent"]
     /\ Finish(w)
     /\ UNCHANGED <<lines, edits, payments, receipts, deposits, arAccount>>

(* Faulty variant of LoadMarkVoid: payments do not keep an invoice from being
   voided. *)
LoadMarkVoidPaid(w, i) ==
  Exists(i) /\ invoices[i].status # "void" /\ StartInvoiceOp(w, "mark_void", i, None)

(* change_status to "void" or back to "draft". *)
LoadMarkVoid(w, i) ==
  /\ Exists(i) /\ invoices[i].status # "void"
  /\ invoices[i].paid <= 0
  /\ StartInvoiceOp(w, "mark_void", i, None)

LoadRevertToDraft(w, i) ==
  /\ invoices[i].status = "sent"
  /\ invoices[i].paid <= 0
  /\ StartInvoiceOp(w, "revert_to_draft", i, None)

Withdraw(w, op, status) ==
  LET r == requests[w]
      i == r.invoice
  IN /\ r.op = op
     /\ Exists(i)
     /\ invoices' = [invoices EXCEPT ![i].status = status]
     /\ \E b \in Unposted(r) : Record(i, b)
     /\ Finish(w)
     /\ UNCHANGED <<lines, edits, payments, receipts, deposits, arAccount>>

MarkVoid(w) == Withdraw(w, "mark_void", "void")
RevertToDraft(w) == Withdraw(w, "revert_to_draft", "draft")

(* Faulty variant of LoadDeleteInvoice: payments do not keep an invoice from
   being deleted. *)
LoadDeletePaidInvoice(w, i) ==
  Exists(i) /\ StartInvoiceOp(w, "delete_invoice", i, None)

(* delete_invoice: payments that name the invoice lose the reference, and a
   row that is already gone is not an error. *)
LoadDeleteInvoice(w, i) ==
  /\ Exists(i)
  /\ invoices[i].paid <= 0
  /\ StartInvoiceOp(w, "delete_invoice", i, None)

DeleteInvoice(w) ==
  LET r == requests[w]
      i == r.invoice
  IN /\ r.op = "delete_invoice"
     /\ invoices' = [invoices EXCEPT ![i] =
          [status |-> "deleted", total |-> 0, paid |-> 0]]
     /\ lines' = [lines EXCEPT ![i] = {}]
     /\ payments' = [p \in Payments |->
          IF payments[p].invoice = i
            THEN [state |-> payments[p].state, amount |-> payments[p].amount,
                  invoice |-> None]
            ELSE payments[p]]
     /\ \E b \in Unposted(r) : Record(i, b)
     /\ Finish(w)
     /\ UNCHANGED <<edits, receipts, deposits, arAccount>>

----------------------------------------------------------------------------
(* Customer payments *)

Payable == {"sent", "partially_paid"}

(* Faulty variant of Refreshed: an invoice paid in full stays partially paid. *)
RefreshedPartially(row) ==
  [status |-> IF row.paid <= 0 THEN "sent" ELSE "partially_paid",
   total |-> row.total, paid |-> row.paid]

(* Faulty variant of Refreshed: it stores the status the code only ever
   derives for display. *)
RefreshedOverdue(row) ==
  [status |-> IF row.paid >= row.total THEN "paid" ELSE "overdue",
   total |-> row.total, paid |-> row.paid]

(* _refresh_invoice_status *)
Refreshed(row) ==
  LET status ==
        IF row.status = "void" THEN "void"
        ELSE IF row.paid <= 0
          THEN IF row.status \in {"paid", "partially_paid"} THEN "sent" ELSE row.status
        ELSE IF row.paid >= row.total THEN "paid" ELSE "partially_paid"
  IN [status |-> status, total |-> row.total, paid |-> row.paid]

PaidPlus(row, amount) ==
  Refreshed([status |-> row.status, total |-> row.total, paid |-> row.paid + amount])

(* create_customer_payment: the early checks, on an invoice or for none. *)
LoadCreatePayment(w, i, amount) ==
  /\ amount > 0
  /\ i # None => /\ invoices[i].status \in Payable
                 /\ amount <= invoices[i].total - invoices[i].paid
  /\ Start(w, [op |-> "create_customer_payment", invoice |-> i, payment |-> None,
               amount |-> amount, account |-> arAccount])

(* Faulty variant of ApplyInvoicePayment: an unconditional UPDATE, trusting the
   early check. *)
ApplyInvoicePaymentBlindly(i, amount) ==
  invoices' = [invoices EXCEPT ![i] = PaidPlus(@, amount)]

(* _apply_invoice_payment: one conditional UPDATE, and then the new status. *)
ApplyInvoicePayment(i, amount) ==
  /\ invoices[i].status \in Payable
  /\ invoices[i].total - invoices[i].paid >= amount
  /\ invoices' = [invoices EXCEPT ![i] = PaidPlus(@, amount)]

CreatePayment(w, p) ==
  LET r == requests[w]
  IN /\ r.op = "create_customer_payment"
     /\ payments[p].state = "none"
     /\ IF r.invoice = None THEN UNCHANGED invoices
          ELSE ApplyInvoicePayment(r.invoice, r.amount)
     /\ payments' = [payments EXCEPT ![p] =
          [state |-> "live", amount |-> r.amount, invoice |-> r.invoice]]
     /\ receipts' = [receipts EXCEPT ![p] = Append(@,
          NewEntry(IF r.invoice = None THEN Advances ELSE r.account, r.amount))]
     /\ deposits' = deposits \cup {p}
     /\ Finish(w)
     /\ UNCHANGED <<lines, edits, sales, cogs, stock, arAccount>>

LoadDeletePayment(w, p) ==
  /\ payments[p].state = "live"
  /\ Start(w, [op |-> "delete_customer_payment", invoice |-> payments[p].invoice,
               payment |-> p, seen |-> SeenPayment(p)])

(* delete_customer_payment: nothing here asks whether the payment row is
   still there.  _remove_invoice_payment is an unconditional UPDATE, left out
   when the invoice is gone. *)
DeletePayment(w) ==
  LET r == requests[w]
      p == r.payment
      i == r.invoice
  IN /\ r.op = "delete_customer_payment"
     /\ \E entries \in Reversals(r.seen.receipts, receipts[p]) :
          receipts' = [receipts EXCEPT ![p] = entries]
     /\ deposits' = deposits \ {p}
     /\ IF i # None /\ Exists(i)
          THEN invoices' = [invoices EXCEPT ![i] = PaidPlus(@, -r.seen.row.amount)]
          ELSE UNCHANGED invoices
     /\ payments' = [payments EXCEPT ![p] =
          [state |-> "deleted", amount |-> 0, invoice |-> None]]
     /\ Finish(w)
     /\ UNCHANGED <<lines, edits, sales, cogs, stock, arAccount>>

----------------------------------------------------------------------------
(* update_contact: the customer's own receivables account is changed. *)
UpdateContact ==
  /\ arAccount' \in Accounts
  /\ UNCHANGED <<documents, ledger, deposits, stock, requests>>

Abort(w) ==
  /\ requests[w] # Idle
  /\ Finish(w)
  /\ UNCHANGED <<documents, ledger, deposits, stock, arAccount>>

Load(w) ==
  \/ \E i \in Invoices :
       \/ \E form \in Form : LoadUpdate(w, i, form)
       \/ LoadMarkSent(w, i)
       \/ LoadMarkVoid(w, i)
       \/ LoadRevertToDraft(w, i)
       \/ LoadDeleteInvoice(w, i)
  \/ \E i \in Invoices \cup {None}, amount \in Amounts : LoadCreatePayment(w, i, amount)
  \/ \E p \in Payments : LoadDeletePayment(w, p)

Commit(w) ==
  \/ UpdateInvoice(w)
  \/ MarkSent(w)
  \/ MarkVoid(w)
  \/ RevertToDraft(w)
  \/ DeleteInvoice(w)
  \/ \E p \in Payments : CreatePayment(w, p)
  \/ DeletePayment(w)

Next ==
  \/ \E i \in Invoices, form \in Form : CreateInvoice(i, form)
  \/ \E w \in Workers : Load(w) \/ Commit(w) \/ Abort(w)
  \/ UpdateContact

Spec == Init /\ [][Next]_vars

----------------------------------------------------------------------------
(* The books *)

(* What a set of entries of one source comes to, each reversal undoing its
   entry once. *)
NetOn(accounts, entries) ==
  SumFunctionOnSet(
    [k \in DOMAIN entries |->
       IF entries[k].account \in accounts
         THEN entries[k].amount * (1 - entries[k].reversals) ELSE 0],
    DOMAIN entries)
Net(entries) == NetOn(Accounts \cup {Advances, Inventory}, entries)

Sum(f) == SumFunctionOnSet(f, DOMAIN f)

IsPosted(i) == invoices[i].status \in Posted
PaymentsOn(i) == {p \in Payments : payments[p].state = "live" /\ payments[p].invoice = i}
Received(i) == SumFunctionOnSet([p \in PaymentsOn(i) |-> payments[p].amount], PaymentsOn(i))

ReceivablesBalance ==
  Sum([i \in Invoices |-> NetOn(Accounts, sales[i])])
    - Sum([p \in Payments |-> NetOn(Accounts, receipts[p])])
AdvancesBalance == Sum([p \in Payments |-> NetOn({Advances}, receipts[p])])
CostOfGoodsSold == Sum([i \in Invoices |-> Net(cogs[i])])

----------------------------------------------------------------------------
(* Properties *)

(* Every row, journal entry and request in flight is well formed. *)
TypeOK ==
  /\ invoices \in [Invoices -> Row]
  /\ lines \in [Invoices -> LineSet]
  /\ edits \in [Invoices -> Nat]
  /\ payments \in [Payments -> PaymentRow]
  /\ sales \in [Invoices -> Seq(Entry)]
  /\ cogs \in [Invoices -> Seq(Entry)]
  /\ receipts \in [Payments -> Seq(Entry)]
  /\ deposits \subseteq Payments
  /\ stock \in Int
  /\ arAccount \in Accounts
  /\ DOMAIN requests = Workers
  /\ \A w \in Workers : requests[w] \in Request

(* The entries of an invoice say what its row does: an invoice that is sent,
   partly or fully paid stands in the journal as exactly one unreversed entry,
   of its current total, any other invoice not at all, and nothing is reversed
   twice. *)
StandsOnce(row, entries) ==
  /\ \A k \in DOMAIN entries : entries[k].reversals <= 1
  /\ row.status \notin Posted => Live(entries) = {}
  /\ row.status \in Posted => \E k \in DOMAIN entries :
                               Live(entries) = {k} /\ entries[k].amount = row.total

(* Every invoice stands in the journal as its row says (post_invoice,
   unpost_invoice, reverse_entries_for_source). *)
OneLiveEntry == \A i \in Invoices : StandsOnce(invoices[i], sales[i])

(* The paid column of a row is what was received for it, never more than its
   total, and its status says how much of it is paid. *)
ShowsPaid(row, received) ==
  /\ row.paid = received
  /\ row.status \notin Posted => row.paid = 0
  /\ row.status \in Posted =>
       /\ row.paid <= row.total
       /\ row.status = IF row.paid = 0 THEN "sent"
                       ELSE IF row.paid = row.total THEN "paid" ELSE "partially_paid"

(* Every invoice shows the sum of the payments recorded against it
   (_apply_invoice_payment, _remove_invoice_payment, _refresh_invoice_status). *)
PaidIsReceived == \A i \in Invoices : ShowsPaid(invoices[i], Received(i))

(* The receivables accounts in the journal come to the balances due on the
   invoices, and the advances account to the payments for no invoice. *)
ReceivablesReconcile ==
  /\ ReceivablesBalance =
       Sum([i \in Invoices |->
              IF IsPosted(i) THEN invoices[i].total - invoices[i].paid ELSE 0])
  /\ AdvancesBalance = Received(None)

(* Stock on hand is the opening stock less what the posted invoices carry, it
   is never negative, and the cost of those goods is what the journal holds. *)
StockReconciles ==
  LET sold == Sum([i \in Invoices |-> IF IsPosted(i) THEN UnitsOf(lines[i]) ELSE 0])
  IN /\ stock = OpeningStock - sold
     /\ stock >= 0
     /\ CostOfGoodsSold = UnitCost * sold

(* The bank register holds the movements of the payments that exist, each
   standing in the journal once. *)
RegisterMatchesLedger ==
  /\ deposits = {p \in Payments : payments[p].state = "live"}
  /\ \A p \in Payments :
       Net(receipts[p]) = IF p \in deposits THEN payments[p].amount ELSE 0

(* Requests for the last units in stock never take more than there are
   (adjust_stock). *)
NeverOversold == stock >= 0

(* Whatever runs beside it, a payment is applied only to an invoice that can
   be paid, and only up to what is due on it (_apply_invoice_payment). *)
PaymentsFit ==
  [][\A p \in Payments, i \in Invoices :
       /\ payments[p].state = "none"
       /\ payments'[p].state = "live" /\ payments'[p].invoice = i
       => /\ invoices[i].status \in Payable
          /\ invoices'[i].paid = invoices[i].paid + payments'[p].amount
          /\ invoices'[i].paid <= invoices'[i].total]_vars

(* README.md, lines 113 and 114: an invoice with a payment recorded is not
   edited, reverted, voided or deleted until the payment is removed. *)
SettledInvoicesAreFrozen ==
  [][\A i \in Invoices : PaymentsOn(i) # {} =>
       /\ lines'[i] = lines[i]
       /\ invoices'[i].total = invoices[i].total
       /\ invoices'[i].status \in Posted]_vars

(* docs/ARCHITECTURE.md, line 41: marking an invoice as sent posts one entry,
   so no two entries of an invoice stand unreversed. *)
PostedOnce == \A i \in Invoices : \A j, k \in Live(sales[i]) : j = k

(* reverse_entries_for_source reverses the entries not yet reversed. *)
ReversedOnce ==
  /\ \A i \in Invoices : \A k \in DOMAIN sales[i] : sales[i][k].reversals <= 1
  /\ \A p \in Payments : \A k \in DOMAIN receipts[p] : receipts[p][k].reversals <= 1

(* A payment is credited to the receivables account its invoice was posted to
   (_receivable_account_id). *)
PaymentClearsInvoiceAccount ==
  \A p \in Payments : \A i \in Invoices : p \in PaymentsOn(i) =>
    \A k \in Live(receipts[p]) : \A j \in Live(sales[i]) :
       receipts[p][k].account = sales[i][j].account

(* The journal alone, read as open items: an invoice is owed what its entries
   come to and settled by the entries of its payments. *)
openItems ==
  [i \in Invoices |->
     [billed |-> Net(sales[i]),
      settled |-> SumFunctionOnSet([p \in PaymentsOn(i) |-> Net(receipts[p])],
                                   PaymentsOn(i))]]
Journal == INSTANCE OpenItems WITH Items <- Invoices, item <- openItems

(* Invoices and payments move the journal only as open items may move. *)
ImplementsOpenItems == Journal!Spec

=============================================================================
