------------------------ MODULE ReceivablesInvariant ------------------------
(***************************************************************************)
(* Why the books of Receivables hold together when every request has the   *)
(* documents it works on to itself (Isolated = Ops): an inductive          *)
(* invariant.  Only create_customer_payment shares its invoice, and only   *)
(* with other payments.                                                    *)
(***************************************************************************)
EXTENDS Receivables

(* No request in flight uses a document another one holds. *)
Exclusive ==
  \A v, w \in Workers : v # w => Held(requests[v]) \cap Uses(requests[w]) = {}

(* What a request for an invoice read is what the invoice's row, lines and
   entries are now, the checks it passed included. *)
InvoiceAsSeen(r, row, ls, s, c) ==
  /\ r.seen.row = row /\ r.seen.lines = ls /\ r.seen.sales = s /\ r.seen.cogs = c
  /\ row.status \notin Missing
  /\ r.op = "mark_sent" => row.status = "draft"
  /\ r.op # "mark_sent" => row.paid <= 0
  /\ r.op = "update_invoice" => row.status \in {"draft", "sent"}
  /\ r.op = "revert_to_draft" => row.status = "sent"

PaymentAsSeen(r, row, entries) ==
  /\ r.seen.row = row /\ r.seen.receipts = entries
  /\ row.state = "live" /\ row.invoice = r.invoice

SeenIsCurrent ==
  \A w \in Workers : LET r == requests[w] IN
    /\ r.op \in InvoiceOps =>
         InvoiceAsSeen(r, invoices[r.invoice], lines[r.invoice], sales[r.invoice],
                       cogs[r.invoice])
    /\ r.op = "delete_customer_payment" =>
         PaymentAsSeen(r, payments[r.payment], receipts[r.payment])
    /\ r.op = "create_customer_payment" => r.amount > 0

(* A recorded payment is of something, one never recorded has no entries. *)
PaymentsRecorded ==
  \A p \in Payments :
    /\ payments[p].state = "live" => payments[p].amount > 0
    /\ payments[p].state # "live" => payments[p].invoice = None

(* The conjuncts of this invariant need each other: the snapshots stay
   current because requests exclude each other, the journal follows the rows
   because snapshots are current, and no request unposts a paid invoice
   because paid is what was received. *)
IInv ==
  /\ TypeOK
  /\ Exclusive
  /\ SeenIsCurrent
  /\ PaymentsRecorded
  /\ OneLiveEntry
  /\ PaidIsReceived

----------------------------------------------------------------------------
(* What the books come to, on top of it: each document is followed into the
   journal, the register and the stock by itself. *)

(* A payment stands in the journal as one entry, which is reversed once when
   the payment is deleted, and in the register as long as it is not; it
   credits the advances exactly when it names no invoice. *)
PaymentStands(row, entries, registered) ==
  /\ row.state = "none" => entries = << >>
  /\ row.state # "none" =>
       Len(entries) = 1 /\ entries[1].reversals = IF row.state = "live" THEN 0 ELSE 1
  /\ row.state = "live" =>
       /\ entries[1].amount = row.amount
       /\ entries[1].account \in IF row.invoice = None THEN {Advances} ELSE Accounts
  /\ registered <=> row.state = "live"

PaymentsStand ==
  \A p \in Payments : PaymentStands(payments[p], receipts[p], p \in deposits)

(* Invoices are posted to receivables accounts. *)
OnReceivables == \A i \in Invoices : \A k \in DOMAIN sales[i] : sales[i][k].account \in Accounts

(* The cost of an invoice's goods stands in the journal as the invoice does,
   as long as there are any. *)
Sold(i) == IF IsPosted(i) THEN UnitsOf(lines[i]) ELSE 0
CostRow(i) == [status |-> IF UnitCost * Sold(i) > 0 THEN "sent" ELSE "draft",
               total |-> UnitCost * Sold(i)]
CostsStand == \A i \in Invoices : StandsOnce(CostRow(i), cogs[i])

(* The stock is what the posted invoices have left of it. *)
StockLeft == stock >= 0 /\ stock = OpeningStock - Sum([i \in Invoices |-> Sold(i)])

(* What an invoice comes to was on a form. *)
TotalsStated == \A i \in Invoices : invoices[i].total \in Amounts \cup {0}

BooksInv == IInv /\ PaymentsStand /\ OnReceivables /\ CostsStand /\ StockLeft /\ TotalsStated

=============================================================================
