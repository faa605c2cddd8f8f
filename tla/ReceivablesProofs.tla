-------------------------- MODULE ReceivablesProofs -------------------------
(***************************************************************************)
(* Receivables, for every value of the constants.  Whatever requests       *)
(* interleave: rows keep their types, payments fit what is owed, stock is  *)
(* not oversold.  When each has its documents to itself: invoices stand in *)
(* the journal once, settled ones are frozen, the books come to what the   *)
(* documents say, and the journal implements open items.                   *)
(***************************************************************************)
EXTENDS ReceivablesInvariant, Sums, SequenceTheorems

----------------------------------------------------------------------------
(* Lines and journal entries *)

BooksType == [sales : Seq(Entry), cogs : Seq(Entry), stock : Int]

(* A set of lines carries a natural amount and quantity. *)
LEMMA LineSetTotals ==
  ASSUME NEW ls \in LineSet
  PROVE  AmountOf(ls) \in Nat /\ UnitsOf(ls) \in Nat
<1>1. IsFiniteSet(ls) /\ ls \subseteq Line
  BY DEF LineSet
<1>2. \A l \in ls : l.amount \in Nat /\ l.units \in Nat
  BY <1>1 DEF Line
<1>3. SumFunctionOnSet([l \in ls |-> l.amount], ls) \in Nat
  <2> DEFINE f == [l \in ls |-> l.amount]
  <2>1. \A l \in ls : f[l] \in Nat
    BY <1>2
  <2>2. SumFunctionOnSet(f, ls) \in Nat
    <3> HIDE DEF f
    <3> QED BY <1>1, <2>1, SumIsNat
  <2> QED BY <2>2
<1>4. SumFunctionOnSet([l \in ls |-> l.units], ls) \in Nat
  <2> DEFINE f == [l \in ls |-> l.units]
  <2>1. \A l \in ls : f[l] \in Nat
    BY <1>2
  <2>2. SumFunctionOnSet(f, ls) \in Nat
    <3> HIDE DEF f
    <3> QED BY <1>1, <2>1, SumIsNat
  <2> QED BY <2>2
<1> QED BY <1>3, <1>4 DEF AmountOf, UnitsOf

(* Reversing entries keeps them entries, in number and in what they move. *)
LEMMA ReverseIsEntries ==
  ASSUME NEW entries \in Seq(Entry), NEW ks
  PROVE  /\ Reverse(entries, ks) \in Seq(Entry)
         /\ DOMAIN Reverse(entries, ks) = DOMAIN entries
         /\ Len(Reverse(entries, ks)) = Len(entries)
<1>1. DOMAIN entries = 1 .. Len(entries) /\ Len(entries) \in Nat
  OBVIOUS
<1>2. \A k \in DOMAIN entries : entries[k] \in Entry
  OBVIOUS
<1>3. Reverse(entries, ks) \in [1 .. Len(entries) -> Entry]
  BY <1>1, <1>2 DEF Reverse, Entry
<1>4. Reverse(entries, ks) \in Seq(Entry)
  BY <1>1, <1>3, SeqDef
<1> QED BY <1>1, <1>3, <1>4

(* Whichever entries a request finds to reverse, the list stays one of
   entries. *)
LEMMA ReversalsAreEntries ==
  ASSUME NEW seen, NEW now \in Seq(Entry), NEW entries \in Reversals(seen, now)
  PROVE  entries \in Seq(Entry)
BY ReverseIsEntries DEF Reversals

(* A newly posted entry is well formed. *)
LEMMA NewEntryIsEntry ==
  ASSUME NEW account \in Accounts \cup {Advances, Inventory}, NEW amount \in Nat
  PROVE  NewEntry(account, amount) \in Entry
BY DEF NewEntry, Entry

(* Posting an entry keeps a list one of entries. *)
LEMMA AppendIsEntries ==
  ASSUME NEW entries \in Seq(Entry), NEW e \in Entry
  PROVE  Append(entries, e) \in Seq(Entry)
OBVIOUS

(* The fields of a request, by its operation. *)
LEMMA RequestFields ==
  ASSUME NEW q \in Request
  PROVE  /\ q.op \in InvoiceOps => /\ q.invoice \in Invoices /\ q.payment = None
                                  /\ q.seen \in InvoiceSnapshot
         /\ q.op = "update_invoice" => q.form \in Form
         /\ q.op = "create_customer_payment" =>
              /\ q.invoice \in Invoices \cup {None} /\ q.payment = None
              /\ q.amount \in Nat /\ q.account \in Accounts
         /\ q.op = "delete_customer_payment" =>
              /\ q.invoice \in Invoices \cup {None} /\ q.payment \in Payments
              /\ q.seen \in PaymentSnapshot
         /\ q.op \in InvoiceOps \/ q.op = "create_customer_payment"
             \/ q.op = "delete_customer_payment" \/ q = Idle
<1>1. CASE q = Idle
  BY <1>1 DEF Idle, InvoiceOps
<1>2. CASE q \in [op : {"update_invoice"}, invoice : Invoices, payment : {None},
                  form : Form, seen : InvoiceSnapshot]
  BY <1>2 DEF InvoiceOps
<1>3. CASE q \in [op : InvoiceOps \ {"update_invoice"}, invoice : Invoices,
                  payment : {None}, form : {None}, seen : InvoiceSnapshot]
  BY <1>3 DEF InvoiceOps
<1>4. CASE q \in [op : {"create_customer_payment"}, invoice : Invoices \cup {None},
                  payment : {None}, amount : Nat, account : Accounts]
  BY <1>4 DEF InvoiceOps
<1>5. CASE q \in [op : {"delete_customer_payment"}, invoice : Invoices \cup {None},
                  payment : Payments, seen : PaymentSnapshot]
  BY <1>5 DEF InvoiceOps
<1> QED BY <1>1, <1>2, <1>3, <1>4, <1>5 DEF Request

(* What a request knows, when it unposts its invoice, is well formed. *)
LEMMA ReadsAreTyped ==
  ASSUME TypeOK, NEW w \in Workers, requests[w].op \in InvoiceOps
  PROVE  /\ requests[w].invoice \in Invoices
         /\ requests[w].payment = None
         /\ requests[w].seen \in InvoiceSnapshot
         /\ LinesRead(requests[w]) \in LineSet
         /\ AccountRead(requests[w]) \in Accounts
         /\ CogsRead(requests[w]) \in Seq(Entry)
<1>1. requests[w] \in Request
  BY DEF TypeOK
<1>2. /\ requests[w].invoice \in Invoices /\ requests[w].payment = None
      /\ requests[w].seen \in InvoiceSnapshot
  BY <1>1, RequestFields
<1>3. /\ requests[w].seen.lines \in LineSet /\ requests[w].seen.account \in Accounts
      /\ requests[w].seen.cogs \in Seq(Entry)
  BY <1>2 DEF InvoiceSnapshot
<1> QED BY <1>2, <1>3 DEF TypeOK, LinesRead, AccountRead, CogsRead

(* Unposting an invoice leaves well formed books. *)
LEMMA UnpostedIsTyped ==
  ASSUME TypeOK, NEW w \in Workers, requests[w].op \in InvoiceOps,
         NEW b \in Unposted(requests[w])
  PROVE  b \in BooksType
<1> DEFINE r == requests[w]
           i == r.invoice
<1>1. i \in Invoices /\ LinesRead(r) \in LineSet
  BY ReadsAreTyped
<1>2. sales[i] \in Seq(Entry) /\ cogs[i] \in Seq(Entry) /\ stock \in Int
  BY <1>1 DEF TypeOK
<1>3. CASE ~WasPosted(r)
  BY <1>2, <1>3 DEF Unposted, Books, BooksType
<1>4. CASE WasPosted(r)
  <2>1. PICK s \in Reversals(r.seen.sales, sales[i]),
             c \in Reversals(CogsRead(r), cogs[i]) :
          b = [sales |-> s, cogs |-> c, stock |-> stock + UnitsOf(LinesRead(r))]
    BY <1>4 DEF Unposted
  <2>2. s \in Seq(Entry) /\ c \in Seq(Entry)
    BY <1>2, ReversalsAreEntries
  <2>3. stock + UnitsOf(LinesRead(r)) \in Int
    BY <1>1, <1>2, LineSetTotals
  <2> QED BY <2>1, <2>2, <2>3 DEF BooksType
<1> QED BY <1>3, <1>4

(* Posting an invoice leaves well formed books. *)
LEMMA PostIsTyped ==
  ASSUME ConstantsAssumption, NEW b \in BooksType, NEW account \in Accounts,
         NEW total \in Nat, NEW ls \in LineSet
  PROVE  Post(b, account, total, ls) \in BooksType
<1>1. UnitsOf(ls) \in Nat
  BY LineSetTotals
<1>2. UnitCost * UnitsOf(ls) \in Nat
  BY <1>1 DEF ConstantsAssumption
<1>3. b.sales \in Seq(Entry) /\ b.cogs \in Seq(Entry) /\ b.stock \in Int
  BY DEF BooksType
<1>4. Append(b.sales, NewEntry(account, total)) \in Seq(Entry)
  BY <1>3, NewEntryIsEntry, AppendIsEntries
<1>5. Append(b.cogs, NewEntry(Inventory, UnitCost * UnitsOf(ls))) \in Seq(Entry)
  BY <1>2, <1>3, NewEntryIsEntry, AppendIsEntries
<1>6. b.stock - UnitsOf(ls) \in Int
  BY <1>1, <1>3
<1> QED BY <1>3, <1>4, <1>5, <1>6 DEF Post, BooksType

----------------------------------------------------------------------------
(* Type correctness *)

RequestsTyped == /\ DOMAIN requests = Workers
                 /\ \A w \in Workers : requests[w] \in Request

(* Starting a well formed request preserves the type invariant. *)
LEMMA StartTyped ==
  ASSUME TypeOK, NEW w \in Workers, NEW r \in Request, Start(w, r)
  PROVE  TypeOK'
<1>1. RequestsTyped'
  BY DEF Start, TypeOK, RequestsTyped
<1>2. UNCHANGED <<invoices, lines, edits, payments, sales, cogs, receipts,
                  deposits, stock, arAccount>>
  BY DEF Start, documents, ledger
<1> QED BY <1>1, <1>2 DEF TypeOK, RequestsTyped

(* What a request reads of an invoice is well formed, so starting it
   preserves the type invariant. *)
LEMMA StartInvoiceOpTyped ==
  ASSUME TypeOK, NEW w \in Workers, NEW op \in InvoiceOps, NEW i \in Invoices,
         NEW form, IF op = "update_invoice" THEN form \in Form ELSE form = None,
         StartInvoiceOp(w, op, i, form)
  PROVE  TypeOK'
<1> DEFINE r == [op |-> op, invoice |-> i, payment |-> None, form |-> form,
                 seen |-> SeenInvoice(i)]
<1>1. SeenInvoice(i) \in InvoiceSnapshot
  BY DEF TypeOK, SeenInvoice, InvoiceSnapshot
<1>2. r \in Request
  BY <1>1 DEF Request
<1>3. Start(w, r)
  BY DEF StartInvoiceOp
<1> HIDE DEF r
<1> QED BY <1>2, <1>3, StartTyped

(* A worker that is done leaves the requests well formed. *)
LEMMA FinishTyped ==
  ASSUME TypeOK, NEW w \in Workers, Finish(w)
  PROVE  RequestsTyped'
<1>1. Idle \in Request
  BY DEF Request
<1> QED BY <1>1 DEF TypeOK, RequestsTyped, Finish

(* Recording well formed books leaves well formed entries and stock. *)
LEMMA RecordTyped ==
  ASSUME TypeOK, NEW i \in Invoices, NEW b \in BooksType, Record(i, b)
  PROVE  /\ sales' \in [Invoices -> Seq(Entry)]
         /\ cogs' \in [Invoices -> Seq(Entry)]
         /\ stock' \in Int
<1>1. b.sales \in Seq(Entry) /\ b.cogs \in Seq(Entry) /\ b.stock \in Int
  BY DEF BooksType
<1> QED BY <1>1 DEF Record, TypeOK

(* The books of an invoice are well formed. *)
LEMMA BooksTyped ==
  ASSUME TypeOK, NEW i \in Invoices
  PROVE  Books(i) \in BooksType
BY DEF TypeOK, Books, BooksType

(* The line a form writes is well formed. *)
LEMMA NewLineTyped ==
  ASSUME TypeOK, NEW i \in Invoices, NEW form \in Form
  PROVE  NewLine(i, form) \in Line /\ {NewLine(i, form)} \in LineSet
<1>1. edits[i] \in Nat /\ form.amount \in Nat /\ form.units \in Nat
  BY ConstantsAssumption DEF TypeOK, Form, ConstantsAssumption
<1>2. NewLine(i, form) \in Line
  BY <1>1 DEF NewLine, Line
<1> QED BY <1>2, FS_Singleton DEF LineSet

(* Adding a payment to a row, or taking one off, leaves a row. *)
LEMMA PaidPlusTyped ==
  ASSUME NEW row \in Row, NEW amount \in Int
  PROVE  PaidPlus(row, amount) \in Row
BY DEF PaidPlus, Refreshed, Row, Missing, Posted

(* A flush leaves a row. *)
LEMMA FlushTyped ==
  ASSUME NEW now \in Row, NEW seen,
         NEW status \in {"draft", "sent"}, NEW total \in Nat
  PROVE  Flush(now, seen, [status |-> status, total |-> total]) \in Row
BY DEF Flush, Row, Missing, Posted

(* create_invoice preserves the type invariant. *)
LEMMA CreateInvoiceTyped ==
  ASSUME TypeOK, NEW i \in Invoices, NEW form \in Form, CreateInvoice(i, form)
  PROVE  TypeOK'
<1>1. form.amount \in Nat
  BY ConstantsAssumption DEF Form, ConstantsAssumption
<1>2. {NewLine(i, form)} \in LineSet
  BY NewLineTyped
<1>3. invoices' \in [Invoices -> Row]
  <2>1. [status |-> IF form.send THEN "sent" ELSE "draft",
         total |-> form.amount, paid |-> 0] \in Row
    BY <1>1 DEF Row, Missing, Posted
  <2> QED BY <2>1 DEF CreateInvoice, TypeOK
<1>4. lines' \in [Invoices -> LineSet] /\ edits' \in [Invoices -> Nat]
  BY <1>2 DEF CreateInvoice, TypeOK
<1>5. /\ sales' \in [Invoices -> Seq(Entry)] /\ cogs' \in [Invoices -> Seq(Entry)]
      /\ stock' \in Int
  <2>1. CASE form.send
    <3>1. Record(i, Post(Books(i), arAccount, form.amount, {NewLine(i, form)}))
      BY <2>1 DEF CreateInvoice
    <3>2. Post(Books(i), arAccount, form.amount, {NewLine(i, form)}) \in BooksType
      BY <1>1, <1>2, BooksTyped, PostIsTyped, ConstantsAssumption DEF TypeOK
    <3> QED BY <3>1, <3>2, RecordTyped
  <2>2. CASE ~form.send
    BY <2>2 DEF CreateInvoice, TypeOK
  <2> QED BY <2>1, <2>2
<1>6. UNCHANGED <<payments, receipts, deposits, arAccount, requests>>
  BY DEF CreateInvoice
<1> QED BY <1>3, <1>4, <1>5, <1>6 DEF TypeOK

(* update_invoice preserves the type invariant. *)
LEMMA UpdateInvoiceTyped ==
  ASSUME TypeOK, NEW w \in Workers, UpdateInvoice(w)
  PROVE  TypeOK'
<1> DEFINE r == requests[w]
           i == r.invoice
           send == r.form.send \/ WasPosted(r)
           written == {NewLine(i, r.form)}
<1>1. r.op = "update_invoice" /\ r.op \in InvoiceOps
  BY DEF UpdateInvoice, InvoiceOps
<1>2. i \in Invoices /\ LinesRead(r) \in LineSet /\ AccountRead(r) \in Accounts
  BY <1>1, ReadsAreTyped
<1>3. r.form \in Form
  BY <1>1, RequestFields DEF TypeOK
<1>4. r.form.amount \in Nat /\ written \in LineSet
  BY <1>2, <1>3, NewLineTyped, ConstantsAssumption DEF Form, ConstantsAssumption
<1>5. invoices' \in [Invoices -> Row]
  <2> DEFINE new == Flush(invoices[i], r.seen.row,
                 [status |-> IF send THEN "sent" ELSE "draft", total |-> r.form.amount])
  <2>1. new \in Row
    BY <1>2, <1>4, FlushTyped DEF TypeOK
  <2>2. invoices' = [invoices EXCEPT ![i] = new]
    BY DEF UpdateInvoice
  <2> HIDE DEF new
  <2> QED BY <2>1, <2>2 DEF TypeOK
<1>6. lines' \in [Invoices -> LineSet] /\ edits' \in [Invoices -> Nat]
  <2>1. lines[i] \in LineSet
    BY <1>2 DEF TypeOK
  <2>2. (lines[i] \ LinesRead(r)) \cup written \in LineSet
    BY <1>4, <2>1, FS_Union, FS_Difference DEF LineSet
  <2>3. /\ lines' = [lines EXCEPT ![i] = (lines[i] \ LinesRead(r)) \cup written]
        /\ edits' = [edits EXCEPT ![i] = edits[i] + 1]
    BY DEF UpdateInvoice
  <2> HIDE DEF written
  <2> QED BY <1>2, <2>2, <2>3 DEF TypeOK
<1>7. /\ sales' \in [Invoices -> Seq(Entry)] /\ cogs' \in [Invoices -> Seq(Entry)]
      /\ stock' \in Int
  <2>1. PICK b \in Unposted(r) :
          IF send THEN Record(i, Post(b, AccountRead(r), r.form.amount, written))
                  ELSE Record(i, b)
    BY DEF UpdateInvoice
  <2>2. b \in BooksType
    BY <1>1, UnpostedIsTyped
  <2>3. Post(b, AccountRead(r), r.form.amount, written) \in BooksType
    BY <1>2, <1>4, <2>2, PostIsTyped, ConstantsAssumption
  <2> HIDE DEF r, send, written, i
  <2> QED BY <1>2, <2>1, <2>2, <2>3, RecordTyped
<1>8. RequestsTyped'
  BY FinishTyped DEF UpdateInvoice
<1>9. UNCHANGED <<payments, receipts, deposits, arAccount>>
  BY DEF UpdateInvoice
<1> QED BY <1>5, <1>6, <1>7, <1>8, <1>9 DEF TypeOK, RequestsTyped

(* Marking an invoice as sent preserves the type invariant. *)
LEMMA MarkSentTyped ==
  ASSUME TypeOK, NEW w \in Workers, MarkSent(w)
  PROVE  TypeOK'
<1> DEFINE r == requests[w]
           i == r.invoice
           b == Post(Books(i), r.seen.account, r.seen.row.total, r.seen.lines)
<1>1. r.op \in InvoiceOps
  BY DEF MarkSent, InvoiceOps
<1>2. i \in Invoices /\ r.seen \in InvoiceSnapshot
  BY <1>1, ReadsAreTyped
<1>3. r.seen.account \in Accounts /\ r.seen.row.total \in Nat /\ r.seen.lines \in LineSet
  BY <1>2 DEF InvoiceSnapshot, Row
<1>4. b \in BooksType
  BY <1>2, <1>3, BooksTyped, PostIsTyped, ConstantsAssumption
<1>5. Record(i, b)
  BY DEF MarkSent
<1>6. /\ sales' \in [Invoices -> Seq(Entry)] /\ cogs' \in [Invoices -> Seq(Entry)]
      /\ stock' \in Int
  <2> HIDE DEF b, i
  <2> QED BY <1>2, <1>4, <1>5, RecordTyped
<1>7. invoices' \in [Invoices -> Row]
  BY <1>2 DEF MarkSent, TypeOK, Row, Posted
<1>8. RequestsTyped'
  BY FinishTyped DEF MarkSent
<1>9. UNCHANGED <<lines, edits, payments, receipts, deposits, arAccount>>
  BY DEF MarkSent
<1> QED BY <1>6, <1>7, <1>8, <1>9 DEF TypeOK, RequestsTyped

(* Voiding an invoice or reverting it to draft preserves the type
   invariant. *)
LEMMA WithdrawTyped ==
  ASSUME TypeOK, NEW w \in Workers, NEW op \in InvoiceOps,
         NEW status \in {"void", "draft"}, Withdraw(w, op, status)
  PROVE  TypeOK'
<1> DEFINE r == requests[w]
           i == r.invoice
<1>1. r.op \in InvoiceOps
  BY DEF Withdraw
<1>2. i \in Invoices
  BY <1>1, ReadsAreTyped
<1>3. PICK b \in Unposted(r) : Record(i, b)
  BY DEF Withdraw
<1>4. b \in BooksType
  BY <1>1, UnpostedIsTyped
<1>5. /\ sales' \in [Invoices -> Seq(Entry)] /\ cogs' \in [Invoices -> Seq(Entry)]
      /\ stock' \in Int
  <2> HIDE DEF i, r
  <2> QED BY <1>2, <1>3, <1>4, RecordTyped
<1>6. invoices' \in [Invoices -> Row]
  BY <1>2 DEF Withdraw, TypeOK, Row
<1>7. RequestsTyped'
  BY FinishTyped DEF Withdraw
<1>8. UNCHANGED <<lines, edits, payments, receipts, deposits, arAccount>>
  BY DEF Withdraw
<1> QED BY <1>5, <1>6, <1>7, <1>8 DEF TypeOK, RequestsTyped

(* delete_invoice preserves the type invariant. *)
LEMMA DeleteInvoiceTyped ==
  ASSUME TypeOK, NEW w \in Workers, DeleteInvoice(w)
  PROVE  TypeOK'
<1> DEFINE r == requests[w]
           i == r.invoice
<1>1. r.op \in InvoiceOps
  BY DEF DeleteInvoice, InvoiceOps
<1>2. i \in Invoices
  BY <1>1, ReadsAreTyped
<1>3. PICK b \in Unposted(r) : Record(i, b)
  BY DEF DeleteInvoice
<1>4. b \in BooksType
  BY <1>1, UnpostedIsTyped
<1>5. /\ sales' \in [Invoices -> Seq(Entry)] /\ cogs' \in [Invoices -> Seq(Entry)]
      /\ stock' \in Int
  <2> HIDE DEF i, r
  <2> QED BY <1>2, <1>3, <1>4, RecordTyped
<1>6. invoices' \in [Invoices -> Row]
  BY <1>2 DEF DeleteInvoice, TypeOK, Row, Missing
<1>7. lines' \in [Invoices -> LineSet]
  BY <1>2, FS_EmptySet DEF DeleteInvoice, TypeOK, LineSet
<1>8. payments' \in [Payments -> PaymentRow]
  BY DEF DeleteInvoice, TypeOK, PaymentRow
<1>9. RequestsTyped'
  BY FinishTyped DEF DeleteInvoice
<1>10. UNCHANGED <<edits, receipts, deposits, arAccount>>
  BY DEF DeleteInvoice
<1> QED BY <1>5, <1>6, <1>7, <1>8, <1>9, <1>10 DEF TypeOK, RequestsTyped

(* create_customer_payment preserves the type invariant. *)
LEMMA CreatePaymentTyped ==
  ASSUME TypeOK, NEW w \in Workers, NEW p \in Payments, CreatePayment(w, p)
  PROVE  TypeOK'
<1> DEFINE r == requests[w]
           i == r.invoice
<1>1. i \in Invoices \cup {None} /\ r.amount \in Nat /\ r.account \in Accounts
  BY RequestFields DEF CreatePayment, TypeOK
<1>2. invoices' \in [Invoices -> Row]
  <2>1. CASE i = None
    BY <2>1 DEF CreatePayment, TypeOK
  <2>2. CASE i # None
    <3>1. invoices' = [invoices EXCEPT ![i] = PaidPlus(invoices[i], r.amount)]
      BY <2>2 DEF CreatePayment, ApplyInvoicePayment
    <3>2. PaidPlus(invoices[i], r.amount) \in Row
      BY <1>1, <2>2, PaidPlusTyped DEF TypeOK
    <3> HIDE DEF i, r
    <3> QED BY <3>1, <3>2 DEF TypeOK
  <2> QED BY <2>1, <2>2
<1>3. payments' \in [Payments -> PaymentRow]
  BY <1>1 DEF CreatePayment, TypeOK, PaymentRow
<1>4. receipts' \in [Payments -> Seq(Entry)]
  <2> DEFINE e == NewEntry(IF i = None THEN Advances ELSE r.account, r.amount)
  <2>1. e \in Entry
    BY <1>1, NewEntryIsEntry
  <2>2. Append(receipts[p], e) \in Seq(Entry)
    BY <2>1, AppendIsEntries DEF TypeOK
  <2>3. receipts' = [receipts EXCEPT ![p] = Append(receipts[p], e)]
    BY DEF CreatePayment
  <2> HIDE DEF e
  <2> QED BY <2>2, <2>3 DEF TypeOK
<1>5. deposits' \subseteq Payments
  BY DEF CreatePayment, TypeOK
<1>6. RequestsTyped'
  BY FinishTyped DEF CreatePayment
<1>7. UNCHANGED <<lines, edits, sales, cogs, stock, arAccount>>
  BY DEF CreatePayment
<1> QED BY <1>2, <1>3, <1>4, <1>5, <1>6, <1>7 DEF TypeOK, RequestsTyped

(* delete_customer_payment preserves the type invariant. *)
LEMMA DeletePaymentTyped ==
  ASSUME TypeOK, NEW w \in Workers, DeletePayment(w)
  PROVE  TypeOK'
<1> DEFINE r == requests[w]
           i == r.invoice
           p == r.payment
<1>1. i \in Invoices \cup {None} /\ p \in Payments /\ r.seen.row.amount \in Int
  <2>1. /\ i \in Invoices \cup {None} /\ p \in Payments
        /\ r.seen \in PaymentSnapshot
    BY RequestFields DEF DeletePayment, TypeOK
  <2> QED BY <2>1 DEF PaymentSnapshot, PaymentRow
<1>2. invoices' \in [Invoices -> Row]
  <2>1. CASE ~(i # None /\ Exists(i))
    BY <2>1 DEF DeletePayment, TypeOK
  <2>2. CASE i # None /\ Exists(i)
    <3>1. invoices' = [invoices EXCEPT ![i] = PaidPlus(invoices[i], -r.seen.row.amount)]
      BY <2>2 DEF DeletePayment
    <3>2. PaidPlus(invoices[i], -r.seen.row.amount) \in Row
      BY <1>1, <2>2, PaidPlusTyped DEF TypeOK
    <3> HIDE DEF i, r
    <3> QED BY <3>1, <3>2 DEF TypeOK
  <2> QED BY <2>1, <2>2
<1>3. payments' \in [Payments -> PaymentRow]
  BY <1>1 DEF DeletePayment, TypeOK, PaymentRow
<1>4. receipts' \in [Payments -> Seq(Entry)]
  <2>1. PICK entries \in Reversals(r.seen.receipts, receipts[p]) :
          receipts' = [receipts EXCEPT ![p] = entries]
    BY DEF DeletePayment
  <2>2. entries \in Seq(Entry)
    BY <1>1, ReversalsAreEntries DEF TypeOK
  <2> HIDE DEF p
  <2> QED BY <2>1, <2>2 DEF TypeOK
<1>5. deposits' \subseteq Payments
  BY DEF DeletePayment, TypeOK
<1>6. RequestsTyped'
  BY FinishTyped DEF DeletePayment
<1>7. UNCHANGED <<lines, edits, sales, cogs, stock, arAccount>>
  BY DEF DeletePayment
<1> QED BY <1>2, <1>3, <1>4, <1>5, <1>6, <1>7 DEF TypeOK, RequestsTyped

(* The reading step of every operation preserves the type invariant. *)
LEMMA LoadTyped ==
  ASSUME TypeOK, NEW w \in Workers, Load(w)
  PROVE  TypeOK'
<1>1. ASSUME NEW i \in Invoices, NEW form \in Form, LoadUpdate(w, i, form)
      PROVE  TypeOK'
  BY <1>1, StartInvoiceOpTyped DEF LoadUpdate, InvoiceOps
<1>2. ASSUME NEW i \in Invoices, LoadMarkSent(w, i) PROVE TypeOK'
  BY <1>2, StartInvoiceOpTyped DEF LoadMarkSent, InvoiceOps
<1>3. ASSUME NEW i \in Invoices, LoadMarkVoid(w, i) PROVE TypeOK'
  BY <1>3, StartInvoiceOpTyped DEF LoadMarkVoid, InvoiceOps
<1>4. ASSUME NEW i \in Invoices, LoadRevertToDraft(w, i) PROVE TypeOK'
  BY <1>4, StartInvoiceOpTyped DEF LoadRevertToDraft, InvoiceOps
<1>5. ASSUME NEW i \in Invoices, LoadDeleteInvoice(w, i) PROVE TypeOK'
  BY <1>5, StartInvoiceOpTyped DEF LoadDeleteInvoice, InvoiceOps
<1>6. ASSUME NEW i \in Invoices \cup {None}, NEW amount \in Amounts,
             LoadCreatePayment(w, i, amount)
      PROVE  TypeOK'
  <2> DEFINE r == [op |-> "create_customer_payment", invoice |-> i, payment |-> None,
                   amount |-> amount, account |-> arAccount]
  <2>1. r \in Request
    BY ConstantsAssumption DEF Request, TypeOK, ConstantsAssumption
  <2>2. Start(w, r)
    BY <1>6 DEF LoadCreatePayment
  <2> HIDE DEF r
  <2> QED BY <2>1, <2>2, StartTyped
<1>7. ASSUME NEW p \in Payments, LoadDeletePayment(w, p) PROVE TypeOK'
  <2> DEFINE r == [op |-> "delete_customer_payment", invoice |-> payments[p].invoice,
                   payment |-> p, seen |-> SeenPayment(p)]
  <2>1. payments[p].invoice \in Invoices \cup {None} /\ SeenPayment(p) \in PaymentSnapshot
    BY DEF TypeOK, PaymentRow, SeenPayment, PaymentSnapshot
  <2>2. r \in Request
    BY <2>1 DEF Request
  <2>3. Start(w, r)
    BY <1>7 DEF LoadDeletePayment
  <2> HIDE DEF r
  <2> QED BY <2>2, <2>3, StartTyped
<1> QED BY <1>1, <1>2, <1>3, <1>4, <1>5, <1>6, <1>7 DEF Load

(* An empty set of books is well formed. *)
LEMMA InitTyped ==
  ASSUME Init
  PROVE  TypeOK
<1>1. {} \in LineSet /\ NoInvoice \in Row /\ NoPayment \in PaymentRow /\ Idle \in Request
  BY FS_EmptySet DEF LineSet, NoInvoice, NoPayment, Row, PaymentRow, Missing, Request
<1>2. << >> \in Seq(Entry)
  OBVIOUS
<1>3. OpeningStock \in Int
  BY ConstantsAssumption DEF ConstantsAssumption
<1> QED BY <1>1, <1>2, <1>3 DEF Init, TypeOK

(* Every step preserves the type invariant. *)
LEMMA NextTyped ==
  ASSUME TypeOK, [Next]_vars
  PROVE  TypeOK'
<1>1. ASSUME NEW i \in Invoices, NEW form \in Form, CreateInvoice(i, form) PROVE TypeOK'
  BY <1>1, CreateInvoiceTyped
<1>2. ASSUME NEW w \in Workers, Load(w) PROVE TypeOK'
  BY <1>2, LoadTyped
<1>3. ASSUME NEW w \in Workers, Commit(w) PROVE TypeOK'
  BY <1>3, UpdateInvoiceTyped, MarkSentTyped, WithdrawTyped, DeleteInvoiceTyped,
     CreatePaymentTyped, DeletePaymentTyped
     DEF Commit, MarkVoid, RevertToDraft, InvoiceOps
<1>4. ASSUME NEW w \in Workers, Abort(w) PROVE TypeOK'
  <2>1. RequestsTyped'
    BY <1>4, FinishTyped DEF Abort
  <2> QED BY <1>4, <2>1 DEF Abort, TypeOK, RequestsTyped, documents, ledger
<1>5. CASE UpdateContact
  BY <1>5 DEF UpdateContact, TypeOK, documents, ledger
<1>6. CASE UNCHANGED vars
  BY <1>6 DEF vars, documents, ledger, TypeOK
<1> QED BY <1>1, <1>2, <1>3, <1>4, <1>5, <1>6 DEF Next

(* Whatever the interleaving of requests, every row, journal entry and
   request in flight stays well formed. *)
THEOREM TypeCorrect == Spec => []TypeOK
<1>1. Init => TypeOK
  BY InitTyped
<1>2. TypeOK /\ [Next]_vars => TypeOK'
  BY NextTyped
<1> QED BY <1>1, <1>2, PTL DEF Spec

(* Only create_customer_payment brings a payment about, and its conditional
   UPDATE found the invoice payable and the amount due. *)
LEMMA NewPaymentFits ==
  ASSUME TypeOK, [Next]_vars, NEW p \in Payments, NEW i \in Invoices,
         payments[p].state = "none", payments'[p].state = "live", payments'[p].invoice = i
  PROVE  /\ invoices[i].status \in Payable
         /\ invoices'[i].paid = invoices[i].paid + payments'[p].amount
         /\ invoices'[i].paid <= invoices'[i].total
<1>1. payments \in [Payments -> PaymentRow] /\ invoices \in [Invoices -> Row]
  BY DEF TypeOK
<1>2. ~UNCHANGED payments
  OBVIOUS
<1>3. ASSUME NEW w \in Workers, NEW q \in Payments, CreatePayment(w, q)
      PROVE  /\ invoices[i].status \in Payable
             /\ invoices'[i].paid = invoices[i].paid + payments'[p].amount
             /\ invoices'[i].paid <= invoices'[i].total
  <2> DEFINE r == requests[w]
  <2>1. payments' = [payments EXCEPT ![q] =
          [state |-> "live", amount |-> r.amount, invoice |-> r.invoice]]
    BY <1>3 DEF CreatePayment
  <2>2. p = q /\ payments'[p].amount = r.amount /\ r.invoice = i
    BY <1>1, <2>1
  <2>3. r.amount \in Nat
    BY <1>3, RequestFields DEF CreatePayment, TypeOK
  <2>4. ApplyInvoicePayment(i, r.amount)
    BY <1>3, <2>2, ConstantsAssumption DEF CreatePayment, ConstantsAssumption
  <2>5. invoices'[i] = PaidPlus(invoices[i], r.amount)
    BY <1>1, <2>4 DEF ApplyInvoicePayment
  <2>6. /\ invoices'[i].paid = invoices[i].paid + r.amount
        /\ invoices'[i].total = invoices[i].total
    BY <2>5 DEF PaidPlus, Refreshed
  <2>7. invoices[i].total - invoices[i].paid >= r.amount /\ invoices[i].status \in Payable
    BY <2>4 DEF ApplyInvoicePayment
  <2>8. invoices[i].total \in Nat /\ invoices[i].paid \in Int
    BY <1>1 DEF Row
  <2> QED BY <2>2, <2>3, <2>6, <2>7, <2>8
<1>4. ASSUME NEW w \in Workers, DeleteInvoice(w) PROVE FALSE
  <2>1. payments'[p].state = payments[p].state
    BY <1>1, <1>4 DEF DeleteInvoice
  <2> QED BY <2>1
<1>5. ASSUME NEW w \in Workers, DeletePayment(w) PROVE FALSE
  BY <1>1, <1>5 DEF DeletePayment
<1>6. ASSUME NEW w \in Workers, Commit(w)
      PROVE  DeleteInvoice(w) \/ DeletePayment(w) \/ \E q \in Payments : CreatePayment(w, q)
  BY <1>2, <1>6 DEF Commit, UpdateInvoice, MarkSent, MarkVoid, RevertToDraft, Withdraw
<1>7. ASSUME NEW w \in Workers, Load(w) PROVE FALSE
  BY <1>2, <1>7 DEF Load, LoadUpdate, LoadMarkSent, LoadMarkVoid, LoadRevertToDraft,
     LoadDeleteInvoice, LoadCreatePayment, LoadDeletePayment, StartInvoiceOp, Start, documents
<1>8. ASSUME NEW j \in Invoices, NEW form \in Form, CreateInvoice(j, form) PROVE FALSE
  BY <1>2, <1>8 DEF CreateInvoice
<1> QED BY <1>2, <1>3, <1>4, <1>5, <1>6, <1>7, <1>8
        DEF Next, Abort, UpdateContact, documents, vars

(* Whatever requests run beside it, a payment is applied only to an invoice
   that can be paid, and only up to what is due on it. *)
THEOREM PaymentsAlwaysFit == Spec => PaymentsFit
<1>1. TypeOK /\ [Next]_vars =>
        [\A p \in Payments, i \in Invoices :
           /\ payments[p].state = "none"
           /\ payments'[p].state = "live" /\ payments'[p].invoice = i
           => /\ invoices[i].status \in Payable
              /\ invoices'[i].paid = invoices[i].paid + payments'[p].amount
              /\ invoices'[i].paid <= invoices'[i].total]_vars
  BY NewPaymentFits
<1> QED BY <1>1, TypeCorrect, PTL DEF Spec, PaymentsFit

----------------------------------------------------------------------------
(* Exclusion of requests in flight *)

LEMMA HeldAndUsed ==
  ASSUME Isolated = Ops, NEW q \in Request
  PROVE  /\ q.op \in InvoiceOps => Held(q) = {q.invoice} /\ Uses(q) = {q.invoice}
         /\ q.op = "create_customer_payment" =>
              Held(q) = {} /\ Uses(q) = {q.invoice} \ {None}
         /\ q.op = "delete_customer_payment" =>
              Held(q) = {q.payment} /\ Uses(q) = {q.invoice, q.payment} \ {None}
         /\ q = Idle => Held(q) = {} /\ Uses(q) = {}
<1>1. CASE q.op \in InvoiceOps
  BY <1>1, RequestFields, ConstantsAssumption
     DEF Held, Uses, Ops, InvoiceOps, Idle, ConstantsAssumption
<1>2. CASE q.op = "create_customer_payment"
  BY <1>2, RequestFields DEF Held, Uses, Ops, InvoiceOps, Idle
<1>3. CASE q.op = "delete_customer_payment"
  BY <1>3, RequestFields, ConstantsAssumption
     DEF Held, Uses, Ops, InvoiceOps, Idle, ConstantsAssumption
<1>4. CASE q = Idle
  BY <1>4 DEF Held, Uses, Ops, InvoiceOps, Idle
<1> QED BY <1>1, <1>2, <1>3, <1>4, RequestFields

(* A request that starts uses nothing another one holds. *)
LEMMA StartExcludes ==
  ASSUME TypeOK, Exclusive, NEW w \in Workers, NEW r, Start(w, r)
  PROVE  Exclusive'
<1>1. /\ requests' = [requests EXCEPT ![w] = r]
      /\ \A v \in Workers : Compatible(requests[v], r)
  BY DEF Start
<1>2. DOMAIN requests = Workers
  BY DEF TypeOK
<1> SUFFICES ASSUME NEW u \in Workers, NEW v \in Workers, u # v
             PROVE  Held(requests'[u]) \cap Uses(requests'[v]) = {}
  BY DEF Exclusive, Held, Uses
<1>3. CASE u = w
  BY <1>1, <1>2, <1>3 DEF Compatible
<1>4. CASE v = w
  BY <1>1, <1>2, <1>4 DEF Compatible
<1>5. CASE u # w /\ v # w
  BY <1>1, <1>2, <1>5 DEF Exclusive
<1> QED BY <1>3, <1>4, <1>5

(* A request that ends leaves the others excluding each other. *)
LEMMA FinishExcludes ==
  ASSUME TypeOK, Isolated = Ops, Exclusive, NEW w \in Workers, Finish(w)
  PROVE  Exclusive'
<1>1. Held(Idle) = {} /\ Uses(Idle) = {}
  BY DEF Held, Uses, Idle, Ops, InvoiceOps
<1>2. DOMAIN requests = Workers /\ requests' = [requests EXCEPT ![w] = Idle]
  BY DEF TypeOK, Finish
<1> SUFFICES ASSUME NEW u \in Workers, NEW v \in Workers, u # v
             PROVE  Held(requests'[u]) \cap Uses(requests'[v]) = {}
  BY DEF Exclusive, Held, Uses
<1>3. CASE u = w \/ v = w
  BY <1>1, <1>2, <1>3
<1>4. CASE u # w /\ v # w
  BY <1>2, <1>4 DEF Exclusive
<1> QED BY <1>3, <1>4

(* A commit that touches only what its request uses leaves the snapshots of
   the other requests current. *)
LEMMA SnapshotsSurvive ==
  ASSUME TypeOK, Isolated = Ops, Exclusive, SeenIsCurrent, NEW w \in Workers, Finish(w),
         \A j \in Invoices : j \notin Uses(requests[w]) =>
            /\ invoices'[j] = invoices[j] /\ lines'[j] = lines[j]
            /\ sales'[j] = sales[j] /\ cogs'[j] = cogs[j],
         \A p \in Payments :
            /\ payments[p].state = "live"
            /\ p \notin Uses(requests[w])
            /\ payments[p].invoice \notin Held(requests[w])
            => payments'[p] = payments[p] /\ receipts'[p] = receipts[p]
  PROVE  SeenIsCurrent'
<1>1. DOMAIN requests = Workers /\ requests' = [requests EXCEPT ![w] = Idle]
  BY DEF TypeOK, Finish
<1>2. ASSUME NEW v \in Workers, v # w, requests[v].op \in InvoiceOps
      PROVE  LET i == requests[v].invoice IN
             /\ invoices'[i] = invoices[i] /\ lines'[i] = lines[i]
             /\ sales'[i] = sales[i] /\ cogs'[i] = cogs[i]
  <2>1. requests[v] \in Request /\ Held(requests[v]) \cap Uses(requests[w]) = {}
    BY <1>2 DEF TypeOK, Exclusive
  <2>2. requests[v].invoice \in Invoices /\ requests[v].invoice \notin Uses(requests[w])
    BY <1>2, <2>1, RequestFields, HeldAndUsed
  <2> QED BY <2>2
<1>3. ASSUME NEW v \in Workers, v # w, requests[v].op = "delete_customer_payment"
      PROVE  LET p == requests[v].payment IN
             payments'[p] = payments[p] /\ receipts'[p] = receipts[p]
  <2> DEFINE r == requests[v]
  <2>1. /\ r \in Request /\ requests[w] \in Request
        /\ Held(r) \cap Uses(requests[w]) = {} /\ Held(requests[w]) \cap Uses(r) = {}
    BY <1>3 DEF TypeOK, Exclusive
  <2>2. /\ r.payment \in Payments
        /\ Held(r) = {r.payment} /\ Uses(r) = {r.invoice, r.payment} \ {None}
    BY <1>3, <2>1, RequestFields, HeldAndUsed
  <2>3. payments[r.payment].state = "live" /\ payments[r.payment].invoice = r.invoice
    BY <1>3 DEF SeenIsCurrent, PaymentAsSeen
  <2>4. None \notin Held(requests[w])
    BY <2>1, HeldAndUsed, RequestFields, ConstantsAssumption DEF ConstantsAssumption
  <2>5. r.payment \notin Uses(requests[w]) /\ r.invoice \notin Held(requests[w])
    BY <2>1, <2>2, <2>4
  <2> QED BY <2>2, <2>3, <2>5
<1>4. requests'[w] = Idle /\ \A v \in Workers : v # w => requests'[v] = requests[v]
  BY <1>1
<1>5. Idle.op \notin InvoiceOps \cup {"create_customer_payment", "delete_customer_payment"}
  BY DEF Idle, InvoiceOps
<1> QED BY <1>2, <1>3, <1>4, <1>5 DEF SeenIsCurrent

----------------------------------------------------------------------------
(* Entries of a document *)

(* Reversing what is listed unreversed, with the list current, leaves nothing
   unreversed. *)
LEMMA ReversalsLeaveNothing ==
  ASSUME NEW entries \in Seq(Entry), \A k \in DOMAIN entries : entries[k].reversals <= 1,
         NEW s \in Reversals(entries, entries)
  PROVE  /\ Live(s) = {}
         /\ DOMAIN s = DOMAIN entries
         /\ \A k \in DOMAIN s : s[k].reversals <= 1
<1>1. CASE Live(entries) = {}
  BY <1>1 DEF Reversals
<1>2. CASE Live(entries) # {}
  <2>1. s = Reverse(entries, Live(entries))
    <3>1. \A k \in Live(entries) : {k} \cup (Live(entries) \cap Live(entries)) = Live(entries)
      OBVIOUS
    <3> QED BY <1>2, <3>1 DEF Reversals
  <2>2. \A k \in DOMAIN entries : entries[k].reversals \in Nat
    <3>1. \A k \in DOMAIN entries : entries[k] \in Entry
      OBVIOUS
    <3> QED BY <3>1 DEF Entry
  <2>3. DOMAIN s = DOMAIN entries
    BY <2>1 DEF Reverse
  <2>4. ASSUME NEW k \in DOMAIN s PROVE s[k].reversals = 1
    <3>1. k \in DOMAIN entries
      BY <2>3
    <3>2. CASE k \in Live(entries)
      BY <2>1, <3>1, <3>2 DEF Reverse, Live
    <3>3. CASE k \notin Live(entries)
      BY <2>1, <2>2, <3>1, <3>3 DEF Reverse, Live
    <3> QED BY <3>2, <3>3
  <2> QED BY <2>3, <2>4 DEF Live
<1> QED BY <1>1, <1>2

(* Posting an invoice none of whose entries stands makes one stand. *)
LEMMA PostStandsOnce ==
  ASSUME NEW entries \in Seq(Entry), \A k \in DOMAIN entries : entries[k].reversals <= 1,
         Live(entries) = {}, NEW account, NEW row, row.status \in Posted
  PROVE  StandsOnce(row, Append(entries, NewEntry(account, row.total)))
<1> DEFINE e == NewEntry(account, row.total)
           s == Append(entries, e)
           n == Len(entries) + 1
<1>1. /\ Len(entries) \in Nat /\ DOMAIN entries = 1 .. Len(entries)
  OBVIOUS
<1>2. /\ DOMAIN s = 1 .. n /\ s[n] = e
      /\ \A k \in 1 .. Len(entries) : s[k] = entries[k]
  <2> HIDE DEF e
  <2> QED OBVIOUS
<1>3. e.reversals = 0 /\ e.amount = row.total
  BY DEF NewEntry
<1>4. Live(s) = {n}
  BY <1>1, <1>2, <1>3 DEF Live
<1>5. \A k \in DOMAIN s : s[k].reversals <= 1
  BY <1>1, <1>2, <1>3
<1> HIDE DEF s, e, n
<1>6. n \in DOMAIN s /\ s[n].amount = row.total
  BY <1>1, <1>2, <1>3 DEF n
<1> QED BY <1>4, <1>5, <1>6 DEF StandsOnce, s, e

(* What an invoice posted or not stands at once it is unposted. *)
LEMMA UnpostLeavesNothing ==
  ASSUME TypeOK, SeenIsCurrent, OneLiveEntry, NEW w \in Workers,
         requests[w].op \in InvoiceOps, NEW b \in Unposted(requests[w])
  PROVE  /\ b.sales \in Seq(Entry) /\ Live(b.sales) = {}
         /\ \A k \in DOMAIN b.sales : b.sales[k].reversals <= 1
<1> DEFINE r == requests[w]
           i == r.invoice
<1>1. i \in Invoices /\ b \in BooksType
  BY ReadsAreTyped, UnpostedIsTyped
<1>2. /\ r.seen.sales = sales[i] /\ r.seen.row = invoices[i]
      /\ invoices[i].status \notin Missing
  BY DEF SeenIsCurrent, InvoiceAsSeen
<1>3. sales[i] \in Seq(Entry) /\ invoices[i] \in Row
  BY <1>1 DEF TypeOK
<1>4. StandsOnce(invoices[i], sales[i])
  BY <1>1 DEF OneLiveEntry
<1>5. CASE WasPosted(r)
  <2>1. b.sales \in Reversals(sales[i], sales[i])
    BY <1>2, <1>5 DEF Unposted
  <2> QED BY <1>3, <1>4, <2>1, ReversalsLeaveNothing, ReversalsAreEntries DEF StandsOnce
<1>6. CASE ~WasPosted(r)
  <2>1. b.sales = sales[i]
    BY <1>6 DEF Unposted, Books
  <2>2. invoices[i].status \notin Posted
    BY <1>2, <1>6 DEF WasPosted, Posted
  <2> QED BY <1>3, <1>4, <2>1, <2>2 DEF StandsOnce
<1> QED BY <1>5, <1>6

----------------------------------------------------------------------------
(* What was received for an invoice *)

LEMMA ReceivedIsNat ==
  ASSUME TypeOK, NEW i \in Invoices \cup {None}
  PROVE  /\ IsFiniteSet(PaymentsOn(i)) /\ PaymentsOn(i) \subseteq Payments
         /\ \A p \in PaymentsOn(i) : payments[p].amount \in Nat
         /\ Received(i) \in Nat
<1> DEFINE S == PaymentsOn(i)
           f == [p \in S |-> payments[p].amount]
<1>1. IsFiniteSet(S) /\ S \subseteq Payments
  BY ConstantsAssumption, FS_Subset DEF PaymentsOn, ConstantsAssumption
<1>2. \A p \in S : payments[p].amount \in Nat
  BY <1>1 DEF TypeOK, PaymentRow
<1>3. \A p \in S : f[p] \in Nat
  BY <1>2
<1>4. SumFunctionOnSet(f, S) \in Nat
  <2> HIDE DEF f, S
  <2> QED BY <1>1, <1>3, SumIsNat
<1> QED BY <1>1, <1>2, <1>4 DEF Received

(* What was received for an invoice does not change while its payments do
   not. *)
LEMMA ReceivedStays ==
  ASSUME NEW i, PaymentsOn(i)' = PaymentsOn(i),
         \A p \in PaymentsOn(i) : payments'[p].amount = payments[p].amount
  PROVE  Received(i)' = Received(i)
<1>1. [p \in PaymentsOn(i) |-> payments[p].amount]' = [p \in PaymentsOn(i) |-> payments[p].amount]
  OBVIOUS
<1> QED BY <1>1 DEF Received

(* One payment more on an invoice. *)
LEMMA ReceivedGrows ==
  ASSUME TypeOK, TypeOK', NEW i \in Invoices \cup {None}, NEW p \in Payments,
         p \notin PaymentsOn(i), PaymentsOn(i)' = PaymentsOn(i) \cup {p},
         \A q \in PaymentsOn(i) : payments'[q].amount = payments[q].amount
  PROVE  Received(i)' = Received(i) + payments'[p].amount
<1> DEFINE S == PaymentsOn(i)
           f == [q \in S |-> payments[q].amount]
           g == [q \in S \cup {p} |-> payments'[q].amount]
<1>1. IsFiniteSet(S) /\ \A q \in S \cup {p} : payments'[q].amount \in Int
  <2>1. S \subseteq Payments /\ IsFiniteSet(S)
    BY ReceivedIsNat
  <2> QED BY <2>1 DEF TypeOK, PaymentRow
<1>2. SumFunctionOnSet(g, S \cup {p}) = g[p] + SumFunctionOnSet(g, S)
  <2>1. \A q \in S \cup {p} : g[q] \in Int
    BY <1>1
  <2> HIDE DEF g, S
  <2> QED BY <1>1, <2>1, SumAdds DEF S
<1>3. SumFunctionOnSet(g, S) = SumFunctionOnSet(f, S)
  <2>1. \A q \in S : g[q] = f[q]
    OBVIOUS
  <2> HIDE DEF f, g, S
  <2> QED BY <1>1, <2>1, SumAgrees
<1>4. Received(i) = SumFunctionOnSet(f, S) /\ Received(i)' = SumFunctionOnSet(g, S \cup {p})
  BY DEF Received
<1>5. g[p] = payments'[p].amount /\ g[p] \in Int /\ Received(i) \in Int
  BY <1>1, ReceivedIsNat
<1> HIDE DEF f, g, S
<1> QED BY <1>2, <1>3, <1>4, <1>5

(* One payment less on an invoice. *)
LEMMA ReceivedShrinks ==
  ASSUME TypeOK, NEW i \in Invoices \cup {None}, NEW p \in PaymentsOn(i),
         PaymentsOn(i)' = PaymentsOn(i) \ {p},
         \A q \in PaymentsOn(i) \ {p} : payments'[q].amount = payments[q].amount
  PROVE  /\ Received(i)' = Received(i) - payments[p].amount
         /\ Received(i)' \in Nat
<1> DEFINE S == PaymentsOn(i)
           f == [q \in S |-> payments[q].amount]
           g == [q \in S \ {p} |-> payments'[q].amount]
<1>1. IsFiniteSet(S) /\ IsFiniteSet(S \ {p}) /\ \A q \in S : f[q] \in Nat
  <2>1. IsFiniteSet(S) /\ \A q \in S : f[q] \in Nat
    BY ReceivedIsNat
  <2> QED BY <2>1, FS_RemoveElement
<1>2. SumFunctionOnSet(f, S) = f[p] + SumFunctionOnSet(f, S \ {p})
  <2>1. p \in S /\ \A q \in S : f[q] \in Int
    BY <1>1
  <2> HIDE DEF f, S
  <2> QED BY <1>1, <2>1, SumRemoves
<1>3. SumFunctionOnSet(g, S \ {p}) = SumFunctionOnSet(f, S \ {p})
  <2>1. \A q \in S \ {p} : g[q] = f[q]
    OBVIOUS
  <2> HIDE DEF f, g, S
  <2> QED BY <1>1, <2>1, SumAgrees
<1>4. SumFunctionOnSet(f, S \ {p}) \in Nat
  <2> HIDE DEF f, S
  <2> QED BY <1>1, SumIsNat
<1>5. Received(i) = SumFunctionOnSet(f, S) /\ Received(i)' = SumFunctionOnSet(g, S \ {p})
  BY DEF Received
<1>6. f[p] = payments[p].amount /\ f[p] \in Nat
  BY <1>1
<1> HIDE DEF f, g, S
<1> QED BY <1>2, <1>3, <1>4, <1>5, <1>6

(* An invoice that shows nothing paid has no payment on it. *)
LEMMA UnpaidHasNoPayments ==
  ASSUME TypeOK, PaymentsRecorded, PaidIsReceived, NEW i \in Invoices,
         invoices[i].paid <= 0
  PROVE  PaymentsOn(i) = {} /\ invoices[i].paid = 0
<1> DEFINE S == PaymentsOn(i)
           f == [q \in S |-> payments[q].amount]
<1>1. /\ invoices[i].paid = Received(i) /\ Received(i) \in Nat /\ IsFiniteSet(S)
      /\ \A q \in S : f[q] \in Nat
  BY ReceivedIsNat DEF PaidIsReceived, ShowsPaid
<1>2. invoices[i].paid = 0 /\ SumFunctionOnSet(f, S) = 0
  <2>1. invoices[i].paid = 0
    BY <1>1
  <2> QED BY <1>1, <2>1 DEF Received
<1>3. ASSUME NEW p \in S PROVE FALSE
  <2>1. f[p] > 0
    BY <1>3 DEF PaymentsRecorded, PaymentsOn
  <2>2. SumFunctionOnSet(f, S) = f[p] + SumFunctionOnSet(f, S \ {p})
    <3>1. \A q \in S : f[q] \in Int
      BY <1>1
    <3> HIDE DEF f, S
    <3> QED BY <1>1, <1>3, <3>1, SumRemoves
  <2>3. SumFunctionOnSet(f, S \ {p}) \in Nat
    <3>1. IsFiniteSet(S \ {p})
      BY <1>1, FS_RemoveElement
    <3> HIDE DEF f, S
    <3> QED BY <1>1, <3>1, SumIsNat
  <2>4. f[p] \in Nat
    BY <1>1, <1>3
  <2> HIDE DEF f, S
  <2> QED BY <1>2, <2>1, <2>2, <2>3, <2>4
<1> QED BY <1>2, <1>3

(* An invoice with payments on it is posted. *)
LEMMA PaidIsPosted ==
  ASSUME TypeOK, PaymentsRecorded, PaidIsReceived, NEW i \in Invoices,
         PaymentsOn(i) # {}
  PROVE  IsPosted(i) /\ invoices[i].paid > 0
<1>1. invoices[i] \in Row
  BY DEF TypeOK
<1>2. invoices[i].paid \in Int
  BY <1>1 DEF Row
<1>3. invoices[i].paid > 0
  BY <1>2, UnpaidHasNoPayments
<1> QED BY <1>2, <1>3 DEF PaidIsReceived, ShowsPaid, IsPosted

----------------------------------------------------------------------------
(* Steps *)

(* What an operation on an invoice finds when it commits. *)
LEMMA InvoiceFound ==
  ASSUME IInv, NEW w \in Workers, requests[w].op \in InvoiceOps
  PROVE  LET r == requests[w]
             i == r.invoice
         IN /\ i \in Invoices /\ invoices[i] \in Row
            /\ InvoiceAsSeen(r, invoices[i], lines[i], sales[i], cogs[i])
            /\ invoices[i].paid = 0 /\ PaymentsOn(i) = {}
<1> DEFINE r == requests[w]
           i == r.invoice
<1>1. i \in Invoices /\ invoices[i] \in Row
  BY ReadsAreTyped DEF IInv, TypeOK
<1>2. InvoiceAsSeen(r, invoices[i], lines[i], sales[i], cogs[i])
  BY DEF IInv, SeenIsCurrent
<1>3. invoices[i].paid <= 0
  <2>1. CASE r.op = "mark_sent"
    <3>1. invoices[i].status \notin Posted
      BY <1>2, <2>1 DEF InvoiceAsSeen, Posted
    <3>2. invoices[i].paid = 0
      BY <1>1, <3>1 DEF IInv, PaidIsReceived, ShowsPaid
    <3> QED BY <3>2
  <2>2. CASE r.op # "mark_sent"
    BY <1>2, <2>2 DEF InvoiceAsSeen
  <2> QED BY <2>1, <2>2
<1> QED BY <1>1, <1>2, <1>3, UnpaidHasNoPayments DEF IInv

(* An operation on an invoice that leaves the payments alone, and the invoice
   standing in the journal as its new row says, preserves the invariant. *)
LEMMA InvoiceCommits ==
  ASSUME IInv, TypeOK', Isolated = Ops, NEW w \in Workers, requests[w].op \in InvoiceOps,
         Finish(w), UNCHANGED <<payments, receipts>>,
         \A j \in Invoices : j # requests[w].invoice =>
            /\ invoices'[j] = invoices[j] /\ lines'[j] = lines[j]
            /\ sales'[j] = sales[j] /\ cogs'[j] = cogs[j],
         LET row == invoices'[requests[w].invoice] IN
            /\ row.paid = 0
            /\ row.status \in Posted => row.status = "sent"
            /\ StandsOnce(row, sales'[requests[w].invoice])
  PROVE  IInv'
<1> DEFINE i == requests[w].invoice
<1>1. /\ i \in Invoices /\ Uses(requests[w]) = {i}
      /\ invoices[i].paid = 0
  BY InvoiceFound, HeldAndUsed DEF IInv, TypeOK
<1>2. Exclusive'
  BY FinishExcludes DEF IInv
<1>3. SeenIsCurrent'
  BY <1>1, SnapshotsSurvive DEF IInv
<1>4. PaymentsRecorded'
  BY DEF IInv, PaymentsRecorded
<1>5. OneLiveEntry'
  BY DEF IInv, OneLiveEntry
<1>6. PaidIsReceived'
  <2> SUFFICES ASSUME NEW j \in Invoices PROVE ShowsPaid(invoices'[j], Received(j)')
    BY DEF PaidIsReceived
  <2>1. Received(j)' = Received(j)
    BY ReceivedStays DEF PaymentsOn
  <2>2. ShowsPaid(invoices[j], Received(j))
    BY DEF IInv, PaidIsReceived
  <2>3. CASE j # i
    BY <2>1, <2>2, <2>3
  <2>4. CASE j = i
    <3>1. invoices'[i].total \in Nat
      BY <1>1 DEF TypeOK, Row
    <3> QED BY <1>1, <2>1, <2>2, <2>4, <3>1 DEF ShowsPaid
  <2> QED BY <2>3, <2>4
<1> QED BY <1>2, <1>3, <1>4, <1>5, <1>6 DEF IInv

(* update_invoice preserves the invariant: it unposts the entry that
   stands, if one does, and posts the one of the new total. *)
LEMMA UpdateInvoicePreserves ==
  ASSUME IInv, Isolated = Ops, NEW w \in Workers, UpdateInvoice(w)
  PROVE  IInv'
<1> DEFINE r == requests[w]
           i == r.invoice
           send == r.form.send \/ WasPosted(r)
           status == IF send THEN "sent" ELSE "draft"
           written == {NewLine(i, r.form)}
<1>1. r.op = "update_invoice" /\ r.op \in InvoiceOps
  BY DEF UpdateInvoice, InvoiceOps
<1>2. /\ i \in Invoices /\ invoices[i] \in Row /\ invoices[i].paid = 0
      /\ r.seen.row = invoices[i]
  BY <1>1, InvoiceFound DEF InvoiceAsSeen
<1>3. TypeOK'
  BY UpdateInvoiceTyped DEF IInv
<1>4. invoices' = [invoices EXCEPT ![i] = Flush(invoices[i], invoices[i],
                     [status |-> status, total |-> r.form.amount])]
  BY <1>2 DEF UpdateInvoice
<1>5. /\ invoices'[i].status = status /\ invoices'[i].total = r.form.amount
      /\ invoices'[i].paid = 0
  <2>1. invoices'[i] = Flush(invoices[i], invoices[i], [status |-> status, total |-> r.form.amount])
    BY <1>2, <1>4 DEF IInv, TypeOK
  <2> HIDE DEF status
  <2> QED BY <1>2, <2>1 DEF Flush
<1>6. PICK b \in Unposted(r) :
        IF send THEN Record(i, Post(b, AccountRead(r), r.form.amount, written))
                ELSE Record(i, b)
  BY DEF UpdateInvoice
<1>7. /\ b.sales \in Seq(Entry) /\ Live(b.sales) = {}
      /\ \A k \in DOMAIN b.sales : b.sales[k].reversals <= 1
  BY <1>1, UnpostLeavesNothing DEF IInv
<1>8. StandsOnce(invoices'[i], sales'[i])
  <2>1. CASE send
    <3>1. sales'[i] = Append(b.sales, NewEntry(AccountRead(r), r.form.amount))
      BY <1>2, <1>6, <2>1 DEF Record, Post, IInv, TypeOK
    <3>2. invoices'[i].status \in Posted
      BY <1>5, <2>1 DEF Posted
    <3> QED BY <1>5, <1>7, <3>1, <3>2, PostStandsOnce
  <2>2. CASE ~send
    <3>1. sales'[i] = b.sales
      BY <1>2, <1>6, <2>2 DEF Record, IInv, TypeOK
    <3>2. invoices'[i].status \notin Posted
      BY <1>5, <2>2 DEF Posted
    <3> QED BY <1>7, <3>1, <3>2 DEF StandsOnce
  <2> QED BY <2>1, <2>2
<1>9. \A j \in Invoices : j # i =>
         /\ invoices'[j] = invoices[j] /\ lines'[j] = lines[j]
         /\ sales'[j] = sales[j] /\ cogs'[j] = cogs[j]
  <2>1. \A j \in Invoices : j # i => sales'[j] = sales[j] /\ cogs'[j] = cogs[j]
    BY <1>6 DEF Record, IInv, TypeOK
  <2> QED BY <1>4, <2>1 DEF UpdateInvoice, IInv, TypeOK
<1>10. Finish(w) /\ UNCHANGED <<payments, receipts>>
  BY DEF UpdateInvoice
<1>11. invoices'[i].status \in Posted => invoices'[i].status = "sent"
  BY <1>5 DEF Posted
<1> HIDE DEF r, i
<1> QED BY <1>1, <1>3, <1>5, <1>8, <1>9, <1>10, <1>11, InvoiceCommits DEF r, i

(* Marking a draft as sent preserves the invariant: a draft has no entry
   standing. *)
LEMMA MarkSentPreserves ==
  ASSUME IInv, Isolated = Ops, NEW w \in Workers, MarkSent(w)
  PROVE  IInv'
<1> DEFINE r == requests[w]
           i == r.invoice
<1>1. r.op = "mark_sent" /\ r.op \in InvoiceOps
  BY DEF MarkSent, InvoiceOps
<1>2. /\ i \in Invoices /\ invoices[i] \in Row /\ invoices[i].paid = 0
      /\ r.seen.row = invoices[i] /\ invoices[i].status = "draft"
  BY <1>1, InvoiceFound DEF InvoiceAsSeen
<1>3. TypeOK'
  BY MarkSentTyped DEF IInv
<1>4. /\ invoices'[i].status = "sent" /\ invoices'[i].total = invoices[i].total
      /\ invoices'[i].paid = 0
      /\ \A j \in Invoices : j # i => invoices'[j] = invoices[j]
  BY <1>2 DEF MarkSent, IInv, TypeOK, Row
<1>5. Record(i, Post(Books(i), r.seen.account, invoices[i].total, r.seen.lines))
  BY <1>2 DEF MarkSent
<1>6. sales'[i] = Append(sales[i], NewEntry(r.seen.account, invoices[i].total))
  BY <1>2, <1>5 DEF Record, Post, Books, IInv, TypeOK
<1>7. /\ sales[i] \in Seq(Entry) /\ Live(sales[i]) = {}
      /\ \A k \in DOMAIN sales[i] : sales[i][k].reversals <= 1
  BY <1>2 DEF IInv, TypeOK, OneLiveEntry, StandsOnce, Posted
<1>8. StandsOnce(invoices'[i], sales'[i])
  <2>1. invoices'[i].status \in Posted
    BY <1>4 DEF Posted
  <2>2. sales'[i] = Append(sales[i], NewEntry(r.seen.account, invoices'[i].total))
    BY <1>4, <1>6
  <2> HIDE DEF r, i
  <2> QED BY <1>7, <2>1, <2>2, PostStandsOnce
<1>9. \A j \in Invoices : j # i => sales'[j] = sales[j] /\ cogs'[j] = cogs[j]
  BY <1>5 DEF Record, IInv, TypeOK
<1>10. Finish(w) /\ UNCHANGED <<lines, payments, receipts>>
  BY DEF MarkSent
<1> HIDE DEF r, i
<1> QED BY <1>1, <1>3, <1>4, <1>8, <1>9, <1>10, InvoiceCommits DEF r, i

(* Voiding and reverting preserve the invariant: nothing of the invoice
   stands afterwards. *)
LEMMA WithdrawPreserves ==
  ASSUME IInv, Isolated = Ops, NEW w \in Workers, NEW op \in InvoiceOps,
         NEW status \in {"void", "draft"}, Withdraw(w, op, status)
  PROVE  IInv'
<1> DEFINE r == requests[w]
           i == r.invoice
<1>1. r.op \in InvoiceOps
  BY DEF Withdraw
<1>2. i \in Invoices /\ invoices[i] \in Row /\ invoices[i].paid = 0
  BY <1>1, InvoiceFound
<1>3. TypeOK'
  BY WithdrawTyped DEF IInv
<1>4. /\ invoices'[i].status = status /\ invoices'[i].paid = 0
      /\ \A j \in Invoices : j # i => invoices'[j] = invoices[j]
  BY <1>2 DEF Withdraw, IInv, TypeOK, Row
<1>5. PICK b \in Unposted(r) : Record(i, b)
  BY DEF Withdraw
<1>6. /\ Live(b.sales) = {} /\ \A k \in DOMAIN b.sales : b.sales[k].reversals <= 1
  BY <1>1, UnpostLeavesNothing DEF IInv
<1>7. sales'[i] = b.sales /\ \A j \in Invoices : j # i => sales'[j] = sales[j] /\ cogs'[j] = cogs[j]
  BY <1>2, <1>5 DEF Record, IInv, TypeOK
<1>8. invoices'[i].status \notin Posted
  BY <1>4 DEF Posted
<1>9. StandsOnce(invoices'[i], sales'[i])
  BY <1>6, <1>7, <1>8 DEF StandsOnce
<1>10. Finish(w) /\ UNCHANGED <<lines, payments, receipts>>
  BY DEF Withdraw
<1> HIDE DEF r, i
<1> QED BY <1>1, <1>3, <1>4, <1>7, <1>8, <1>9, <1>10, InvoiceCommits DEF r, i

(* delete_invoice preserves the invariant: no payment names the invoice. *)
LEMMA DeleteInvoicePreserves ==
  ASSUME IInv, Isolated = Ops, NEW w \in Workers, DeleteInvoice(w)
  PROVE  IInv'
<1> DEFINE r == requests[w]
           i == r.invoice
<1>1. r.op \in InvoiceOps
  BY DEF DeleteInvoice, InvoiceOps
<1>2. i \in Invoices /\ PaymentsOn(i) = {}
  BY <1>1, InvoiceFound
<1>3. TypeOK'
  BY DeleteInvoiceTyped DEF IInv
<1>4. /\ invoices'[i] = [status |-> "deleted", total |-> 0, paid |-> 0]
      /\ \A j \in Invoices : j # i => invoices'[j] = invoices[j] /\ lines'[j] = lines[j]
  BY <1>2 DEF DeleteInvoice, IInv, TypeOK
<1>5. PICK b \in Unposted(r) : Record(i, b)
  BY DEF DeleteInvoice
<1>6. /\ Live(b.sales) = {} /\ \A k \in DOMAIN b.sales : b.sales[k].reversals <= 1
  BY <1>1, UnpostLeavesNothing DEF IInv
<1>7. sales'[i] = b.sales /\ \A j \in Invoices : j # i => sales'[j] = sales[j] /\ cogs'[j] = cogs[j]
  BY <1>2, <1>5 DEF Record, IInv, TypeOK
<1>8. invoices'[i].status \notin Posted /\ invoices'[i].paid = 0
  BY <1>4 DEF Posted
<1>9. StandsOnce(invoices'[i], sales'[i])
  BY <1>6, <1>7, <1>8 DEF StandsOnce
<1>10. payments' = payments
  <2>1. \A p \in Payments : payments[p].invoice # i
    BY <1>2, ConstantsAssumption
       DEF PaymentsOn, IInv, PaymentsRecorded, ConstantsAssumption
  <2>2. payments = [p \in Payments |-> payments[p]]
    BY DEF IInv, TypeOK
  <2>3. payments' = [p \in Payments |-> payments[p]]
    BY <2>1 DEF DeleteInvoice
  <2> QED BY <2>2, <2>3
<1>11. Finish(w) /\ receipts' = receipts
  BY DEF DeleteInvoice
<1> HIDE DEF r, i
<1> QED BY <1>1, <1>3, <1>4, <1>7, <1>8, <1>9, <1>10, <1>11, InvoiceCommits DEF r, i

(* The number of a new invoice is in no request's hands. *)
LEMMA CreateInvoicePreserves ==
  ASSUME IInv, NEW i \in Invoices, NEW form \in Form, CreateInvoice(i, form)
  PROVE  IInv'
<1>1. /\ invoices[i].status = "none" /\ invoices[i].status \notin Posted
      /\ invoices[i].status \in Missing
  BY DEF CreateInvoice, Posted, Missing
<1>2. TypeOK'
  BY CreateInvoiceTyped DEF IInv
<1>3. /\ invoices'[i].status = (IF form.send THEN "sent" ELSE "draft")
      /\ invoices'[i].total = form.amount /\ invoices'[i].paid = 0
      /\ \A j \in Invoices : j # i => invoices'[j] = invoices[j] /\ lines'[j] = lines[j]
  BY DEF CreateInvoice, IInv, TypeOK
<1>4. \A j \in Invoices : j # i => sales'[j] = sales[j] /\ cogs'[j] = cogs[j]
  BY DEF CreateInvoice, Record, IInv, TypeOK
<1>5. UNCHANGED <<payments, receipts, requests>>
  BY DEF CreateInvoice
<1>6. Exclusive'
  BY <1>5 DEF IInv, Exclusive, Held, Uses
<1>7. SeenIsCurrent'
  <2> SUFFICES ASSUME NEW w \in Workers, requests[w].op \in InvoiceOps
               PROVE  LET j == requests[w].invoice IN
                      /\ invoices'[j] = invoices[j] /\ lines'[j] = lines[j]
                      /\ sales'[j] = sales[j] /\ cogs'[j] = cogs[j]
    BY <1>5 DEF IInv, SeenIsCurrent
  <2>1. requests[w].invoice \in Invoices /\ requests[w].invoice # i
    BY <1>1, InvoiceFound DEF InvoiceAsSeen
  <2> QED BY <1>3, <1>4, <2>1
<1>8. PaymentsRecorded'
  BY <1>5 DEF IInv, PaymentsRecorded
<1>9. OneLiveEntry'
  <2>1. /\ sales[i] \in Seq(Entry) /\ Live(sales[i]) = {}
        /\ \A k \in DOMAIN sales[i] : sales[i][k].reversals <= 1
    BY <1>1 DEF IInv, TypeOK, OneLiveEntry, StandsOnce
  <2>2. StandsOnce(invoices'[i], sales'[i])
    <3>1. CASE form.send
      <4>1. sales'[i] = Append(sales[i], NewEntry(arAccount, invoices'[i].total))
        BY <1>3, <3>1 DEF CreateInvoice, Record, Post, Books, IInv, TypeOK
      <4>2. invoices'[i].status \in Posted
        BY <1>3, <3>1 DEF Posted
      <4> QED BY <2>1, <4>1, <4>2, PostStandsOnce
    <3>2. CASE ~form.send
      <4>1. sales'[i] = sales[i]
        BY <3>2 DEF CreateInvoice
      <4>2. invoices'[i].status \notin Posted
        BY <1>3, <3>2 DEF Posted
      <4> QED BY <2>1, <4>1, <4>2 DEF StandsOnce
    <3> QED BY <3>1, <3>2
  <2> QED BY <1>3, <1>4, <2>2 DEF IInv, OneLiveEntry
<1>10. PaidIsReceived'
  <2> SUFFICES ASSUME NEW j \in Invoices PROVE ShowsPaid(invoices'[j], Received(j)')
    BY DEF PaidIsReceived
  <2>1. Received(j)' = Received(j)
    BY <1>5, ReceivedStays DEF PaymentsOn
  <2>2. ShowsPaid(invoices[j], Received(j))
    BY DEF IInv, PaidIsReceived
  <2>3. CASE j # i
    BY <1>3, <2>1, <2>2, <2>3
  <2>4. CASE j = i
    <3>1. invoices'[i].total \in Nat
      BY <1>2 DEF TypeOK, Row
    <3>2. invoices'[i].status \in Posted => invoices'[i].status = "sent"
      BY <1>3 DEF Posted
    <3> QED BY <1>1, <1>3, <2>1, <2>2, <2>4, <3>1, <3>2 DEF ShowsPaid
  <2> QED BY <2>3, <2>4
<1> QED BY <1>2, <1>6, <1>7, <1>8, <1>9, <1>10 DEF IInv

(* create_customer_payment preserves the invariant, other payments of the
   same invoice running beside it: the conditional UPDATE checks again. *)
LEMMA CreatePaymentPreserves ==
  ASSUME IInv, Isolated = Ops, NEW w \in Workers, NEW p \in Payments, CreatePayment(w, p)
  PROVE  IInv'
<1> DEFINE r == requests[w]
           i == r.invoice
<1>1. /\ i \in Invoices \cup {None} /\ r.amount \in Nat /\ r.amount > 0
      /\ Uses(r) = {i} \ {None}
  BY RequestFields, HeldAndUsed DEF CreatePayment, IInv, TypeOK, SeenIsCurrent
<1>2. /\ payments[p].state = "none" /\ payments[p].invoice = None
      /\ payments'[p] = [state |-> "live", amount |-> r.amount, invoice |-> i]
      /\ \A q \in Payments : q # p => payments'[q] = payments[q] /\ receipts'[q] = receipts[q]
  BY DEF CreatePayment, IInv, TypeOK, PaymentsRecorded
<1>3. TypeOK'
  BY CreatePaymentTyped DEF IInv
<1>4. \A j \in Invoices : j # i => invoices'[j] = invoices[j]
  BY DEF CreatePayment, ApplyInvoicePayment, IInv, TypeOK
<1>5. ASSUME i # None
      PROVE  /\ i \in Invoices /\ invoices[i] \in Row /\ invoices[i].status \in Payable
             /\ invoices[i].total - invoices[i].paid >= r.amount
             /\ invoices'[i] = PaidPlus(invoices[i], r.amount)
  BY <1>1, <1>5 DEF CreatePayment, ApplyInvoicePayment, IInv, TypeOK
<1>6. Finish(w) /\ UNCHANGED <<lines, sales, cogs>>
  BY DEF CreatePayment
<1>7. Exclusive'
  BY <1>6, FinishExcludes DEF IInv
<1>8. SeenIsCurrent'
  <2>1. ASSUME NEW j \in Invoices, j \notin Uses(r)
        PROVE  /\ invoices'[j] = invoices[j] /\ lines'[j] = lines[j]
               /\ sales'[j] = sales[j] /\ cogs'[j] = cogs[j]
    BY <1>1, <1>4, <1>6, <2>1, ConstantsAssumption DEF ConstantsAssumption
  <2>2. \A q \in Payments : payments[q].state = "live" =>
           payments'[q] = payments[q] /\ receipts'[q] = receipts[q]
    BY <1>2
  <2> HIDE DEF i
  <2> QED BY <1>6, <2>1, <2>2, SnapshotsSurvive DEF IInv
<1>9. PaymentsRecorded'
  BY <1>1, <1>2 DEF IInv, PaymentsRecorded
<1>10. ASSUME i # None
       PROVE  /\ invoices[i].status \in Posted /\ invoices'[i].status \in Posted
              /\ invoices'[i].total = invoices[i].total
              /\ invoices'[i].paid = invoices[i].paid + r.amount
              /\ invoices[i].paid = Received(i) /\ Received(i) \in Nat
              /\ invoices'[i].paid <= invoices'[i].total
              /\ invoices'[i].status = IF invoices'[i].paid = invoices'[i].total
                                         THEN "paid" ELSE "partially_paid"
  <2>1. invoices[i].status \in Posted /\ invoices[i].status # "void"
    BY <1>5, <1>10 DEF Payable, Posted
  <2>2. invoices[i].paid = Received(i) /\ Received(i) \in Nat
    BY <1>5, <1>10, ReceivedIsNat DEF IInv, PaidIsReceived, ShowsPaid
  <2>3. invoices[i].total \in Nat /\ invoices[i].paid \in Nat
    BY <1>5, <1>10, <2>2 DEF Row
  <2>4. /\ invoices'[i].total = invoices[i].total
        /\ invoices'[i].paid = invoices[i].paid + r.amount
    BY <1>5, <1>10 DEF PaidPlus, Refreshed
  <2>5. invoices'[i].paid > 0 /\ invoices'[i].paid <= invoices'[i].total
    BY <1>1, <1>5, <1>10, <2>3, <2>4
  <2>6. invoices'[i].status = IF invoices'[i].paid = invoices'[i].total
                                THEN "paid" ELSE "partially_paid"
    <3>1. ~(invoices[i].paid + r.amount <= 0)
      BY <1>1, <2>3
    <3>2. invoices'[i].status = IF invoices[i].paid + r.amount >= invoices[i].total
                                  THEN "paid" ELSE "partially_paid"
      BY <1>5, <1>10, <2>1, <3>1 DEF PaidPlus, Refreshed
    <3> QED BY <1>1, <2>3, <2>4, <2>5, <3>2
  <2>7. invoices'[i].status \in Posted
    BY <2>6 DEF Posted
  <2> QED BY <2>1, <2>2, <2>4, <2>5, <2>6, <2>7
<1>11. OneLiveEntry'
  <2> SUFFICES ASSUME NEW j \in Invoices PROVE StandsOnce(invoices'[j], sales[j])
    BY <1>6 DEF OneLiveEntry
  <2>1. StandsOnce(invoices[j], sales[j])
    BY DEF IInv, OneLiveEntry
  <2>2. CASE j = i
    <3>1. i # None
      BY <2>2, ConstantsAssumption DEF ConstantsAssumption
    <3> QED BY <1>10, <2>1, <2>2, <3>1 DEF StandsOnce
  <2> QED BY <1>4, <2>1, <2>2
<1>12. PaidIsReceived'
  <2> SUFFICES ASSUME NEW j \in Invoices PROVE ShowsPaid(invoices'[j], Received(j)')
    BY DEF PaidIsReceived
  <2>1. CASE j # i
    <3>1. PaymentsOn(j)' = PaymentsOn(j)
      BY <1>2, <2>1, ConstantsAssumption DEF PaymentsOn, ConstantsAssumption
    <3>2. \A q \in PaymentsOn(j) : payments'[q].amount = payments[q].amount
      BY <1>2, ConstantsAssumption DEF PaymentsOn, ConstantsAssumption
    <3>3. Received(j)' = Received(j)
      BY <3>1, <3>2, ReceivedStays
    <3> QED BY <1>4, <2>1, <3>3 DEF IInv, PaidIsReceived
  <2>2. CASE j = i
    <3>1. i # None
      BY <2>2, ConstantsAssumption DEF ConstantsAssumption
    <3>2. p \notin PaymentsOn(j) /\ PaymentsOn(j)' = PaymentsOn(j) \cup {p}
      BY <1>2, <2>2, <3>1 DEF PaymentsOn
    <3>3. \A q \in PaymentsOn(j) : payments'[q].amount = payments[q].amount
      BY <1>2, <3>2 DEF PaymentsOn
    <3>4. Received(j)' = Received(j) + payments'[p].amount
      BY <1>3, <3>2, <3>3, ReceivedGrows DEF IInv
    <3>5. invoices'[j].paid = Received(j)' /\ invoices'[j].paid # 0
      BY <1>1, <1>2, <1>10, <2>2, <3>1, <3>4
    <3>6. /\ invoices'[j].status \in Posted
          /\ invoices'[j].paid <= invoices'[j].total
          /\ invoices'[j].status = IF invoices'[j].paid = invoices'[j].total
                                     THEN "paid" ELSE "partially_paid"
      BY <1>10, <2>2, <3>1
    <3> HIDE DEF i, r
    <3> QED BY <3>5, <3>6 DEF ShowsPaid
  <2> QED BY <2>1, <2>2
<1> QED BY <1>3, <1>7, <1>8, <1>9, <1>11, <1>12 DEF IInv

(* delete_customer_payment preserves the invariant: the amount taken off
   the invoice is one that was received for it. *)
LEMMA DeletePaymentPreserves ==
  ASSUME IInv, Isolated = Ops, NEW w \in Workers, DeletePayment(w)
  PROVE  IInv'
<1> DEFINE r == requests[w]
           i == r.invoice
           p == r.payment
<1>1. /\ r.op = "delete_customer_payment" /\ r \in Request
      /\ i \in Invoices \cup {None} /\ p \in Payments
      /\ Held(r) = {p} /\ Uses(r) = {i, p} \ {None}
  BY RequestFields, HeldAndUsed DEF DeletePayment, IInv, TypeOK
<1>2. /\ r.seen.row = payments[p] /\ payments[p].state = "live" /\ payments[p].invoice = i
      /\ payments[p] \in PaymentRow
  BY <1>1 DEF IInv, TypeOK, SeenIsCurrent, PaymentAsSeen
<1>3. TypeOK'
  BY DeletePaymentTyped DEF IInv
<1>4. /\ payments'[p] = [state |-> "deleted", amount |-> 0, invoice |-> None]
      /\ \A q \in Payments : q # p => payments'[q] = payments[q] /\ receipts'[q] = receipts[q]
  BY <1>1 DEF DeletePayment, IInv, TypeOK
<1>5. \A j \in Invoices : j # i => invoices'[j] = invoices[j]
  BY DEF DeletePayment, IInv, TypeOK
<1>6. Finish(w) /\ UNCHANGED <<lines, sales, cogs>>
  BY DEF DeletePayment
<1>7. Exclusive'
  BY <1>6, FinishExcludes DEF IInv
<1>8. SeenIsCurrent'
  <2>1. ASSUME NEW j \in Invoices, j \notin Uses(r)
        PROVE  /\ invoices'[j] = invoices[j] /\ lines'[j] = lines[j]
               /\ sales'[j] = sales[j] /\ cogs'[j] = cogs[j]
    BY <1>1, <1>5, <1>6, <2>1, ConstantsAssumption DEF ConstantsAssumption
  <2>2. ASSUME NEW q \in Payments, q \notin Uses(r)
        PROVE  payments'[q] = payments[q] /\ receipts'[q] = receipts[q]
    BY <1>1, <1>4, <2>2, ConstantsAssumption DEF ConstantsAssumption
  <2> HIDE DEF i, p
  <2> QED BY <1>6, <2>1, <2>2, SnapshotsSurvive DEF IInv
<1>9. PaymentsRecorded'
  BY <1>4 DEF IInv, PaymentsRecorded
<1>10. ASSUME NEW j \in Invoices, j = i
       PROVE  /\ p \in PaymentsOn(j) /\ IsPosted(j)
              /\ PaymentsOn(j)' = PaymentsOn(j) \ {p}
              /\ \A q \in PaymentsOn(j) \ {p} : payments'[q].amount = payments[q].amount
  <2>1. p \in PaymentsOn(j)
    BY <1>1, <1>2, <1>10 DEF PaymentsOn
  <2>2. PaymentsOn(j)' = PaymentsOn(j) \ {p}
    <3> HIDE DEF p
    <3> QED BY <1>4 DEF PaymentsOn
  <2>3. \A q \in PaymentsOn(j) \ {p} : payments'[q].amount = payments[q].amount
    BY <1>4 DEF PaymentsOn
  <2> QED BY <2>1, <2>2, <2>3, PaidIsPosted DEF IInv
<1>11. ASSUME NEW j \in Invoices, j = i
       PROVE  /\ invoices[j].status \in Posted /\ invoices'[j].status \in Posted
              /\ invoices'[j].total = invoices[j].total
              /\ invoices'[j].paid = Received(j)'
              /\ invoices'[j].paid <= invoices'[j].total
              /\ invoices'[j].status = IF invoices'[j].paid = 0 THEN "sent"
                   ELSE IF invoices'[j].paid = invoices'[j].total
                     THEN "paid" ELSE "partially_paid"
  <2>1. p \in PaymentsOn(j) /\ invoices[j].status \in Posted
    BY <1>10, <1>11 DEF IsPosted
  <2>2. Received(j)' = Received(j) - payments[p].amount /\ Received(j)' \in Nat
    <3> HIDE DEF p, i, r
    <3> QED BY <1>10, <1>11, ReceivedShrinks DEF IInv
  <2>3. payments[p].amount \in Nat /\ payments[p].amount > 0
    BY <1>1, <1>2 DEF IInv, PaymentsRecorded, PaymentRow
  <2>4. invoices[j] \in Row /\ ShowsPaid(invoices[j], Received(j))
    BY DEF IInv, TypeOK, PaidIsReceived
  <2>5. Received(j) \in Nat
    BY ReceivedIsNat DEF IInv
  <2>6. /\ invoices[j].paid = Received(j) /\ invoices[j].paid <= invoices[j].total
        /\ invoices[j].total \in Nat
    BY <2>1, <2>4 DEF ShowsPaid, Row
  <2>7. invoices'[j] = PaidPlus(invoices[j], -payments[p].amount)
    <3>1. i # None /\ Exists(i)
      BY <1>11, <2>1, ConstantsAssumption DEF Exists, Missing, Posted, ConstantsAssumption
    <3> QED BY <1>2, <1>11, <3>1 DEF DeletePayment, IInv, TypeOK
  <2> DEFINE paid == invoices[j].paid + -payments[p].amount
  <2>8. paid \in Nat /\ paid = Received(j)' /\ paid < invoices[j].total
    <3> HIDE DEF p
    <3> QED BY <2>2, <2>3, <2>5, <2>6
  <2>9. invoices'[j].total = invoices[j].total /\ invoices'[j].paid = paid
    BY <2>7 DEF PaidPlus, Refreshed
  <2>10. invoices[j].status # "void" /\ (invoices[j].status = "sent" \/
           invoices[j].status \in {"paid", "partially_paid"})
    BY <2>1 DEF Posted
  <2>11. invoices'[j].status = IF paid <= 0 THEN "sent"
            ELSE IF paid >= invoices[j].total THEN "paid" ELSE "partially_paid"
    BY <2>7, <2>10 DEF PaidPlus, Refreshed
  <2> HIDE DEF paid, i, p, r
  <2>12. invoices'[j].status = IF paid = 0 THEN "sent" ELSE "partially_paid"
    BY <2>6, <2>8, <2>11
  <2>13. invoices'[j].status \in Posted
    BY <2>12 DEF Posted
  <2> QED BY <2>1, <2>6, <2>8, <2>9, <2>12, <2>13
<1>12. OneLiveEntry'
  <2> SUFFICES ASSUME NEW j \in Invoices PROVE StandsOnce(invoices'[j], sales[j])
    BY <1>6 DEF OneLiveEntry
  <2>1. StandsOnce(invoices[j], sales[j])
    BY DEF IInv, OneLiveEntry
  <2>2. CASE j = i
    BY <1>11, <2>1, <2>2 DEF StandsOnce
  <2> QED BY <1>5, <2>1, <2>2
<1>13. PaidIsReceived'
  <2> SUFFICES ASSUME NEW j \in Invoices PROVE ShowsPaid(invoices'[j], Received(j)')
    BY DEF PaidIsReceived
  <2>1. CASE j # i
    <3>1. PaymentsOn(j)' = PaymentsOn(j)
      BY <1>2, <1>4, <2>1, ConstantsAssumption DEF PaymentsOn, ConstantsAssumption
    <3>2. \A q \in PaymentsOn(j) : payments'[q].amount = payments[q].amount
      BY <1>2, <1>4, <2>1 DEF PaymentsOn
    <3>3. Received(j)' = Received(j)
      BY <3>1, <3>2, ReceivedStays
    <3> QED BY <1>5, <2>1, <3>3 DEF IInv, PaidIsReceived
  <2>2. CASE j = i
    <3> HIDE DEF i, r
    <3> QED BY <1>11, <2>2 DEF ShowsPaid
  <2> QED BY <2>1, <2>2
<1> QED BY <1>3, <1>7, <1>8, <1>9, <1>12, <1>13 DEF IInv

(* A request that only reads. *)
LEMMA StartPreserves ==
  ASSUME IInv, TypeOK', NEW w \in Workers, NEW r, Start(w, r),
         r.op \in InvoiceOps =>
           InvoiceAsSeen(r, invoices[r.invoice], lines[r.invoice], sales[r.invoice],
                         cogs[r.invoice]),
         r.op = "delete_customer_payment" =>
           PaymentAsSeen(r, payments[r.payment], receipts[r.payment]),
         r.op = "create_customer_payment" => r.amount > 0
  PROVE  IInv'
<1>1. UNCHANGED <<documents, ledger>> /\ requests' = [requests EXCEPT ![w] = r]
  BY DEF Start
<1>2. UNCHANGED <<invoices, lines, payments, sales, cogs, receipts>>
  BY <1>1 DEF documents, ledger
<1>3. Exclusive'
  BY StartExcludes DEF IInv
<1>4. SeenIsCurrent'
  <2>1. requests'[w] = r /\ \A v \in Workers : v # w => requests'[v] = requests[v]
    BY <1>1 DEF IInv, TypeOK
  <2> QED BY <1>2, <2>1 DEF IInv, SeenIsCurrent
<1>5. PaymentsRecorded' /\ OneLiveEntry'
  BY <1>2 DEF IInv, PaymentsRecorded, OneLiveEntry
<1>6. PaidIsReceived'
  BY <1>2 DEF IInv, PaidIsReceived, Received, PaymentsOn
<1> QED BY <1>3, <1>4, <1>5, <1>6 DEF IInv

(* The reading step of every operation preserves the invariant: what it
   reads is current. *)
LEMMA LoadPreserves ==
  ASSUME IInv, NEW w \in Workers, Load(w)
  PROVE  IInv'
<1>1. TypeOK'
  BY LoadTyped DEF IInv
<1>2. ASSUME NEW op \in InvoiceOps, NEW i \in Invoices, NEW form,
             StartInvoiceOp(w, op, i, form), Exists(i),
             op = "mark_sent" => invoices[i].status = "draft",
             op # "mark_sent" => invoices[i].paid <= 0,
             op = "update_invoice" => invoices[i].status \in {"draft", "sent"},
             op = "revert_to_draft" => invoices[i].status = "sent"
      PROVE  IInv'
  <2> DEFINE r == [op |-> op, invoice |-> i, payment |-> None, form |-> form,
                   seen |-> SeenInvoice(i)]
  <2>1. Start(w, r)
    BY <1>2 DEF StartInvoiceOp
  <2>2. InvoiceAsSeen(r, invoices[r.invoice], lines[r.invoice], sales[r.invoice],
                      cogs[r.invoice])
    BY <1>2 DEF InvoiceAsSeen, SeenInvoice, Exists
  <2>3. r.op \in InvoiceOps /\ r.op # "delete_customer_payment"
        /\ r.op # "create_customer_payment"
    BY DEF InvoiceOps
  <2> HIDE DEF r
  <2> QED BY <1>1, <2>1, <2>2, <2>3, StartPreserves
<1>3. ASSUME NEW i \in Invoices, NEW form \in Form, LoadUpdate(w, i, form)
      PROVE  IInv'
  BY <1>2, <1>3 DEF LoadUpdate, Exists, Missing, InvoiceOps
<1>4. ASSUME NEW i \in Invoices, LoadMarkSent(w, i) PROVE IInv'
  BY <1>2, <1>4 DEF LoadMarkSent, Exists, Missing, InvoiceOps
<1>5. ASSUME NEW i \in Invoices, LoadMarkVoid(w, i) PROVE IInv'
  BY <1>2, <1>5 DEF LoadMarkVoid, InvoiceOps
<1>6. ASSUME NEW i \in Invoices, LoadRevertToDraft(w, i) PROVE IInv'
  BY <1>2, <1>6 DEF LoadRevertToDraft, Exists, Missing, InvoiceOps
<1>7. ASSUME NEW i \in Invoices, LoadDeleteInvoice(w, i) PROVE IInv'
  BY <1>2, <1>7 DEF LoadDeleteInvoice, InvoiceOps
<1>8. ASSUME NEW i \in Invoices \cup {None}, NEW amount \in Amounts,
             LoadCreatePayment(w, i, amount)
      PROVE  IInv'
  <2> DEFINE r == [op |-> "create_customer_payment", invoice |-> i, payment |-> None,
                   amount |-> amount, account |-> arAccount]
  <2>1. Start(w, r) /\ r.op \notin InvoiceOps /\ r.op # "delete_customer_payment"
        /\ r.amount > 0
    BY <1>8 DEF LoadCreatePayment, InvoiceOps
  <2> HIDE DEF r
  <2> QED BY <1>1, <2>1, StartPreserves
<1>9. ASSUME NEW p \in Payments, LoadDeletePayment(w, p) PROVE IInv'
  <2> DEFINE r == [op |-> "delete_customer_payment", invoice |-> payments[p].invoice,
                   payment |-> p, seen |-> SeenPayment(p)]
  <2>1. Start(w, r) /\ r.op \notin InvoiceOps /\ r.op # "create_customer_payment"
    BY <1>9 DEF LoadDeletePayment, InvoiceOps
  <2>2. PaymentAsSeen(r, payments[r.payment], receipts[r.payment])
    BY <1>9 DEF LoadDeletePayment, PaymentAsSeen, SeenPayment
  <2> HIDE DEF r
  <2> QED BY <1>1, <2>1, <2>2, StartPreserves
<1> QED BY <1>3, <1>4, <1>5, <1>6, <1>7, <1>8, <1>9 DEF Load

(* The invariant holds of an empty set of books. *)
LEMMA InitInvariant ==
  ASSUME Init
  PROVE  IInv
<1>1. TypeOK
  BY InitTyped
<1>2. \A w \in Workers : requests[w] = Idle
  BY DEF Init
<1>3. Exclusive
  <2>1. Uses(Idle) = {}
    BY DEF Uses, Idle
  <2> QED BY <1>2, <2>1 DEF Exclusive
<1>4. SeenIsCurrent
  BY <1>2 DEF SeenIsCurrent, Idle, InvoiceOps
<1>5. PaymentsRecorded
  BY DEF Init, PaymentsRecorded, NoPayment
<1>6. \A i \in Invoices : /\ invoices[i].status \notin Posted /\ invoices[i].paid = 0
                          /\ sales[i] = << >>
  BY DEF Init, NoInvoice, Posted
<1>7. OneLiveEntry
  BY <1>6 DEF OneLiveEntry, StandsOnce, Live
<1>8. PaidIsReceived
  <2> SUFFICES ASSUME NEW i \in Invoices PROVE Received(i) = 0
    BY <1>6 DEF PaidIsReceived, ShowsPaid
  <2>1. PaymentsOn(i) = {}
    BY DEF PaymentsOn, Init, NoPayment
  <2>2. \A f : SumFunctionOnSet(f, {}) = 0
    BY SumUnfolds, FS_EmptySet
  <2> QED BY <2>1, <2>2 DEF Received
<1> QED BY <1>1, <1>3, <1>4, <1>5, <1>7, <1>8 DEF IInv

(* Every step preserves the invariant. *)
LEMMA NextPreserves ==
  ASSUME IInv, Isolated = Ops, [Next]_vars
  PROVE  IInv'
<1>1. ASSUME NEW i \in Invoices, NEW form \in Form, CreateInvoice(i, form) PROVE IInv'
  BY <1>1, CreateInvoicePreserves
<1>2. ASSUME NEW w \in Workers, Load(w) PROVE IInv'
  BY <1>2, LoadPreserves
<1>3. ASSUME NEW w \in Workers, Commit(w) PROVE IInv'
  <2>1. CASE UpdateInvoice(w)
    BY <2>1, UpdateInvoicePreserves
  <2>2. CASE MarkSent(w)
    BY <2>2, MarkSentPreserves
  <2>3. CASE MarkVoid(w)
    BY <2>3, WithdrawPreserves DEF MarkVoid, InvoiceOps
  <2>4. CASE RevertToDraft(w)
    BY <2>4, WithdrawPreserves DEF RevertToDraft, InvoiceOps
  <2>5. CASE DeleteInvoice(w)
    BY <2>5, DeleteInvoicePreserves
  <2>6. CASE \E p \in Payments : CreatePayment(w, p)
    BY <2>6, CreatePaymentPreserves
  <2>7. CASE DeletePayment(w)
    BY <2>7, DeletePaymentPreserves
  <2> QED BY <1>3, <2>1, <2>2, <2>3, <2>4, <2>5, <2>6, <2>7 DEF Commit
<1>4. ASSUME UNCHANGED documents, UNCHANGED ledger, TypeOK', Exclusive', SeenIsCurrent'
      PROVE  IInv'
  <2>1. UNCHANGED <<invoices, payments, sales>>
    BY <1>4 DEF documents, ledger
  <2> QED BY <1>4, <2>1 DEF IInv, PaymentsRecorded, OneLiveEntry, PaidIsReceived,
          Received, PaymentsOn
<1>5. ASSUME NEW w \in Workers, Abort(w) PROVE IInv'
  <2>1. Finish(w) /\ UNCHANGED <<documents, ledger>> /\ TypeOK'
    BY <1>5, NextTyped DEF Abort, IInv, Next
  <2>2. UNCHANGED <<invoices, lines, payments, sales, cogs, receipts>>
    BY <2>1 DEF documents, ledger
  <2>3. Exclusive' /\ SeenIsCurrent'
    BY <2>1, <2>2, FinishExcludes, SnapshotsSurvive DEF IInv
  <2> QED BY <1>4, <2>1, <2>3
<1>6. CASE UpdateContact \/ UNCHANGED vars
  <2>1. UNCHANGED <<documents, ledger, requests>> /\ TypeOK'
    BY <1>6, NextTyped DEF UpdateContact, vars, IInv
  <2>2. UNCHANGED <<invoices, lines, payments, sales, cogs, receipts>>
    BY <2>1 DEF documents, ledger
  <2>3. Exclusive' /\ SeenIsCurrent'
    BY <2>1, <2>2 DEF IInv, Exclusive, Held, Uses, SeenIsCurrent
  <2> QED BY <1>4, <2>1, <2>3
<1> QED BY <1>1, <1>2, <1>3, <1>5, <1>6 DEF Next

(* What stays true of an invoice with payments on it: only the recording and
   the removal of payments can touch it, and neither of them withdraws it or
   changes what it bills. *)
LEMMA NextFreezes ==
  ASSUME IInv, [Next]_vars, NEW i \in Invoices, PaymentsOn(i) # {}
  PROVE  /\ lines'[i] = lines[i]
         /\ invoices'[i].total = invoices[i].total
         /\ invoices'[i].status \in Posted
<1>1. invoices[i].status \in Posted
  BY PaidIsPosted DEF IInv, IsPosted
<1>2. ASSUME UNCHANGED documents PROVE UNCHANGED <<invoices, lines>>
  BY <1>2 DEF documents
<1>3. ASSUME NEW j \in Invoices, NEW form \in Form, CreateInvoice(j, form)
      PROVE  UNCHANGED <<invoices[i], lines[i]>>
  BY <1>1, <1>3 DEF CreateInvoice, Posted, IInv, TypeOK
<1>4. ASSUME NEW w \in Workers, requests[w].op \in InvoiceOps,
             \A j \in Invoices : j # requests[w].invoice =>
                invoices'[j] = invoices[j] /\ lines'[j] = lines[j]
      PROVE  UNCHANGED <<invoices[i], lines[i]>>
  BY <1>4, InvoiceFound
<1>5. ASSUME NEW w \in Workers, Commit(w)
      PROVE  \/ UNCHANGED <<invoices[i], lines[i]>>
             \/ /\ lines' = lines
                /\ \E amount \in Int : invoices'[i] = PaidPlus(invoices[i], amount)
  <2>1. CASE UpdateInvoice(w)
    BY <1>4, <2>1 DEF UpdateInvoice, InvoiceOps, IInv, TypeOK
  <2>2. CASE MarkSent(w)
    BY <1>4, <2>2 DEF MarkSent, InvoiceOps, IInv, TypeOK
  <2>3. CASE MarkVoid(w)
    BY <1>4, <2>3 DEF MarkVoid, Withdraw, InvoiceOps, IInv, TypeOK
  <2>4. CASE RevertToDraft(w)
    BY <1>4, <2>4 DEF RevertToDraft, Withdraw, InvoiceOps, IInv, TypeOK
  <2>5. CASE DeleteInvoice(w)
    BY <1>4, <2>5 DEF DeleteInvoice, InvoiceOps, IInv, TypeOK
  <2>6. CASE \E p \in Payments : CreatePayment(w, p)
    <3>1. requests[w].amount \in Int
      BY <2>6, RequestFields DEF CreatePayment, IInv, TypeOK
    <3>2. /\ lines' = lines
          /\ \/ invoices' = invoices
             \/ invoices' = [invoices EXCEPT ![requests[w].invoice] =
                               PaidPlus(@, requests[w].amount)]
      BY <2>6 DEF CreatePayment, ApplyInvoicePayment
    <3> QED BY <3>1, <3>2 DEF IInv, TypeOK
  <2>7. CASE DeletePayment(w)
    <3>1. -requests[w].seen.row.amount \in Int
      BY <2>7, RequestFields DEF DeletePayment, PaymentSnapshot, PaymentRow, IInv, TypeOK
    <3>2. /\ lines' = lines
          /\ \/ invoices' = invoices
             \/ invoices' = [invoices EXCEPT ![requests[w].invoice] =
                               PaidPlus(@, -requests[w].seen.row.amount)]
      BY <2>7 DEF DeletePayment
    <3> QED BY <3>1, <3>2 DEF IInv, TypeOK
  <2> QED BY <1>5, <2>1, <2>2, <2>3, <2>4, <2>5, <2>6, <2>7 DEF Commit
<1>6. ASSUME NEW amount \in Int, invoices'[i] = PaidPlus(invoices[i], amount)
      PROVE  invoices'[i].total = invoices[i].total /\ invoices'[i].status \in Posted
  BY <1>1, <1>6 DEF PaidPlus, Refreshed, Posted
<1>7. ASSUME NEW w \in Workers, Load(w) PROVE UNCHANGED documents
  BY <1>7 DEF Load, LoadUpdate, LoadMarkSent, LoadMarkVoid, LoadRevertToDraft,
     LoadDeleteInvoice, LoadCreatePayment, LoadDeletePayment, StartInvoiceOp, Start
<1>8. CASE UNCHANGED documents
  BY <1>1, <1>2, <1>8
<1> QED BY <1>1, <1>3, <1>5, <1>6, <1>7, <1>8 DEF Next, Abort, UpdateContact, vars

----------------------------------------------------------------------------
(* Theorems *)

(* With its documents to itself, every request keeps the inductive
   invariant. *)
THEOREM Invariant ==
  ASSUME Isolated = Ops
  PROVE  Spec => []IInv
<1>1. Init => IInv
  BY InitInvariant
<1>2. IInv /\ [Next]_vars => IInv'
  BY NextPreserves
<1> QED BY <1>1, <1>2, PTL DEF Spec

(* Every invoice stands in the journal as its row says: once if it is sent or
   paid, of its total, and not at all otherwise. *)
THEOREM InvoicesStandOnce ==
  ASSUME Isolated = Ops
  PROVE  Spec => []OneLiveEntry
<1>1. IInv => OneLiveEntry
  BY DEF IInv
<1> QED BY <1>1, Invariant, PTL

(* Every invoice shows as paid exactly what was received for it, never more
   than its total. *)
THEOREM PaidColumnIsReceived ==
  ASSUME Isolated = Ops
  PROVE  Spec => []PaidIsReceived
<1>1. IInv => PaidIsReceived
  BY DEF IInv
<1> QED BY <1>1, Invariant, PTL

(* An invoice with a payment recorded is not edited, reverted, voided or
   deleted. *)
THEOREM SettledInvoicesStayFrozen ==
  ASSUME Isolated = Ops
  PROVE  Spec => SettledInvoicesAreFrozen
<1>1. IInv /\ [Next]_vars =>
        [\A i \in Invoices : PaymentsOn(i) # {} =>
           /\ lines'[i] = lines[i]
           /\ invoices'[i].total = invoices[i].total
           /\ invoices'[i].status \in Posted]_vars
  BY NextFreezes
<1> QED BY <1>1, Invariant, PTL DEF Spec, SettledInvoicesAreFrozen

----------------------------------------------------------------------------
(* Stock is never oversold *)

(* Unposting an invoice returns stock, and never takes any. *)
LEMMA UnpostReturnsStock ==
  ASSUME TypeOK, NEW w \in Workers, requests[w].op \in InvoiceOps,
         NEW b \in Unposted(requests[w])
  PROVE  b.stock \in Int /\ b.stock >= stock
<1> DEFINE r == requests[w]
<1>1. UnitsOf(LinesRead(r)) \in Nat /\ stock \in Int
  BY ReadsAreTyped, LineSetTotals DEF TypeOK
<1>2. CASE WasPosted(r)
  <2>1. b.stock = stock + UnitsOf(LinesRead(r))
    BY <1>2 DEF Unposted
  <2> QED BY <1>1, <2>1
<1>3. CASE ~WasPosted(r)
  BY <1>1, <1>3 DEF Unposted, Books
<1> QED BY <1>2, <1>3

(* Posting an invoice takes no more than there is. *)
LEMMA PostCovers ==
  ASSUME NEW b, b.stock \in Int, NEW account, NEW total, NEW ls \in LineSet,
         CanPost(b, total, ls)
  PROVE  Post(b, account, total, ls).stock >= 0
<1>1. UnitsOf(ls) \in Nat
  BY LineSetTotals
<1> QED BY <1>1 DEF CanPost, Post

(* No step leaves the stock negative. *)
LEMMA StockStaysCovered ==
  ASSUME TypeOK, stock >= 0, [Next]_vars
  PROVE  stock' >= 0
<1>1. stock \in Int
  BY DEF TypeOK
<1>2. ASSUME NEW i \in Invoices, NEW form \in Form, CreateInvoice(i, form)
      PROVE  stock' >= 0
  <2>1. CASE form.send
    <3>1. {NewLine(i, form)} \in LineSet /\ Books(i).stock \in Int
      BY <1>1, NewLineTyped DEF Books
    <3>2. /\ CanPost(Books(i), form.amount, {NewLine(i, form)})
          /\ stock' = Post(Books(i), arAccount, form.amount, {NewLine(i, form)}).stock
      BY <1>2, <2>1 DEF CreateInvoice, Record
    <3> QED BY <3>1, <3>2, PostCovers
  <2>2. CASE ~form.send
    BY <1>2, <2>2 DEF CreateInvoice
  <2> QED BY <2>1, <2>2
<1>3. ASSUME NEW w \in Workers, UpdateInvoice(w) PROVE stock' >= 0
  <2> DEFINE r == requests[w]
             i == r.invoice
             send == r.form.send \/ WasPosted(r)
             written == {NewLine(i, r.form)}
  <2>1. r.op = "update_invoice" /\ r.op \in InvoiceOps
    BY <1>3 DEF UpdateInvoice, InvoiceOps
  <2>2. written \in LineSet
    BY <2>1, ReadsAreTyped, RequestFields, NewLineTyped DEF TypeOK
  <2>3. PICK b \in Unposted(r) :
          IF send THEN /\ CanPost(b, r.form.amount, written)
                       /\ Record(i, Post(b, AccountRead(r), r.form.amount, written))
                  ELSE Record(i, b)
    BY <1>3 DEF UpdateInvoice
  <2>4. b.stock \in Int /\ b.stock >= stock
    BY <2>1, UnpostReturnsStock
  <2>5. CASE send
    <3>1. /\ CanPost(b, r.form.amount, written)
          /\ stock' = Post(b, AccountRead(r), r.form.amount, written).stock
      BY <2>3, <2>5 DEF Record
    <3> HIDE DEF r, written
    <3> QED BY <2>2, <2>4, <3>1, PostCovers
  <2>6. CASE ~send
    BY <1>1, <2>3, <2>4, <2>6 DEF Record
  <2> QED BY <2>5, <2>6
<1>4. ASSUME NEW w \in Workers, MarkSent(w) PROVE stock' >= 0
  <2> DEFINE r == requests[w]
             i == r.invoice
  <2>1. r.seen.lines \in LineSet
    BY <1>4, ReadsAreTyped DEF MarkSent, InvoiceOps, InvoiceSnapshot
  <2>2. /\ CanPost(Books(i), r.seen.row.total, r.seen.lines)
        /\ stock' = Post(Books(i), r.seen.account, r.seen.row.total, r.seen.lines).stock
    BY <1>4 DEF MarkSent, Record
  <2>3. Books(i).stock \in Int
    BY <1>1 DEF Books
  <2> HIDE DEF r, i
  <2> QED BY <2>1, <2>2, <2>3, PostCovers
<1>5. ASSUME NEW w \in Workers, requests[w].op \in InvoiceOps,
             \E b \in Unposted(requests[w]) : Record(requests[w].invoice, b)
      PROVE  stock' >= 0
  <2>1. PICK b \in Unposted(requests[w]) : stock' = b.stock
    BY <1>5 DEF Record
  <2>2. b.stock \in Int /\ b.stock >= stock
    BY <1>5, UnpostReturnsStock
  <2> QED BY <1>1, <2>1, <2>2
<1>6. ASSUME NEW w \in Workers, Commit(w) PROVE stock' >= 0
  <2>1. CASE MarkVoid(w) \/ RevertToDraft(w)
    BY <1>5, <2>1 DEF MarkVoid, RevertToDraft, Withdraw, InvoiceOps
  <2>2. CASE DeleteInvoice(w)
    BY <1>5, <2>2 DEF DeleteInvoice, InvoiceOps
  <2>3. CASE DeletePayment(w) \/ \E p \in Payments : CreatePayment(w, p)
    BY <2>3 DEF DeletePayment, CreatePayment
  <2> QED BY <1>3, <1>4, <1>6, <2>1, <2>2, <2>3 DEF Commit
<1>7. ASSUME NEW w \in Workers, Load(w) PROVE UNCHANGED stock
  BY <1>7 DEF Load, LoadUpdate, LoadMarkSent, LoadMarkVoid, LoadRevertToDraft,
     LoadDeleteInvoice, LoadCreatePayment, LoadDeletePayment, StartInvoiceOp, Start
<1> QED BY <1>2, <1>6, <1>7 DEF Next, Abort, UpdateContact, vars

(* However requests interleave, and whether or not they have their documents
   to themselves, no more is sold than there is in stock. *)
THEOREM StockIsCovered == Spec => []NeverOversold
<1>1. Init => NeverOversold
  BY ConstantsAssumption DEF Init, NeverOversold, ConstantsAssumption
<1>2. TypeOK /\ NeverOversold /\ [Next]_vars => NeverOversold'
  BY StockStaysCovered DEF NeverOversold
<1> QED BY <1>1, <1>2, TypeCorrect, PTL DEF Spec

----------------------------------------------------------------------------
(* Payments in the journal and in the register *)

(* What one entry comes to on some accounts. *)
LEMMA NetOfOne ==
  ASSUME NEW entries \in Seq(Entry), Len(entries) = 1, NEW accounts
  PROVE  NetOn(accounts, entries) =
           IF entries[1].account \in accounts
             THEN entries[1].amount * (1 - entries[1].reversals) ELSE 0
<1> DEFINE f == [k \in DOMAIN entries |->
                  IF entries[k].account \in accounts
                    THEN entries[k].amount * (1 - entries[k].reversals) ELSE 0]
<1>1. DOMAIN entries = {1} /\ entries[1] \in Entry
  OBVIOUS
<1>2. f[1] \in Int
  <2>1. entries[1].amount \in Int /\ 1 - entries[1].reversals \in Int
    BY <1>1 DEF Entry
  <2>2. \A a, b \in Int : a * b \in Int
    OBVIOUS
  <2> QED BY <1>1, <2>1, <2>2
<1>3. IsFiniteSet({1})
  BY FS_Singleton
<1>4. SumFunctionOnSet(f, {1}) = f[1]
  <2> HIDE DEF f
  <2> QED BY <1>2, <1>3, SumOfOne
<1>5. NetOn(accounts, entries) = SumFunctionOnSet(f, {1})
  BY <1>1 DEF NetOn
<1> QED BY <1>1, <1>4, <1>5

(* No entries come to nothing. *)
LEMMA NetOfNone ==
  ASSUME NEW accounts
  PROVE  NetOn(accounts, << >>) = 0
<1>1. DOMAIN << >> = {}
  OBVIOUS
<1>2. \A f : SumFunctionOnSet(f, {}) = 0
  BY SumUnfolds, FS_EmptySet
<1> QED BY <1>1, <1>2 DEF NetOn

(* A payment that exists counts in full on the account it was credited to,
   any other not at all. *)
LEMMA PaymentNet ==
  ASSUME TypeOK, PaymentsStand, NEW p \in Payments, NEW accounts
  PROVE  NetOn(accounts, receipts[p]) =
           IF payments[p].state = "live" /\ receipts[p][1].account \in accounts
             THEN payments[p].amount ELSE 0
<1>1. /\ receipts[p] \in Seq(Entry) /\ payments[p] \in PaymentRow
      /\ PaymentStands(payments[p], receipts[p], p \in deposits)
  BY DEF TypeOK, PaymentsStand
<1>2. CASE payments[p].state = "none"
  BY <1>1, <1>2, NetOfNone DEF PaymentStands
<1>3. CASE payments[p].state # "none"
  <2> DEFINE e == receipts[p][1]
  <2>1. /\ Len(receipts[p]) = 1
        /\ e.reversals = IF payments[p].state = "live" THEN 0 ELSE 1
        /\ payments[p].state = "live" => e.amount = payments[p].amount
    BY <1>1, <1>3 DEF PaymentStands
  <2>2. e.amount \in Nat
    <3>1. 1 \in DOMAIN receipts[p]
      BY <1>1, <2>1
    <3>2. e \in Entry
      BY <1>1, <3>1
    <3> QED BY <3>2 DEF Entry
  <2>3. NetOn(accounts, receipts[p]) =
          IF e.account \in accounts THEN e.amount * (1 - e.reversals) ELSE 0
    BY <1>1, <2>1, NetOfOne
  <2>4. \A n \in Nat : n * (1 - 0) = n /\ n * (1 - 1) = 0
    OBVIOUS
  <2> HIDE DEF e
  <2>5. CASE payments[p].state = "live"
    BY <2>1, <2>2, <2>3, <2>4, <2>5 DEF e
  <2>6. CASE payments[p].state # "live"
    BY <2>1, <2>2, <2>3, <2>4, <2>6
  <2> QED BY <2>5, <2>6
<1> QED BY <1>2, <1>3

(* Deleting an invoice leaves the payments alone: there is none on it. *)
LEMMA DeletedHadNoPayments ==
  ASSUME IInv, NEW w \in Workers, DeleteInvoice(w)
  PROVE  payments' = payments
<1> DEFINE i == requests[w].invoice
<1>1. i \in Invoices /\ PaymentsOn(i) = {}
  BY InvoiceFound DEF DeleteInvoice, InvoiceOps
<1>2. \A p \in Payments : payments[p].invoice # i
  <2> SUFFICES ASSUME NEW p \in Payments, payments[p].invoice = i PROVE FALSE
    OBVIOUS
  <2>1. payments[p].state = "live"
    BY <1>1, ConstantsAssumption DEF IInv, PaymentsRecorded, ConstantsAssumption
  <2> QED BY <1>1, <2>1 DEF PaymentsOn
<1>3. payments' = [p \in Payments |-> payments[p]]
  BY <1>2 DEF DeleteInvoice
<1> QED BY <1>3 DEF IInv, TypeOK

(* A payment that is recorded stands in the journal and the register. *)
LEMMA CreatePaymentStands ==
  ASSUME IInv, PaymentsStand, NEW w \in Workers, NEW p \in Payments, CreatePayment(w, p)
  PROVE  PaymentsStand'
<1> DEFINE r == requests[w]
           account == IF r.invoice = None THEN Advances ELSE r.account
<1>1. r.account \in Accounts
  BY RequestFields DEF CreatePayment, IInv, TypeOK
<1>2. \A q \in Payments : q # p =>
        /\ payments'[q] = payments[q] /\ receipts'[q] = receipts[q]
        /\ q \in deposits' <=> q \in deposits
  BY DEF CreatePayment, IInv, TypeOK
<1>3. /\ payments'[p] = [state |-> "live", amount |-> r.amount, invoice |-> r.invoice]
      /\ receipts'[p] = Append(receipts[p], NewEntry(account, r.amount))
      /\ p \in deposits'
  BY DEF CreatePayment, IInv, TypeOK
<1>4. receipts[p] = << >>
  BY DEF PaymentsStand, PaymentStands, CreatePayment
<1>5. /\ Len(receipts'[p]) = 1 /\ receipts'[p][1] = NewEntry(account, r.amount)
  BY <1>3, <1>4
<1>6. PaymentStands(payments'[p], receipts'[p], p \in deposits')
  BY <1>1, <1>3, <1>5 DEF PaymentStands, NewEntry
<1> HIDE DEF r, account
<1> QED BY <1>2, <1>6 DEF PaymentsStand

(* A payment that is deleted is reversed and leaves the register. *)
LEMMA DeletePaymentStands ==
  ASSUME IInv, PaymentsStand, NEW w \in Workers, DeletePayment(w)
  PROVE  PaymentsStand'
<1> DEFINE r == requests[w]
           p == r.payment
<1>1. /\ r.op = "delete_customer_payment" /\ p \in Payments
      /\ r.seen.receipts = receipts[p] /\ payments[p].state = "live"
  BY RequestFields DEF DeletePayment, IInv, TypeOK, SeenIsCurrent, PaymentAsSeen
<1>2. \A q \in Payments : q # p =>
        /\ payments'[q] = payments[q] /\ receipts'[q] = receipts[q]
        /\ q \in deposits' <=> q \in deposits
  BY <1>1 DEF DeletePayment, IInv, TypeOK
<1>3. /\ payments'[p] = [state |-> "deleted", amount |-> 0, invoice |-> None]
      /\ receipts'[p] \in Reversals(receipts[p], receipts[p])
      /\ p \notin deposits'
  BY <1>1 DEF DeletePayment, IInv, TypeOK
<1>4. /\ receipts[p] \in Seq(Entry) /\ Len(receipts[p]) = 1
      /\ receipts[p][1].reversals = 0
  BY <1>1 DEF PaymentsStand, PaymentStands, IInv, TypeOK
<1>5. DOMAIN receipts[p] = {1}
  BY <1>4
<1>6. Live(receipts[p]) = {1}
  BY <1>4, <1>5 DEF Live
<1>7. receipts'[p] = Reverse(receipts[p], {1})
  <2>1. {1} \cup ({1} \cap {1}) = {1} /\ {1} # {}
    OBVIOUS
  <2> HIDE DEF p
  <2> QED BY <1>3, <1>6, <2>1 DEF Reversals
<1>8. Len(receipts'[p]) = 1 /\ receipts'[p][1].reversals = 1
  <2>1. Len(receipts'[p]) = 1
    BY <1>4, <1>7, ReverseIsEntries
  <2>2. receipts'[p][1].reversals = receipts[p][1].reversals + 1
    BY <1>5, <1>7 DEF Reverse
  <2> QED BY <1>4, <2>1, <2>2
<1>9. PaymentStands(payments'[p], receipts'[p], p \in deposits')
  BY <1>3, <1>8 DEF PaymentStands
<1> HIDE DEF r, p
<1> QED BY <1>2, <1>9 DEF PaymentsStand

(* Every step keeps each payment standing as its row says. *)
LEMMA PaymentsStayStanding ==
  ASSUME IInv, PaymentsStand, [Next]_vars
  PROVE  PaymentsStand'
<1>1. ASSUME UNCHANGED <<payments, receipts, deposits>> PROVE PaymentsStand'
  BY <1>1 DEF PaymentsStand
<1>2. ASSUME NEW i \in Invoices, NEW form \in Form, CreateInvoice(i, form)
      PROVE  UNCHANGED <<payments, receipts, deposits>>
  BY <1>2 DEF CreateInvoice
<1>3. ASSUME NEW w \in Workers, Commit(w) PROVE PaymentsStand'
  <2>1. CASE UpdateInvoice(w) \/ MarkSent(w) \/ MarkVoid(w) \/ RevertToDraft(w)
    BY <1>1, <2>1 DEF UpdateInvoice, MarkSent, MarkVoid, RevertToDraft, Withdraw
  <2>2. CASE DeleteInvoice(w)
    BY <1>1, <2>2, DeletedHadNoPayments DEF DeleteInvoice
  <2> QED BY <1>3, <2>1, <2>2, CreatePaymentStands, DeletePaymentStands DEF Commit
<1>4. ASSUME NEW w \in Workers, Load(w) PROVE UNCHANGED <<documents, ledger, deposits>>
  BY <1>4 DEF Load, LoadUpdate, LoadMarkSent, LoadMarkVoid, LoadRevertToDraft,
     LoadDeleteInvoice, LoadCreatePayment, LoadDeletePayment, StartInvoiceOp, Start
<1>5. CASE UNCHANGED <<documents, ledger, deposits>>
  BY <1>1, <1>5 DEF documents, ledger
<1> QED BY <1>1, <1>2, <1>3, <1>4, <1>5 DEF Next, Abort, UpdateContact, vars

----------------------------------------------------------------------------
(* Invoices in the journal and the stock *)

(* What the lines of an invoice carry, and what of it is sold. *)
LEMMA SoldIsNat ==
  ASSUME TypeOK, NEW i \in Invoices
  PROVE  Sold(i) \in Nat /\ UnitsOf(lines[i]) \in Nat
<1>1. lines[i] \in LineSet
  BY DEF TypeOK
<1> QED BY <1>1, LineSetTotals DEF Sold

(* Reversing entries leaves them on their accounts. *)
LEMMA ReversalsKeepAccounts ==
  ASSUME NEW seen, NEW now \in Seq(Entry), NEW s \in Reversals(seen, now),
         \A k \in DOMAIN now : now[k].account \in Accounts
  PROVE  \A k \in DOMAIN s : s[k].account \in Accounts
<1>1. CASE s = now
  BY <1>1
<1>2. ASSUME NEW ks, s = Reverse(now, ks)
      PROVE  \A k \in DOMAIN s : s[k].account \in Accounts
  <2>1. DOMAIN s = DOMAIN now
    BY <1>2, ReverseIsEntries
  <2>2. \A k \in DOMAIN now : s[k].account = now[k].account
    BY <1>2 DEF Reverse
  <2> QED BY <2>1, <2>2
<1> QED BY <1>1, <1>2 DEF Reversals

(* What a request that unposts its invoice leaves: its stock returned, and
   none of its entries standing. *)
LEMMA UnpostedBooks ==
  ASSUME IInv, CostsStand, OnReceivables, NEW w \in Workers,
         requests[w].op \in InvoiceOps, NEW b \in Unposted(requests[w])
  PROVE  LET i == requests[w].invoice
         IN /\ i \in Invoices /\ LinesRead(requests[w]) = lines[i]
            /\ b.stock = stock + Sold(i)
            /\ b.sales \in Seq(Entry)
            /\ \A k \in DOMAIN b.sales : b.sales[k].account \in Accounts
            /\ b.cogs \in Seq(Entry) /\ Live(b.cogs) = {}
            /\ \A k \in DOMAIN b.cogs : b.cogs[k].reversals <= 1
<1> DEFINE r == requests[w]
           i == r.invoice
<1>1. /\ i \in Invoices /\ InvoiceAsSeen(r, invoices[i], lines[i], sales[i], cogs[i])
      /\ invoices[i] \in Row
  BY InvoiceFound
<1>2. /\ r.seen.row = invoices[i] /\ r.seen.sales = sales[i]
      /\ LinesRead(r) = lines[i] /\ CogsRead(r) = cogs[i]
  BY <1>1 DEF InvoiceAsSeen, LinesRead, CogsRead
<1>3. WasPosted(r) <=> IsPosted(i)
  BY <1>1, <1>2 DEF InvoiceAsSeen, WasPosted, IsPosted, Posted, Missing, Row
<1>4. /\ sales[i] \in Seq(Entry) /\ cogs[i] \in Seq(Entry) /\ stock \in Int
      /\ \A k \in DOMAIN sales[i] : sales[i][k].account \in Accounts
      /\ StandsOnce(CostRow(i), cogs[i])
  BY <1>1 DEF IInv, TypeOK, OnReceivables, CostsStand
<1>5. CASE WasPosted(r)
  <2>1. PICK s \in Reversals(sales[i], sales[i]), c \in Reversals(cogs[i], cogs[i]) :
          b = [sales |-> s, cogs |-> c, stock |-> stock + UnitsOf(lines[i])]
    BY <1>2, <1>5 DEF Unposted
  <2>2. s \in Seq(Entry) /\ c \in Seq(Entry)
    BY <1>4, ReversalsAreEntries
  <2>3. \A k \in DOMAIN s : s[k].account \in Accounts
    BY <1>4, ReversalsKeepAccounts
  <2>4. Live(c) = {} /\ \A k \in DOMAIN c : c[k].reversals <= 1
    BY <1>4, ReversalsLeaveNothing DEF StandsOnce
  <2>5. b.stock = stock + Sold(i)
    BY <1>3, <1>5, <2>1 DEF Sold
  <2> QED BY <1>1, <1>2, <2>1, <2>2, <2>3, <2>4, <2>5
<1>6. CASE ~WasPosted(r)
  <2>1. b = Books(i)
    BY <1>6 DEF Unposted
  <2>2. Sold(i) = 0
    BY <1>3, <1>6 DEF Sold
  <2>3. CostRow(i).status \notin Posted
    <3>1. UnitCost * 0 = 0
      BY ConstantsAssumption DEF ConstantsAssumption
    <3> QED BY <2>2, <3>1 DEF CostRow, Posted
  <2>4. Live(cogs[i]) = {} /\ \A k \in DOMAIN cogs[i] : cogs[i][k].reversals <= 1
    BY <1>4, <2>3 DEF StandsOnce
  <2>5. b.stock = stock + Sold(i)
    BY <1>4, <2>1, <2>2 DEF Books
  <2> QED BY <1>1, <1>2, <1>4, <2>1, <2>4, <2>5 DEF Books
<1> QED BY <1>5, <1>6

(* Posting lines makes their cost stand, and takes their units. *)
LEMMA PostedBooks ==
  ASSUME NEW b, b.sales \in Seq(Entry), b.cogs \in Seq(Entry), Live(b.cogs) = {},
         \A k \in DOMAIN b.cogs : b.cogs[k].reversals <= 1,
         \A k \in DOMAIN b.sales : b.sales[k].account \in Accounts,
         NEW account \in Accounts, NEW total \in Nat, NEW ls \in LineSet
  PROVE  LET cost == UnitCost * UnitsOf(ls)
             after == Post(b, account, total, ls)
         IN /\ after.stock = b.stock - UnitsOf(ls)
            /\ \A k \in DOMAIN after.sales : after.sales[k].account \in Accounts
            /\ StandsOnce([status |-> IF cost > 0 THEN "sent" ELSE "draft", total |-> cost],
                          after.cogs)
<1> DEFINE cost == UnitCost * UnitsOf(ls)
           after == Post(b, account, total, ls)
           row == [status |-> IF cost > 0 THEN "sent" ELSE "draft", total |-> cost]
<1>1. after.stock = b.stock - UnitsOf(ls)
  BY DEF Post
<1>2. \A k \in DOMAIN after.sales : after.sales[k].account \in Accounts
  <2> DEFINE e == NewEntry(account, total)
  <2>1. after.sales = Append(b.sales, e) /\ e.account \in Accounts
    BY DEF Post, NewEntry
  <2>2. ASSUME NEW k \in DOMAIN Append(b.sales, e)
        PROVE  \/ Append(b.sales, e)[k] = e
               \/ k \in DOMAIN b.sales /\ Append(b.sales, e)[k] = b.sales[k]
    <3> HIDE DEF e
    <3> QED OBVIOUS
  <2> HIDE DEF e, after
  <2> QED BY <2>1, <2>2
<1>3. CASE cost > 0
  <2>1. row.status \in Posted /\ row.total = cost
    BY <1>3 DEF Posted
  <2>2. after.cogs = Append(b.cogs, NewEntry(Inventory, row.total))
    BY <1>3 DEF Post
  <2>3. StandsOnce(row, after.cogs)
    <3> HIDE DEF row, after
    <3> QED BY <2>1, <2>2, PostStandsOnce
  <2> QED BY <1>1, <1>2, <2>3
<1>4. CASE ~(cost > 0)
  <2>1. row.status \notin Posted
    BY <1>4 DEF Posted
  <2>2. after.cogs = b.cogs
    BY <1>4 DEF Post
  <2>3. StandsOnce(row, after.cogs)
    BY <2>1, <2>2 DEF StandsOnce
  <2> QED BY <1>1, <1>2, <2>3
<1> QED BY <1>3, <1>4

(* The stock follows one invoice that is posted or unposted. *)
LEMMA StockFollows ==
  ASSUME TypeOK, TypeOK', NEW i \in Invoices,
         \A j \in Invoices : j # i =>
            /\ IsPosted(j)' <=> IsPosted(j)
            /\ lines'[j] = lines[j],
         stock = OpeningStock - Sum([j \in Invoices |-> Sold(j)]),
         stock' = stock + Sold(i) - Sold(i)'
  PROVE  stock' = OpeningStock - Sum([j \in Invoices |-> Sold(j)])'
<1> DEFINE f == [j \in Invoices |-> Sold(j)]
           g == [j \in Invoices |-> Sold(j)']
<1>1. IsFiniteSet(Invoices) /\ OpeningStock \in Int
  BY ConstantsAssumption DEF ConstantsAssumption
<1>2. \A j \in Invoices : f[j] \in Int /\ g[j] \in Int
  <2>1. \A j \in Invoices : Sold(j) \in Nat
    BY SoldIsNat
  <2>2. \A j \in Invoices : Sold(j)' \in Nat
    <3> SUFFICES ASSUME NEW j \in Invoices PROVE Sold(j)' \in Nat
      OBVIOUS
    <3>1. lines'[j] \in LineSet
      BY DEF TypeOK
    <3> QED BY <3>1, LineSetTotals DEF Sold
  <2> QED BY <2>1, <2>2
<1>3. \A j \in Invoices \ {i} : f[j] = g[j]
  BY DEF Sold
<1>4. SumFunctionOnSet(g, Invoices) = SumFunctionOnSet(f, Invoices) + (g[i] - f[i])
  <2> HIDE DEF f, g
  <2> QED BY <1>1, <1>2, <1>3, SumChanges
<1>5. SumFunctionOnSet(f, Invoices) \in Int
  <2> HIDE DEF f
  <2> QED BY <1>1, <1>2, SumIsInt
<1>6. /\ Sum([j \in Invoices |-> Sold(j)]) = SumFunctionOnSet(f, Invoices)
      /\ Sum([j \in Invoices |-> Sold(j)])' = SumFunctionOnSet(g, Invoices)
  BY DEF Sum
<1>7. f[i] = Sold(i) /\ g[i] = Sold(i)' /\ f[i] \in Int /\ g[i] \in Int
  BY <1>2
<1> HIDE DEF f, g
<1>8. stock = OpeningStock - SumFunctionOnSet(f, Invoices)
  BY <1>6
<1> QED BY <1>1, <1>4, <1>5, <1>6, <1>7, <1>8

(* An operation that moves the books of one invoice alone. *)
LEMMA InvoiceMoves ==
  ASSUME BooksInv, TypeOK', [Next]_vars, NEW i \in Invoices,
         \A j \in Invoices : j # i =>
            /\ IsPosted(j)' <=> IsPosted(j)
            /\ lines'[j] = lines[j] /\ sales'[j] = sales[j] /\ cogs'[j] = cogs[j],
         stock' = stock + Sold(i) - Sold(i)',
         StandsOnce(CostRow(i)', cogs'[i]),
         \A k \in DOMAIN sales'[i] : sales'[i][k].account \in Accounts
  PROVE  OnReceivables' /\ CostsStand' /\ StockLeft'
<1>1. OnReceivables'
  BY DEF BooksInv, OnReceivables
<1>2. CostsStand'
  <2> SUFFICES ASSUME NEW j \in Invoices, j # i PROVE StandsOnce(CostRow(j)', cogs'[j])
    BY DEF CostsStand
  <2>1. CostRow(j)' = CostRow(j)
    BY DEF CostRow, Sold
  <2> QED BY <2>1 DEF BooksInv, CostsStand
<1>3. stock' >= 0
  BY StockStaysCovered DEF BooksInv, IInv, StockLeft
<1>4. stock' = OpeningStock - Sum([j \in Invoices |-> Sold(j)])'
  BY StockFollows DEF BooksInv, IInv, StockLeft
<1> QED BY <1>1, <1>2, <1>3, <1>4 DEF StockLeft

(* A step that leaves invoices posted as they are leaves their books. *)
LEMMA BooksUnmoved ==
  ASSUME BooksInv, \A j \in Invoices : IsPosted(j)' <=> IsPosted(j),
         UNCHANGED <<lines, sales, cogs, stock>>
  PROVE  OnReceivables' /\ CostsStand' /\ StockLeft'
<1>1. OnReceivables'
  BY DEF BooksInv, OnReceivables
<1>2. \A j \in Invoices : Sold(j)' = Sold(j) /\ CostRow(j)' = CostRow(j)
  BY DEF Sold, CostRow
<1>3. CostsStand'
  BY <1>2 DEF BooksInv, CostsStand
<1>4. [j \in Invoices |-> Sold(j)]' = [j \in Invoices |-> Sold(j)]
  BY <1>2
<1>5. StockLeft'
  BY <1>4 DEF BooksInv, StockLeft, Sum
<1> QED BY <1>1, <1>3, <1>5

----------------------------------------------------------------------------
(* Steps of the books *)

(* create_invoice moves the books of its invoice. *)
LEMMA CreateInvoiceMoves ==
  ASSUME BooksInv, NEW i \in Invoices, NEW form \in Form, CreateInvoice(i, form)
  PROVE  OnReceivables' /\ CostsStand' /\ StockLeft'
<1> DEFINE written == {NewLine(i, form)}
<1>1. TypeOK' /\ [Next]_vars /\ stock \in Int
  BY CreateInvoiceTyped DEF BooksInv, IInv, TypeOK, Next
<1>2. /\ invoices'[i].status = (IF form.send THEN "sent" ELSE "draft")
      /\ lines'[i] = written
      /\ \A j \in Invoices : j # i => invoices'[j] = invoices[j] /\ lines'[j] = lines[j]
                                     /\ sales'[j] = sales[j] /\ cogs'[j] = cogs[j]
  BY DEF CreateInvoice, Record, BooksInv, IInv, TypeOK
<1>3. Sold(i) = 0
  BY DEF CreateInvoice, Sold, IsPosted, Posted
<1>4. /\ sales[i] \in Seq(Entry) /\ cogs[i] \in Seq(Entry)
      /\ \A k \in DOMAIN sales[i] : sales[i][k].account \in Accounts
      /\ Live(cogs[i]) = {} /\ \A k \in DOMAIN cogs[i] : cogs[i][k].reversals <= 1
  <2>1. CostRow(i).status \notin Posted
    <3>1. UnitCost * 0 = 0
      BY ConstantsAssumption DEF ConstantsAssumption
    <3> QED BY <1>3, <3>1 DEF CostRow, Posted
  <2> QED BY <2>1 DEF BooksInv, IInv, TypeOK, OnReceivables, CostsStand, StandsOnce
<1>5. CASE form.send
  <2> DEFINE b == Books(i)
             after == Post(b, arAccount, form.amount, written)
  <2>1. written \in LineSet /\ form.amount \in Nat /\ arAccount \in Accounts
    BY NewLineTyped, ConstantsAssumption DEF BooksInv, IInv, TypeOK, Form, ConstantsAssumption
  <2>2. /\ sales'[i] = after.sales /\ cogs'[i] = after.cogs /\ stock' = after.stock
    BY <1>5 DEF CreateInvoice, Record, BooksInv, IInv, TypeOK
  <2>3. /\ b.sales = sales[i] /\ b.cogs = cogs[i] /\ b.stock = stock
    BY DEF Books
  <2>4. Sold(i)' = UnitsOf(written)
    BY <1>2, <1>5 DEF Sold, IsPosted, Posted
  <2> HIDE DEF b, written
  <2>5. /\ after.stock = stock - UnitsOf(written)
        /\ \A k \in DOMAIN after.sales : after.sales[k].account \in Accounts
        /\ StandsOnce([status |-> IF UnitCost * UnitsOf(written) > 0 THEN "sent" ELSE "draft",
                       total |-> UnitCost * UnitsOf(written)], after.cogs)
    BY <1>4, <2>1, <2>3, PostedBooks
  <2>6. StandsOnce(CostRow(i)', cogs'[i])
    BY <2>2, <2>4, <2>5 DEF CostRow
  <2>7. UnitsOf(written) \in Nat
    BY <2>1, LineSetTotals
  <2>8. stock' = stock + Sold(i) - Sold(i)'
    BY <1>1, <1>3, <2>2, <2>4, <2>5, <2>7
  <2>9. \A k \in DOMAIN sales'[i] : sales'[i][k].account \in Accounts
    BY <2>2, <2>5
  <2>10. \A j \in Invoices : j # i => (IsPosted(j)' <=> IsPosted(j))
    BY <1>2 DEF IsPosted
  <2> QED BY <1>1, <1>2, <2>6, <2>8, <2>9, <2>10, InvoiceMoves
<1>6. CASE ~form.send
  <2>1. UNCHANGED <<sales, cogs, stock>>
    BY <1>6 DEF CreateInvoice
  <2>2. Sold(i)' = 0
    BY <1>2, <1>6 DEF Sold, IsPosted, Posted
  <2>3. CostRow(i)' = CostRow(i)
    BY <1>3, <2>2 DEF CostRow
  <2>4. stock' = stock + Sold(i) - Sold(i)'
    BY <1>1, <1>3, <2>1, <2>2
  <2>5. StandsOnce(CostRow(i)', cogs'[i])
    BY <2>1, <2>3 DEF BooksInv, CostsStand
  <2>6. \A k \in DOMAIN sales'[i] : sales'[i][k].account \in Accounts
    BY <1>4, <2>1
  <2>7. \A j \in Invoices : j # i => (IsPosted(j)' <=> IsPosted(j))
    BY <1>2 DEF IsPosted
  <2> QED BY <1>1, <1>2, <2>4, <2>5, <2>6, <2>7, InvoiceMoves
<1> QED BY <1>5, <1>6

(* update_invoice moves the books of its invoice, from its old lines to its
   new one. *)
LEMMA UpdateInvoiceMoves ==
  ASSUME BooksInv, NEW w \in Workers, NEW i \in Invoices, i = requests[w].invoice,
         UpdateInvoice(w)
  PROVE  OnReceivables' /\ CostsStand' /\ StockLeft'
<1> DEFINE r == requests[w]
           send == r.form.send \/ WasPosted(r)
           written == {NewLine(i, r.form)}
<1>1. r.op = "update_invoice" /\ r.op \in InvoiceOps
  BY DEF UpdateInvoice, InvoiceOps
<1>2. /\ i \in Invoices /\ r.seen.row = invoices[i] /\ r.form \in Form
      /\ written \in LineSet /\ r.form.amount \in Nat /\ AccountRead(r) \in Accounts
  <2>1. i \in Invoices /\ r.seen.row = invoices[i] /\ AccountRead(r) \in Accounts
    BY <1>1, InvoiceFound, ReadsAreTyped DEF InvoiceAsSeen, BooksInv, IInv
  <2>2. r.form \in Form
    BY <1>1, RequestFields DEF BooksInv, IInv, TypeOK
  <2> QED BY <2>1, <2>2, NewLineTyped, ConstantsAssumption
          DEF BooksInv, IInv, Form, ConstantsAssumption
<1>3. TypeOK' /\ [Next]_vars /\ stock \in Int
  BY UpdateInvoiceTyped DEF BooksInv, IInv, TypeOK, Next, Commit
<1>4. PICK b \in Unposted(r) :
        IF send THEN Record(i, Post(b, AccountRead(r), r.form.amount, written))
                ELSE Record(i, b)
  BY DEF UpdateInvoice
<1>5. /\ LinesRead(r) = lines[i] /\ b.stock = stock + Sold(i)
      /\ b.sales \in Seq(Entry)
      /\ \A k \in DOMAIN b.sales : b.sales[k].account \in Accounts
      /\ b.cogs \in Seq(Entry) /\ Live(b.cogs) = {}
      /\ \A k \in DOMAIN b.cogs : b.cogs[k].reversals <= 1
  BY <1>1, UnpostedBooks DEF BooksInv
<1>6. \A j \in Invoices : j # i =>
         /\ IsPosted(j)' <=> IsPosted(j)
         /\ lines'[j] = lines[j] /\ sales'[j] = sales[j] /\ cogs'[j] = cogs[j]
  <2>1. \A j \in Invoices : j # i => sales'[j] = sales[j] /\ cogs'[j] = cogs[j]
    BY <1>4 DEF Record, BooksInv, IInv, TypeOK
  <2>2. \A j \in Invoices : j # i => invoices'[j] = invoices[j] /\ lines'[j] = lines[j]
    BY DEF UpdateInvoice, BooksInv, IInv, TypeOK
  <2> QED BY <2>1, <2>2 DEF IsPosted
<1>7. lines'[i] = written
  <2>1. lines' = [lines EXCEPT ![i] = (lines[i] \ LinesRead(r)) \cup written]
    BY DEF UpdateInvoice
  <2> HIDE DEF written, r
  <2>2. lines'[i] = (lines[i] \ lines[i]) \cup written
    BY <1>2, <1>5, <2>1 DEF BooksInv, IInv, TypeOK
  <2> QED BY <2>2
<1>8. invoices'[i].status = IF send THEN "sent" ELSE "draft"
  <2>1. invoices'[i] = Flush(invoices[i], invoices[i],
          [status |-> IF send THEN "sent" ELSE "draft", total |-> r.form.amount])
    BY <1>2 DEF UpdateInvoice, BooksInv, IInv, TypeOK
  <2> HIDE DEF send
  <2> QED BY <2>1 DEF Flush
<1>9. UnitsOf(written) \in Nat /\ Sold(i) \in Nat
  BY <1>2, LineSetTotals, SoldIsNat DEF BooksInv, IInv
<1>10. CASE send
  <2> DEFINE after == Post(b, AccountRead(r), r.form.amount, written)
  <2>1. /\ sales'[i] = after.sales /\ cogs'[i] = after.cogs /\ stock' = after.stock
    BY <1>2, <1>4, <1>10 DEF Record, BooksInv, IInv, TypeOK
  <2>2. Sold(i)' = UnitsOf(written)
    <3>1. IsPosted(i)'
      BY <1>8, <1>10 DEF IsPosted, Posted
    <3> QED BY <1>7, <3>1 DEF Sold
  <2> HIDE DEF r, written, send
  <2>3. /\ after.stock = b.stock - UnitsOf(written)
        /\ \A k \in DOMAIN after.sales : after.sales[k].account \in Accounts
        /\ StandsOnce([status |-> IF UnitCost * UnitsOf(written) > 0 THEN "sent" ELSE "draft",
                       total |-> UnitCost * UnitsOf(written)], after.cogs)
    BY <1>2, <1>5, PostedBooks
  <2>4. StandsOnce(CostRow(i)', cogs'[i])
    BY <2>1, <2>2, <2>3 DEF CostRow
  <2>5. stock' = stock + Sold(i) - Sold(i)'
    BY <1>3, <1>5, <1>9, <2>1, <2>2, <2>3
  <2>6. \A k \in DOMAIN sales'[i] : sales'[i][k].account \in Accounts
    BY <2>1, <2>3
  <2> QED BY <1>2, <1>3, <1>6, <2>4, <2>5, <2>6, InvoiceMoves
<1>11. CASE ~send
  <2>1. /\ sales'[i] = b.sales /\ cogs'[i] = b.cogs /\ stock' = b.stock
    BY <1>2, <1>4, <1>11 DEF Record, BooksInv, IInv, TypeOK
  <2>2. Sold(i)' = 0
    <3>1. ~IsPosted(i)'
      BY <1>8, <1>11 DEF IsPosted, Posted
    <3> QED BY <3>1 DEF Sold
  <2>3. StandsOnce(CostRow(i)', cogs'[i])
    <3>1. CostRow(i)'.status \notin Posted
      <4>1. UnitCost * 0 = 0
        BY ConstantsAssumption DEF ConstantsAssumption
      <4> QED BY <2>2, <4>1 DEF CostRow, Posted
    <3> QED BY <1>5, <2>1, <3>1 DEF StandsOnce
  <2> HIDE DEF r, written, send
  <2>4. stock' = stock + Sold(i) - Sold(i)'
    BY <1>3, <1>5, <1>9, <2>1, <2>2
  <2>5. \A k \in DOMAIN sales'[i] : sales'[i][k].account \in Accounts
    BY <1>5, <2>1
  <2> QED BY <1>2, <1>3, <1>6, <2>3, <2>4, <2>5, InvoiceMoves
<1> QED BY <1>10, <1>11

(* Marking a draft as sent moves the books of its invoice by its lines. *)
LEMMA MarkSentMoves ==
  ASSUME BooksInv, NEW w \in Workers, NEW i \in Invoices, i = requests[w].invoice,
         MarkSent(w)
  PROVE  OnReceivables' /\ CostsStand' /\ StockLeft'
<1> DEFINE r == requests[w]
           b == Books(i)
           after == Post(b, r.seen.account, r.seen.row.total, r.seen.lines)
<1>1. r.op = "mark_sent" /\ r.op \in InvoiceOps
  BY DEF MarkSent, InvoiceOps
<1>2. /\ i \in Invoices /\ r.seen.lines = lines[i] /\ invoices[i].status = "draft"
      /\ r.seen.account \in Accounts /\ r.seen.row.total \in Nat /\ lines[i] \in LineSet
  <2>1. i \in Invoices /\ InvoiceAsSeen(r, invoices[i], lines[i], sales[i], cogs[i])
    BY <1>1, InvoiceFound DEF BooksInv
  <2>2. r.seen \in InvoiceSnapshot
    BY <1>1, ReadsAreTyped DEF BooksInv, IInv
  <2> QED BY <1>1, <2>1, <2>2 DEF InvoiceAsSeen, InvoiceSnapshot, Row, BooksInv, IInv, TypeOK
<1>3. TypeOK' /\ [Next]_vars /\ stock \in Int
  BY MarkSentTyped DEF BooksInv, IInv, TypeOK, Next, Commit
<1>4. Sold(i) = 0 /\ Sold(i)' = UnitsOf(lines[i]) /\ UnitsOf(lines[i]) \in Nat
  <2>1. ~IsPosted(i)
    BY <1>2 DEF IsPosted, Posted
  <2>2. IsPosted(i)' /\ lines' = lines
    BY <1>2 DEF MarkSent, IsPosted, Posted, BooksInv, IInv, TypeOK
  <2> QED BY <1>2, <2>1, <2>2, LineSetTotals DEF Sold
<1>5. /\ b.sales \in Seq(Entry) /\ b.cogs \in Seq(Entry) /\ b.stock = stock
      /\ \A k \in DOMAIN b.sales : b.sales[k].account \in Accounts
      /\ Live(b.cogs) = {} /\ \A k \in DOMAIN b.cogs : b.cogs[k].reversals <= 1
  <2>1. CostRow(i).status \notin Posted
    <3>1. UnitCost * 0 = 0
      BY ConstantsAssumption DEF ConstantsAssumption
    <3> QED BY <1>4, <3>1 DEF CostRow, Posted
  <2> QED BY <1>2, <2>1 DEF Books, BooksInv, IInv, TypeOK, OnReceivables, CostsStand, StandsOnce
<1>6. \A j \in Invoices : j # i =>
         /\ IsPosted(j)' <=> IsPosted(j)
         /\ lines'[j] = lines[j] /\ sales'[j] = sales[j] /\ cogs'[j] = cogs[j]
  BY DEF MarkSent, Record, IsPosted, BooksInv, IInv, TypeOK
<1>7. /\ sales'[i] = after.sales /\ cogs'[i] = after.cogs /\ stock' = after.stock
  BY <1>2 DEF MarkSent, Record, BooksInv, IInv, TypeOK
<1> HIDE DEF r, b
<1>8. /\ after.stock = b.stock - UnitsOf(lines[i])
      /\ \A k \in DOMAIN after.sales : after.sales[k].account \in Accounts
      /\ StandsOnce([status |-> IF UnitCost * UnitsOf(lines[i]) > 0 THEN "sent" ELSE "draft",
                     total |-> UnitCost * UnitsOf(lines[i])], after.cogs)
  BY <1>2, <1>5, PostedBooks
<1>9. StandsOnce(CostRow(i)', cogs'[i])
  BY <1>4, <1>7, <1>8 DEF CostRow
<1>10. stock' = stock + Sold(i) - Sold(i)'
  BY <1>3, <1>4, <1>5, <1>7, <1>8
<1>11. \A k \in DOMAIN sales'[i] : sales'[i][k].account \in Accounts
  BY <1>7, <1>8
<1> QED BY <1>2, <1>3, <1>6, <1>9, <1>10, <1>11, InvoiceMoves

(* Voiding, reverting or deleting an invoice moves its books back. *)
LEMMA WithdrawnMoves ==
  ASSUME BooksInv, TypeOK', [Next]_vars, NEW w \in Workers, requests[w].op \in InvoiceOps,
         NEW i \in Invoices, i = requests[w].invoice,
         \E b \in Unposted(requests[w]) : Record(i, b), ~IsPosted(i)',
         \A j \in Invoices : j # i =>
            invoices'[j] = invoices[j] /\ lines'[j] = lines[j]
  PROVE  OnReceivables' /\ CostsStand' /\ StockLeft'
<1> DEFINE r == requests[w]
<1>1. PICK b \in Unposted(r) : Record(i, b)
  OBVIOUS
<1>2. /\ i \in Invoices /\ b.stock = stock + Sold(i)
      /\ \A k \in DOMAIN b.sales : b.sales[k].account \in Accounts
      /\ Live(b.cogs) = {} /\ \A k \in DOMAIN b.cogs : b.cogs[k].reversals <= 1
  BY UnpostedBooks DEF BooksInv
<1>3. /\ sales'[i] = b.sales /\ cogs'[i] = b.cogs /\ stock' = b.stock
      /\ \A j \in Invoices : j # i => sales'[j] = sales[j] /\ cogs'[j] = cogs[j]
  BY <1>1, <1>2 DEF Record, BooksInv, IInv, TypeOK
<1>4. Sold(i)' = 0
  BY DEF Sold
<1>5. StandsOnce(CostRow(i)', cogs'[i])
  <2>1. CostRow(i)'.status \notin Posted
    <3>1. UnitCost * 0 = 0
      BY ConstantsAssumption DEF ConstantsAssumption
    <3> QED BY <1>4, <3>1 DEF CostRow, Posted
  <2> QED BY <1>2, <1>3, <2>1 DEF StandsOnce
<1>6. \A j \in Invoices : j # i => (IsPosted(j)' <=> IsPosted(j))
  BY DEF IsPosted
<1>7. Sold(i) \in Nat /\ stock \in Int
  BY <1>2, SoldIsNat DEF BooksInv, IInv, TypeOK
<1>8. \A j \in Invoices : j # i => lines'[j] = lines[j]
  OBVIOUS
<1> HIDE DEF r
<1>9. stock' = stock + Sold(i) - Sold(i)'
  BY <1>2, <1>3, <1>4, <1>7
<1>10. \A k \in DOMAIN sales'[i] : sales'[i][k].account \in Accounts
  BY <1>2, <1>3
<1> QED BY <1>2, <1>3, <1>5, <1>6, <1>8, <1>9, <1>10, InvoiceMoves

(* Payments leave invoices posted as they are. *)
LEMMA PaymentsKeepPosted ==
  ASSUME BooksInv, NEW w \in Workers,
         DeletePayment(w) \/ \E p \in Payments : CreatePayment(w, p),
         NEW j \in Invoices
  PROVE  IsPosted(j)' <=> IsPosted(j)
<1> DEFINE r == requests[w]
           i == r.invoice
<1>1. \A row, amount : row.status \in Posted => PaidPlus(row, amount).status \in Posted
  BY DEF PaidPlus, Refreshed, Posted
<1>2. CASE invoices'[j] = invoices[j]
  BY <1>2 DEF IsPosted
<1>3. CASE invoices'[j] # invoices[j]
  <2>1. CASE \E p \in Payments : CreatePayment(w, p)
    <3>1. /\ j = i /\ invoices[j].status \in Payable
          /\ invoices'[j] = PaidPlus(invoices[j], r.amount)
      BY <1>3, <2>1 DEF CreatePayment, ApplyInvoicePayment, BooksInv, IInv, TypeOK
    <3>2. invoices[j].status \in Posted
      BY <3>1 DEF Payable, Posted
    <3> QED BY <1>1, <3>1, <3>2 DEF IsPosted
  <2>2. CASE DeletePayment(w)
    <3>1. j = i /\ invoices'[j] = PaidPlus(invoices[j], -r.seen.row.amount)
      BY <1>3, <2>2 DEF DeletePayment, BooksInv, IInv, TypeOK
    <3>2. r.payment \in Payments /\ r.payment \in PaymentsOn(j)
      BY <2>2, <3>1, RequestFields
         DEF DeletePayment, PaymentsOn, BooksInv, IInv, TypeOK, SeenIsCurrent, PaymentAsSeen
    <3>3. invoices[j].status \in Posted
      BY <3>2, PaidIsPosted DEF BooksInv, IInv, IsPosted
    <3> QED BY <1>1, <3>1, <3>3 DEF IsPosted
  <2> QED BY <2>1, <2>2
<1> QED BY <1>2, <1>3

(* Every step keeps the books in step with the documents. *)
LEMMA NextMoves ==
  ASSUME BooksInv, [Next]_vars
  PROVE  OnReceivables' /\ CostsStand' /\ StockLeft'
<1>1. TypeOK'
  BY NextTyped DEF BooksInv, IInv
<1>2. ASSUME NEW w \in Workers, Commit(w)
      PROVE  OnReceivables' /\ CostsStand' /\ StockLeft'
  <2>1. ASSUME requests[w].op \in InvoiceOps
        PROVE  \E i \in Invoices : i = requests[w].invoice
    BY <2>1, ReadsAreTyped DEF BooksInv, IInv
  <2>2. CASE UpdateInvoice(w)
    BY <2>1, <2>2, UpdateInvoiceMoves DEF UpdateInvoice, InvoiceOps
  <2>3. CASE MarkSent(w)
    BY <2>1, <2>3, MarkSentMoves DEF MarkSent, InvoiceOps
  <2>4. ASSUME NEW op \in {"mark_void", "revert_to_draft"}, NEW status \in {"void", "draft"},
               Withdraw(w, op, status)
        PROVE  OnReceivables' /\ CostsStand' /\ StockLeft'
    <3>1. requests[w].op \in InvoiceOps
      BY <2>4 DEF Withdraw, InvoiceOps
    <3>2. PICK i \in Invoices : i = requests[w].invoice
      BY <2>1, <3>1
    <3>3. ~IsPosted(i)' /\ \A j \in Invoices : j # i =>
             invoices'[j] = invoices[j] /\ lines'[j] = lines[j]
      BY <2>4, <3>2 DEF Withdraw, IsPosted, Posted, BooksInv, IInv, TypeOK
    <3>4. \E b \in Unposted(requests[w]) : Record(i, b)
      BY <2>4, <3>2 DEF Withdraw
    <3> QED BY <1>1, <3>1, <3>2, <3>3, <3>4, WithdrawnMoves
  <2>5. CASE MarkVoid(w) \/ RevertToDraft(w)
    BY <2>4, <2>5 DEF MarkVoid, RevertToDraft
  <2>6. CASE DeleteInvoice(w)
    <3>1. requests[w].op \in InvoiceOps
      BY <2>6 DEF DeleteInvoice, InvoiceOps
    <3>2. PICK i \in Invoices : i = requests[w].invoice
      BY <2>1, <3>1
    <3>3. ~IsPosted(i)' /\ \A j \in Invoices : j # i =>
             invoices'[j] = invoices[j] /\ lines'[j] = lines[j]
      BY <2>6, <3>2 DEF DeleteInvoice, IsPosted, Posted, BooksInv, IInv, TypeOK
    <3>4. \E b \in Unposted(requests[w]) : Record(i, b)
      BY <2>6, <3>2 DEF DeleteInvoice
    <3> QED BY <1>1, <3>1, <3>2, <3>3, <3>4, WithdrawnMoves
  <2>7. CASE DeletePayment(w) \/ \E p \in Payments : CreatePayment(w, p)
    <3>1. \A j \in Invoices : IsPosted(j)' <=> IsPosted(j)
      BY <2>7, PaymentsKeepPosted
    <3>2. UNCHANGED <<lines, sales, cogs, stock>>
      BY <2>7 DEF DeletePayment, CreatePayment
    <3> QED BY <3>1, <3>2, BooksUnmoved
  <2> QED BY <1>2, <2>2, <2>3, <2>5, <2>6, <2>7 DEF Commit
<1>3. ASSUME NEW w \in Workers, Load(w) PROVE UNCHANGED <<documents, ledger, stock>>
  BY <1>3 DEF Load, LoadUpdate, LoadMarkSent, LoadMarkVoid, LoadRevertToDraft,
     LoadDeleteInvoice, LoadCreatePayment, LoadDeletePayment, StartInvoiceOp, Start
<1>4. CASE UNCHANGED <<documents, ledger, stock>>
  <2>1. UNCHANGED <<invoices, lines, sales, cogs, stock>>
    BY <1>4 DEF documents, ledger
  <2>2. \A j \in Invoices : IsPosted(j)' <=> IsPosted(j)
    BY <2>1 DEF IsPosted
  <2> QED BY <2>1, <2>2, BooksUnmoved
<1> QED BY <1>2, <1>3, <1>4, CreateInvoiceMoves DEF Next, Abort, UpdateContact, vars

(* The invariant of the books holds of an empty set of them. *)
LEMMA InitBooks ==
  ASSUME Init
  PROVE  BooksInv
<1>1. IInv
  BY InitInvariant
<1>2. PaymentsStand
  BY DEF Init, PaymentsStand, PaymentStands, NoPayment
<1>3. OnReceivables
  BY DEF Init, OnReceivables
<1>4. \A i \in Invoices : Sold(i) = 0
  BY DEF Init, Sold, IsPosted, NoInvoice, Posted
<1>5. CostsStand
  <2> SUFFICES ASSUME NEW i \in Invoices PROVE StandsOnce(CostRow(i), cogs[i])
    BY DEF CostsStand
  <2>1. CostRow(i).status \notin Posted
    <3>1. UnitCost * 0 = 0
      BY ConstantsAssumption DEF ConstantsAssumption
    <3> QED BY <1>4, <3>1 DEF CostRow, Posted
  <2> QED BY <2>1 DEF Init, StandsOnce, Live
<1>6. StockLeft
  <2> DEFINE f == [i \in Invoices |-> Sold(i)]
  <2>1. \A i \in Invoices : f[i] = 0
    BY <1>4
  <2>2. IsFiniteSet(Invoices) /\ OpeningStock \in Nat
    BY ConstantsAssumption DEF ConstantsAssumption
  <2>3. SumFunctionOnSet(f, Invoices) = 0
    <3> HIDE DEF f
    <3> QED BY <2>1, <2>2, SumOfZeros
  <2>4. Sum(f) = 0 /\ stock = OpeningStock
    BY <2>3 DEF Sum, Init
  <2> HIDE DEF f
  <2>5. stock >= 0 /\ stock = OpeningStock - Sum(f)
    BY <2>2, <2>4
  <2> QED BY <2>5 DEF StockLeft, f
<1>7. TotalsStated
  BY DEF Init, TotalsStated, NoInvoice
<1> QED BY <1>1, <1>2, <1>3, <1>5, <1>6, <1>7 DEF BooksInv

(* Every step leaves the totals what forms made them. *)
LEMMA TotalsStayStated ==
  ASSUME TypeOK, TotalsStated, [Next]_vars
  PROVE  TotalsStated'
<1> SUFFICES ASSUME NEW i \in Invoices PROVE invoices'[i].total \in Amounts \cup {0}
  BY DEF TotalsStated
<1>1. invoices[i].total \in Amounts \cup {0} /\ invoices \in [Invoices -> Row]
  BY DEF TotalsStated, TypeOK
<1>2. ASSUME NEW row, NEW amount PROVE PaidPlus(row, amount).total = row.total
  BY DEF PaidPlus, Refreshed
<1>3. ASSUME NEW w \in Workers, UpdateInvoice(w) PROVE invoices'[i].total \in Amounts \cup {0}
  <2>1. requests[w].form.amount \in Amounts
    BY <1>3, RequestFields DEF UpdateInvoice, Form, TypeOK
  <2> QED BY <1>1, <1>3, <2>1 DEF UpdateInvoice, Flush
<1>4. ASSUME NEW w \in Workers, Commit(w), ~UpdateInvoice(w)
      PROVE  invoices'[i].total \in Amounts \cup {0}
  <2>1. CASE MarkSent(w)
    BY <1>1, <2>1 DEF MarkSent
  <2>2. CASE MarkVoid(w) \/ RevertToDraft(w)
    <3>1. PICK status \in {"void", "draft"} :
            invoices' = [invoices EXCEPT ![requests[w].invoice].status = status]
      BY <2>2 DEF MarkVoid, RevertToDraft, Withdraw
    <3>2. invoices'[i].total = invoices[i].total
      BY <1>1, <3>1 DEF Row
    <3> QED BY <1>1, <3>2
  <2>3. CASE DeleteInvoice(w)
    BY <1>1, <2>3 DEF DeleteInvoice
  <2>4. ASSUME NEW j \in Invoices, NEW amount,
               invoices' = [invoices EXCEPT ![j] = PaidPlus(@, amount)]
        PROVE  invoices'[i].total \in Amounts \cup {0}
    <3>1. invoices'[i].total = invoices[i].total
      BY <1>1, <1>2, <2>4
    <3> QED BY <1>1, <3>1
  <2>5. requests[w].invoice \in Invoices \cup {None}
    <3>1. requests[w] \in Request
      BY DEF TypeOK
    <3> QED BY <3>1, RequestFields DEF Idle
  <2>6. CASE DeletePayment(w)
    BY <1>1, <2>4, <2>5, <2>6 DEF DeletePayment
  <2>7. ASSUME NEW p \in Payments, CreatePayment(w, p)
        PROVE  invoices'[i].total \in Amounts \cup {0}
    BY <1>1, <2>4, <2>5, <2>7 DEF CreatePayment, ApplyInvoicePayment
  <2> QED BY <1>4, <2>1, <2>2, <2>3, <2>6, <2>7 DEF Commit
<1>5. ASSUME NEW j \in Invoices, NEW form \in Form, CreateInvoice(j, form)
      PROVE  invoices'[i].total \in Amounts \cup {0}
  BY <1>1, <1>5 DEF CreateInvoice, Form
<1>6. ASSUME NEW w \in Workers, Load(w) PROVE UNCHANGED documents
  BY <1>6 DEF Load, LoadUpdate, LoadMarkSent, LoadMarkVoid, LoadRevertToDraft,
     LoadDeleteInvoice, LoadCreatePayment, LoadDeletePayment, StartInvoiceOp, Start
<1>7. CASE UNCHANGED documents
  BY <1>1, <1>7 DEF documents
<1> QED BY <1>3, <1>4, <1>5, <1>6, <1>7 DEF Next, Abort, UpdateContact, vars

(* Every step keeps the books in step with the documents. *)
LEMMA NextBooks ==
  ASSUME Isolated = Ops, BooksInv, [Next]_vars
  PROVE  BooksInv'
<1>1. IInv' /\ PaymentsStand'
  BY NextPreserves, PaymentsStayStanding DEF BooksInv
<1>2. OnReceivables' /\ CostsStand' /\ StockLeft'
  BY NextMoves
<1>3. TotalsStated'
  BY TotalsStayStated DEF BooksInv, IInv
<1> QED BY <1>1, <1>2, <1>3 DEF BooksInv

(* With its documents to itself, every request keeps the books in step with
   the documents. *)
THEOREM BooksInvariant ==
  ASSUME Isolated = Ops
  PROVE  Spec => []BooksInv
<1>1. Init => BooksInv
  BY InitBooks
<1>2. BooksInv /\ [Next]_vars => BooksInv'
  BY NextBooks
<1> QED BY <1>1, <1>2, PTL DEF Spec

----------------------------------------------------------------------------
(* What the books come to *)

(* The register and the journal agree on every payment. *)
LEMMA RegisterFollows ==
  ASSUME BooksInv
  PROVE  RegisterMatchesLedger
<1>1. deposits = {p \in Payments : payments[p].state = "live"}
  BY DEF BooksInv, IInv, TypeOK, PaymentsStand, PaymentStands
<1>2. ASSUME NEW p \in Payments
      PROVE  Net(receipts[p]) = IF p \in deposits THEN payments[p].amount ELSE 0
  <2>1. payments[p].state = "live" =>
          receipts[p][1].account \in Accounts \cup {Advances, Inventory}
    BY DEF BooksInv, PaymentsStand, PaymentStands
  <2>2. Net(receipts[p]) = IF payments[p].state = "live" THEN payments[p].amount ELSE 0
    BY <2>1, PaymentNet DEF Net, BooksInv, IInv
  <2> QED BY <1>1, <2>2
<1> QED BY <1>1, <1>2 DEF RegisterMatchesLedger

(* The bank register holds the payments that exist, each of which stands in
   the journal once. *)
THEOREM RegisterAgrees ==
  ASSUME Isolated = Ops
  PROVE  Spec => []RegisterMatchesLedger
<1>1. BooksInv => RegisterMatchesLedger
  BY RegisterFollows
<1> QED BY <1>1, BooksInvariant, PTL

(* Entries of which one stands at most come to that one. *)
LEMMA NetOfStanding ==
  ASSUME NEW entries \in Seq(Entry), NEW row, row.total \in Nat, StandsOnce(row, entries),
         NEW accounts, \A k \in DOMAIN entries : entries[k].account \in accounts
  PROVE  NetOn(accounts, entries) = IF row.status \in Posted THEN row.total ELSE 0
<1> DEFINE f == [k \in DOMAIN entries |->
                  IF entries[k].account \in accounts
                    THEN entries[k].amount * (1 - entries[k].reversals) ELSE 0]
           S == DOMAIN entries
<1>1. IsFiniteSet(S)
  <2>1. S = 1 .. Len(entries) /\ Len(entries) \in Nat
    OBVIOUS
  <2> QED BY <2>1, FS_Interval
<1>2. \A k \in S : f[k] = IF k \in Live(entries) THEN entries[k].amount ELSE 0
  <2> SUFFICES ASSUME NEW k \in S
               PROVE  f[k] = IF k \in Live(entries) THEN entries[k].amount ELSE 0
    OBVIOUS
  <2>1. entries[k] \in Entry /\ entries[k].reversals <= 1
    BY DEF StandsOnce
  <2>2. entries[k].amount \in Nat /\ entries[k].reversals \in {0, 1}
    BY <2>1 DEF Entry
  <2>3. \A n \in Nat : n * (1 - 0) = n /\ n * (1 - 1) = 0
    OBVIOUS
  <2>4. f[k] = entries[k].amount * (1 - entries[k].reversals)
    OBVIOUS
  <2>5. k \in Live(entries) <=> entries[k].reversals = 0
    BY DEF Live
  <2> HIDE DEF f
  <2>6. CASE entries[k].reversals = 0
    BY <2>2, <2>3, <2>4, <2>5, <2>6
  <2>7. CASE entries[k].reversals = 1
    BY <2>2, <2>3, <2>4, <2>5, <2>7
  <2> QED BY <2>2, <2>6, <2>7
<1>3. NetOn(accounts, entries) = SumFunctionOnSet(f, S)
  BY DEF NetOn
<1>4. CASE row.status \in Posted
  <2>1. PICK k \in S : Live(entries) = {k} /\ entries[k].amount = row.total
    BY <1>4 DEF StandsOnce
  <2>2. f[k] = row.total /\ \A j \in S \ {k} : f[j] = 0
    BY <1>2, <2>1
  <2>3. SumFunctionOnSet(f, S) = f[k]
    <3> HIDE DEF f, S
    <3> QED BY <1>1, <2>2, SumOfOne
  <2> QED BY <1>3, <1>4, <2>2, <2>3
<1>5. CASE row.status \notin Posted
  <2>1. \A k \in S : f[k] = 0
    BY <1>2, <1>5 DEF StandsOnce
  <2>2. SumFunctionOnSet(f, S) = 0
    <3> HIDE DEF f, S
    <3> QED BY <1>1, <2>1, SumOfZeros
  <2> QED BY <1>3, <1>5, <2>2
<1> QED BY <1>4, <1>5

(* The cost of what is sold is what the journal holds. *)
LEMMA StockFollowsBooks ==
  ASSUME BooksInv
  PROVE  StockReconciles
<1> DEFINE f == [i \in Invoices |-> Sold(i)]
           g == [i \in Invoices |-> Net(cogs[i])]
<1>1. IsFiniteSet(Invoices) /\ UnitCost \in Nat
  BY ConstantsAssumption DEF ConstantsAssumption
<1>2. ASSUME NEW i \in Invoices PROVE f[i] \in Int /\ g[i] = UnitCost * f[i]
  <2>1. Sold(i) \in Nat /\ UnitCost * Sold(i) \in Nat
    BY <1>1, SoldIsNat DEF BooksInv, IInv
  <2>2. cogs[i] \in Seq(Entry) /\ StandsOnce(CostRow(i), cogs[i])
    BY DEF BooksInv, IInv, TypeOK, CostsStand
  <2>3. \A k \in DOMAIN cogs[i] : cogs[i][k].account \in Accounts \cup {Advances, Inventory}
    <3>1. \A k \in DOMAIN cogs[i] : cogs[i][k] \in Entry
      BY <2>2
    <3> QED BY <3>1 DEF Entry
  <2>4. CostRow(i).total = UnitCost * Sold(i) /\ CostRow(i).total \in Nat
    BY <2>1 DEF CostRow
  <2>5. Net(cogs[i]) = IF CostRow(i).status \in Posted THEN CostRow(i).total ELSE 0
    BY <2>2, <2>3, <2>4, NetOfStanding DEF Net
  <2>6. CostRow(i).status \in Posted <=> UnitCost * Sold(i) > 0
    BY DEF CostRow, Posted
  <2> QED BY <2>1, <2>4, <2>5, <2>6
<1>3. SumFunctionOnSet(g, Invoices) = UnitCost * SumFunctionOnSet(f, Invoices)
  <2> HIDE DEF f, g
  <2> QED BY <1>1, <1>2, SumOfMultiples
<1>4. f = [i \in Invoices |-> IF IsPosted(i) THEN UnitsOf(lines[i]) ELSE 0]
  BY DEF Sold
<1>5. CostOfGoodsSold = UnitCost * Sum(f)
  BY <1>3 DEF CostOfGoodsSold, Sum
<1>6. stock >= 0 /\ stock = OpeningStock - Sum(f)
  BY DEF BooksInv, StockLeft
<1> HIDE DEF f, g
<1> QED BY <1>4, <1>5, <1>6 DEF StockReconciles

(* The stock is what the posted invoices have left of it, and its cost is what
   the journal holds, across edits, voids, reverts and deletes. *)
THEOREM StockAgrees ==
  ASSUME Isolated = Ops
  PROVE  Spec => []StockReconciles
<1>1. BooksInv => StockReconciles
  BY StockFollowsBooks
<1> QED BY <1>1, BooksInvariant, PTL

(* What was received for an invoice, or for none, taken over all payments. *)
LEMMA ReceivedOfAll ==
  ASSUME TypeOK, PaymentsRecorded, NEW i \in Invoices \cup {None}
  PROVE  LET counted == [p \in Payments |->
                           IF payments[p].state = "live" THEN payments[p].amount ELSE 0]
         IN Received(i) = SumFunctionOnSet(counted, {p \in Payments : payments[p].invoice = i})
<1> DEFINE counted == [p \in Payments |->
                         IF payments[p].state = "live" THEN payments[p].amount ELSE 0]
           f == [p \in PaymentsOn(i) |-> payments[p].amount]
           S == {p \in Payments : payments[p].invoice = i}
           T == PaymentsOn(i)
<1>1. T \in SUBSET S /\ IsFiniteSet(S) /\ IsFiniteSet(T)
  BY ConstantsAssumption, FS_Subset DEF PaymentsOn, ConstantsAssumption
<1>2. /\ \A p \in S : counted[p] \in Int
      /\ \A p \in S \ T : counted[p] = 0
      /\ \A p \in T : f[p] = counted[p]
  BY DEF PaymentsOn, TypeOK, PaymentRow
<1>3. Received(i) = SumFunctionOnSet(f, T)
  BY DEF Received
<1> HIDE DEF counted, f, S, T
<1>4. SumFunctionOnSet(counted, S) = SumFunctionOnSet(counted, T)
  BY <1>1, <1>2, SumOfSupport
<1>5. SumFunctionOnSet(f, T) = SumFunctionOnSet(counted, T)
  BY <1>1, <1>2, SumAgrees
<1>6. Received(i) = SumFunctionOnSet(counted, S)
  BY <1>3, <1>4, <1>5
<1> QED BY <1>6 DEF counted, S

(* The receivables accounts come to what the invoices are due, and the
   advances to the payments for none. *)
LEMMA ReceivablesFollow ==
  ASSUME BooksInv
  PROVE  ReceivablesReconcile
<1> DEFINE counted == [p \in Payments |->
                         IF payments[p].state = "live" THEN payments[p].amount ELSE 0]
           key == [p \in Payments |-> payments[p].invoice]
           billed == [i \in Invoices |-> NetOn(Accounts, sales[i])]
           due == [i \in Invoices |->
                     IF IsPosted(i) THEN invoices[i].total - invoices[i].paid ELSE 0]
           got == [i \in Invoices |-> Received(i)]
           settled == [p \in Payments |-> NetOn(Accounts, receipts[p])]
           advanced == [p \in Payments |-> NetOn({Advances}, receipts[p])]
<1>1. /\ IsFiniteSet(Invoices) /\ IsFiniteSet(Payments) /\ None \notin Invoices
      /\ Advances \notin Accounts /\ TypeOK /\ PaymentsRecorded
  BY ConstantsAssumption DEF ConstantsAssumption, BooksInv, IInv
<1>2. ASSUME NEW p \in Payments
      PROVE  /\ counted[p] \in Int
             /\ settled[p] = IF key[p] \in Invoices THEN counted[p] ELSE 0
             /\ advanced[p] = IF key[p] = None THEN counted[p] ELSE 0
  <2>1. payments[p] \in PaymentRow /\ PaymentStands(payments[p], receipts[p], p \in deposits)
    BY <1>1 DEF TypeOK, BooksInv, PaymentsStand
  <2>2. /\ settled[p] = IF payments[p].state = "live" /\ receipts[p][1].account \in Accounts
                          THEN payments[p].amount ELSE 0
        /\ advanced[p] = IF payments[p].state = "live" /\ receipts[p][1].account \in {Advances}
                           THEN payments[p].amount ELSE 0
    BY <1>1, PaymentNet DEF BooksInv
  <2>3. payments[p].state = "live" =>
          receipts[p][1].account \in IF payments[p].invoice = None THEN {Advances} ELSE Accounts
    BY <2>1 DEF PaymentStands
  <2>4. payments[p].invoice \in Invoices \cup {None} /\ payments[p].amount \in Nat
    BY <2>1 DEF PaymentRow
  <2>5. key[p] = payments[p].invoice
        /\ counted[p] = IF payments[p].state = "live" THEN payments[p].amount ELSE 0
    OBVIOUS
  <2> HIDE DEF counted, key, settled, advanced
  <2> QED BY <1>1, <2>2, <2>3, <2>4, <2>5
<1>3. ASSUME NEW i \in Invoices
      PROVE  due[i] \in Int /\ got[i] \in Int /\ billed[i] = due[i] + got[i]
  <2>1. /\ invoices[i] \in Row /\ sales[i] \in Seq(Entry) /\ StandsOnce(invoices[i], sales[i])
        /\ ShowsPaid(invoices[i], Received(i))
        /\ \A k \in DOMAIN sales[i] : sales[i][k].account \in Accounts
    BY DEF BooksInv, IInv, TypeOK, OneLiveEntry, PaidIsReceived, OnReceivables
  <2>2. invoices[i].total \in Nat /\ Received(i) \in Nat
    BY <1>1, <2>1, ReceivedIsNat DEF Row
  <2>3. NetOn(Accounts, sales[i]) = IF invoices[i].status \in Posted THEN invoices[i].total ELSE 0
    BY <2>1, <2>2, NetOfStanding
  <2>4. invoices[i].paid = Received(i) /\ (~IsPosted(i) => Received(i) = 0)
    BY <2>1 DEF ShowsPaid, IsPosted
  <2>5. /\ due[i] = IF IsPosted(i) THEN invoices[i].total - Received(i) ELSE 0
        /\ got[i] = Received(i)
        /\ billed[i] = IF IsPosted(i) THEN invoices[i].total ELSE 0
    BY <2>3, <2>4 DEF IsPosted
  <2> HIDE DEF due, got, billed
  <2> QED BY <2>2, <2>4, <2>5
<1>4. SumFunctionOnSet(billed, Invoices) =
        SumFunctionOnSet(due, Invoices) + SumFunctionOnSet(got, Invoices)
  <2> HIDE DEF billed, due, got
  <2> QED BY <1>1, <1>3, SumOfSums
<1>5. SumFunctionOnSet(settled, Payments) = SumFunctionOnSet(got, Invoices)
  <2> DEFINE by == [i \in Invoices |-> SumFunctionOnSet(settled, {p \in Payments : key[p] = i})]
  <2>1. SumFunctionOnSet(settled, Payments) = SumFunctionOnSet(by, Invoices)
    <3>1. \A p \in Payments : settled[p] \in Int /\ (key[p] \notin Invoices => settled[p] = 0)
      BY <1>2
    <3> HIDE DEF settled, key
    <3> QED BY <1>1, <3>1, SumByKey
  <2>2. ASSUME NEW i \in Invoices PROVE by[i] = got[i]
    <3> DEFINE S == {p \in Payments : key[p] = i}
    <3>1. IsFiniteSet(S) /\ \A p \in S : settled[p] = counted[p]
      BY <1>1, <1>2, FS_Subset
    <3>2. SumFunctionOnSet(settled, S) = SumFunctionOnSet(counted, S)
      <4> HIDE DEF settled, counted, S
      <4> QED BY <3>1, SumAgrees
    <3>3. S = {p \in Payments : payments[p].invoice = i}
      OBVIOUS
    <3>4. Received(i) = SumFunctionOnSet(counted, {p \in Payments : payments[p].invoice = i})
      BY <1>1, ReceivedOfAll
    <3>5. by[i] = SumFunctionOnSet(settled, S) /\ got[i] = Received(i)
      OBVIOUS
    <3> HIDE DEF S, by, got, counted, settled
    <3> QED BY <3>2, <3>3, <3>4, <3>5
  <2>3. SumFunctionOnSet(by, Invoices) = SumFunctionOnSet(got, Invoices)
    <3> HIDE DEF by, got
    <3> QED BY <1>1, <2>2, SumAgrees
  <2> HIDE DEF by, got, settled
  <2> QED BY <2>1, <2>3
<1>6. SumFunctionOnSet(advanced, Payments) = Received(None)
  <2> DEFINE S == {p \in Payments : payments[p].invoice = None}
  <2>1. /\ S \in SUBSET Payments /\ IsFiniteSet(S)
        /\ \A p \in Payments : advanced[p] \in Int
        /\ \A p \in Payments \ S : advanced[p] = 0
        /\ \A p \in S : advanced[p] = counted[p]
    <3>1. S \in SUBSET Payments /\ IsFiniteSet(S)
      BY <1>1, FS_Subset
    <3>2. \A p \in Payments : p \in S <=> key[p] = None
      OBVIOUS
    <3> HIDE DEF S, key, advanced, counted
    <3> QED BY <3>1, <3>2, <1>2
  <2>2. Received(None) = SumFunctionOnSet(counted, S)
    BY <1>1, ReceivedOfAll
  <2> HIDE DEF S, advanced, counted
  <2>3. SumFunctionOnSet(advanced, Payments) = SumFunctionOnSet(advanced, S)
    BY <1>1, <2>1, SumOfSupport
  <2>4. SumFunctionOnSet(advanced, S) = SumFunctionOnSet(counted, S)
    BY <2>1, SumAgrees
  <2> QED BY <2>2, <2>3, <2>4
<1>7. /\ ReceivablesBalance =
           SumFunctionOnSet(billed, Invoices) - SumFunctionOnSet(settled, Payments)
      /\ AdvancesBalance = SumFunctionOnSet(advanced, Payments)
      /\ Sum(due) = SumFunctionOnSet(due, Invoices)
  BY DEF ReceivablesBalance, AdvancesBalance, Sum
<1>8. SumFunctionOnSet(due, Invoices) \in Int /\ SumFunctionOnSet(got, Invoices) \in Int
  <2> HIDE DEF due, got
  <2> QED BY <1>1, <1>3, SumIsInt
<1>9. ReceivablesBalance = Sum(due) /\ AdvancesBalance = Received(None)
  <2> HIDE DEF billed, due, got, settled, advanced
  <2> QED BY <1>4, <1>5, <1>6, <1>7, <1>8
<1> QED BY <1>9 DEF ReceivablesReconcile

(* The receivables accounts in the journal come to the balances due on the
   invoices, and the advances account to the payments for no invoice. *)
THEOREM ReceivablesAgree ==
  ASSUME Isolated = Ops
  PROVE  Spec => []ReceivablesReconcile
<1>1. BooksInv => ReceivablesReconcile
  BY ReceivablesFollow
<1> QED BY <1>1, BooksInvariant, PTL

----------------------------------------------------------------------------
(* The journal implements open items *)

(* What the invoice's row says of it as an open item. *)
RowItem(i) ==
  [billed  |-> IF IsPosted(i) THEN invoices[i].total ELSE 0,
   settled |-> invoices[i].paid]

(* The journal, read as open items, says what the rows say. *)
LEMMA ItemsAreRows ==
  ASSUME BooksInv
  PROVE  /\ openItems = [i \in Invoices |-> RowItem(i)]
         /\ \A i \in Invoices :
              /\ RowItem(i).billed \in Amounts \cup {0}
              /\ RowItem(i).billed \in Nat /\ RowItem(i).settled \in Nat
              /\ RowItem(i).settled <= RowItem(i).billed
<1>1. TypeOK /\ PaymentsStand
  BY DEF BooksInv, IInv
<1>2. ASSUME NEW i \in Invoices
      PROVE  /\ Net(sales[i]) = RowItem(i).billed
             /\ RowItem(i).billed \in (Amounts \cup {0}) \cap Nat
  <2>1. /\ invoices[i] \in Row /\ sales[i] \in Seq(Entry)
        /\ StandsOnce(invoices[i], sales[i])
        /\ \A k \in DOMAIN sales[i] : sales[i][k].account \in Accounts
        /\ invoices[i].total \in Amounts \cup {0}
    BY DEF BooksInv, IInv, TypeOK, OneLiveEntry, OnReceivables, TotalsStated
  <2>2. invoices[i].total \in Nat
    BY <2>1 DEF Row
  <2>3. Net(sales[i]) = IF invoices[i].status \in Posted THEN invoices[i].total ELSE 0
    BY <2>1, <2>2, NetOfStanding DEF Net
  <2> QED BY <2>1, <2>2, <2>3 DEF RowItem, IsPosted
<1>3. ASSUME NEW i \in Invoices
      PROVE  /\ SumFunctionOnSet([p \in PaymentsOn(i) |-> Net(receipts[p])], PaymentsOn(i)) =
                  RowItem(i).settled
             /\ RowItem(i).settled \in Nat /\ RowItem(i).settled <= RowItem(i).billed
  <2> DEFINE S == PaymentsOn(i)
             net == [p \in S |-> Net(receipts[p])]
             amount == [p \in S |-> payments[p].amount]
  <2>1. /\ IsFiniteSet(S) /\ S \subseteq Payments /\ Received(i) \in Nat
        /\ ShowsPaid(invoices[i], Received(i)) /\ invoices[i] \in Row
    BY <1>1, ReceivedIsNat DEF BooksInv, IInv, PaidIsReceived, TypeOK
  <2>2. ASSUME NEW p \in S PROVE net[p] = amount[p]
    <3>1. p \in Payments /\ payments[p].state = "live"
      BY DEF PaymentsOn
    <3>2. receipts[p][1].account \in Accounts \cup {Advances, Inventory}
      BY <1>1, <3>1 DEF PaymentsStand, PaymentStands
    <3>3. Net(receipts[p]) = payments[p].amount
      BY <1>1, <3>1, <3>2, PaymentNet DEF Net
    <3> QED BY <3>3
  <2>3. Received(i) = SumFunctionOnSet(amount, S)
    BY DEF Received
  <2>4. SumFunctionOnSet(net, S) = SumFunctionOnSet(amount, S)
    <3> HIDE DEF S, net, amount
    <3> QED BY <2>1, <2>2, SumAgrees
  <2>5. invoices[i].paid = Received(i)
        /\ invoices[i].paid <= IF IsPosted(i) THEN invoices[i].total ELSE 0
    BY <2>1 DEF ShowsPaid, IsPosted, Row
  <2> QED BY <2>1, <2>3, <2>4, <2>5 DEF RowItem
<1>4. openItems = [i \in Invoices |-> RowItem(i)]
  <2>1. ASSUME NEW i \in Invoices
        PROVE  [billed |-> Net(sales[i]),
                settled |-> SumFunctionOnSet([p \in PaymentsOn(i) |-> Net(receipts[p])],
                                             PaymentsOn(i))] = RowItem(i)
    BY <1>2, <1>3 DEF RowItem
  <2> QED BY <2>1 DEF openItems
<1> QED BY <1>2, <1>3, <1>4

(* A step changes the row of one invoice at most: one nothing is paid on, or
   only in what is paid. *)
LEMMA RowsMove ==
  ASSUME BooksInv, [Next]_vars
  PROVE  \/ invoices' = invoices
         \/ \E i \in Invoices :
              /\ \A j \in Invoices \ {i} : invoices'[j] = invoices[j]
              /\ \/ invoices[i].paid = 0 /\ invoices'[i].paid = 0
                 \/ /\ invoices'[i].total = invoices[i].total
                    /\ IsPosted(i)' <=> IsPosted(i)
<1> DEFINE Moves(i) ==
             /\ \A j \in Invoices \ {i} : invoices'[j] = invoices[j]
             /\ \/ invoices[i].paid = 0 /\ invoices'[i].paid = 0
                \/ /\ invoices'[i].total = invoices[i].total
                   /\ IsPosted(i)' <=> IsPosted(i)
<1>1. IInv /\ invoices \in [Invoices -> Row]
  BY DEF BooksInv, IInv, TypeOK
<1>2. ASSUME NEW i \in Invoices, NEW form \in Form, CreateInvoice(i, form)
      PROVE  Moves(i)
  <2>1. invoices[i].status = "none"
        /\ invoices' = [invoices EXCEPT ![i] =
             [status |-> IF form.send THEN "sent" ELSE "draft",
              total |-> form.amount, paid |-> 0]]
    BY <1>2 DEF CreateInvoice
  <2>2. invoices[i].paid = 0
    BY <1>1, <2>1 DEF IInv, PaidIsReceived, ShowsPaid, Posted
  <2> QED BY <1>1, <2>1, <2>2
<1>3. ASSUME NEW w \in Workers, NEW row, requests[w].op \in InvoiceOps,
             row.paid \in {0, invoices[requests[w].invoice].paid},
             invoices' = [invoices EXCEPT ![requests[w].invoice] = row]
      PROVE  \E i \in Invoices : Moves(i)
  <2> DEFINE i == requests[w].invoice
  <2>1. i \in Invoices /\ invoices[i].paid = 0
    BY <1>1, <1>3, InvoiceFound
  <2>2. invoices'[i] = row /\ \A j \in Invoices \ {i} : invoices'[j] = invoices[j]
    BY <1>1, <1>3, <2>1
  <2> QED BY <1>3, <2>1, <2>2
<1>4. ASSUME NEW w \in Workers, DeletePayment(w) \/ \E p \in Payments : CreatePayment(w, p),
             invoices' # invoices
      PROVE  \E i \in Invoices : Moves(i)
  <2>1. PICK amount :
          invoices' = [invoices EXCEPT ![requests[w].invoice] = PaidPlus(@, amount)]
    BY <1>4 DEF CreatePayment, ApplyInvoicePayment, DeletePayment
  <2>2. PICK i \in Invoices : i = requests[w].invoice
    <3>1. requests[w].invoice \in Invoices \cup {None}
      BY <1>1, <1>4, RequestFields DEF CreatePayment, DeletePayment, IInv, TypeOK
    <3>2. requests[w].invoice # None
      BY <1>4 DEF CreatePayment, DeletePayment
    <3> QED BY <3>1, <3>2
  <2>3. invoices'[i] = PaidPlus(invoices[i], amount)
        /\ \A j \in Invoices \ {i} : invoices'[j] = invoices[j]
    BY <1>1, <2>1, <2>2
  <2>4. invoices'[i].total = invoices[i].total
    BY <2>3 DEF PaidPlus, Refreshed
  <2>5. IsPosted(i)' <=> IsPosted(i)
    BY <1>4, PaymentsKeepPosted
  <2> QED BY <2>3, <2>4, <2>5
<1>5. ASSUME NEW w \in Workers, Commit(w)
      PROVE  invoices' = invoices \/ \E i \in Invoices : Moves(i)
  <2> DEFINE r == requests[w]
             i == r.invoice
  <2> HIDE DEF Moves
  <2>1. CASE UpdateInvoice(w)
    <3> DEFINE new == [status |-> IF r.form.send \/ WasPosted(r) THEN "sent" ELSE "draft",
                       total |-> r.form.amount]
               row == Flush(invoices[i], r.seen.row, new)
    <3>1. r.op \in InvoiceOps /\ invoices' = [invoices EXCEPT ![i] = row]
      BY <2>1 DEF UpdateInvoice, InvoiceOps
    <3>2. row.paid = invoices[i].paid
      BY DEF Flush
    <3> HIDE DEF row
    <3> QED BY <1>3, <3>1, <3>2
  <2>2. CASE MarkSent(w) \/ MarkVoid(w) \/ RevertToDraft(w)
    <3>1. PICK status \in {"sent", "void", "draft"} :
            r.op \in InvoiceOps /\ invoices' = [invoices EXCEPT ![i].status = status]
      BY <2>2 DEF MarkSent, MarkVoid, RevertToDraft, Withdraw, InvoiceOps
    <3>2. invoices[i] \in Row
      BY <1>1, <3>1, InvoiceFound
    <3> DEFINE row == [invoices[i] EXCEPT !.status = status]
    <3>3. row.paid = invoices[i].paid /\ invoices' = [invoices EXCEPT ![i] = row]
      BY <3>1, <3>2 DEF Row
    <3> HIDE DEF row
    <3> QED BY <1>3, <3>1, <3>3
  <2>3. CASE DeleteInvoice(w)
    <3> DEFINE row == [status |-> "deleted", total |-> 0, paid |-> 0]
    <3>1. r.op \in InvoiceOps /\ invoices' = [invoices EXCEPT ![i] = row] /\ row.paid = 0
      BY <2>3 DEF DeleteInvoice, InvoiceOps
    <3> HIDE DEF row
    <3> QED BY <1>3, <3>1
  <2>4. CASE DeletePayment(w) \/ \E p \in Payments : CreatePayment(w, p)
    BY <1>4, <2>4
  <2> QED BY <1>5, <2>1, <2>2, <2>3, <2>4 DEF Commit
<1>6. ASSUME NEW w \in Workers, Load(w) PROVE UNCHANGED documents
  BY <1>6 DEF Load, LoadUpdate, LoadMarkSent, LoadMarkVoid, LoadRevertToDraft,
     LoadDeleteInvoice, LoadCreatePayment, LoadDeletePayment, StartInvoiceOp, Start
<1>7. CASE UNCHANGED documents
  BY <1>7 DEF documents
<1> QED BY <1>2, <1>5, <1>6, <1>7 DEF Next, Abort, UpdateContact, vars

(* A step of the system moves the open items as open items may move, or not at
   all. *)
LEMMA NextMovesItems ==
  ASSUME BooksInv, [Next]_vars,
         openItems = [i \in Invoices |-> RowItem(i)],
         openItems' = [i \in Invoices |-> RowItem(i)'],
         \A i \in Invoices :
           /\ RowItem(i)'.billed \in Amounts \cup {0}
           /\ RowItem(i)'.billed \in Nat /\ RowItem(i)'.settled \in Nat
           /\ RowItem(i)'.settled <= RowItem(i)'.billed
  PROVE  [Journal!Next]_openItems
<1>1. CASE invoices' = invoices
  BY <1>1 DEF RowItem, IsPosted
<1>2. CASE \E i \in Invoices :
             /\ \A j \in Invoices \ {i} : invoices'[j] = invoices[j]
             /\ \/ invoices[i].paid = 0 /\ invoices'[i].paid = 0
                \/ /\ invoices'[i].total = invoices[i].total
                   /\ IsPosted(i)' <=> IsPosted(i)
  <2>1. PICK i \in Invoices :
             /\ \A j \in Invoices \ {i} : invoices'[j] = invoices[j]
             /\ \/ invoices[i].paid = 0 /\ invoices'[i].paid = 0
                \/ /\ invoices'[i].total = invoices[i].total
                   /\ IsPosted(i)' <=> IsPosted(i)
    BY <1>2
  <2> DEFINE now == RowItem(i)
             then == RowItem(i)'
  <2>2. /\ openItems' = [openItems EXCEPT ![i] = then]
        /\ openItems[i] = now
        /\ now = [billed |-> now.billed, settled |-> now.settled]
        /\ then = [billed |-> then.billed, settled |-> then.settled]
    BY <2>1 DEF RowItem, IsPosted
  <2>3. /\ now.billed \in Nat /\ now.settled \in Nat /\ now.settled <= now.billed
        /\ then.billed \in Nat /\ then.settled \in Nat /\ then.settled <= then.billed
        /\ then.billed \in Amounts \cup {0}
    BY ItemsAreRows
  <2>4. CASE now.settled = 0 /\ then.settled = 0
    <3>1. openItems' = [openItems EXCEPT ![i].billed = then.billed]
      BY <2>2, <2>4
    <3> QED BY <2>2, <2>3, <2>4, <3>1 DEF Journal!Next, Journal!State
  <2>5. CASE then.billed = now.billed
    <3> HIDE DEF now, then
    <3>1. CASE then.settled = now.settled
      BY <2>2, <2>5, <3>1
    <3>2. CASE then.settled > now.settled
      <4>1. then.settled - now.settled \in 1 .. (now.billed - now.settled)
        BY <2>3, <2>5, <3>2
      <4>2. now.settled + (then.settled - now.settled) = then.settled
        BY <2>3
      <4>3. openItems' = [openItems EXCEPT ![i].settled = @ + (then.settled - now.settled)]
        BY <2>2, <2>5, <4>2
      <4>4. Journal!Settle(i)
        BY <2>2, <4>1, <4>3 DEF Journal!Settle
      <4> QED BY <4>4 DEF Journal!Next
    <3>3. CASE then.settled < now.settled
      <4>1. now.settled - then.settled \in 1 .. now.settled
        BY <2>3, <3>3
      <4>2. now.settled - (now.settled - then.settled) = then.settled
        BY <2>3
      <4>3. openItems' = [openItems EXCEPT ![i].settled = @ - (now.settled - then.settled)]
        BY <2>2, <2>5, <4>2
      <4>4. Journal!Unsettle(i)
        BY <2>2, <4>1, <4>3 DEF Journal!Unsettle
      <4> QED BY <4>4 DEF Journal!Next
    <3> QED BY <2>3, <3>1, <3>2, <3>3
  <2> QED BY <2>1, <2>4, <2>5 DEF RowItem
<1> QED BY <1>1, <1>2, RowsMove

(* The journal moves only as open items may: what an invoice is owed is
   stated, restated or withdrawn while nothing is settled on it, and never
   more is settled than is owed. *)
THEOREM JournalImplementsOpenItems ==
  ASSUME Isolated = Ops
  PROVE  Spec => ImplementsOpenItems
<1> DEFINE Agree ==
             /\ openItems = [i \in Invoices |-> RowItem(i)]
             /\ \A i \in Invoices :
                  /\ RowItem(i).billed \in Amounts \cup {0}
                  /\ RowItem(i).billed \in Nat /\ RowItem(i).settled \in Nat
                  /\ RowItem(i).settled <= RowItem(i).billed
<1>1. BooksInv => Agree
  BY ItemsAreRows
<1>2. Init => Journal!Init
  <2> SUFFICES ASSUME Init PROVE Journal!Init
    OBVIOUS
  <2>1. openItems = [i \in Invoices |-> RowItem(i)]
    BY InitBooks, ItemsAreRows
  <2>2. \A i \in Invoices : RowItem(i) = [billed |-> 0, settled |-> 0]
    BY DEF Init, RowItem, IsPosted, NoInvoice, Posted
  <2> QED BY <2>1, <2>2 DEF Journal!Init
<1>3. BooksInv /\ [Next]_vars /\ Agree /\ Agree' => [Journal!Next]_openItems
  BY NextMovesItems
<1> QED BY <1>1, <1>2, <1>3, BooksInvariant, PTL
        DEF Spec, ImplementsOpenItems, Journal!Spec

=============================================================================
