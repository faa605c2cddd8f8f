----------------------------- MODULE DeskProofs -----------------------------
(***************************************************************************)
(* Proofs about Gateway, TimeBilling, SalesDesk and Pricing. Payments of   *)
(* the gateway are booked once and what people decided of them stays,      *)
(* whatever checkouts, webhooks, syncs and people do, and a full sync that *)
(* completes agrees with the gateway. An hour is billed by one invoice, as *)
(* the form showed it. What is received on invoices is what was paid. The  *)
(* pages of payments, of hours and of invoices show one person alone what  *)
(* is stored, and the totals over pages are those of all payments. The     *)
(* shares of a document's discount come to it, and tax follows it.         *)
(***************************************************************************)
EXTENDS Sequences, Gateway, Sums, FiniteSetTheorems, TLAPS

----------------------------------------------------------------------------
(* Records *)

(* What no webhook, sync or rule changes of a record, and what they do not
   change once it has an invoice, or a person has settled it. *)
Keeps(r, s) ==
  /\ s \in Record /\ s.invoice = r.invoice /\ s.booked = r.booked
  /\ r.invoice # None => s.recon = r.recon
  /\ r.settled => s.settled /\ s.category = r.category

LEMMA NewRecordFits ==
  /\ NewRecord \in Record /\ ~NewRecord.booked /\ NewRecord.invoice = None
  /\ \A i \in Invoices \cup {None} :
       LET r == [NewRecord EXCEPT !.status = "captured", !.invoice = i]
       IN  r \in Record /\ ~r.booked
BY DEF NewRecord, Record, Statuses, Recons, AllCategories

LEMMA RefundedKeeps ==
  ASSUME NEW r \in Record, NEW n \in Nat
  PROVE  /\ Keeps(r, Refunded(r, n)) /\ Refunded(r, n).refund = n
         /\ Refunded(r, n).status = IF n >= Amount THEN "refunded" ELSE "partially_refunded"
BY DEF Refunded, Keeps, Record, Statuses

LEMMA CategoriseFits ==
  ASSUME rule \in Categories \cup {None}, NEW r \in Record
  PROVE  /\ Categorise(r).category \in AllCategories
         /\ Categorise(r).source \in {"rule", "auto", "invoice"}
BY DEF Categorise, AllCategories

LEMMA ApplyKeeps ==
  ASSUME rule \in Categories \cup {None}, NEW r \in Record
  PROVE  /\ Keeps(r, ApplyCategorisation(r))
         /\ ApplyCategorisation(r).status = r.status
         /\ ApplyCategorisation(r).refund = r.refund
<1> DEFINE c == Categorise(r)
<1>1. c.category \in AllCategories /\ c.source \in {"rule", "auto", "invoice"}
  BY CategoriseFits
<1>2. ApplyCategorisation(r) =
        IF Decided(r) THEN r
        ELSE [r EXCEPT !.category = c.category, !.source = c.source,
                       !.settled = c.source \in {"rule", "invoice"}]
  BY DEF ApplyCategorisation
<1> DEFINE b == c.source \in {"rule", "invoice"}
<1>3. b \in BOOLEAN
  OBVIOUS
<1> HIDE DEF c
<1>4. CASE Decided(r)
  BY <1>2, <1>4 DEF Keeps
<1>5. CASE ~Decided(r)
  <2>1. ApplyCategorisation(r)
          = [r EXCEPT !.category = c.category, !.source = c.source, !.settled = b]
    BY <1>2, <1>5
  <2> HIDE DEF b
  <2>2. ApplyCategorisation(r) \in Record
    BY <1>1, <1>3, <2>1 DEF Record
  <2>3. ~r.settled
    BY <1>5 DEF Decided
  <2> QED BY <2>1, <2>2, <2>3 DEF Keeps, Record
<1> QED BY <1>4, <1>5

LEMMA FromPageKeeps ==
  ASSUME NEW r \in Record, NEW page \in PageRow
  PROVE  /\ Keeps(r, FromPage(r, page))
         /\ FromPage(r, page).refund = page.refunds
         /\ page.refunds = 0 => FromPage(r, page).status = page.status
<1> DEFINE s == [r EXCEPT !.refund = page.refunds, !.status = page.status]
<1>1. /\ Keeps(r, s) /\ s \in Record /\ s.refund = page.refunds /\ s.status = page.status
      /\ s.settled = r.settled /\ s.category = r.category /\ page.refunds \in Nat
  BY DEF Keeps, Record, PageRow, Statuses
<1>2. FromPage(r, page) = IF page.status = "captured" /\ page.refunds > 0
                          THEN Refunded(s, page.refunds) ELSE s
  BY DEF FromPage
<1> HIDE DEF s
<1>3. Keeps(s, Refunded(s, page.refunds)) /\ Refunded(s, page.refunds).refund = page.refunds
  BY <1>1, RefundedKeeps
<1>4. Keeps(r, Refunded(s, page.refunds))
  BY <1>1, <1>3 DEF Keeps
<1> QED BY <1>1, <1>2, <1>3, <1>4

----------------------------------------------------------------------------
(* Payments *)

(* The invariant, payment by payment. *)
PaymentOK(p) ==
  /\ books[p] \in Nat /\ books[p] <= 1
  /\ books[p] = 1 <=> record[p] # None /\ record[p].booked /\ record[p].invoice # None
  /\ human[p].category # None =>
       record[p] # None /\ record[p].settled /\ record[p].category = human[p].category
  /\ books[p] > 0 /\ ~human[p].recon => record[p].recon = "matched"

LEMMA InvariantByPayment ==
  ASSUME TypeOK
  PROVE  BookedOnce /\ DecisionsStay /\ SettledByHuman <=> \A p \in Payments : PaymentOK(p)
<1>1. \A p \in Payments : books[p] \in Nat
  BY DEF TypeOK
<1> QED BY <1>1 DEF BookedOnce, DecisionsStay, HumanChoiceStays, BookedStaysMatched, SettledByHuman, PaymentOK

(* What webhooks, syncs, rules and refunds do of a payment. *)
Evolves(p) ==
  /\ books'[p] = books[p] /\ human'[p] = human[p]
  /\ IF record[p] = None
     THEN record'[p] # None => record'[p] \in Record /\ ~record'[p].booked
     ELSE Keeps(record[p], record'[p])

LEMMA NoneIsNoRecord == None \notin Record /\ None \notin PageRow
BY ConstantsAssumption DEF ConstantsAssumption

LEMMA EvolvesOK ==
  ASSUME TypeOK, NEW p \in Payments, PaymentOK(p), Evolves(p)
  PROVE  PaymentOK(p)' /\ record'[p] \in Record \cup {None} /\ (p \in Known => p \in Known')
<1>1. record[p] \in Record \cup {None}
  BY DEF TypeOK
<1>2. CASE record[p] = None
  BY <1>2 DEF PaymentOK, Evolves, Known
<1>3. CASE record[p] # None
  BY <1>1, <1>3, NoneIsNoRecord DEF PaymentOK, Evolves, Keeps, Known
<1> QED BY <1>2, <1>3

(* Nothing happens to a payment. *)
LEMMA StaysOK ==
  ASSUME TypeOK, NEW p \in Payments,
         record'[p] = record[p], books'[p] = books[p], human'[p] = human[p]
  PROVE  Evolves(p)
<1>1. record[p] \in Record \cup {None}
  BY DEF TypeOK
<1> QED BY <1>1 DEF Evolves, Keeps

(* A record changes from r to s as Keeps says, or a payment gets its first. *)
LEMMA KeepsOK ==
  ASSUME TypeOK, NEW p \in Payments, NEW s,
         IF record[p] = None THEN s \in Record /\ ~s.booked ELSE Keeps(record[p], s),
         record'[p] = s, UNCHANGED <<books, human>>
  PROVE  Evolves(p)
BY DEF Evolves

LEMMA KeepsTransitive ==
  ASSUME NEW r, NEW s, NEW t, Keeps(r, s), Keeps(s, t)
  PROVE  Keeps(r, t)
BY DEF Keeps

----------------------------------------------------------------------------
(* Steps *)

(* The types, of the gateway and what is on its way, of the books, and of
   the pages. *)
GateType ==
  /\ gate \in [Payments -> [status : {"new", "authorized", "captured", "failed"},
                            of : Invoices \cup {None}, refunds : SUBSET Refunds, old : BOOLEAN]]
  /\ hooks \subseteq Events /\ seen \subseteq hooks
SyncType ==
  sync \in [step : {"never", "pages", "completed", "partial", "failed"}, full : BOOLEAN,
            todo : SUBSET Payments, page : PageRow \cup {None},
            refunds : SUBSET (Payments \X Refunds), touched : SUBSET Payments]
BooksType ==
  /\ record \in [Payments -> Record \cup {None}]
  /\ rows \subseteq Payments \X Refunds
  /\ books \in [Payments -> Nat]
  /\ invoice \in [Invoices -> [paid : Nat, void : BOOLEAN]]
  /\ rule \in Categories \cup {None}
  /\ human \in [Payments -> [category : AllCategories, recon : BOOLEAN]]
RequestType ==
  /\ checkout \in {NoCheckout} \cup [step : {"paying", "verify", "committing", "done", "error"},
                                     of : Invoices, pay : Payments]
  /\ refunding \in {NoRefund} \cup [step : {"asked"}, pay : Payments, id : Refunds, was : Nat]
ViewType ==
  /\ view \in [loading : BOOLEAN, shown : {view.shown}, detail : Detail, row : Payments \cup {None}]
  /\ view.shown \in [DOMAIN view.shown -> Record]

LEMMA TypesByPart ==
  /\ TypeOK <=> GateType /\ SyncType /\ BooksType /\ RequestType /\ ViewType
  /\ TypeOK' <=> GateType' /\ SyncType' /\ BooksType' /\ RequestType' /\ ViewType'
BY DEF TypeOK, GateType, SyncType, BooksType, RequestType, ViewType

LEMMA TypesStay ==
  /\ UNCHANGED <<gate, hooks, seen>> => GateType' = GateType
  /\ UNCHANGED sync => SyncType' = SyncType
  /\ UNCHANGED <<record, rows, books, invoice, rule, human>> => BooksType' = BooksType
  /\ UNCHANGED <<checkout, refunding>> => RequestType' = RequestType
  /\ UNCHANGED view => ViewType' = ViewType
BY DEF GateType, SyncType, BooksType, RequestType, ViewType

(* A step after which every payment has evolved. *)
LEMMA EvolvingKeeps ==
  ASSUME GatewayInv, TypeOK', \A p \in Payments : Evolves(p), OnRecord'
  PROVE  GatewayInv'
<1>1. \A p \in Payments : PaymentOK(p)
  BY InvariantByPayment DEF GatewayInv
<1>2. \A p \in Payments : PaymentOK(p)'
  BY <1>1, EvolvesOK DEF GatewayInv
<1>3. BookedOnce' /\ DecisionsStay' /\ SettledByHuman'
  BY <1>2 DEF BookedOnce, DecisionsStay, HumanChoiceStays, BookedStaysMatched, SettledByHuman, PaymentOK, TypeOK
<1> QED BY <1>3 DEF GatewayInv

(* A step that decides something of one payment. *)
LEMMA DecidingKeeps ==
  ASSUME GatewayInv, TypeOK', OnRecord', NEW p \in Payments, PaymentOK(p)',
         \A q \in Payments \ {p} :
           record'[q] = record[q] /\ books'[q] = books[q] /\ human'[q] = human[q]
  PROVE  GatewayInv'
<1>1. \A q \in Payments : PaymentOK(q)
  BY InvariantByPayment DEF GatewayInv
<1>2. \A q \in Payments : PaymentOK(q)'
  BY <1>1, EvolvesOK, StaysOK DEF GatewayInv
<1>3. BookedOnce' /\ DecisionsStay' /\ SettledByHuman'
  BY <1>2 DEF BookedOnce, DecisionsStay, HumanChoiceStays, BookedStaysMatched, SettledByHuman, PaymentOK, TypeOK
<1> QED BY <1>3 DEF GatewayInv

(* What is recorded and what exists stay so. *)
LEMMA OnRecordStays ==
  ASSUME OnRecord, Known \subseteq Known', Exists \subseteq Exists', UNCHANGED <<view, refunding>>,
         sync'.todo \subseteq sync.todo
  PROVE  OnRecord'
BY DEF OnRecord

(* A step that leaves the payments alone. *)
LEMMA QuietKeeps ==
  ASSUME GatewayInv, TypeOK', OnRecord', UNCHANGED <<record, books, human>>
  PROVE  GatewayInv'
BY EvolvingKeeps, StaysOK DEF GatewayInv

(* The gateway: a payment is settled, or refunded. *)
LEMMA TouchTypes ==
  ASSUME SyncType, NEW p \in Payments, Touch(p)
  PROVE  SyncType' /\ sync' = [sync EXCEPT !.touched = sync'.touched] /\ sync'.todo = sync.todo
BY DEF SyncType, Touch

LEMMA SettleTypes ==
  ASSUME TypeOK, NEW p \in Payments, NEW status \in {"authorized", "captured", "failed"},
         Settle(p, status), UNCHANGED seen
  PROVE  GateType' /\ SyncType' /\ Exists \subseteq Exists' /\ sync'.todo = sync.todo
<1>1. GateType /\ SyncType
  BY TypesByPart
<1>2. SyncType' /\ sync'.todo = sync.todo
  BY <1>1, TouchTypes DEF Settle
<1>3. {Event(status, p, None)} \subseteq Events
         \/ status = "authorized"
  BY DEF Event, Events
<1>4. hooks' \subseteq Events /\ hooks \subseteq hooks'
  BY <1>1, <1>3 DEF GateType, Settle, Emit
<1>5. gate' = [gate EXCEPT ![p].status = status]
  BY DEF Settle
<1>6. GateType'
  BY <1>1, <1>4, <1>5 DEF GateType
<1>7. Exists \subseteq Exists'
  BY <1>1, <1>5 DEF GateType, Exists
<1> QED BY <1>2, <1>6, <1>7

LEMMA RefundTypes ==
  ASSUME TypeOK, NEW p \in Payments, NEW id \in Refunds, RefundAtGate(p, id), UNCHANGED seen
  PROVE  GateType' /\ SyncType' /\ Exists \subseteq Exists' /\ sync'.todo = sync.todo
<1>1. GateType /\ SyncType
  BY TypesByPart
<1>2. SyncType' /\ sync'.todo = sync.todo
  BY <1>1, TouchTypes DEF RefundAtGate
<1>3. {Event("refund.created", p, id), Event("refund.processed", p, id)}
         \subseteq Events
  BY DEF Event, Events
<1>4. hooks' \subseteq Events /\ hooks \subseteq hooks'
  BY <1>1, <1>3 DEF GateType, RefundAtGate, Emit
<1>5. gate' = [gate EXCEPT ![p].refunds = @ \cup {id}]
  BY DEF RefundAtGate
<1>6. GateType'
  BY <1>1, <1>4, <1>5 DEF GateType
<1>7. Exists \subseteq Exists'
  BY <1>1, <1>5 DEF GateType, Exists
<1> QED BY <1>2, <1>6, <1>7

(* A step of the gateway, of a checkout or of a sync that writes nothing. *)
LEMMA OutsideKeeps ==
  ASSUME GatewayInv, GateType', SyncType', RequestType',
         Exists \subseteq Exists', sync'.todo \subseteq sync.todo,
         UNCHANGED <<record, rows, books, invoice, rule, refunding, view, human>>
  PROVE  GatewayInv'
<1>1. TypeOK'
  BY TypesByPart, TypesStay DEF GatewayInv
<1>2. OnRecord'
  BY OnRecordStays DEF GatewayInv, Known
<1> QED BY <1>1, <1>2, QuietKeeps

LEMMA PayElsewhereKeeps ==
  ASSUME GatewayInv, NEW p \in Payments, PayElsewhere(p) \/ Capture(p)
  PROVE  GatewayInv'
<1>1. PICK status \in {"authorized", "captured", "failed"} : Settle(p, status)
  BY DEF PayElsewhere, Capture
<1>2. /\ UNCHANGED <<seen, record, rows, books, invoice, rule, checkout, refunding, view, human>>
      /\ TypeOK
  BY DEF PayElsewhere, Capture, GatewayInv
<1>3. RequestType'
  BY <1>2, TypesByPart, TypesStay
<1> QED BY <1>1, <1>2, <1>3, SettleTypes, OutsideKeeps

LEMMA RefundElsewhereKeeps ==
  ASSUME GatewayInv, NEW p \in Payments, NEW id \in Refunds, RefundElsewhere(p, id)
  PROVE  GatewayInv'
<1>1. /\ UNCHANGED <<seen, record, rows, books, invoice, rule, checkout, refunding, view, human>>
      /\ TypeOK /\ RefundAtGate(p, id)
  BY DEF RefundElsewhere, GatewayInv
<1>2. RequestType'
  BY <1>1, TypesByPart, TypesStay
<1> QED BY <1>1, <1>2, RefundTypes, OutsideKeeps

(* The checkout. *)
LEMMA CreateOrderKeeps ==
  ASSUME GatewayInv, NEW p \in Payments, NEW i \in Invoices, CreateOrder(p, i)
  PROVE  GatewayInv'
<1>1. GateType /\ SyncType /\ RequestType
  BY TypesByPart DEF GatewayInv
<1>2. /\ UNCHANGED <<hooks, seen, record, rows, books, invoice, rule, sync, refunding, view, human>>
      /\ gate' = [gate EXCEPT ![p].of = i] /\ checkout' = [step |-> "paying", of |-> i, pay |-> p]
  BY DEF CreateOrder
<1>3. GateType' /\ Exists \subseteq Exists'
  BY <1>1, <1>2 DEF GateType, Exists
<1>4. RequestType' /\ SyncType'
  BY <1>1, <1>2, TypesStay DEF RequestType
<1> QED BY <1>2, <1>3, <1>4, OutsideKeeps

LEMMA CheckoutMoves ==
  ASSUME GatewayInv, NEW step \in {"verify", "committing", "done", "error"},
         checkout.step # "closed", checkout' = [checkout EXCEPT !.step = step], UNCHANGED refunding
  PROVE  RequestType'
<1>1. RequestType
  BY TypesByPart DEF GatewayInv
<1>2. checkout \in [step : {"paying", "verify", "committing", "done", "error"}, of : Invoices, pay : Payments]
  BY <1>1 DEF RequestType, NoCheckout
<1>3. checkout' \in [step : {"paying", "verify", "committing", "done", "error"}, of : Invoices, pay : Payments]
  BY <1>2
<1> QED BY <1>1, <1>3 DEF RequestType

LEMMA PayHereKeeps ==
  ASSUME GatewayInv, PayHere
  PROVE  GatewayInv'
<1>1. PICK status \in {"authorized", "captured", "failed"} :
        /\ Settle(checkout.pay, status)
        /\ checkout' = IF status = "failed" THEN NoCheckout ELSE [checkout EXCEPT !.step = "verify"]
  BY DEF PayHere
<1>2. /\ UNCHANGED <<seen, record, rows, books, invoice, rule, refunding, view, human>>
      /\ TypeOK /\ checkout.step = "paying"
  BY DEF PayHere, GatewayInv
<1>3. checkout.pay \in Payments
  BY <1>2 DEF TypeOK, NoCheckout
<1>4. RequestType'
  <2>1. CASE status = "failed"
    BY <1>1, <1>2, <2>1 DEF TypeOK, RequestType
  <2>2. CASE status # "failed"
    BY <1>1, <1>2, <2>2, CheckoutMoves
  <2> QED BY <2>1, <2>2
<1> QED BY <1>1, <1>2, <1>3, <1>4, SettleTypes, OutsideKeeps

LEMMA CheckoutKeeps ==
  ASSUME GatewayInv, LeaveCheckout \/ VerifyRead
  PROVE  GatewayInv'
<1>1. UNCHANGED <<gate, hooks, seen, record, rows, books, invoice, rule, sync, refunding, view, human>>
  BY DEF LeaveCheckout, VerifyRead
<1>2. RequestType'
  <2>1. CASE LeaveCheckout
    BY <2>1 DEF LeaveCheckout, GatewayInv, TypeOK, RequestType
  <2>2. CASE VerifyRead
    BY <2>2, CheckoutMoves DEF VerifyRead
  <2> QED BY <2>1, <2>2
<1>3. GateType' /\ SyncType' /\ Exists' = Exists
  BY <1>1, TypesByPart, TypesStay DEF GatewayInv, Exists
<1> QED BY <1>1, <1>2, <1>3, OutsideKeeps

(* Booking a payment under an invoice. *)
LEMMA BookTypes ==
  ASSUME TypeOK, NEW p \in Payments, NEW i \in Invoices, Book(p, i)
  PROVE  /\ books' \in [Payments -> Nat] /\ invoice' \in [Invoices -> [paid : Nat, void : BOOLEAN]]
         /\ books'[p] = books[p] + 1 /\ \A q \in Payments \ {p} : books'[q] = books[q]
<1>1. BooksType /\ Amount \in Nat
  BY TypesByPart, ConstantsAssumption DEF ConstantsAssumption
<1>2. /\ books' \in [Payments -> Nat] /\ books'[p] = books[p] + 1
      /\ \A q \in Payments \ {p} : books'[q] = books[q]
  BY <1>1 DEF BooksType, Book
<1>3. invoice' \in [Invoices -> [paid : Nat, void : BOOLEAN]]
  <2>1. invoice[i] \in [paid : Nat, void : BOOLEAN] /\ invoice[i].paid + Amount \in Nat
    BY <1>1 DEF BooksType
  <2>2. invoice' = [invoice EXCEPT ![i] = [invoice[i] EXCEPT !.paid = invoice[i].paid + Amount]]
    BY <1>1 DEF BooksType, Book
  <2> QED BY <1>1, <2>1, <2>2 DEF BooksType
<1> QED BY <1>2, <1>3

LEMMA VerifyCommitKeeps ==
  ASSUME GatewayInv, VerifyCommit
  PROVE  GatewayInv'
<1>0. checkout.pay \in Payments /\ checkout.of \in Invoices /\ checkout.step # "closed"
  BY DEF VerifyCommit, GatewayInv, TypeOK, NoCheckout
<1> PICK p \in Payments, i \in Invoices : p = checkout.pay /\ i = checkout.of
  BY <1>0
<1> DEFINE new == [NewRecord EXCEPT !.status = "captured", !.invoice = i, !.booked = TRUE, !.recon = "matched"]
<1>1. /\ UNCHANGED <<gate, hooks, seen, rows, rule, sync, refunding, view, human>>
      /\ TypeOK /\ checkout.step # "closed"
  BY <1>0 DEF VerifyCommit, GatewayInv
<1>2. GateType' /\ SyncType' /\ ViewType' /\ Exists' = Exists
  BY <1>1, TypesByPart, TypesStay DEF Exists
<1>3. CASE record[p] = None
  <2>1. /\ record' = [record EXCEPT ![p] = ApplyCategorisation(new)] /\ Book(p, i)
        /\ checkout' = [checkout EXCEPT !.step = "done"]
    BY <1>3 DEF VerifyCommit, NewPayment
  <2>2. new \in Record /\ new.invoice = i /\ new.booked /\ new.recon = "matched" /\ i # None
    BY <1>1, ConstantsAssumption DEF NewRecord, Record, Statuses, Recons, AllCategories, ConstantsAssumption
  <2> HIDE DEF new
  <2>3. Keeps(new, ApplyCategorisation(new))
    BY <1>1, <2>2, ApplyKeeps DEF TypeOK
  <2>4. record' \in [Payments -> Record \cup {None}] /\ record'[p] = ApplyCategorisation(new)
    BY <1>1, <2>1, <2>3 DEF TypeOK, Keeps
  <2>5. RequestType'
    BY <1>1, <2>1, CheckoutMoves
  <2>6. BooksType'
    BY <1>1, <2>1, <2>4, BookTypes DEF BooksType, TypeOK
  <2>7. TypeOK'
    BY <1>2, <2>5, <2>6, TypesByPart
  <2>8. Known \subseteq Known'
    BY <1>1, <2>1, <2>3, <2>4, NoneIsNoRecord DEF Known, Keeps, TypeOK
  <2>9. OnRecord'
    BY <1>1, <1>2, <2>8, OnRecordStays DEF GatewayInv
  <2>10. PaymentOK(p)'
    <3>1. PaymentOK(p) /\ books[p] = 0
      BY <1>1, <1>3, InvariantByPayment DEF GatewayInv, PaymentOK
    <3>2. /\ record'[p] # None /\ record'[p].booked /\ record'[p].invoice # None
          /\ record'[p].recon = "matched"
      BY <2>2, <2>3, <2>4, NoneIsNoRecord DEF Keeps
    <3>3. books'[p] = 1 /\ human'[p].category = None
      BY <1>1, <1>3, <2>1, <3>1, BookTypes DEF PaymentOK
    <3> QED BY <3>2, <3>3 DEF PaymentOK
  <2>11. \A q \in Payments \ {p} :
           record'[q] = record[q] /\ books'[q] = books[q] /\ human'[q] = human[q]
    BY <1>1, <2>1, BookTypes DEF TypeOK
  <2> QED BY <1>1, <2>7, <2>9, <2>10, <2>11, DecidingKeeps
<1>4. CASE record[p] # None
  <2>1. checkout' = [checkout EXCEPT !.step = "error"] /\ UNCHANGED <<record, books, invoice>>
    BY <1>4 DEF VerifyCommit, NewPayment
  <2>2. RequestType'
    BY <1>1, <2>1, CheckoutMoves
  <2> QED BY <1>1, <1>2, <2>1, <2>2, OutsideKeeps
<1> QED BY <1>3, <1>4

(* Types of what a step of the books leaves. *)
LEMMA BooksStep ==
  ASSUME GatewayInv, record' \in [Payments -> Record \cup {None}], rows' \subseteq Payments \X Refunds,
         UNCHANGED <<books, rule, human>>, invoice' \in [Invoices -> [paid : Nat, void : BOOLEAN]]
  PROVE  BooksType'
BY DEF BooksType, GatewayInv, TypeOK

(* A step that writes records as webhooks, syncs and refunds do. *)
LEMMA WritingKeeps ==
  ASSUME GatewayInv, GateType', SyncType', RequestType', ViewType', rows' \subseteq Payments \X Refunds,
         record' \in [Payments -> Record \cup {None}], \A p \in Payments : Evolves(p),
         UNCHANGED <<books, rule, human>>, invoice' \in [Invoices -> [paid : Nat, void : BOOLEAN]],
         Known \subseteq Known' => OnRecord'
  PROVE  GatewayInv'
<1>1. TypeOK'
  BY BooksStep, TypesByPart
<1>2. Known \subseteq Known'
  BY InvariantByPayment, EvolvesOK DEF GatewayInv, Known
<1> QED BY <1>1, <1>2, EvolvingKeeps

(* One record is written. *)
LEMMA OneWritten ==
  ASSUME GatewayInv, NEW p \in Payments, NEW s,
         IF record[p] = None THEN s \in Record /\ ~s.booked ELSE Keeps(record[p], s),
         record' = [record EXCEPT ![p] = s], UNCHANGED <<books, human>>
  PROVE  record' \in [Payments -> Record \cup {None}] /\ \A q \in Payments : Evolves(q)
<1>1. record \in [Payments -> Record \cup {None}] /\ TypeOK
  BY DEF GatewayInv, TypeOK
<1>2. s \in Record
  BY DEF Keeps
<1> QED BY <1>1, <1>2, KeepsOK, StaysOK

(* Webhooks. *)
LEMMA DeliverKeeps ==
  ASSUME GatewayInv, NEW ev \in hooks, Deliver(ev)
  PROVE  GatewayInv'
<1> DEFINE p == ev.pay
<1>1. /\ UNCHANGED <<gate, hooks, books, invoice, rule, checkout, sync, refunding, view, human>>
      /\ TypeOK /\ Handle(ev) /\ seen' = seen \cup {ev} /\ GateType /\ BooksType
  BY TypesByPart DEF Deliver, GatewayInv
<1>2. /\ p \in Payments /\ (ev.kind \in {"refund.created", "refund.processed"} => ev.id \in Refunds)
      /\ gate[p].of \in Invoices \cup {None} /\ record[p] \in Record \cup {None}
  BY <1>1 DEF GateType, BooksType, Events
<1>3. GateType' /\ SyncType' /\ RequestType' /\ ViewType' /\ Exists' = Exists
  <2>1. GateType'
    BY <1>1 DEF GateType
  <2> QED BY <1>1, <2>1, TypesByPart, TypesStay DEF Exists
<1>4. Known \subseteq Known' => OnRecord'
  BY <1>1, <1>3, OnRecordStays DEF GatewayInv
<1>5. invoice' \in [Invoices -> [paid : Nat, void : BOOLEAN]]
  BY <1>1 DEF BooksType
<1>7. CASE ev.kind = "captured" /\ record[p] = None /\ gate[p].of # None
  <2>1. /\ record' = [record EXCEPT ![p] = [NewRecord EXCEPT !.status = "captured", !.invoice = gate[p].of]]
        /\ UNCHANGED rows
    BY <1>1, <1>7 DEF Handle
  <2>2. /\ [NewRecord EXCEPT !.status = "captured", !.invoice = gate[p].of] \in Record
        /\ ~[NewRecord EXCEPT !.status = "captured", !.invoice = gate[p].of].booked
    BY <1>2, NewRecordFits
  <2>3. record' \in [Payments -> Record \cup {None}] /\ \A q \in Payments : Evolves(q)
    BY <1>1, <1>2, <1>7, <2>1, <2>2, OneWritten
  <2> QED BY <1>1, <1>3, <1>4, <1>5, <2>1, <2>3, WritingKeeps DEF BooksType
<1>8. CASE ev.kind = "failed" /\ record[p] # None
  <2>1. record' = [record EXCEPT ![p] = [record[p] EXCEPT !.status = "failed"]] /\ UNCHANGED rows
    BY <1>1, <1>2, <1>8 DEF Handle, BooksType
  <2>2. Keeps(record[p], [record[p] EXCEPT !.status = "failed"])
    BY <1>2, <1>8 DEF Keeps, Record, Statuses
  <2>3. record' \in [Payments -> Record \cup {None}] /\ \A q \in Payments : Evolves(q)
    BY <1>1, <1>2, <1>8, <2>1, <2>2, OneWritten
  <2> QED BY <1>1, <1>3, <1>4, <1>5, <2>1, <2>3, WritingKeeps DEF BooksType
<1>9. CASE ev.kind \in {"refund.created", "refund.processed"} /\ record[p] # None /\ <<p, ev.id>> \notin rows
  <2>1. /\ record' = [record EXCEPT ![p] = Refunded(record[p], record[p].refund + 1)]
        /\ rows' = rows \cup {<<p, ev.id>>}
    BY <1>1, <1>2, <1>9 DEF Handle, BooksType
  <2>2. Keeps(record[p], Refunded(record[p], record[p].refund + 1))
    <3>1. record[p] \in Record /\ record[p].refund + 1 \in Nat
      BY <1>2, <1>9 DEF Record
    <3> QED BY <3>1, RefundedKeeps
  <2>3. record' \in [Payments -> Record \cup {None}] /\ \A q \in Payments : Evolves(q)
    BY <1>1, <1>2, <1>9, <2>1, <2>2, OneWritten
  <2>4. rows' \subseteq Payments \X Refunds
    BY <1>1, <1>2, <1>9, <2>1 DEF BooksType
  <2> QED BY <1>1, <1>3, <1>4, <1>5, <2>3, <2>4, WritingKeeps
<1>10. CASE /\ ~(ev.kind = "captured" /\ record[p] = None /\ gate[p].of # None)
            /\ ~(ev.kind = "failed" /\ record[p] # None)
            /\ ~(ev.kind \in {"refund.created", "refund.processed"} /\ record[p] # None /\ <<p, ev.id>> \notin rows)
  <2>1. UNCHANGED <<record, rows>>
    BY <1>1, <1>10 DEF Handle
  <2>2. record' \in [Payments -> Record \cup {None}] /\ rows' \subseteq Payments \X Refunds
    BY <1>1, <2>1 DEF BooksType
  <2>3. \A q \in Payments : Evolves(q)
    BY <1>1, <2>1, StaysOK
  <2> QED BY <1>1, <1>3, <1>4, <1>5, <2>2, <2>3, WritingKeeps
<1> QED BY <1>7, <1>8, <1>9, <1>10

(* The sync. *)
LEMMA StartSyncKeeps ==
  ASSUME GatewayInv, NEW full \in BOOLEAN, StartSync(full)
  PROVE  GatewayInv'
<1>1. /\ UNCHANGED <<gate, hooks, seen, record, rows, books, invoice, rule, checkout, refunding, view, human>>
      /\ TypeOK
  BY DEF StartSync, GatewayInv
<1>2. GateType /\ GateType' /\ RequestType' /\ BooksType' /\ ViewType' /\ Exists' = Exists
  BY <1>1, TypesByPart, TypesStay DEF Exists
<1> DEFINE todo == {p \in Exists : full \/ ~gate[p].old}
           refunds == UNION {{<<p, id>> : id \in gate[p].refunds} : p \in Payments}
<1>3. sync' = [step |-> "pages", full |-> full, page |-> None, touched |-> {}, todo |-> todo, refunds |-> refunds]
  BY DEF StartSync
<1>4. todo \subseteq Exists /\ todo \subseteq Payments
  BY DEF Exists
<1>5. refunds \subseteq Payments \X Refunds
  BY <1>2 DEF GateType
<1> HIDE DEF todo, refunds
<1>6. SyncType' /\ sync'.todo = todo
  BY <1>3, <1>4, <1>5 DEF SyncType
<1>7. TypeOK'
  BY <1>2, <1>6, TypesByPart
<1>8. OnRecord'
  BY <1>1, <1>2, <1>4, <1>6 DEF GatewayInv, OnRecord, Known
<1> QED BY <1>1, <1>7, <1>8, QuietKeeps

LEMMA FetchPageKeeps ==
  ASSUME GatewayInv, NEW p \in Payments, FetchPage(p)
  PROVE  GatewayInv'
<1>1. /\ UNCHANGED <<gate, hooks, seen, record, rows, books, invoice, rule, checkout, refunding, view, human>>
      /\ TypeOK /\ p \in sync.todo
  BY DEF FetchPage, GatewayInv
<1>2. GateType /\ SyncType /\ GateType' /\ RequestType' /\ Exists' = Exists
  BY <1>1, TypesByPart, TypesStay DEF Exists
<1> DEFINE page == [pay |-> p, status |-> gate[p].status, refunds |-> Cardinality(gate[p].refunds)]
<1>3. page \in PageRow
  <2>1. gate[p].status \in {"authorized", "captured", "failed"}
    BY <1>1, <1>2 DEF GatewayInv, OnRecord, Exists, GateType
  <2>2. gate[p].refunds \subseteq Refunds
    BY <1>2 DEF GateType
  <2>3. Cardinality(gate[p].refunds) \in Nat
    BY <2>2, ConstantsAssumption, FS_Subset, FS_CardinalityType DEF ConstantsAssumption
  <2> QED BY <2>1, <2>3 DEF PageRow
<1>4. sync' = [sync EXCEPT !.page = page]
  BY DEF FetchPage
<1> HIDE DEF page
<1>5. SyncType' /\ sync'.todo = sync.todo
  BY <1>2, <1>3, <1>4 DEF SyncType
<1> QED BY <1>1, <1>2, <1>5, OutsideKeeps

LEMMA SavePageKeeps ==
  ASSUME GatewayInv, SavePage
  PROVE  GatewayInv'
<1>1. /\ UNCHANGED <<gate, hooks, seen, rows, books, invoice, rule, checkout, refunding, view, human>>
      /\ TypeOK /\ sync.page # None
  BY DEF SavePage, GatewayInv
<1>2. /\ SyncType /\ BooksType /\ GateType' /\ RequestType' /\ ViewType' /\ Exists' = Exists
  BY <1>1, TypesByPart, TypesStay DEF Exists
<1>3. sync.page \in PageRow
  BY <1>1, <1>2 DEF SyncType
<1> PICK p \in Payments : p = sync.page.pay
  BY <1>3 DEF PageRow
<1> DEFINE old == IF record[p] = None THEN NewRecord ELSE record[p]
           r == FromPage(old, sync.page)
<1>4. PICK recon \in IF ~Suggests(r) THEN {r.recon} ELSE IF Open = {} THEN {"unmatched"} ELSE {"unmatched", "suggested"} :
        record' = [record EXCEPT ![p] = ApplyCategorisation([r EXCEPT !.recon = recon])]
  BY DEF SavePage
<1>5. sync' = [sync EXCEPT !.page = None, !.todo = @ \ {p}]
  BY DEF SavePage
<1>6. SyncType' /\ sync'.todo \subseteq sync.todo
  BY <1>2, <1>5 DEF SyncType
<1>7. old \in Record /\ (record[p] = None => ~old.booked) /\ (record[p] # None => old = record[p])
  BY <1>2, NewRecordFits DEF BooksType
<1> HIDE DEF old
<1>8. Keeps(old, r)
  BY <1>3, <1>7, FromPageKeeps
<1> HIDE DEF r
<1>9. r \in Record /\ recon \in Recons /\ (r.invoice # None => recon = r.recon)
  BY <1>4, <1>8 DEF Keeps, Suggests, Record, Recons
<1> DEFINE s == [r EXCEPT !.recon = recon]
<1>10. Keeps(r, s) /\ s \in Record
  BY <1>9 DEF Keeps, Record
<1> HIDE DEF s
<1>11. Keeps(s, ApplyCategorisation(s)) /\ rule \in Categories \cup {None}
  BY <1>2, <1>10, ApplyKeeps DEF BooksType
<1>12. Keeps(old, ApplyCategorisation(s))
  BY <1>8, <1>10, <1>11, KeepsTransitive
<1> DEFINE new == ApplyCategorisation(s)
<1>13. record' = [record EXCEPT ![p] = new]
  BY <1>4 DEF s
<1> HIDE DEF new
<1>14. IF record[p] = None THEN new \in Record /\ ~new.booked ELSE Keeps(record[p], new)
  BY <1>7, <1>12 DEF Keeps, new
<1>15. record' \in [Payments -> Record \cup {None}] /\ \A q \in Payments : Evolves(q)
  BY <1>1, <1>13, <1>14, OneWritten
<1>16. Known \subseteq Known' => OnRecord'
  BY <1>1, <1>2, <1>6, OnRecordStays DEF GatewayInv
<1> QED BY <1>1, <1>2, <1>6, <1>15, <1>16, WritingKeeps DEF BooksType

(* A page that is read anew. *)
LEMMA UnreadFits ==
  /\ Unread \in [loading : BOOLEAN, shown : {<<>>}, detail : Detail, row : Payments \cup {None}]
  /\ Unread.shown = <<>> /\ Unread.detail = NoDetail /\ DOMAIN Unread.shown = {}
  /\ Unread.shown \in [DOMAIN Unread.shown -> Record]
<1>1. DOMAIN <<>> = {} /\ <<>> \in [DOMAIN <<>> -> Record]
  OBVIOUS
<1>2. NoDetail \in Detail
  BY DEF NoDetail, Detail
<1> QED BY <1>1, <1>2 DEF Unread

LEMMA ReadAnewTypes ==
  ASSUME ViewType, view' \in {Unread, view}
  PROVE  ViewType'
<1>1. CASE view' = Unread
  BY <1>1, UnreadFits DEF ViewType
<1>2. CASE view' = view
  BY <1>2, TypesStay
<1> QED BY <1>1, <1>2

LEMMA OnRecordReadAnew ==
  ASSUME OnRecord, Known \subseteq Known', Exists \subseteq Exists', UNCHANGED refunding,
         view' \in {Unread, view}, sync'.todo \subseteq sync.todo
  PROVE  OnRecord'
<1>1. CASE view' = Unread
  BY <1>1, UnreadFits DEF OnRecord, NoDetail
<1>2. CASE view' = view
  BY <1>2, OnRecordStays
<1> QED BY <1>1, <1>2

LEMMA FinishSyncTypes ==
  ASSUME TypeOK, NEW step \in {"completed", "partial", "failed"}, FinishSync(step), UNCHANGED <<hooks, seen>>
  PROVE  /\ GateType' /\ SyncType' /\ ViewType' /\ Exists' = Exists /\ sync'.todo = {} /\ view' \in {Unread, view}
         /\ \A p \in Payments :
              /\ gate'[p].status = gate[p].status /\ gate'[p].of = gate[p].of
              /\ gate'[p].refunds = gate[p].refunds
<1>1. GateType /\ SyncType /\ ViewType
  BY TypesByPart
<1>2. /\ sync' = [sync EXCEPT !.step = step, !.page = None, !.todo = {}, !.refunds = {},
                              !.touched = IF step = "completed" THEN @ ELSE {}]
      /\ gate' = IF step = "failed" THEN gate ELSE [p \in Payments |-> [gate[p] EXCEPT !.old = gate[p].status # "new"]]
      /\ view' \in {Unread, view}
  BY DEF FinishSync
<1>3. GateType' /\ \A p \in Payments : /\ gate'[p].status = gate[p].status /\ gate'[p].of = gate[p].of
                                       /\ gate'[p].refunds = gate[p].refunds
  BY <1>1, <1>2 DEF GateType
<1>4. SyncType' /\ sync'.todo = {}
  BY <1>1, <1>2 DEF SyncType
<1>5. ViewType'
  BY <1>1, <1>2, ReadAnewTypes
<1> QED BY <1>2, <1>3, <1>4, <1>5 DEF Exists

LEMMA SyncStopsKeeps ==
  ASSUME GatewayInv, SyncStops
  PROVE  GatewayInv'
<1>1. /\ UNCHANGED <<hooks, seen, record, rows, books, invoice, rule, checkout, refunding, human>> /\ TypeOK
  BY DEF SyncStops, GatewayInv
<1>2. PICK step \in {"partial", "failed"} : FinishSync(step)
  BY DEF SyncStops
<1>3. /\ GateType' /\ SyncType' /\ ViewType' /\ Exists' = Exists /\ sync'.todo = {} /\ view' \in {Unread, view}
      /\ BooksType' /\ RequestType'
  BY <1>1, <1>2, FinishSyncTypes, TypesByPart, TypesStay
<1>4. TypeOK'
  BY <1>3, TypesByPart
<1>5. OnRecord'
  BY <1>1, <1>3, OnRecordReadAnew DEF GatewayInv, Known
<1> QED BY <1>1, <1>4, <1>5, QuietKeeps

(* Refunds that are counted are natural. *)
LEMMA RowsAreCounted ==
  ASSUME NEW p, NEW rs
  PROVE  RowsOf(p, rs) \in Nat
<1>1. IsFiniteSet({id \in Refunds : <<p, id>> \in rs})
  BY ConstantsAssumption, FS_Subset DEF ConstantsAssumption
<1> QED BY <1>1, FS_CardinalityType DEF RowsOf

LEMMA SyncRefundsKeeps ==
  ASSUME GatewayInv, SyncRefunds
  PROVE  GatewayInv'
<1> DEFINE found == {x \in sync.refunds : record[x[1]] # None}
           of == {x[1] : x \in found}
<1>1. /\ UNCHANGED <<hooks, seen, books, invoice, rule, checkout, refunding, human>> /\ TypeOK
      /\ FinishSync("completed") /\ rows' = rows \cup found
      /\ record' = [p \in Payments |-> IF p \in of THEN Refunded(record[p], SumRows(p, found \ rows)) ELSE record[p]]
  BY DEF SyncRefunds, GatewayInv
<1>2. /\ GateType' /\ SyncType' /\ ViewType' /\ Exists' = Exists /\ sync'.todo = {} /\ view' \in {Unread, view}
      /\ RequestType' /\ SyncType /\ BooksType
  BY <1>1, FinishSyncTypes, TypesByPart, TypesStay
<1>3. found \subseteq Payments \X Refunds /\ \A p \in of : record[p] # None
  <2>1. found \subseteq sync.refunds /\ sync.refunds \subseteq Payments \X Refunds
    BY <1>2 DEF SyncType
  <2>2. \A p \in of : record[p] # None
    OBVIOUS
  <2> QED BY <2>1, <2>2
<1> HIDE DEF found
<1>4. \A p \in Payments : SumRows(p, found \ rows) \in Nat
  BY RowsAreCounted DEF SumRows
<1> HIDE DEF of
<1>5. \A p \in Payments : IF p \in of THEN record[p] \in Record /\ Keeps(record[p], record'[p]) ELSE record'[p] = record[p]
  <2> SUFFICES ASSUME NEW p \in Payments
               PROVE  IF p \in of THEN record[p] \in Record /\ Keeps(record[p], record'[p]) ELSE record'[p] = record[p]
    OBVIOUS
  <2>1. record'[p] = IF p \in of THEN Refunded(record[p], SumRows(p, found \ rows)) ELSE record[p]
    BY <1>1
  <2>2. p \in of => record[p] \in Record
    BY <1>2, <1>3 DEF BooksType
  <2>3. SumRows(p, found \ rows) \in Nat
    BY <1>4
  <2> QED BY <2>1, <2>2, <2>3, RefundedKeeps
<1>6. record' \in [Payments -> Record \cup {None}]
  BY <1>1, <1>2, <1>5 DEF BooksType, Keeps
<1>7. \A p \in Payments : Evolves(p)
  BY <1>1, <1>3, <1>5, StaysOK DEF Evolves
<1>8. Known \subseteq Known' => OnRecord'
  BY <1>1, <1>2, OnRecordReadAnew DEF GatewayInv
<1>9. rows' \subseteq Payments \X Refunds
  BY <1>1, <1>2, <1>3 DEF BooksType
<1> QED BY <1>1, <1>2, <1>6, <1>7, <1>8, <1>9, WritingKeeps DEF BooksType

(* Refunds from the books. *)
LEMMA RefundAskKeeps ==
  ASSUME GatewayInv, NEW p \in Payments, NEW id \in Refunds, RefundAsk(p, id), UNCHANGED view
  PROVE  GatewayInv'
<1>1. /\ UNCHANGED <<seen, record, rows, books, invoice, rule, checkout, view, human>>
      /\ TypeOK /\ record[p] # None /\ RefundAtGate(p, id)
      /\ refunding' = [step |-> "asked", pay |-> p, id |-> id, was |-> record[p].refund]
  BY DEF RefundAsk, GatewayInv
<1>2. GateType' /\ SyncType' /\ BooksType' /\ ViewType' /\ BooksType /\ RequestType
  BY <1>1, RefundTypes, TypesByPart, TypesStay
<1>3. record[p].refund \in Nat
  <2>1. record[p] \in Record
    BY <1>1, <1>2 DEF BooksType
  <2> QED BY <2>1 DEF Record
<1>4. RequestType'
  BY <1>1, <1>2, <1>3 DEF RequestType
<1>5. TypeOK'
  BY <1>2, <1>4, TypesByPart
<1>6. Exists \subseteq Exists' /\ sync'.todo = sync.todo
  BY <1>1, RefundTypes
<1>7. OnRecord'
  BY <1>1, <1>6 DEF GatewayInv, OnRecord, Known
<1> QED BY <1>1, <1>5, <1>7, QuietKeeps

LEMMA RefundCommitKeeps ==
  ASSUME GatewayInv, RefundCommit
  PROVE  GatewayInv'
<1>1. /\ UNCHANGED <<gate, hooks, seen, books, rule, checkout, sync, human>> /\ refunding' = NoRefund
      /\ TypeOK /\ refunding.step = "asked"
  BY DEF RefundCommit, GatewayInv
<1>2. BooksType /\ RequestType /\ GateType' /\ SyncType' /\ ViewType /\ Exists' = Exists
  BY <1>1, TypesByPart, TypesStay DEF Exists
<1>3. refunding \in [step : {"asked"}, pay : Payments, id : Refunds, was : Nat]
  BY <1>1, <1>2 DEF RequestType, NoRefund
<1> PICK p \in Payments, id \in Refunds, was \in Nat :
      p = refunding.pay /\ id = refunding.id /\ was = refunding.was
  BY <1>3
<1>4. RequestType'
  BY <1>1, <1>2 DEF RequestType
<1>5. record[p] \in Record
  BY <1>1, <1>2 DEF GatewayInv, OnRecord, Known, BooksType
<1>6. view' \in {Unread, view}
  BY DEF RefundCommit, ReloadAll
<1>7. ViewType'
  BY <1>2, <1>6, ReadAnewTypes
<1>8. Known \subseteq Known' => OnRecord'
  <2>1. HAVE Known \subseteq Known'
  <2>2. CASE view' = Unread
    BY <1>1, <1>2, <2>1, <2>2, UnreadFits DEF GatewayInv, OnRecord, NoDetail, NoRefund
  <2>3. CASE view' = view
    BY <1>1, <1>2, <2>1, <2>3 DEF GatewayInv, OnRecord, NoRefund
  <2> QED BY <1>6, <2>2, <2>3
<1>9. CASE <<p, id>> \in rows
  <2>1. UNCHANGED <<record, rows, invoice>>
    BY <1>9 DEF RefundCommit
  <2>2. record' \in [Payments -> Record \cup {None}] /\ rows' \subseteq Payments \X Refunds
        /\ invoice' \in [Invoices -> [paid : Nat, void : BOOLEAN]]
    BY <1>2, <2>1 DEF BooksType
  <2>3. \A q \in Payments : Evolves(q)
    BY <1>1, <2>1, StaysOK
  <2> QED BY <1>1, <1>2, <1>4, <1>7, <1>8, <2>2, <2>3, WritingKeeps
<1>10. CASE <<p, id>> \notin rows
  <2>1. /\ rows' = rows \cup {<<p, id>>}
        /\ record' = [record EXCEPT ![p] = Refunded(record[p], was + 1)]
        /\ invoice' = IF record[p].invoice = None THEN invoice
                      ELSE [invoice EXCEPT ![record[p].invoice].paid = IF @ > 0 THEN @ - 1 ELSE 0]
    BY <1>2, <1>10 DEF RefundCommit, BooksType
  <2>2. Keeps(record[p], Refunded(record[p], was + 1)) /\ record[p] # None
    BY <1>5, RefundedKeeps, NoneIsNoRecord
  <2>3. record' \in [Payments -> Record \cup {None}] /\ \A q \in Payments : Evolves(q)
    BY <1>1, <2>1, <2>2, OneWritten
  <2>4. rows' \subseteq Payments \X Refunds
    BY <1>2, <2>1 DEF BooksType
  <2>5. invoice' \in [Invoices -> [paid : Nat, void : BOOLEAN]]
    <3>1. CASE record[p].invoice = None
      BY <1>2, <2>1, <3>1 DEF BooksType
    <3>2. CASE record[p].invoice # None
      <4> PICK i \in Invoices : i = record[p].invoice
        BY <1>5, <3>2 DEF Record
      <4> DEFINE paid == IF invoice[i].paid > 0 THEN invoice[i].paid - 1 ELSE 0
      <4>1. invoice' = [invoice EXCEPT ![i] = [invoice[i] EXCEPT !.paid = paid]]
        BY <1>2, <2>1, <3>2 DEF BooksType
      <4>2. paid \in Nat /\ invoice[i] \in [paid : Nat, void : BOOLEAN]
        BY <1>2 DEF BooksType
      <4> HIDE DEF paid
      <4> QED BY <1>2, <4>1, <4>2 DEF BooksType
    <3> QED BY <3>1, <3>2
  <2> QED BY <1>1, <1>2, <1>4, <1>7, <1>8, <2>3, <2>4, <2>5, WritingKeeps
<1> QED BY <1>9, <1>10

(* The pages. *)
LEMMA ViewKeeps ==
  ASSUME GatewayInv, UNCHANGED <<gate, hooks, seen, record, rows, books, invoice, rule, checkout, sync, refunding, human>>,
         ViewType', OnRecord'
  PROVE  GatewayInv'
<1>1. TypeOK'
  BY TypesByPart, TypesStay DEF GatewayInv
<1> QED BY <1>1, QuietKeeps

LEMMA PageMoves ==
  ASSUME GatewayInv, CloseRefund \/ Load \/ CloseDetail \/ LoadDetail
                       \/ \E p \in Payments : OpenRefund(p) \/ OpenDetail(p)
  PROVE  GatewayInv'
<1>1. UNCHANGED <<gate, hooks, seen, record, rows, books, invoice, rule, checkout, sync, refunding, human>>
  BY DEF CloseRefund, Load, CloseDetail, LoadDetail, OpenRefund, OpenDetail
<1>2. ViewType /\ BooksType /\ OnRecord
  BY TypesByPart DEF GatewayInv
<1>3. OnRecord' <=> /\ DOMAIN view'.shown \subseteq Known
                    /\ view'.detail.on # None => view'.detail.on \in Known
                    /\ view'.detail.data # None => view'.detail.on # None
  BY <1>1, <1>2 DEF OnRecord, Known, Exists
<1>4. ASSUME view'.shown = view.shown, view'.detail = view.detail,
             view' \in [loading : BOOLEAN, shown : {view.shown}, detail : Detail, row : Payments \cup {None}]
      PROVE  GatewayInv'
  BY <1>1, <1>2, <1>3, <1>4, ViewKeeps DEF OnRecord, ViewType
<1>5. ASSUME view'.shown = view.shown, NEW detail \in Detail, view' = [view EXCEPT !.detail = detail],
             detail.on \in Known \cup {None}, detail.data # None => detail.on # None
      PROVE  GatewayInv'
  <2>1. view'.detail = detail /\ ViewType'
    BY <1>2, <1>5 DEF ViewType
  <2>2. OnRecord'
    BY <1>2, <1>3, <1>5, <2>1 DEF OnRecord
  <2> QED BY <1>1, <2>1, <2>2, ViewKeeps
<1>6. CASE CloseRefund
  BY <1>2, <1>4, <1>6 DEF CloseRefund, ViewType
<1>7. CASE Load
  <2> DEFINE shown == [p \in Known |-> record[p]]
  <2>1. view' = [view EXCEPT !.loading = FALSE, !.shown = shown]
    BY <1>7 DEF Load
  <2>2. shown \in [Known -> Record] /\ DOMAIN shown = Known
    BY <1>2 DEF Known, BooksType
  <2> HIDE DEF shown
  <2>3. view'.shown = shown /\ view'.detail = view.detail /\ ViewType'
    BY <1>2, <2>1, <2>2 DEF ViewType
  <2>4. OnRecord'
    BY <1>2, <1>3, <2>2, <2>3 DEF OnRecord
  <2> QED BY <1>1, <2>3, <2>4, ViewKeeps
<1>8. CASE CloseDetail
  <2>1. view' = [view EXCEPT !.detail = NoDetail]
    BY <1>8 DEF CloseDetail
  <2>2. NoDetail \in Detail /\ view'.shown = view.shown
    BY <1>2, <2>1 DEF NoDetail, Detail, ViewType
  <2> QED BY <1>5, <2>1, <2>2 DEF NoDetail
<1>9. CASE LoadDetail
  <2>1. PICK p \in Known : p = view.detail.on
    BY <1>2, <1>9 DEF LoadDetail, OnRecord
  <2>2. view' = [view EXCEPT !.detail = ReadDetail(p)]
    BY <1>9, <2>1 DEF LoadDetail
  <2>3. ReadDetail(p) \in Detail /\ ReadDetail(p).on = p
    BY <1>1, <1>2 DEF ReadDetail, Detail, BooksType, Known
  <2>4. p # None
    BY ConstantsAssumption DEF ConstantsAssumption, Known
  <2>5. view'.shown = view.shown
    BY <1>2, <2>2 DEF ViewType
  <2> QED BY <1>5, <2>2, <2>3, <2>4, <2>5
<1>10. ASSUME NEW p \in Payments, OpenRefund(p) \/ OpenDetail(p)
       PROVE  GatewayInv'
  <2>1. CASE OpenRefund(p)
    BY <1>2, <1>4, <2>1 DEF OpenRefund, ViewType
  <2>2. CASE OpenDetail(p)
    <3>1. p \in Known /\ view.detail = NoDetail /\ view' = [view EXCEPT !.detail.on = p] /\ p # None
      BY <1>2, <2>2, ConstantsAssumption DEF OpenDetail, OnRecord, ConstantsAssumption
    <3> DEFINE detail == [on |-> p, data |-> None, matches |-> {}]
    <3>2. view' = [view EXCEPT !.detail = detail]
      BY <1>2, <3>1 DEF ViewType, NoDetail
    <3>3. detail \in Detail /\ view'.shown = view.shown
      BY <1>2, <3>2 DEF Detail, ViewType
    <3> HIDE DEF detail
    <3>4. detail.on = p /\ detail.data = None
      BY DEF detail
    <3> QED BY <1>5, <3>1, <3>2, <3>3, <3>4
  <2> QED BY <1>10, <2>1, <2>2
<1> QED BY <1>6, <1>7, <1>8, <1>9, <1>10

(* Decisions. *)
LEMMA SetCategoryDecides ==
  ASSUME GatewayInv, NEW p \in Known, NEW c \in AllCategories, NEW accept \in BOOLEAN,
         SetCategory(p, c, accept), UNCHANGED <<rows, books, invoice, rule>>
  PROVE  /\ BooksType' /\ PaymentOK(p)' /\ Known' = Known
         /\ \A q \in Payments \ {p} : record'[q] = record[q] /\ books'[q] = books[q] /\ human'[q] = human[q]
<1>1. BooksType /\ p \in Payments /\ record[p] \in Record /\ record[p] # None
  BY TypesByPart DEF GatewayInv, BooksType, Known
<1> DEFINE new == IF accept /\ record[p].category = c THEN [record[p] EXCEPT !.settled = TRUE]
                  ELSE [record[p] EXCEPT !.category = c, !.source = "manual", !.settled = TRUE]
<1>2. record' = [record EXCEPT ![p] = new] /\ human' = [human EXCEPT ![p].category = c]
  BY <1>1 DEF SetCategory, BooksType
<1>3. /\ new \in Record /\ new.settled /\ new.category = c
      /\ new.booked = record[p].booked /\ new.invoice = record[p].invoice /\ new.recon = record[p].recon
  BY <1>1 DEF Record
<1> HIDE DEF new
<1>4. new # None
  BY <1>3, NoneIsNoRecord
<1>5. /\ record'[p] = new /\ human'[p].category = c /\ human'[p].recon = human[p].recon
      /\ \A q \in Payments \ {p} : record'[q] = record[q] /\ human'[q] = human[q]
  BY <1>1, <1>2 DEF BooksType
<1>6. BooksType'
  BY <1>1, <1>2, <1>3 DEF BooksType
<1>7. PaymentOK(p)
  BY <1>1, InvariantByPayment DEF GatewayInv
<1>8. PaymentOK(p)'
  BY <1>1, <1>3, <1>4, <1>5, <1>7 DEF PaymentOK
<1>9. Known' = Known
  BY <1>1, <1>4, <1>5 DEF Known
<1> QED BY <1>5, <1>6, <1>8, <1>9

LEMMA MatchDecides ==
  ASSUME GatewayInv, NEW p \in Known, NEW i \in Invoices, MatchInvoice(p, i), UNCHANGED <<rows, rule>>
  PROVE  /\ BooksType' /\ PaymentOK(p)' /\ Known' = Known
         /\ \A q \in Payments \ {p} : record'[q] = record[q] /\ books'[q] = books[q] /\ human'[q] = human[q]
<1>1. BooksType /\ p \in Payments /\ record[p] \in Record /\ record[p] # None /\ i # None /\ TypeOK
  BY TypesByPart, ConstantsAssumption DEF GatewayInv, BooksType, Known, ConstantsAssumption
<1> DEFINE new == [record[p] EXCEPT !.invoice = i, !.booked = TRUE, !.recon = "matched",
                     !.category = "customer_payment", !.source = "manual", !.settled = TRUE]
           said == [category |-> "customer_payment", recon |-> FALSE]
<1>2. record' = [record EXCEPT ![p] = new] /\ human' = [human EXCEPT ![p] = said] /\ Book(p, i) /\ ~record[p].booked
  BY <1>1 DEF MatchInvoice, BooksType
<1>3. /\ new \in Record /\ new.settled /\ new.category = "customer_payment"
      /\ new.booked /\ new.invoice = i /\ new.recon = "matched"
  BY <1>1 DEF Record, Recons, AllCategories
<1>4. said \in [category : AllCategories, recon : BOOLEAN] /\ said.category = "customer_payment" /\ ~said.recon
  BY DEF AllCategories
<1> HIDE DEF new, said
<1>5. new # None
  BY <1>3, NoneIsNoRecord
<1>6. /\ record'[p] = new /\ human'[p] = said
      /\ \A q \in Payments \ {p} : record'[q] = record[q] /\ human'[q] = human[q]
  BY <1>1, <1>2 DEF BooksType
<1>7. /\ books' \in [Payments -> Nat] /\ books'[p] = books[p] + 1
      /\ \A q \in Payments \ {p} : books'[q] = books[q]
      /\ invoice' \in [Invoices -> [paid : Nat, void : BOOLEAN]]
  BY <1>1, <1>2, BookTypes
<1>8. BooksType'
  BY <1>1, <1>2, <1>3, <1>4, <1>7 DEF BooksType
<1>9. PaymentOK(p)
  BY <1>1, InvariantByPayment DEF GatewayInv
<1>10. books[p] = 0
  BY <1>2, <1>9 DEF PaymentOK
<1>11. PaymentOK(p)'
  BY <1>1, <1>3, <1>4, <1>5, <1>6, <1>7, <1>10 DEF PaymentOK
<1>12. Known' = Known
  BY <1>1, <1>5, <1>6 DEF Known
<1> QED BY <1>6, <1>7, <1>8, <1>11, <1>12

LEMMA ReconDecides ==
  ASSUME GatewayInv, NEW p \in Known, NEW recon \in {"matched", "ignored"}, SetReconciliation(p, recon),
         UNCHANGED <<rows, books, invoice, rule>>
  PROVE  /\ BooksType' /\ PaymentOK(p)' /\ Known' = Known
         /\ \A q \in Payments \ {p} : record'[q] = record[q] /\ books'[q] = books[q] /\ human'[q] = human[q]
<1>1. BooksType /\ p \in Payments /\ record[p] \in Record /\ record[p] # None
  BY TypesByPart DEF GatewayInv, BooksType, Known
<1> DEFINE new == [record[p] EXCEPT !.recon = recon]
<1>2. record' = [record EXCEPT ![p] = new] /\ human' = [human EXCEPT ![p].recon = TRUE]
  BY <1>1 DEF SetReconciliation, BooksType
<1>3. /\ new \in Record /\ new.settled = record[p].settled /\ new.category = record[p].category
      /\ new.booked = record[p].booked /\ new.invoice = record[p].invoice
  BY <1>1 DEF Record, Recons
<1> HIDE DEF new
<1>4. new # None
  BY <1>3, NoneIsNoRecord
<1>5. /\ record'[p] = new /\ human'[p].recon /\ human'[p].category = human[p].category
      /\ \A q \in Payments \ {p} : record'[q] = record[q] /\ human'[q] = human[q]
  BY <1>1, <1>2 DEF BooksType
<1>6. BooksType'
  BY <1>1, <1>2, <1>3 DEF BooksType
<1>7. PaymentOK(p)
  BY <1>1, InvariantByPayment DEF GatewayInv
<1>8. PaymentOK(p)'
  BY <1>1, <1>3, <1>4, <1>5, <1>7 DEF PaymentOK
<1>9. Known' = Known
  BY <1>1, <1>4, <1>5 DEF Known
<1> QED BY <1>5, <1>6, <1>8, <1>9

(* What is decided of a payment, whatever the page shows next. *)
LEMMA DecisionKeeps ==
  ASSUME GatewayInv, NEW p \in Known, BooksType', PaymentOK(p)', Known' = Known, ViewType',
         \A q \in Payments \ {p} : record'[q] = record[q] /\ books'[q] = books[q] /\ human'[q] = human[q],
         UNCHANGED <<gate, hooks, seen, checkout, sync, refunding>>,
         DOMAIN view'.shown = DOMAIN view.shown, view'.detail.on = view.detail.on,
         view'.detail.data # None => view'.detail.on # None
  PROVE  GatewayInv'
<1>1. TypeOK'
  BY TypesByPart, TypesStay DEF GatewayInv
<1>2. p \in Payments /\ OnRecord
  BY DEF Known, GatewayInv
<1>3. OnRecord'
  BY <1>2 DEF OnRecord, Exists
<1> QED BY <1>1, <1>2, <1>3, DecidingKeeps

LEMMA StaffKeeps ==
  ASSUME GatewayInv, NEW p \in Payments, Staff(p)
  PROVE  GatewayInv'
<1>1. /\ UNCHANGED <<gate, hooks, seen, rows, rule, checkout, sync, refunding, view>>
      /\ p \in Known
  BY DEF Staff, Known
<1>2. ViewType' /\ (view.detail.data # None => view.detail.on # None)
  BY <1>1, TypesByPart, TypesStay DEF GatewayInv, OnRecord
<1>3. CASE \E c \in Categories, accept \in BOOLEAN : SetCategory(p, c, accept) /\ UNCHANGED <<books, invoice>>
  <2> PICK c \in AllCategories, accept \in BOOLEAN : SetCategory(p, c, accept) /\ UNCHANGED <<books, invoice>>
    BY <1>3 DEF AllCategories
  <2> QED BY <1>1, <1>2, SetCategoryDecides, DecisionKeeps
<1>4. CASE \E i \in Open : MatchInvoice(p, i)
  <2> PICK i \in Invoices : MatchInvoice(p, i)
    BY <1>4 DEF Open
  <2> QED BY <1>1, <1>2, MatchDecides, DecisionKeeps
<1>5. CASE \E recon \in {"matched", "ignored"} : SetReconciliation(p, recon) /\ UNCHANGED <<books, invoice>>
  BY <1>1, <1>2, <1>5, ReconDecides, DecisionKeeps
<1> QED BY <1>3, <1>4, <1>5 DEF Staff

LEMMA VoidKeeps ==
  ASSUME GatewayInv, NEW i \in Invoices, Void(i)
  PROVE  GatewayInv'
<1>1. /\ UNCHANGED <<gate, hooks, seen, record, rows, books, rule, checkout, sync, refunding, view, human>>
      /\ invoice' = [invoice EXCEPT ![i].void = TRUE]
  BY DEF Void
<1>2. BooksType'
  BY <1>1, TypesByPart DEF GatewayInv, BooksType
<1>3. TypeOK'
  BY <1>1, <1>2, TypesByPart, TypesStay DEF GatewayInv
<1>4. OnRecord'
  BY <1>1, OnRecordStays DEF GatewayInv, Known, Exists, SyncType
<1> QED BY <1>1, <1>3, <1>4, QuietKeeps

LEMMA AtRulesKeeps ==
  ASSUME GatewayInv, AtRules
  PROVE  GatewayInv'
<1>1. /\ UNCHANGED <<gate, hooks, seen, rows, books, invoice, checkout, sync, refunding, human>>
      /\ view' \in {Unread, view} /\ TypeOK
  BY DEF AtRules, GatewayInv
<1>2. /\ GateType' /\ SyncType' /\ RequestType' /\ ViewType' /\ Exists' = Exists /\ BooksType
  BY <1>1, TypesByPart, TypesStay, ReadAnewTypes DEF Exists
<1>3. Known \subseteq Known' => OnRecord'
  BY <1>1, <1>2, OnRecordReadAnew DEF GatewayInv
<1>4. CASE \E c \in Categories \cup {None} : rule' = c /\ rule # c /\ UNCHANGED record
  <2>1. BooksType'
    BY <1>1, <1>2, <1>4 DEF BooksType
  <2>2. TypeOK'
    BY <1>2, <2>1, TypesByPart
  <2>3. Known' = Known
    BY <1>4 DEF Known
  <2> QED BY <1>1, <1>3, <1>4, <2>2, <2>3, QuietKeeps
<1>5. CASE Reapply /\ UNCHANGED rule
  <2>1. \A p \in Payments :
          /\ record'[p] \in Record \cup {None}
          /\ record[p] = None => record'[p] = None
          /\ record[p] # None => Keeps(record[p], record'[p])
    <3> SUFFICES ASSUME NEW p \in Payments
                 PROVE  /\ record'[p] \in Record \cup {None}
                        /\ record[p] = None => record'[p] = None
                        /\ record[p] # None => Keeps(record[p], record'[p])
      OBVIOUS
    <3>1. record'[p] = IF record[p] = None \/ record[p].settled THEN record[p] ELSE ApplyCategorisation(record[p])
      BY <1>5 DEF Reapply
    <3>2. record[p] \in Record \cup {None} /\ rule \in Categories \cup {None}
      BY <1>2 DEF BooksType
    <3>3. record[p] # None => Keeps(record[p], record[p]) /\ Keeps(record[p], ApplyCategorisation(record[p]))
      BY <3>2, ApplyKeeps DEF Keeps
    <3> QED BY <3>1, <3>2, <3>3 DEF Keeps
  <2>2. record' \in [Payments -> Record \cup {None}]
    BY <1>5, <2>1 DEF Reapply
  <2>3. \A p \in Payments : Evolves(p)
    BY <1>1, <2>1 DEF Evolves
  <2> QED BY <1>1, <1>2, <1>3, <1>5, <2>2, <2>3, WritingKeeps DEF BooksType
<1> QED BY <1>4, <1>5 DEF AtRules

(* Decisions on the page. *)
LEMMA ChooseKeeps ==
  ASSUME GatewayInv, NEW c \in Categories \cup {"customer_payment"}, Choose(c)
  PROVE  GatewayInv'
<1>1. /\ UNCHANGED <<gate, hooks, seen, rows, books, invoice, rule, checkout, sync, refunding>>
      /\ view' = Changed([view.detail EXCEPT !.data = record'[view.detail.on]]) /\ view.detail.data # None
      /\ record[view.detail.on] # None
  BY DEF Choose, Ready
<1>2. ViewType /\ OnRecord /\ c \in AllCategories
  BY TypesByPart DEF GatewayInv, AllCategories
<1>3. PICK p \in Known : p = view.detail.on /\ p # None
  BY <1>1, <1>2 DEF OnRecord
<1>4. PICK accept \in BOOLEAN : SetCategory(p, c, accept)
  BY <1>3 DEF Choose
<1>5. /\ BooksType' /\ PaymentOK(p)' /\ Known' = Known
      /\ \A q \in Payments \ {p} : record'[q] = record[q] /\ books'[q] = books[q] /\ human'[q] = human[q]
  BY <1>1, <1>2, <1>4, SetCategoryDecides
<1> PICK new \in Record \cup {None} : new = record'[p]
  BY <1>5 DEF BooksType, Known
<1> DEFINE detail == [view.detail EXCEPT !.data = new]
<1>6. detail \in Detail /\ detail.on = p
  BY <1>2, <1>3 DEF ViewType, Detail
<1>7. view' = [view EXCEPT !.detail = detail, !.loading = TRUE]
  BY <1>1, <1>3 DEF Changed
<1> HIDE DEF detail
<1>8. ViewType' /\ view'.detail = detail /\ view'.shown = view.shown
  BY <1>2, <1>6, <1>7 DEF ViewType
<1> QED BY <1>1, <1>3, <1>5, <1>6, <1>8, DecisionKeeps

LEMMA ConfirmMatchKeeps ==
  ASSUME GatewayInv, NEW i \in Invoices, ConfirmMatch(i)
  PROVE  GatewayInv'
<1>1. /\ UNCHANGED <<gate, hooks, seen, rows, rule, checkout, sync, refunding>>
      /\ view' = Changed(ReadDetail(view.detail.on)) /\ view.detail.data # None
      /\ MatchInvoice(view.detail.on, i)
  BY DEF ConfirmMatch, Ready
<1>2. ViewType /\ OnRecord
  BY TypesByPart DEF GatewayInv
<1>3. PICK p \in Known : p = view.detail.on /\ p # None
  BY <1>1, <1>2 DEF OnRecord
<1>4. /\ BooksType' /\ PaymentOK(p)' /\ Known' = Known
      /\ \A q \in Payments \ {p} : record'[q] = record[q] /\ books'[q] = books[q] /\ human'[q] = human[q]
  BY <1>1, <1>3, MatchDecides
<1>5. ReadDetail(p) \in Detail /\ ReadDetail(p).on = p
  BY <1>4 DEF ReadDetail, Detail, BooksType, Known
<1>6. view' = [view EXCEPT !.detail = ReadDetail(p), !.loading = TRUE]
  BY <1>1, <1>3 DEF Changed
<1>7. ViewType' /\ view'.detail = ReadDetail(p) /\ view'.shown = view.shown
  BY <1>2, <1>5, <1>6 DEF ViewType
<1> QED BY <1>1, <1>3, <1>4, <1>5, <1>7, DecisionKeeps

LEMMA IgnoreKeeps ==
  ASSUME GatewayInv, NEW p \in Payments, Ignore(p)
  PROVE  GatewayInv'
<1>1. /\ UNCHANGED <<gate, hooks, seen, rows, books, invoice, rule, checkout, sync, refunding>>
      /\ SetReconciliation(p, "ignored") /\ view' = [view EXCEPT !.loading = TRUE] /\ p \in DOMAIN view.shown
  BY DEF Ignore
<1>2. ViewType /\ OnRecord
  BY TypesByPart DEF GatewayInv
<1>3. p \in Known
  BY <1>1, <1>2 DEF OnRecord
<1>4. ViewType' /\ view'.detail = view.detail /\ view'.shown = view.shown
  BY <1>1, <1>2 DEF ViewType
<1> QED BY <1>1, <1>2, <1>3, <1>4, ReconDecides, DecisionKeeps DEF OnRecord

LEMMA InitKeeps == Init => GatewayInv
<1> SUFFICES ASSUME Init PROVE GatewayInv
  OBVIOUS
<1>1. PICK paid \in SUBSET Payments :
        /\ gate = [p \in Payments |-> [status |-> IF p \in paid THEN "captured" ELSE "new", of |-> None, refunds |-> {}, old |-> FALSE]]
        /\ record = [p \in Payments |-> IF p \in paid THEN [NewRecord EXCEPT !.status = "captured",
                                           !.category = "customer_payment", !.source = "auto"] ELSE None]
  BY DEF Init
<1>2. [NewRecord EXCEPT !.status = "captured", !.category = "customer_payment", !.source = "auto"] \in Record
      /\ ~[NewRecord EXCEPT !.status = "captured", !.category = "customer_payment", !.source = "auto"].booked
  BY DEF NewRecord, Record, Statuses, Recons, AllCategories
<1>3. GateType
  BY <1>1 DEF Init, GateType
<1>4. record \in [Payments -> Record \cup {None}] /\ \A p \in Payments : record[p] # None => ~record[p].booked
  BY <1>1, <1>2
<1>5. BooksType
  BY <1>4 DEF Init, BooksType, AllCategories
<1>6. SyncType /\ RequestType
  BY DEF Init, SyncType, RequestType, NoSync
<1>7. ViewType /\ view = Unread
  BY UnreadFits DEF Init, ViewType
<1>8. TypeOK
  BY <1>3, <1>5, <1>6, <1>7, TypesByPart
<1>9. \A p \in Payments : PaymentOK(p)
  BY <1>4 DEF Init, PaymentOK
<1>10. OnRecord
  BY <1>7, UnreadFits DEF Init, OnRecord, NoDetail, NoRefund, NoSync
<1> QED BY <1>8, <1>9, <1>10, InvariantByPayment DEF GatewayInv

LEMMA NextKeeps == GatewayInv /\ [Next]_vars => GatewayInv'
<1> SUFFICES ASSUME GatewayInv, [Next]_vars PROVE GatewayInv'
  OBVIOUS
<1>1. CASE UNCHANGED vars
  BY <1>1, TypesByPart, TypesStay, OnRecordStays, QuietKeeps DEF vars, GatewayInv, Known, Exists
<1>2. CASE PayHere \/ LeaveCheckout \/ VerifyRead \/ VerifyCommit
  BY <1>2, PayHereKeeps, CheckoutKeeps, VerifyCommitKeeps
<1>3. CASE SavePage \/ SyncRefunds \/ SyncStops
  BY <1>3, SavePageKeeps, SyncRefundsKeeps, SyncStopsKeeps
<1>4. CASE RefundCommit \/ AtRules
  BY <1>4, RefundCommitKeeps, AtRulesKeeps
<1>5. CASE CloseRefund \/ Load \/ LoadDetail \/ CloseDetail
  BY <1>5, PageMoves
<1>6. ASSUME NEW p \in Payments, PayElsewhere(p) \/ Capture(p) \/ FetchPage(p) \/ OpenRefund(p) \/ Staff(p)
                                   \/ OpenDetail(p) \/ Ignore(p)
      PROVE  GatewayInv'
  BY <1>6, PayElsewhereKeeps, FetchPageKeeps, PageMoves, StaffKeeps, IgnoreKeeps
<1>7. ASSUME NEW p \in Payments, NEW id \in Refunds, RefundElsewhere(p, id) \/ StaffRefund(p, id)
      PROVE  GatewayInv'
  BY <1>7, RefundElsewhereKeeps, RefundAskKeeps DEF StaffRefund
<1>8. ASSUME NEW p \in Payments, NEW i \in Invoices, CreateOrder(p, i) PROVE GatewayInv'
  BY <1>8, CreateOrderKeeps
<1>9. ASSUME NEW id \in Refunds, ProcessRefund(id) PROVE GatewayInv'
  <2>1. view.row \in Payments
    BY <1>9 DEF ProcessRefund, GatewayInv, TypeOK
  <2> QED BY <1>9, <2>1, RefundAskKeeps DEF ProcessRefund
<1>10. ASSUME NEW i \in Invoices, Void(i) \/ ConfirmMatch(i) PROVE GatewayInv'
  BY <1>10, VoidKeeps, ConfirmMatchKeeps
<1>11. ASSUME NEW full \in BOOLEAN, StartSync(full) PROVE GatewayInv'
  BY <1>11, StartSyncKeeps
<1>12. ASSUME NEW ev \in hooks, Deliver(ev) PROVE GatewayInv'
  BY <1>12, DeliverKeeps
<1>13. ASSUME NEW c \in Categories \cup {"customer_payment"}, Choose(c) PROVE GatewayInv'
  BY <1>13, ChooseKeeps
<1> QED BY <1>1, <1>2, <1>3, <1>4, <1>5, <1>6, <1>7, <1>8, <1>9, <1>10, <1>11, <1>12, <1>13 DEF Next

(* A payment is booked once at most and what people decided of it stays,   *)
(* for any number of payments, invoices and people, in every interleaving  *)
(* of checkouts, webhooks, syncs, refunds and reviews.                     *)
THEOREM GatewayInvariant == Spec => []GatewayInv
<1>1. Init => GatewayInv
  BY InitKeeps
<1>2. GatewayInv /\ [Next]_vars => GatewayInv'
  BY NextKeeps
<1> QED BY <1>1, <1>2, PTL DEF Spec

(* However a payment is confirmed - by the checkout's own verification or  *)
(* by someone who matches it - it is booked once (razorpay.py:             *)
(* verify_payment, match_payment_to_invoice).                              *)
THEOREM PaymentsAreBookedOnce == Spec => []BookedOnce
<1>1. GatewayInv => BookedOnce
  BY DEF GatewayInv
<1> QED BY <1>1, GatewayInvariant, PTL

(* No sync, rule or webhook undoes what a person decided of a payment      *)
(* (razorpay_categorize.py: apply_categorisation; razorpay_sync.py:        *)
(* _upsert_payment).                                                       *)
THEOREM DecisionsAreKept == Spec => []DecisionsStay
<1>1. GatewayInv => DecisionsStay
  BY DEF GatewayInv
<1> QED BY <1>1, GatewayInvariant, PTL

----------------------------------------------------------------------------
(* A sync that completes agrees *)

(* A step after which orders await payment and refunds are the gateway's,
   as before. *)
LEMMA GateStays ==
  ASSUME RefundsAreAtGate,
         \A p \in Payments : /\ gate'[p].status = gate[p].status /\ gate'[p].refunds = gate[p].refunds,
         UNCHANGED hooks, TypeOK, checkout'.step # "paying",
         \A p \in Payments, id \in Refunds : <<p, id>> \in rows' \cup sync'.refunds => id \in gate[p].refunds,
         refunding' \in {refunding, NoRefund}
  PROVE  RefundsAreAtGate'
<1>1. \A ev \in hooks : ev.pay \in Payments
  BY DEF TypeOK, Events
<1>2. refunding.step = "asked" => refunding.pay \in Payments
  BY DEF TypeOK, NoRefund
<1> QED BY <1>1, <1>2 DEF RefundsAreAtGate, NoRefund

LEMMA AtGateStays ==
  ASSUME RefundsAreAtGate, TypeOK, UNCHANGED <<gate, hooks, checkout>>,
         \A p \in Payments, id \in Refunds : <<p, id>> \in rows' \cup sync'.refunds => id \in gate[p].refunds,
         refunding' \in {refunding, NoRefund}
  PROVE  RefundsAreAtGate'
BY DEF RefundsAreAtGate, NoRefund

(* Of a record that is known, a step leaves status and refunds, or writes
   what the gateway says: that the payment failed, or a refund of it that the
   books do not know. *)
AsGateSays(p) ==
  /\ record'[p] # None
  /\ \/ /\ record'[p].refund = record[p].refund
        /\ record'[p].status \in {record[p].status} \cup {s \in {"failed"} : gate[p].status = s}
        /\ \A id \in Refunds : <<p, id>> \in rows' <=> <<p, id>> \in rows
     \/ \E id \in gate[p].refunds : <<p, id>> \notin rows

LEMMA WriteAgrees ==
  ASSUME SyncInv, UNCHANGED sync, \A p \in Known : AsGateSays(p),
         \A p \in Payments : /\ gate'[p].status = gate[p].status /\ gate'[p].refunds = gate[p].refunds
  PROVE  SyncedSoFar' /\ SyncAgrees'
<1>1. Exists' = Exists /\ Exists \subseteq Payments
  BY DEF Exists
<1>2. \A p \in Payments : /\ gate[p].refunds # {} => gate[p].status = "captured"
                          /\ gate[p].refunds \subseteq Refunds
  BY DEF SyncInv, GatewayInv, TypeOK, RefundsAreAtGate
<1>3. SyncedSoFar'
  <2>1. SyncedSoFar
    BY DEF SyncInv
  <2>2. \A p \in Exists : record[p] # None =>
          /\ record'[p] # None
          /\ gate[p].refunds = {} /\ record[p].refund = 0 /\ record[p].status = gate[p].status =>
               record'[p].refund = 0 /\ record'[p].status = gate[p].status
    BY <1>1 DEF Known, AsGateSays
  <2> QED BY <1>1, <2>1, <2>2 DEF SyncedSoFar
<1>4. SyncAgrees'
  <2> SUFFICES ASSUME sync.step = "completed", sync.full, NEW p \in Exists, p \notin sync.touched
               PROVE  /\ record'[p] # None /\ record'[p].refund = Cardinality(gate[p].refunds)
                      /\ {id \in Refunds : <<p, id>> \in rows'} = gate[p].refunds
                      /\ record'[p].status = IF record'[p].refund = 0 THEN gate[p].status
                                             ELSE Refunded(record'[p], record'[p].refund).status
    BY <1>1 DEF SyncAgrees
  <2>1. /\ record[p] # None /\ record[p].refund = Cardinality(gate[p].refunds)
        /\ {id \in Refunds : <<p, id>> \in rows} = gate[p].refunds
        /\ record[p].status = IF record[p].refund = 0 THEN gate[p].status
                              ELSE Refunded(record[p], record[p].refund).status
    BY DEF SyncInv, SyncAgrees
  <2>2. p \in Known
    BY <1>1, <2>1 DEF Known
  <2>3. /\ record'[p].refund = record[p].refund
        /\ record'[p].status \in {record[p].status} \cup {s \in {"failed"} : gate[p].status = s}
        /\ \A id \in Refunds : <<p, id>> \in rows' <=> <<p, id>> \in rows
    <3>1. \A id \in gate[p].refunds : <<p, id>> \in rows
      BY <2>1
    <3> QED BY <2>2, <3>1 DEF AsGateSays
  <2>4. record[p] \in Record /\ record'[p].refund \in Nat
    <3>1. record[p] \in Record
      BY <1>1, <2>1 DEF SyncInv, GatewayInv, TypeOK
    <3> QED BY <2>3, <3>1 DEF Record
  <2>5. gate[p].status = "failed" => record[p].refund = 0
    <3>1. HAVE gate[p].status = "failed"
    <3>2. gate[p].refunds = {}
      BY <1>1, <1>2, <3>1
    <3> QED BY <2>1, <3>2, FS_EmptySet
  <2>6. record'[p] # None
    BY <2>2 DEF AsGateSays
  <2> QED BY <1>1, <2>1, <2>3, <2>4, <2>5, <2>6 DEF Refunded
<1> QED BY <1>3, <1>4

(* A step of the gateway with one payment, which a sync notices. *)
LEMMA TouchAgrees ==
  ASSUME SyncInv, NEW p \in Payments, Touch(p), UNCHANGED <<record, rows>>,
         \A q \in Payments \ {p} : gate'[q] = gate[q]
  PROVE  SyncedSoFar' /\ SyncAgrees'
<1>1. CASE sync.step \in {"pages", "completed"}
  <2>1. SyncType
    BY TypesByPart DEF SyncInv, GatewayInv
  <2>2. sync' = [sync EXCEPT !.touched = @ \cup {p}]
    BY <1>1 DEF Touch
  <2>3. /\ sync'.step = sync.step /\ sync'.full = sync.full /\ sync'.todo = sync.todo /\ sync'.page = sync.page
        /\ sync'.refunds = sync.refunds /\ sync'.touched = sync.touched \cup {p}
    BY <2>1, <2>2 DEF SyncType
  <2>4. \A q \in Exists' \ sync'.touched : q \in Exists \ sync.touched /\ gate'[q] = gate[q]
    BY <2>3 DEF Exists
  <2>5. SyncedSoFar'
    BY <2>3, <2>4 DEF SyncInv, SyncedSoFar
  <2>6. SyncAgrees'
    BY <2>3, <2>4 DEF SyncInv, SyncAgrees
  <2> QED BY <2>5, <2>6
<1>2. CASE sync.step \notin {"pages", "completed"}
  BY <1>2 DEF Touch, SyncedSoFar, SyncAgrees
<1> QED BY <1>1, <1>2

(* What of a record says which payment it is of. *)
SameStatus(p) ==
  record'[p] # None /\ record'[p].refund = record[p].refund /\ record'[p].status = record[p].status

(* A step that leaves the gateway and the syncs alone, and what is recorded
   of status and refunds. *)
LEMMA QuietAgrees ==
  ASSUME SyncInv, UNCHANGED <<gate, hooks, rows, sync, checkout>>, refunding' \in {refunding, NoRefund},
         \A p \in Known : SameStatus(p)
  PROVE  RefundsAreAtGate' /\ SyncedSoFar' /\ SyncAgrees'
<1>1. RefundsAreAtGate'
  BY AtGateStays DEF SyncInv, GatewayInv, RefundsAreAtGate
<1>2. SyncedSoFar' /\ SyncAgrees'
  BY WriteAgrees DEF SameStatus, AsGateSays
<1> QED BY <1>1, <1>2

LEMMA SettleAgrees ==
  ASSUME SyncInv, NEW p \in Payments, NEW status \in {"authorized", "captured", "failed"}, Settle(p, status),
         \/ gate[p].status = "new" /\ status \in {"authorized", "captured", "failed"}
         \/ gate[p].status = "authorized" /\ status = "captured",
         checkout'.step = "paying" => checkout' = checkout /\ checkout.pay # p,
         UNCHANGED <<record, rows, refunding>>
  PROVE  RefundsAreAtGate' /\ SyncedSoFar' /\ SyncAgrees'
<1>1. TypeOK /\ RefundsAreAtGate /\ GateType /\ SyncType /\ RequestType
  BY TypesByPart DEF SyncInv, GatewayInv
<1>2. gate' = [gate EXCEPT ![p].status = status]
  BY DEF Settle
<1>3. /\ gate'[p].status = status /\ gate'[p].refunds = gate[p].refunds /\ gate'[p].of = gate[p].of
      /\ \A q \in Payments \ {p} : gate'[q] = gate[q]
  BY <1>1, <1>2 DEF GateType
<1>4. gate[p].refunds = {}
  BY <1>1 DEF RefundsAreAtGate
<1>5. sync'.refunds = sync.refunds
  BY <1>1 DEF Settle, Touch, SyncType
<1>6. \A ev \in hooks : ev.pay \in Payments /\ ev.pay # p
  <2> SUFFICES ASSUME NEW ev \in hooks PROVE ev.pay \in Payments /\ ev.pay # p
    OBVIOUS
  <2>1. ev.pay \in Payments
    BY <1>1 DEF GateType, Events
  <2>2. IF ev.kind \in {"captured", "failed"} THEN gate[ev.pay].status = ev.kind ELSE ev.id \in gate[ev.pay].refunds
    BY <1>1 DEF RefundsAreAtGate
  <2> QED BY <1>4, <2>1, <2>2
<1>7. \A ev \in hooks' : ev \in hooks \/ (ev.pay = p /\ ev.kind = status /\ status \in {"captured", "failed"})
  <2>1. hooks' \subseteq hooks \cup (IF status = "authorized" THEN {} ELSE {Event(status, p, None)})
    BY DEF Settle, Emit
  <2>2. Event(status, p, None).pay = p /\ Event(status, p, None).kind = status
    BY DEF Event
  <2> SUFFICES ASSUME NEW ev \in hooks', ev \notin hooks
               PROVE  ev.pay = p /\ ev.kind = status /\ status \in {"captured", "failed"}
    OBVIOUS
  <2>3. status # "authorized" /\ ev = Event(status, p, None)
    BY <2>1
  <2> QED BY <2>2, <2>3
<1>8. refunding.step = "asked" => refunding.pay \in Payments
  BY <1>1 DEF RequestType, NoRefund
<1>9. checkout.step = "paying" => checkout.pay \in Payments
  BY <1>1 DEF RequestType, NoCheckout
<1>10. RefundsAreAtGate'
  <2>1. \A q \in Payments : gate'[q].refunds # {} => gate'[q].status = "captured"
    BY <1>1, <1>3, <1>4 DEF RefundsAreAtGate
  <2>2. \A ev \in hooks' : IF ev.kind \in {"captured", "failed"} THEN gate'[ev.pay].status = ev.kind
                                                                 ELSE ev.id \in gate'[ev.pay].refunds
    <3> SUFFICES ASSUME NEW ev \in hooks'
                 PROVE  IF ev.kind \in {"captured", "failed"} THEN gate'[ev.pay].status = ev.kind
                                                              ELSE ev.id \in gate'[ev.pay].refunds
      OBVIOUS
    <3>1. CASE ev \in hooks
      BY <1>1, <1>3, <1>6, <3>1 DEF RefundsAreAtGate
    <3>2. CASE ev.pay = p /\ ev.kind = status /\ status \in {"captured", "failed"}
      BY <1>3, <3>2
    <3> QED BY <1>7, <3>1, <3>2
  <2>3. \A q \in Payments, id \in Refunds : <<q, id>> \in rows' \cup sync'.refunds => id \in gate'[q].refunds
    BY <1>1, <1>3, <1>5 DEF RefundsAreAtGate
  <2>4. refunding'.step = "asked" => refunding'.id \in gate'[refunding'.pay].refunds
    BY <1>1, <1>3, <1>8 DEF RefundsAreAtGate
  <2>5. checkout'.step = "paying" => gate'[checkout'.pay].status = "new" /\ gate'[checkout'.pay].of # None
    BY <1>1, <1>3, <1>9 DEF RefundsAreAtGate
  <2> QED BY <2>1, <2>2, <2>3, <2>4, <2>5 DEF RefundsAreAtGate
<1>11. SyncedSoFar' /\ SyncAgrees'
  <2>1. Touch(p)
    BY DEF Settle
  <2> QED BY <1>3, <2>1, TouchAgrees
<1> QED BY <1>10, <1>11

LEMMA RefundAgrees ==
  ASSUME SyncInv, NEW p \in Payments, NEW id \in Refunds, RefundAtGate(p, id), gate[p].status = "captured",
         refunding' = refunding \/ (refunding'.pay = p /\ refunding'.id = id),
         UNCHANGED <<record, rows, checkout>>
  PROVE  RefundsAreAtGate' /\ SyncedSoFar' /\ SyncAgrees'
<1>1. TypeOK /\ RefundsAreAtGate /\ GateType /\ SyncType /\ RequestType
  BY TypesByPart DEF SyncInv, GatewayInv
<1>2. gate' = [gate EXCEPT ![p].refunds = gate[p].refunds \cup {id}]
  BY <1>1 DEF RefundAtGate, GateType
<1>3. /\ gate'[p].status = "captured" /\ gate'[p].refunds = gate[p].refunds \cup {id} /\ gate'[p].of = gate[p].of
      /\ \A q \in Payments \ {p} : gate'[q] = gate[q]
  BY <1>1, <1>2 DEF GateType
<1>4. sync'.refunds = sync.refunds
  BY <1>1 DEF RefundAtGate, Touch, SyncType
<1>5. \A ev \in hooks : ev.pay \in Payments
  BY <1>1 DEF GateType, Events
<1>6. \A ev \in hooks' : ev \in hooks \/ (ev.pay = p /\ ev.kind \in {"refund.created", "refund.processed"} /\ ev.id = id)
  <2>1. hooks' \subseteq hooks \cup {Event("refund.created", p, id), Event("refund.processed", p, id)}
    BY DEF RefundAtGate, Emit
  <2>2. \A kind \in {"refund.created", "refund.processed"} :
          Event(kind, p, id).pay = p /\ Event(kind, p, id).kind = kind /\ Event(kind, p, id).id = id
    BY DEF Event
  <2> SUFFICES ASSUME NEW ev \in hooks', ev \notin hooks
               PROVE  ev.pay = p /\ ev.kind \in {"refund.created", "refund.processed"} /\ ev.id = id
    OBVIOUS
  <2>3. PICK kind \in {"refund.created", "refund.processed"} : ev = Event(kind, p, id)
    BY <2>1
  <2> QED BY <2>2, <2>3
<1>7. refunding.step = "asked" => refunding.pay \in Payments
  BY <1>1 DEF RequestType, NoRefund
<1>8. checkout.step = "paying" => checkout.pay \in Payments
  BY <1>1 DEF RequestType, NoCheckout
<1>9. RefundsAreAtGate'
  <2>1. \A q \in Payments : gate'[q].refunds # {} => gate'[q].status = "captured"
    BY <1>1, <1>3 DEF RefundsAreAtGate
  <2>2. \A ev \in hooks' : IF ev.kind \in {"captured", "failed"} THEN gate'[ev.pay].status = ev.kind
                                                                 ELSE ev.id \in gate'[ev.pay].refunds
    <3> SUFFICES ASSUME NEW ev \in hooks'
                 PROVE  IF ev.kind \in {"captured", "failed"} THEN gate'[ev.pay].status = ev.kind
                                                              ELSE ev.id \in gate'[ev.pay].refunds
      OBVIOUS
    <3>1. CASE ev \in hooks
      <4>1. IF ev.kind \in {"captured", "failed"} THEN gate[ev.pay].status = ev.kind ELSE ev.id \in gate[ev.pay].refunds
        BY <1>1, <3>1 DEF RefundsAreAtGate
      <4> QED BY <1>3, <1>5, <3>1, <4>1
    <3>2. CASE ev.pay = p /\ ev.kind \in {"refund.created", "refund.processed"} /\ ev.id = id
      BY <1>3, <3>2
    <3> QED BY <1>6, <3>1, <3>2
  <2>3. \A q \in Payments, n \in Refunds : <<q, n>> \in rows' \cup sync'.refunds => n \in gate'[q].refunds
    BY <1>1, <1>3, <1>4 DEF RefundsAreAtGate
  <2>4. refunding'.step = "asked" => refunding'.id \in gate'[refunding'.pay].refunds
    BY <1>1, <1>3, <1>7 DEF RefundsAreAtGate
  <2>5. checkout'.step = "paying" => gate'[checkout'.pay].status = "new" /\ gate'[checkout'.pay].of # None
    BY <1>1, <1>3, <1>8 DEF RefundsAreAtGate
  <2> QED BY <2>1, <2>2, <2>3, <2>4, <2>5 DEF RefundsAreAtGate
<1>10. SyncedSoFar' /\ SyncAgrees'
  <2>1. Touch(p)
    BY DEF RefundAtGate
  <2> QED BY <1>3, <2>1, TouchAgrees
<1> QED BY <1>9, <1>10

(* The gateway and the checkout. *)
LEMMA GateMovesAgree ==
  ASSUME SyncInv, NEW p \in Payments,
         PayElsewhere(p) \/ Capture(p) \/ \E id \in Refunds : RefundElsewhere(p, id)
  PROVE  RefundsAreAtGate' /\ SyncedSoFar' /\ SyncAgrees'
<1>1. RefundsAreAtGate /\ UNCHANGED <<record, rows, checkout, refunding>>
  BY DEF SyncInv, PayElsewhere, Capture, RefundElsewhere
<1>2. CASE PayElsewhere(p)
  <2>1. PICK status \in {"authorized", "captured", "failed"} : Settle(p, status)
    BY <1>2 DEF PayElsewhere
  <2>2. gate[p].status = "new" /\ gate[p].of = None
    BY <1>2 DEF PayElsewhere
  <2>3. checkout.step = "paying" => checkout.pay # p
    BY <1>1, <2>2 DEF RefundsAreAtGate
  <2> QED BY <1>1, <2>1, <2>2, <2>3, SettleAgrees
<1>3. CASE Capture(p)
  <2>1. gate[p].status = "authorized" /\ Settle(p, "captured")
    BY <1>3 DEF Capture
  <2>2. checkout.step = "paying" => checkout.pay # p
    BY <1>1, <2>1 DEF RefundsAreAtGate
  <2> QED BY <1>1, <2>1, <2>2, SettleAgrees
<1>4. ASSUME NEW id \in Refunds, RefundElsewhere(p, id)
      PROVE  RefundsAreAtGate' /\ SyncedSoFar' /\ SyncAgrees'
  BY <1>1, <1>4, RefundAgrees DEF RefundElsewhere, Refundable
<1> QED BY <1>2, <1>3, <1>4

LEMMA KnownStays ==
  ASSUME TypeOK, UNCHANGED record
  PROVE  \A p \in Known : SameStatus(p)
BY DEF Known, SameStatus

LEMMA CreateOrderAgrees ==
  ASSUME SyncInv, NEW p \in Payments, NEW i \in Invoices, CreateOrder(p, i)
  PROVE  RefundsAreAtGate' /\ SyncedSoFar' /\ SyncAgrees'
<1>1. /\ UNCHANGED <<hooks, record, rows, sync, refunding>> /\ TypeOK /\ GateType /\ RequestType /\ RefundsAreAtGate
      /\ gate' = [gate EXCEPT ![p].of = i] /\ checkout' = [step |-> "paying", of |-> i, pay |-> p]
      /\ gate[p].status = "new"
  BY TypesByPart DEF CreateOrder, SyncInv, GatewayInv
<1>2. \A q \in Payments : gate'[q].status = gate[q].status /\ gate'[q].refunds = gate[q].refunds
  BY <1>1 DEF GateType
<1>3. gate'[p].of = i /\ i # None
  BY <1>1, ConstantsAssumption DEF GateType, ConstantsAssumption
<1>4. RefundsAreAtGate'
  <2>1. \A ev \in hooks : ev.pay \in Payments
    BY <1>1 DEF GateType, Events
  <2>2. refunding.step = "asked" => refunding.pay \in Payments
    BY <1>1 DEF RequestType, NoRefund
  <2>3. checkout'.step = "paying" => gate'[checkout'.pay].status = "new" /\ gate'[checkout'.pay].of # None
    BY <1>1, <1>2, <1>3
  <2> QED BY <1>1, <1>2, <2>1, <2>2, <2>3 DEF RefundsAreAtGate
<1>5. SyncedSoFar' /\ SyncAgrees'
  <2>1. \A q \in Known : AsGateSays(q)
    BY <1>1 DEF Known, AsGateSays
  <2> QED BY <1>1, <1>2, <2>1, WriteAgrees
<1> QED BY <1>4, <1>5

LEMMA PayHereAgrees ==
  ASSUME SyncInv, PayHere
  PROVE  RefundsAreAtGate' /\ SyncedSoFar' /\ SyncAgrees'
<1>1. /\ UNCHANGED <<record, rows, refunding>> /\ RequestType /\ RefundsAreAtGate /\ checkout.step = "paying"
  BY TypesByPart DEF PayHere, SyncInv, GatewayInv
<1>2. PICK p \in Payments : p = checkout.pay
  BY <1>1 DEF RequestType, NoCheckout
<1>3. PICK status \in {"authorized", "captured", "failed"} :
        /\ Settle(p, status)
        /\ checkout' = IF status = "failed" THEN NoCheckout ELSE [checkout EXCEPT !.step = "verify"]
  BY <1>2 DEF PayHere
<1>4. gate[p].status = "new"
  BY <1>1, <1>2 DEF RefundsAreAtGate
<1>5. checkout'.step # "paying"
  BY <1>1, <1>3 DEF RequestType, NoCheckout
<1> QED BY <1>1, <1>3, <1>4, <1>5, SettleAgrees

LEMMA CheckoutAgrees ==
  ASSUME SyncInv, LeaveCheckout \/ VerifyRead
  PROVE  RefundsAreAtGate' /\ SyncedSoFar' /\ SyncAgrees'
<1>1. UNCHANGED <<gate, hooks, seen, record, rows, books, invoice, rule, sync, refunding, view, human>> /\ RequestType
      /\ TypeOK /\ RefundsAreAtGate
  BY TypesByPart DEF LeaveCheckout, VerifyRead, SyncInv, GatewayInv
<1>2. checkout'.step # "paying"
  BY <1>1 DEF LeaveCheckout, VerifyRead, NoCheckout, RequestType
<1>3. RefundsAreAtGate'
  BY <1>1, <1>2, GateStays DEF RefundsAreAtGate
<1>4. SyncedSoFar' /\ SyncAgrees'
  BY <1>1, KnownStays, WriteAgrees DEF SameStatus, AsGateSays
<1> QED BY <1>3, <1>4

LEMMA VerifyCommitAgrees ==
  ASSUME SyncInv, VerifyCommit
  PROVE  RefundsAreAtGate' /\ SyncedSoFar' /\ SyncAgrees'
<1>1. /\ UNCHANGED <<gate, hooks, seen, rows, rule, sync, refunding, view, human>> /\ RequestType /\ BooksType
      /\ TypeOK /\ RefundsAreAtGate /\ checkout.step = "committing"
  BY TypesByPart DEF VerifyCommit, SyncInv, GatewayInv
<1>2. PICK step \in {"done", "error"} : checkout' = [checkout EXCEPT !.step = step]
  BY DEF VerifyCommit
<1>3. checkout'.step # "paying"
  BY <1>1, <1>2 DEF RequestType, NoCheckout
<1>4. RefundsAreAtGate'
  BY <1>1, <1>3, GateStays DEF RefundsAreAtGate
<1>5. \A p \in Known : record'[p] = record[p]
  BY <1>1 DEF VerifyCommit, NewPayment, Known, BooksType
<1>6. SyncedSoFar' /\ SyncAgrees'
  BY <1>1, <1>5, WriteAgrees DEF Known, AsGateSays
<1> QED BY <1>4, <1>6

(* Webhooks. *)
LEMMA DeliverAgrees ==
  ASSUME SyncInv, NEW ev \in hooks, Deliver(ev)
  PROVE  RefundsAreAtGate' /\ SyncedSoFar' /\ SyncAgrees'
<1>1. /\ UNCHANGED <<gate, hooks, books, invoice, rule, checkout, sync, refunding, view, human>>
      /\ TypeOK /\ RefundsAreAtGate /\ Handle(ev) /\ BooksType /\ GateType
  BY TypesByPart DEF Deliver, SyncInv, GatewayInv
<1>2. PICK p \in Payments : p = ev.pay
  BY <1>1 DEF GateType, Events
<1>3. IF ev.kind \in {"captured", "failed"} THEN gate[p].status = ev.kind ELSE ev.id \in gate[p].refunds
  BY <1>1, <1>2 DEF RefundsAreAtGate
<1>4. \A id \in Refunds, q \in Payments : <<q, id>> \in rows' =>
        <<q, id>> \in rows \/ (q = p /\ id = ev.id /\ ev.kind \in {"refund.created", "refund.processed"})
  BY <1>1, <1>2 DEF Handle
<1>5. RefundsAreAtGate'
  <2>1. \A q \in Payments, id \in Refunds : <<q, id>> \in rows' \cup sync'.refunds => id \in gate[q].refunds
    BY <1>1, <1>3, <1>4 DEF RefundsAreAtGate
  <2> QED BY <1>1, <2>1, AtGateStays
<1>6. ASSUME \A q \in Known : AsGateSays(q)
      PROVE  RefundsAreAtGate' /\ SyncedSoFar' /\ SyncAgrees'
  BY <1>1, <1>5, <1>6, WriteAgrees
<1>7. CASE ev.kind = "failed" /\ record[p] # None
  <2>1. record' = [record EXCEPT ![p] = [record[p] EXCEPT !.status = "failed"]] /\ UNCHANGED rows
    BY <1>1, <1>2, <1>7 DEF Handle, BooksType
  <2>2. record[p] \in Record /\ [record[p] EXCEPT !.status = "failed"] \in Record
    BY <1>1, <1>7 DEF BooksType, Record, Statuses
  <2>3. /\ record'[p] # None /\ record'[p].status = "failed" /\ record'[p].refund = record[p].refund
        /\ gate[p].status = "failed" /\ \A q \in Payments \ {p} : record'[q] = record[q]
    BY <1>1, <1>3, <1>7, <2>1, <2>2, NoneIsNoRecord DEF BooksType, Record
  <2> QED BY <1>6, <2>1, <2>3 DEF AsGateSays, Known
<1>8. CASE ev.kind \in {"refund.created", "refund.processed"} /\ record[p] # None /\ <<p, ev.id>> \notin rows
  <2>1. /\ record' = [record EXCEPT ![p] = Refunded(record[p], record[p].refund + 1)]
        /\ rows' = rows \cup {<<p, ev.id>>}
    BY <1>1, <1>2, <1>8 DEF Handle, BooksType
  <2>2. record[p] \in Record /\ record[p].refund + 1 \in Nat
    <3>1. record[p] \in Record
      BY <1>1, <1>8 DEF BooksType
    <3> QED BY <3>1 DEF Record
  <2>3. /\ record'[p] # None /\ ev.id \in gate[p].refunds
        /\ \A q \in Payments \ {p} : record'[q] = record[q]
    <3>1. Refunded(record[p], record[p].refund + 1) # None
      BY <2>2, RefundedKeeps, NoneIsNoRecord DEF Keeps
    <3>2. ev.id \in gate[p].refunds
      BY <1>3, <1>8
    <3> QED BY <1>1, <2>1, <3>1, <3>2 DEF BooksType
  <2>4. \A q \in Payments \ {p}, id \in Refunds : <<q, id>> \in rows' <=> <<q, id>> \in rows
    BY <2>1
  <2> QED BY <1>6, <1>8, <2>3, <2>4 DEF AsGateSays, Known
<1>9. CASE /\ ~(ev.kind = "failed" /\ record[p] # None)
           /\ ~(ev.kind \in {"refund.created", "refund.processed"} /\ record[p] # None /\ <<p, ev.id>> \notin rows)
  <2>1. UNCHANGED rows /\ \A q \in Known : record'[q] = record[q]
    BY <1>1, <1>2, <1>9 DEF Handle, Known, BooksType
  <2> QED BY <1>6, <2>1 DEF AsGateSays, Known
<1> QED BY <1>7, <1>8, <1>9

(* The sync. *)
LEMMA StartSyncAgrees ==
  ASSUME SyncInv, NEW full \in BOOLEAN, StartSync(full)
  PROVE  RefundsAreAtGate' /\ SyncedSoFar' /\ SyncAgrees'
<1> DEFINE todo == {p \in Exists : full \/ ~gate[p].old}
           refunds == UNION {{<<p, id>> : id \in gate[p].refunds} : p \in Payments}
<1>1. /\ UNCHANGED <<gate, hooks, record, rows, checkout, refunding>> /\ TypeOK /\ RefundsAreAtGate
      /\ sync' = [step |-> "pages", full |-> full, page |-> None, touched |-> {}, todo |-> todo, refunds |-> refunds]
  BY DEF StartSync, SyncInv, GatewayInv
<1>2. \A p \in Payments, id \in Refunds : <<p, id>> \in refunds => id \in gate[p].refunds
  OBVIOUS
<1>3. \A p \in Payments : \A id \in gate[p].refunds : <<p, id>> \in refunds
  OBVIOUS
<1>4. full => todo = Exists
  OBVIOUS
<1> HIDE DEF todo, refunds
<1>5. RefundsAreAtGate'
  BY <1>1, <1>2, AtGateStays DEF RefundsAreAtGate
<1>6. SyncedSoFar'
  BY <1>1, <1>3, <1>4 DEF SyncedSoFar, Exists
<1>7. SyncAgrees'
  BY <1>1 DEF SyncAgrees
<1> QED BY <1>5, <1>6, <1>7

LEMMA FetchPageAgrees ==
  ASSUME SyncInv, NEW p \in Payments, FetchPage(p)
  PROVE  RefundsAreAtGate' /\ SyncedSoFar' /\ SyncAgrees'
<1> DEFINE page == [pay |-> p, status |-> gate[p].status, refunds |-> Cardinality(gate[p].refunds)]
<1>1. /\ UNCHANGED <<gate, hooks, record, rows, checkout, refunding>> /\ TypeOK /\ RefundsAreAtGate /\ SyncType
      /\ sync' = [sync EXCEPT !.page = page] /\ p \in sync.todo /\ SyncedSoFar /\ sync.step = "pages"
  BY TypesByPart DEF FetchPage, SyncInv, GatewayInv
<1>2. page.pay = p /\ page.status = gate[p].status /\ page.refunds = Cardinality(gate[p].refunds)
  OBVIOUS
<1> HIDE DEF page
<1>3. /\ sync'.step = "pages" /\ sync'.full = sync.full /\ sync'.todo = sync.todo /\ sync'.page = page
      /\ sync'.refunds = sync.refunds /\ sync'.touched = sync.touched
  BY <1>1 DEF SyncType
<1>4. RefundsAreAtGate'
  BY <1>1, <1>3, AtGateStays DEF RefundsAreAtGate
<1>5. SyncedSoFar'
  BY <1>1, <1>2, <1>3 DEF SyncedSoFar, Exists
<1>6. SyncAgrees'
  BY <1>3 DEF SyncAgrees
<1> QED BY <1>4, <1>5, <1>6

(* A page is saved with the status of its payment, and the refunds of it. *)
LEMMA SavedAsIs ==
  ASSUME NEW r \in Record, NEW page \in PageRow, NEW recon \in Recons, rule \in Categories \cup {None}
  PROVE  LET s == ApplyCategorisation([FromPage(r, page) EXCEPT !.recon = recon])
         IN  s \in Record /\ s.refund = page.refunds /\ (page.refunds = 0 => s.status = page.status)
<1> DEFINE f == FromPage(r, page)
           g == [f EXCEPT !.recon = recon]
<1>1. f \in Record /\ f.refund = page.refunds /\ (page.refunds = 0 => f.status = page.status)
  BY FromPageKeeps DEF Keeps
<1> HIDE DEF f
<1>2. g \in Record /\ g.refund = page.refunds /\ (page.refunds = 0 => g.status = page.status)
  BY <1>1 DEF Record
<1> HIDE DEF g
<1>3. ApplyCategorisation(g) \in Record /\ ApplyCategorisation(g).status = g.status
      /\ ApplyCategorisation(g).refund = g.refund
  BY <1>2, ApplyKeeps DEF Keeps
<1>4. ApplyCategorisation(g) = ApplyCategorisation([FromPage(r, page) EXCEPT !.recon = recon])
  BY DEF f, g
<1> QED BY <1>2, <1>3, <1>4

LEMMA SavePageAgrees ==
  ASSUME SyncInv, SavePage
  PROVE  RefundsAreAtGate' /\ SyncedSoFar' /\ SyncAgrees'
<1>1. /\ UNCHANGED <<gate, hooks, rows, rule, checkout, refunding>> /\ TypeOK /\ RefundsAreAtGate /\ SyncType
      /\ BooksType /\ SyncedSoFar /\ sync.step = "pages" /\ sync.page # None
  BY TypesByPart DEF SavePage, SyncInv, GatewayInv
<1>2. sync.page \in PageRow
  BY <1>1 DEF SyncType
<1> PICK p \in Payments : p = sync.page.pay
  BY <1>2 DEF PageRow
<1> DEFINE old == IF record[p] = None THEN NewRecord ELSE record[p]
<1>3. old \in Record
  BY <1>1, NewRecordFits DEF BooksType
<1>4. PICK recon \in Recons :
        record' = [record EXCEPT ![p] = ApplyCategorisation([FromPage(old, sync.page) EXCEPT !.recon = recon])]
  <2> DEFINE r == FromPage(old, sync.page)
  <2>1. r.recon \in Recons
    BY <1>2, <1>3, FromPageKeeps DEF Keeps, Record
  <2>2. PICK recon \in IF ~Suggests(r) THEN {r.recon} ELSE IF Open = {} THEN {"unmatched"} ELSE {"unmatched", "suggested"} :
          record' = [record EXCEPT ![p] = ApplyCategorisation([r EXCEPT !.recon = recon])]
    BY DEF SavePage
  <2> QED BY <2>1, <2>2 DEF Recons
<1> HIDE DEF old
<1> DEFINE new == ApplyCategorisation([FromPage(old, sync.page) EXCEPT !.recon = recon])
<1>5. new \in Record /\ new.refund = sync.page.refunds /\ (sync.page.refunds = 0 => new.status = sync.page.status)
  BY <1>1, <1>2, <1>3, SavedAsIs DEF BooksType
<1>6. record' = [record EXCEPT ![p] = new]
  BY <1>4
<1> HIDE DEF new
<1>7. record'[p] = new /\ new # None /\ \A q \in Payments \ {p} : record'[q] = record[q]
  BY <1>1, <1>5, <1>6, NoneIsNoRecord DEF BooksType
<1>8. /\ sync'.step = "pages" /\ sync'.full = sync.full /\ sync'.todo = sync.todo \ {p} /\ sync'.page = None
      /\ sync'.refunds = sync.refunds /\ sync'.touched = sync.touched
  BY <1>1 DEF SavePage, SyncType
<1>9. RefundsAreAtGate'
  BY <1>1, <1>8, AtGateStays DEF RefundsAreAtGate
<1>10. SyncedSoFar'
  <2> SUFFICES ASSUME NEW q \in Exists, q \notin sync.touched
               PROVE  /\ \A id \in gate[q].refunds : <<q, id>> \in sync.refunds
                      /\ sync.full /\ q \notin sync.todo \ {p} =>
                           /\ record'[q] # None
                           /\ gate[q].refunds = {} => record'[q].refund = 0 /\ record'[q].status = gate[q].status
    BY <1>1, <1>8 DEF SyncedSoFar, Exists
  <2>1. \A id \in gate[q].refunds : <<q, id>> \in sync.refunds
    BY <1>1 DEF SyncedSoFar
  <2>2. CASE q = p
    <3>1. sync.page.status = gate[p].status /\ sync.page.refunds = Cardinality(gate[p].refunds)
      BY <1>1, <2>2 DEF SyncedSoFar
    <3>2. gate[p].refunds = {} => sync.page.refunds = 0
      BY <3>1, FS_EmptySet
    <3> QED BY <1>5, <1>7, <2>1, <2>2, <3>1, <3>2
  <2>3. CASE q # p
    BY <1>1, <1>7, <2>1, <2>3 DEF SyncedSoFar, Exists
  <2> QED BY <2>2, <2>3
<1>11. SyncAgrees'
  BY <1>8 DEF SyncAgrees
<1> QED BY <1>9, <1>10, <1>11

LEMMA SyncRefundsAgrees ==
  ASSUME SyncInv, SyncRefunds
  PROVE  RefundsAreAtGate' /\ SyncedSoFar' /\ SyncAgrees'
<1> DEFINE found == {x \in sync.refunds : record[x[1]] # None}
           of == {x[1] : x \in found}
<1>1. /\ UNCHANGED <<hooks, seen, checkout, refunding>> /\ TypeOK /\ RefundsAreAtGate
      /\ SyncType /\ BooksType /\ GateType /\ RequestType /\ SyncedSoFar /\ FinishSync("completed")
      /\ sync.step = "pages" /\ sync.todo = {} /\ sync.page = None
      /\ rows' = rows \cup found
      /\ record' = [p \in Payments |-> IF p \in of THEN Refunded(record[p], SumRows(p, found \ rows)) ELSE record[p]]
  BY TypesByPart DEF SyncRefunds, SyncInv, GatewayInv
<1>2. /\ Exists' = Exists
      /\ \A p \in Payments : /\ gate'[p].status = gate[p].status /\ gate'[p].of = gate[p].of
                             /\ gate'[p].refunds = gate[p].refunds
  BY <1>1, FinishSyncTypes
<1>3. /\ sync'.step = "completed" /\ sync'.full = sync.full /\ sync'.touched = sync.touched /\ sync'.refunds = {}
  BY <1>1 DEF FinishSync, SyncType
<1>4. found \subseteq sync.refunds /\ sync.refunds \subseteq Payments \X Refunds
  BY <1>1 DEF SyncType
<1>5. \A p \in Payments, id \in Refunds : <<p, id>> \in found <=> <<p, id>> \in sync.refunds /\ record[p] # None
  OBVIOUS
<1>6. \A p \in Payments : p \in of <=> \E id \in Refunds : <<p, id>> \in found
  <2> SUFFICES ASSUME NEW p \in Payments PROVE p \in of <=> \E id \in Refunds : <<p, id>> \in found
    OBVIOUS
  <2>1. p \in of => \E id \in Refunds : <<p, id>> \in found
    <3> SUFFICES ASSUME NEW x \in found, p = x[1] PROVE \E id \in Refunds : <<p, id>> \in found
      OBVIOUS
    <3>1. x = <<p, x[2]>> /\ x[2] \in Refunds
      BY <1>4
    <3> QED BY <3>1
  <2>2. ASSUME NEW id \in Refunds, <<p, id>> \in found PROVE p \in of
    BY <2>2
  <2> QED BY <2>1, <2>2
<1> HIDE DEF found, of
<1>7. RefundsAreAtGate'
  <2>1. \A ev \in hooks : ev.pay \in Payments
    BY <1>1 DEF GateType, Events
  <2>2. refunding.step = "asked" => refunding.pay \in Payments
    BY <1>1 DEF RequestType, NoRefund
  <2>3. checkout.step = "paying" => checkout.pay \in Payments
    BY <1>1 DEF RequestType, NoCheckout
  <2>4. \A p \in Payments, id \in Refunds : <<p, id>> \in rows' \cup sync'.refunds => id \in gate'[p].refunds
    BY <1>1, <1>2, <1>3, <1>4 DEF RefundsAreAtGate
  <2> QED BY <1>1, <1>2, <2>1, <2>2, <2>3, <2>4 DEF RefundsAreAtGate
<1>8. SyncedSoFar'
  BY <1>3 DEF SyncedSoFar
<1>9. SyncAgrees'
  <2> SUFFICES ASSUME sync.full, NEW p \in Exists, p \notin sync.touched
               PROVE  /\ record'[p] # None /\ record'[p].refund = Cardinality(gate[p].refunds)
                      /\ {id \in Refunds : <<p, id>> \in rows'} = gate[p].refunds
                      /\ record'[p].status = IF record'[p].refund = 0 THEN gate[p].status
                                             ELSE Refunded(record'[p], record'[p].refund).status
    <3>1. Exists \subseteq Payments
      BY DEF Exists
    <3> QED BY <1>2, <1>3, <3>1 DEF SyncAgrees
  <2>1. p \in Payments /\ gate[p].refunds \subseteq Refunds
    BY <1>1 DEF Exists, GateType
  <2>2. /\ record[p] # None /\ \A id \in gate[p].refunds : <<p, id>> \in sync.refunds
        /\ gate[p].refunds = {} => record[p].refund = 0 /\ record[p].status = gate[p].status
    BY <1>1 DEF SyncedSoFar
  <2>3. \A id \in Refunds : id \in gate[p].refunds <=> <<p, id>> \in found
    BY <1>1, <1>5, <2>1, <2>2 DEF RefundsAreAtGate
  <2>4. \A id \in Refunds : <<p, id>> \in rows => id \in gate[p].refunds
    BY <1>1, <2>1 DEF RefundsAreAtGate
  <2>5. {id \in Refunds : <<p, id>> \in rows'} = gate[p].refunds
    BY <1>1, <2>1, <2>3, <2>4
  <2>6. SumRows(p, found \ rows) = Cardinality(gate[p].refunds)
    <3>1. {id \in Refunds : <<p, id>> \in rows \cup (found \ rows)} = gate[p].refunds
      BY <2>1, <2>3, <2>4
    <3> QED BY <3>1 DEF SumRows, RowsOf
  <2>7. CASE gate[p].refunds = {}
    <3>1. p \notin of
      BY <1>6, <2>1, <2>3, <2>7
    <3>2. record'[p] = record[p]
      BY <1>1, <2>1, <3>1
    <3> QED BY <2>2, <2>5, <2>7, <3>2, FS_EmptySet
  <2>8. CASE gate[p].refunds # {}
    <3> DEFINE n == Cardinality(gate[p].refunds)
    <3>1. n \in Nat /\ n # 0
      <4>1. IsFiniteSet(gate[p].refunds)
        BY <2>1, FS_Subset, ConstantsAssumption DEF ConstantsAssumption
      <4> QED BY <2>8, <4>1, FS_CardinalityType, FS_EmptySet
    <3>2. p \in of
      BY <1>6, <2>1, <2>3, <2>8
    <3>3. record'[p] = Refunded(record[p], n)
      BY <1>1, <2>1, <2>6, <3>2
    <3> HIDE DEF n
    <3>4. record[p] \in Record
      BY <1>1, <2>1, <2>2 DEF BooksType
    <3>5. Refunded(record[p], n) \in Record /\ Refunded(record[p], n).refund = n
          /\ Refunded(record[p], n).status = IF n >= Amount THEN "refunded" ELSE "partially_refunded"
      BY <3>1, <3>4, RefundedKeeps DEF Keeps
    <3>6. Refunded(Refunded(record[p], n), n).status = IF n >= Amount THEN "refunded" ELSE "partially_refunded"
      BY <3>1, <3>5, RefundedKeeps
    <3>7. Refunded(record[p], n) # None
      BY <3>5, NoneIsNoRecord
    <3> QED BY <2>5, <3>1, <3>3, <3>5, <3>6, <3>7 DEF n
  <2> QED BY <2>7, <2>8
<1> QED BY <1>7, <1>8, <1>9

LEMMA SyncStopsAgrees ==
  ASSUME SyncInv, SyncStops
  PROVE  RefundsAreAtGate' /\ SyncedSoFar' /\ SyncAgrees'
<1>1. /\ UNCHANGED <<hooks, seen, record, rows, checkout, refunding>> /\ TypeOK /\ RefundsAreAtGate
      /\ SyncType /\ GateType /\ RequestType
  BY TypesByPart DEF SyncStops, SyncInv, GatewayInv
<1>2. PICK step \in {"partial", "failed"} : FinishSync(step)
  BY DEF SyncStops
<1>3. \A p \in Payments : /\ gate'[p].status = gate[p].status /\ gate'[p].of = gate[p].of
                          /\ gate'[p].refunds = gate[p].refunds
  BY <1>1, <1>2, FinishSyncTypes
<1>4. sync'.step = step /\ sync'.refunds = {}
  BY <1>1, <1>2 DEF FinishSync, SyncType
<1>5. RefundsAreAtGate'
  <2>1. \A ev \in hooks : ev.pay \in Payments
    BY <1>1 DEF GateType, Events
  <2>2. refunding.step = "asked" => refunding.pay \in Payments
    BY <1>1 DEF RequestType, NoRefund
  <2>3. checkout.step = "paying" => checkout.pay \in Payments
    BY <1>1 DEF RequestType, NoCheckout
  <2> QED BY <1>1, <1>3, <1>4, <2>1, <2>2, <2>3 DEF RefundsAreAtGate
<1> QED BY <1>4, <1>5 DEF SyncedSoFar, SyncAgrees

(* Refunds from the books. *)
LEMMA RefundAskAgrees ==
  ASSUME SyncInv, NEW p \in Payments, NEW id \in Refunds, RefundAsk(p, id)
  PROVE  RefundsAreAtGate' /\ SyncedSoFar' /\ SyncAgrees'
BY RefundAgrees DEF RefundAsk, Refundable

LEMMA RefundCommitAgrees ==
  ASSUME SyncInv, RefundCommit
  PROVE  RefundsAreAtGate' /\ SyncedSoFar' /\ SyncAgrees'
<1>1. /\ UNCHANGED <<gate, hooks, seen, books, rule, checkout, sync, human>> /\ refunding' = NoRefund
      /\ TypeOK /\ RefundsAreAtGate /\ BooksType /\ RequestType /\ refunding.step = "asked" /\ OnRecord
  BY TypesByPart DEF RefundCommit, SyncInv, GatewayInv
<1>2. refunding \in [step : {"asked"}, pay : Payments, id : Refunds, was : Nat]
  BY <1>1 DEF RequestType, NoRefund
<1> PICK p \in Payments, id \in Refunds, was \in Nat :
      p = refunding.pay /\ id = refunding.id /\ was = refunding.was
  BY <1>2
<1>3. id \in gate[p].refunds
  BY <1>1 DEF RefundsAreAtGate
<1>4. CASE <<p, id>> \in rows
  <2>1. UNCHANGED <<record, rows>>
    BY <1>4 DEF RefundCommit
  <2> QED BY <1>1, <2>1, QuietAgrees, KnownStays
<1>5. CASE <<p, id>> \notin rows
  <2>1. rows' = rows \cup {<<p, id>>} /\ record' = [record EXCEPT ![p] = Refunded(record[p], was + 1)]
    BY <1>1, <1>5 DEF RefundCommit, BooksType
  <2>2. record[p] \in Record
    BY <1>1 DEF OnRecord, Known, BooksType
  <2>3. Refunded(record[p], was + 1) # None
    BY <2>2, RefundedKeeps, NoneIsNoRecord DEF Keeps
  <2>4. AsGateSays(p)
    BY <1>1, <1>3, <1>5, <2>1, <2>3 DEF AsGateSays, BooksType
  <2>5. \A q \in Known \ {p} : AsGateSays(q)
    BY <1>1, <2>1 DEF AsGateSays, BooksType, Known
  <2>6. SyncedSoFar' /\ SyncAgrees'
    BY <1>1, <2>4, <2>5, WriteAgrees
  <2>7. \A q \in Payments, n \in Refunds : <<q, n>> \in rows' \cup sync'.refunds => n \in gate[q].refunds
    BY <1>1, <1>3, <2>1 DEF RefundsAreAtGate
  <2>8. RefundsAreAtGate'
    BY <1>1, <2>7, AtGateStays
  <2> QED BY <2>6, <2>8
<1> QED BY <1>4, <1>5

(* Payments reviewed. *)
LEMMA DecisionAgrees ==
  ASSUME SyncInv, UNCHANGED <<gate, hooks, rows, sync, checkout, refunding>>, NEW p \in Known,
         \/ \E c \in AllCategories, accept \in BOOLEAN : SetCategory(p, c, accept)
         \/ \E i \in Invoices : MatchInvoice(p, i)
         \/ \E recon \in {"matched", "ignored"} : SetReconciliation(p, recon)
  PROVE  RefundsAreAtGate' /\ SyncedSoFar' /\ SyncAgrees'
<1>1. BooksType /\ p \in Payments /\ record[p] \in Record
  BY TypesByPart DEF SyncInv, GatewayInv, BooksType, Known
<1>2. PICK s \in Record : record' = [record EXCEPT ![p] = s] /\ s.status = record[p].status /\ s.refund = record[p].refund
  <2>1. ASSUME NEW c \in AllCategories, NEW accept \in BOOLEAN, SetCategory(p, c, accept)
        PROVE  \E s \in Record : record' = [record EXCEPT ![p] = s] /\ s.status = record[p].status /\ s.refund = record[p].refund
    <3> DEFINE s == IF accept /\ record[p].category = c THEN [record[p] EXCEPT !.settled = TRUE]
                    ELSE [record[p] EXCEPT !.category = c, !.source = "manual", !.settled = TRUE]
    <3>1. record' = [record EXCEPT ![p] = s]
      BY <1>1, <2>1 DEF SetCategory, BooksType
    <3>2. s \in Record /\ s.status = record[p].status /\ s.refund = record[p].refund
      BY <1>1 DEF Record
    <3> QED BY <3>1, <3>2
  <2>2. ASSUME NEW i \in Invoices, MatchInvoice(p, i)
        PROVE  \E s \in Record : record' = [record EXCEPT ![p] = s] /\ s.status = record[p].status /\ s.refund = record[p].refund
    <3> DEFINE s == [record[p] EXCEPT !.invoice = i, !.booked = TRUE, !.recon = "matched",
                       !.category = "customer_payment", !.source = "manual", !.settled = TRUE]
    <3>1. record' = [record EXCEPT ![p] = s]
      BY <1>1, <2>2 DEF MatchInvoice, BooksType
    <3>2. s \in Record /\ s.status = record[p].status /\ s.refund = record[p].refund
      BY <1>1 DEF Record, Recons, AllCategories
    <3> QED BY <3>1, <3>2
  <2>3. ASSUME NEW recon \in {"matched", "ignored"}, SetReconciliation(p, recon)
        PROVE  \E s \in Record : record' = [record EXCEPT ![p] = s] /\ s.status = record[p].status /\ s.refund = record[p].refund
    <3> DEFINE s == [record[p] EXCEPT !.recon = recon]
    <3>1. record' = [record EXCEPT ![p] = s]
      BY <1>1, <2>3 DEF SetReconciliation, BooksType
    <3>2. s \in Record /\ s.status = record[p].status /\ s.refund = record[p].refund
      BY <1>1 DEF Record, Recons
    <3> QED BY <3>1, <3>2
  <2> QED BY <2>1, <2>2, <2>3
<1>3. \A q \in Known : SameStatus(q)
  BY <1>1, <1>2, NoneIsNoRecord DEF SameStatus, Known, BooksType
<1> QED BY <1>3, QuietAgrees

LEMMA ReviewAgrees ==
  ASSUME SyncInv,
         \/ \E p \in Payments : Staff(p) \/ Ignore(p)
         \/ \E i \in Invoices : ConfirmMatch(i)
         \/ \E c \in Categories \cup {"customer_payment"} : Choose(c)
  PROVE  RefundsAreAtGate' /\ SyncedSoFar' /\ SyncAgrees'
<1>1. OnRecord
  BY DEF SyncInv, GatewayInv
<1>2. ASSUME NEW p \in Payments, Staff(p) PROVE RefundsAreAtGate' /\ SyncedSoFar' /\ SyncAgrees'
  <2>1. p \in Known /\ UNCHANGED <<gate, hooks, rows, sync, checkout, refunding>>
    BY <1>2 DEF Staff, Known
  <2>2. \/ \E c \in AllCategories, accept \in BOOLEAN : SetCategory(p, c, accept)
        \/ \E i \in Invoices : MatchInvoice(p, i)
        \/ \E recon \in {"matched", "ignored"} : SetReconciliation(p, recon)
    BY <1>2 DEF Staff, AllCategories, Open
  <2> QED BY <2>1, <2>2, DecisionAgrees
<1>3. ASSUME NEW p \in Payments, Ignore(p) PROVE RefundsAreAtGate' /\ SyncedSoFar' /\ SyncAgrees'
  <2>1. p \in Known /\ UNCHANGED <<gate, hooks, rows, sync, checkout, refunding>> /\ SetReconciliation(p, "ignored")
    BY <1>1, <1>3 DEF Ignore, OnRecord
  <2> QED BY <2>1, DecisionAgrees
<1>4. ASSUME NEW i \in Invoices, ConfirmMatch(i) PROVE RefundsAreAtGate' /\ SyncedSoFar' /\ SyncAgrees'
  <2>1. view.detail.on \in Known /\ UNCHANGED <<gate, hooks, rows, sync, checkout, refunding>>
        /\ MatchInvoice(view.detail.on, i)
    BY <1>1, <1>4 DEF ConfirmMatch, Ready, OnRecord
  <2> QED BY <2>1, DecisionAgrees
<1>5. ASSUME NEW c \in Categories \cup {"customer_payment"}, Choose(c)
      PROVE  RefundsAreAtGate' /\ SyncedSoFar' /\ SyncAgrees'
  <2>1. view.detail.on \in Known /\ UNCHANGED <<gate, hooks, rows, sync, checkout, refunding>> /\ c \in AllCategories
    BY <1>1, <1>5 DEF Choose, Ready, OnRecord, AllCategories
  <2>2. \E accept \in BOOLEAN : SetCategory(view.detail.on, c, accept)
    BY <1>5 DEF Choose
  <2> QED BY <2>1, <2>2, DecisionAgrees
<1> QED BY <1>2, <1>3, <1>4, <1>5

LEMMA AtRulesAgrees ==
  ASSUME SyncInv, AtRules
  PROVE  RefundsAreAtGate' /\ SyncedSoFar' /\ SyncAgrees'
<1>1. /\ UNCHANGED <<gate, hooks, rows, sync, checkout, refunding>> /\ BooksType /\ TypeOK
  BY TypesByPart DEF AtRules, SyncInv, GatewayInv
<1>2. CASE UNCHANGED record
  BY <1>1, <1>2, KnownStays, QuietAgrees
<1>3. CASE Reapply /\ UNCHANGED rule
  <2>1. \A p \in Known : SameStatus(p)
    <3> SUFFICES ASSUME NEW p \in Known PROVE SameStatus(p)
      OBVIOUS
    <3>1. p \in Payments /\ record[p] \in Record /\ record[p] # None /\ rule \in Categories \cup {None}
      BY <1>1 DEF Known, BooksType
    <3>2. record'[p] \in {record[p], ApplyCategorisation(record[p])}
      BY <1>3, <3>1 DEF Reapply
    <3>3. /\ ApplyCategorisation(record[p]) \in Record
          /\ ApplyCategorisation(record[p]).status = record[p].status
          /\ ApplyCategorisation(record[p]).refund = record[p].refund
      BY <3>1, ApplyKeeps DEF Keeps
    <3> QED BY <3>1, <3>2, <3>3, NoneIsNoRecord DEF SameStatus
  <2> QED BY <1>1, <2>1, QuietAgrees
<1> QED BY <1>2, <1>3 DEF AtRules

LEMMA NextAgrees == SyncInv /\ [Next]_vars => SyncInv'
<1> SUFFICES ASSUME SyncInv, [Next]_vars PROVE RefundsAreAtGate' /\ SyncedSoFar' /\ SyncAgrees'
  BY NextKeeps DEF SyncInv
<1> DEFINE Goal == RefundsAreAtGate' /\ SyncedSoFar' /\ SyncAgrees'
<1>0. TypeOK
  BY DEF SyncInv, GatewayInv
<1>1. CASE UNCHANGED <<gate, hooks, record, rows, sync, checkout, refunding>>
  BY <1>0, <1>1, KnownStays, QuietAgrees
<1>2. CASE PayHere \/ LeaveCheckout \/ VerifyRead \/ VerifyCommit
  BY <1>2, PayHereAgrees, CheckoutAgrees, VerifyCommitAgrees
<1>3. CASE SavePage \/ SyncRefunds \/ SyncStops
  BY <1>3, SavePageAgrees, SyncRefundsAgrees, SyncStopsAgrees
<1>4. CASE RefundCommit \/ AtRules
  BY <1>4, RefundCommitAgrees, AtRulesAgrees
<1>5. CASE UNCHANGED vars \/ CloseRefund \/ Load \/ LoadDetail \/ CloseDetail
  BY <1>1, <1>5 DEF vars, CloseRefund, Load, LoadDetail, CloseDetail
<1>6. ASSUME NEW p \in Payments, PayElsewhere(p) \/ Capture(p) \/ FetchPage(p) \/ OpenRefund(p) \/ Staff(p)
                                   \/ OpenDetail(p) \/ Ignore(p)
      PROVE  Goal
  <2>1. CASE OpenRefund(p) \/ OpenDetail(p)
    BY <1>1, <2>1 DEF OpenRefund, OpenDetail
  <2> QED BY <1>6, <2>1, GateMovesAgree, FetchPageAgrees, ReviewAgrees
<1>7. ASSUME NEW p \in Payments, NEW id \in Refunds, RefundElsewhere(p, id) \/ StaffRefund(p, id)
      PROVE  Goal
  BY <1>7, GateMovesAgree, RefundAskAgrees DEF StaffRefund
<1>8. ASSUME NEW p \in Payments, NEW i \in Invoices, CreateOrder(p, i) PROVE Goal
  BY <1>8, CreateOrderAgrees
<1>9. ASSUME NEW id \in Refunds, ProcessRefund(id) PROVE Goal
  <2>1. view.row \in Payments
    BY <1>0, <1>9 DEF ProcessRefund, TypeOK
  <2> QED BY <1>9, <2>1, RefundAskAgrees DEF ProcessRefund
<1>10. ASSUME NEW i \in Invoices, Void(i) \/ ConfirmMatch(i) PROVE Goal
  <2>1. CASE Void(i)
    BY <1>1, <2>1 DEF Void
  <2> QED BY <1>10, <2>1, ReviewAgrees
<1>11. ASSUME NEW full \in BOOLEAN, StartSync(full) PROVE Goal
  BY <1>11, StartSyncAgrees
<1>12. ASSUME NEW ev \in hooks, Deliver(ev) PROVE Goal
  BY <1>12, DeliverAgrees
<1>13. ASSUME NEW c \in Categories \cup {"customer_payment"}, Choose(c) PROVE Goal
  BY <1>13, ReviewAgrees
<1> QED BY <1>2, <1>3, <1>4, <1>5, <1>6, <1>7, <1>8, <1>9, <1>10, <1>11, <1>12, <1>13 DEF Next

(* A full sync that completes agrees with the gateway on every payment     *)
(* that did not change while it ran, whatever webhooks arrive late, in any *)
(* order or again, and whatever people refund or review meanwhile          *)
(* (razorpay_sync.py: sync_organization, _sync_refunds).                   *)
THEOREM SyncsAgree == Spec => []SyncAgrees
<1>1. Init => SyncInv
  <2> SUFFICES ASSUME Init PROVE SyncInv
    OBVIOUS
  <2>1. GatewayInv
    BY InitKeeps
  <2>2. sync = NoSync /\ hooks = {} /\ rows = {} /\ refunding = NoRefund /\ checkout = NoCheckout
    BY DEF Init
  <2>3. \A p \in Payments : gate[p].refunds = {}
    BY DEF Init
  <2> QED BY <2>1, <2>2, <2>3 DEF SyncInv, RefundsAreAtGate, SyncedSoFar, SyncAgrees, NoSync, NoRefund, NoCheckout
<1>2. SyncInv => SyncAgrees
  BY DEF SyncInv
<1> QED BY <1>1, <1>2, NextAgrees, PTL DEF Spec

-----------------------------------------------------------------------------
(* One person at the pages *)

LEMMA ViewParts ==
  ASSUME GatewayInv
  PROVE  /\ view \in [loading : BOOLEAN, shown : {view.shown}, detail : Detail, row : Payments \cup {None}]
         /\ record \in [Payments -> Record \cup {None}] /\ view.detail \in Detail
         /\ view.detail.data # None => view.detail.on \in Known
         /\ DOMAIN view.shown \subseteq Known
<1>1. TypeOK /\ OnRecord
  BY DEF GatewayInv
<1> QED BY <1>1 DEF TypeOK, OnRecord

(* A page stays fresh while neither it nor the records change, and when it
   is mounted anew. *)
LEMMA FreshStays ==
  ASSUME ViewIsFresh, UNCHANGED <<record, view>>, Idle' => Idle
  PROVE  ViewIsFresh'
BY DEF ViewIsFresh, Known

LEMMA MountedIsFresh ==
  ASSUME view' = Unread
  PROVE  ViewIsFresh'
BY DEF ViewIsFresh, Unread, NoDetail

LEMMA GateKeepsFresh ==
  ASSUME OnlyHisOwn, ViewIsFresh, Lone,
         \/ PayHere \/ LeaveCheckout \/ VerifyRead \/ VerifyCommit
         \/ \E p \in Payments :
              \/ PayElsewhere(p) \/ Capture(p) \/ Staff(p)
              \/ \E id \in Refunds : RefundElsewhere(p, id) \/ StaffRefund(p, id)
              \/ \E i \in Invoices : CreateOrder(p, i)
         \/ \E i \in Invoices : Void(i)
         \/ \E ev \in hooks : Deliver(ev)
  PROVE  OnlyHisOwn' /\ ViewIsFresh'
<1>1. PICK p \in Payments : Capture(p)
  BY DEF OnlyHisOwn, Lone, PayHere, LeaveCheckout, VerifyRead, VerifyCommit, PayElsewhere, Staff, RefundElsewhere,
         StaffRefund, CreateOrder, Void
<1>2. Settle(p, "captured") /\ UNCHANGED <<record, checkout, refunding, view>>
  BY <1>1 DEF Capture
<1>3. hooks' = hooks /\ sync'.step = sync.step
  BY <1>2 DEF Settle, Emit, Touch, Lone
<1> QED BY <1>2, <1>3, FreshStays DEF OnlyHisOwn, Idle

LEMMA SyncKeepsFresh ==
  ASSUME GatewayInv, OnlyHisOwn, ViewIsFresh, Lone,
         \/ SavePage \/ SyncRefunds \/ SyncStops
         \/ \E full \in BOOLEAN : StartSync(full)
         \/ \E p \in Payments : FetchPage(p)
  PROVE  OnlyHisOwn' /\ ViewIsFresh'
<1>0. SyncType
  BY TypesByPart DEF GatewayInv
<1>1. CASE SavePage
  <2>1. sync'.step = "pages" /\ sync.step = "pages" /\ UNCHANGED <<hooks, checkout, refunding>>
    BY <1>0, <1>1 DEF SavePage, SyncType
  <2> QED BY <2>1 DEF OnlyHisOwn, ViewIsFresh, Idle
<1>2. CASE \E step \in {"completed", "partial", "failed"} : FinishSync(step) /\ sync.step = "pages" /\ UNCHANGED <<hooks, checkout, refunding>>
  <2>1. sync'.step \in {"completed", "partial", "failed"}
    BY <1>0, <1>2 DEF FinishSync, SyncType
  <2>2. view' = Unread
    BY <1>2 DEF FinishSync, OnlyHisOwn, Idle, Lone
  <2> QED BY <1>2, <2>1, <2>2, MountedIsFresh DEF OnlyHisOwn, Idle
<1>3. CASE SyncRefunds \/ SyncStops
  BY <1>2, <1>3 DEF SyncRefunds, SyncStops
<1>4. ASSUME NEW full \in BOOLEAN, StartSync(full) PROVE OnlyHisOwn' /\ ViewIsFresh'
  <2>1. sync'.step = "pages" /\ Page = "payments" /\ UNCHANGED <<hooks, checkout, refunding>>
    BY <1>4 DEF StartSync, Lone
  <2> QED BY <2>1 DEF OnlyHisOwn, ViewIsFresh, Idle
<1>5. ASSUME NEW p \in Payments, FetchPage(p) PROVE OnlyHisOwn' /\ ViewIsFresh'
  <2>1. sync'.step = sync.step /\ UNCHANGED <<hooks, checkout, refunding, record, view>>
    BY <1>0, <1>5 DEF FetchPage, SyncType
  <2> QED BY <2>1, FreshStays DEF OnlyHisOwn, Idle
<1> QED BY <1>1, <1>3, <1>4, <1>5

LEMMA RefundKeepsFresh ==
  ASSUME GatewayInv, OnlyHisOwn, ViewIsFresh, Lone,
         \/ RefundCommit \/ CloseRefund
         \/ \E id \in Refunds : ProcessRefund(id)
         \/ \E p \in Payments : OpenRefund(p)
  PROVE  OnlyHisOwn' /\ ViewIsFresh'
<1>1. CASE RefundCommit
  <2>1. /\ refunding'.step = "idle" /\ UNCHANGED <<hooks, checkout, sync>>
        /\ UNCHANGED <<record, view>> \/ view' = Unread
    BY <1>1 DEF RefundCommit, NoRefund, ReloadAll, OnlyHisOwn
  <2> QED BY <2>1, FreshStays, MountedIsFresh DEF OnlyHisOwn, Idle
<1>2. CASE CloseRefund \/ \E p \in Payments : OpenRefund(p)
  <2>1. /\ view'.loading = view.loading /\ view'.shown = view.shown /\ view'.detail = view.detail
        /\ UNCHANGED <<record, hooks, checkout, sync, refunding>>
    BY <1>2, ViewParts DEF CloseRefund, OpenRefund
  <2> QED BY <2>1 DEF OnlyHisOwn, ViewIsFresh, Idle, Known
<1>3. ASSUME NEW id \in Refunds, ProcessRefund(id) PROVE OnlyHisOwn' /\ ViewIsFresh'
  <2>1. Page = "hub" /\ RefundAsk(view.row, id) /\ UNCHANGED <<record, view, checkout>>
    BY <1>3 DEF ProcessRefund, RefundAsk
  <2>2. hooks' = hooks /\ sync'.step = sync.step
    BY <2>1 DEF RefundAsk, RefundAtGate, Emit, Touch, Lone
  <2> QED BY <2>1, <2>2, FreshStays DEF OnlyHisOwn, Idle
<1> QED BY <1>1, <1>2, <1>3

LEMMA ReviewKeepsFresh ==
  ASSUME GatewayInv, OnlyHisOwn, ViewIsFresh, Lone,
         \/ AtRules \/ Load \/ LoadDetail \/ CloseDetail
         \/ \E p \in Payments : OpenDetail(p) \/ Ignore(p)
         \/ \E i \in Invoices : ConfirmMatch(i)
         \/ \E c \in Categories \cup {"customer_payment"} : Choose(c)
  PROVE  OnlyHisOwn' /\ ViewIsFresh'
<1>1. OnlyHisOwn' /\ (Idle' => Idle) /\ (Idle => Idle')
  BY DEF OnlyHisOwn, Idle, AtRules, Load, LoadDetail, CloseDetail, OpenDetail, Ignore, ConfirmMatch, Choose
<1>2. CASE AtRules
  <2>1. view' = Unread
    BY <1>2 DEF AtRules, Lone
  <2> QED BY <1>1, <2>1, MountedIsFresh
<1>3. CASE Load
  <2>1. /\ UNCHANGED record /\ Known' = Known
        /\ view'.shown = [p \in Known |-> record[p]] /\ view'.detail = view.detail
    BY <1>3, ViewParts DEF Load, Known
  <2>2. [p \in Known |-> record[p]]' = [p \in Known |-> record[p]]
    BY <2>1
  <2> QED BY <1>1, <2>1, <2>2 DEF ViewIsFresh
<1>4. CASE LoadDetail
  <2>1. /\ UNCHANGED record /\ view'.shown = view.shown /\ view'.loading = view.loading
        /\ view'.detail.on = view.detail.on /\ view'.detail.data = record[view.detail.on]
    BY <1>4, ViewParts DEF LoadDetail, ReadDetail
  <2> QED BY <1>1, <2>1 DEF ViewIsFresh, Known
<1>5. CASE CloseDetail
  <2>1. /\ UNCHANGED record /\ view'.shown = view.shown /\ view'.loading = view.loading /\ view'.detail = NoDetail
    BY <1>5, ViewParts DEF CloseDetail
  <2> QED BY <1>1, <2>1 DEF ViewIsFresh, NoDetail, Known
<1>6. CASE \E p \in Payments : OpenDetail(p)
  BY <1>1, <1>6, ViewParts DEF OpenDetail, NoDetail, Detail, ViewIsFresh, Known
<1>7. CASE \E p \in Payments : Ignore(p)
  <2>1. view'.loading /\ view'.detail = NoDetail
    BY <1>7, ViewParts DEF Ignore
  <2> QED BY <1>1, <2>1 DEF ViewIsFresh, NoDetail
<1>8. CASE (\E i \in Invoices : ConfirmMatch(i)) \/ (\E c \in Categories \cup {"customer_payment"} : Choose(c))
  <2>1. PICK detail : /\ view' = Changed(detail)
                      /\ detail.on = view.detail.on /\ detail.data = record'[view.detail.on]
    <3>1. CASE \E i \in Invoices : ConfirmMatch(i)
      <4> DEFINE detail == ReadDetail(view.detail.on)
      <4>1. view' = Changed(detail)
        BY <3>1 DEF ConfirmMatch
      <4>2. detail.on = view.detail.on /\ detail.data = record'[view.detail.on]
        BY DEF ReadDetail
      <4> HIDE DEF detail
      <4> QED BY <4>1, <4>2
    <3>2. CASE \E c \in Categories \cup {"customer_payment"} : Choose(c)
      <4> DEFINE detail == [view.detail EXCEPT !.data = record'[view.detail.on]]
      <4>1. view' = Changed(detail)
        BY <3>2 DEF Choose
      <4>2. detail.on = view.detail.on /\ detail.data = record'[view.detail.on]
        BY ViewParts DEF Detail
      <4> HIDE DEF detail
      <4> QED BY <4>1, <4>2
    <3> QED BY <1>8, <3>1, <3>2
  <2>2. view'.loading /\ view'.detail = detail
    BY <2>1, ViewParts DEF Changed
  <2> QED BY <1>1, <2>1, <2>2 DEF ViewIsFresh
<1> QED BY <1>2, <1>3, <1>4, <1>5, <1>6, <1>7, <1>8

(* To one person, the pages of payments and of refunds show what is stored *)
(* once no sync runs: whatever he does there, or a sync does, is read      *)
(* again or shown as it was answered (RazorpayPaymentsPage.tsx,            *)
(* RazorpayTransactionDetail.tsx, FinancialDashboardPage.tsx).             *)
THEOREM GatewayPagesConverge == Spec => []GatewayConverges
<1>1. Init => LoneInv
  <2> SUFFICES ASSUME Init PROVE OnlyHisOwn /\ ViewIsFresh
    BY DEF LoneInv
  <2>1. hooks = {} /\ sync = NoSync /\ checkout = NoCheckout /\ refunding = NoRefund /\ view = Unread
    BY DEF Init
  <2>2. OnlyHisOwn
    BY <2>1 DEF OnlyHisOwn, NoSync, NoCheckout, NoRefund, Idle
  <2>3. ViewIsFresh
    BY <2>1 DEF ViewIsFresh, Unread, NoDetail
  <2> QED BY <2>2, <2>3
<1>2. GatewayInv /\ LoneInv /\ [Next]_vars => LoneInv'
  <2> SUFFICES ASSUME GatewayInv, OnlyHisOwn, ViewIsFresh, Lone, [Next]_vars
               PROVE  OnlyHisOwn' /\ ViewIsFresh'
    BY DEF LoneInv, Lone
  <2>1. CASE UNCHANGED vars
    BY <2>1, FreshStays DEF vars, OnlyHisOwn, Idle
  <2> QED BY <2>1, GateKeepsFresh, SyncKeepsFresh, RefundKeepsFresh, ReviewKeepsFresh DEF Next
<1>3. LoneInv => GatewayConverges
  BY DEF LoneInv, OnlyHisOwn, ViewIsFresh, GatewayConverges
<1> QED BY <1>1, <1>2, <1>3, GatewayInvariant, PTL DEF Spec

-----------------------------------------------------------------------------
(* Time tracking, whose invoices are its own *)

CONSTANTS Projects, Entries, MaxHours, Users, Alone
VARIABLES project, entry, page, call

Time == INSTANCE TimeBilling

-----------------------------------------------------------------------------
(* Time that is billed                                                     *)

TimeRowsOK ==
  /\ project \in [Projects -> {"absent", "active", "completed"}]
  /\ entry \in [Entries -> {None} \cup Time!Entry]
  /\ invoice \in [Invoices -> {None} \cup Time!Invoice]
TimePagesOK ==
  /\ page \in [Users -> Time!TimePage] /\ call \in [Users -> Time!Call]
  /\ \A u \in Users : /\ Time!Fits(page[u].dialog.kind, page[u].dialog.on)
                      /\ Time!Fits(call[u].kind, call[u].on)

LEMMA TimeTypesByParts == Time!TypeOK <=> TimeRowsOK /\ TimePagesOK
  BY DEF Time!TypeOK, TimeRowsOK, TimePagesOK

(* The hours of some entries come to a number. *)
LEMMA HoursAddUp ==
  ASSUME Time!ConstantsOK, NEW hours \in Time!HoursOfSome
  PROVE  Time!TotalHours(hours) \in Nat
<1>1. PICK es \in SUBSET Entries : hours \in [es -> Time!Hours]
  BY DEF Time!HoursOfSome
<1>2. IsFiniteSet(es)
  <2>1. IsFiniteSet(Entries)
    BY DEF Time!ConstantsOK, Time!IsFiniteSet, IsFiniteSet
  <2> QED BY <2>1, FS_Subset
<1>3. \A e \in es : hours[e] \in Nat
  BY <1>1 DEF Time!Hours
<1>4. SumFunctionOnSet(hours, es) \in Nat
  BY <1>2, <1>3, SumIsNat
<1>5. Time!SumFunctionOnSet(hours, es) = SumFunctionOnSet(hours, es)
  BY DEF Time!SumFunctionOnSet, SumFunctionOnSet, Time!FoldFunctionOnSet, FoldFunctionOnSet, Time!MapThenFoldSet, MapThenFoldSet
<1> QED BY <1>1, <1>4, <1>5 DEF Time!TotalHours

(* Entries that carry an invoice stay as they are. *)
LEMMA BilledStays ==
  ASSUME Time!ConstantsOK, Time!BilledIsLinked, invoice' = invoice,
         \A i \in Invoices :
           {e \in Time!Logged' : entry'[e].invoice = i} = {e \in Time!Logged : entry[e].invoice = i},
         \A e \in Time!Logged : entry[e].invoice # None => entry'[e] = entry[e]
  PROVE  Time!BilledIsLinked'
<1> SUFFICES ASSUME NEW i \in Invoices
             PROVE  IF invoice[i] # None /\ invoice[i].status # "void"
                    THEN invoice[i].billed = [e \in {e \in Time!Logged : entry[e].invoice = i} |-> entry'[e].hours]
                    ELSE {e \in Time!Logged : entry[e].invoice = i} = {}
  BY DEF Time!BilledIsLinked
<1>1. \A e \in {e \in Time!Logged : entry[e].invoice = i} : entry'[e] = entry[e]
  BY DEF Time!ConstantsOK
<1> QED BY <1>1 DEF Time!BilledIsLinked

LEMMA TimeIsLogged ==
  ASSUME Time!ConstantsOK, TimeRowsOK, Time!BilledIsLinked,
         NEW e \in Entries, NEW p \in Projects, NEW h \in Time!Hours, NEW b \in BOOLEAN,
         Time!LogTime(e, p, h, b)
  PROVE  TimeRowsOK' /\ Time!BilledIsLinked'
<1> USE DEF TimeRowsOK, Time!LogTime
<1> DEFINE new == [project |-> p, hours |-> h, billable |-> b, invoice |-> None]
<1>1. new \in Time!Entry /\ new # None
  BY DEF Time!Entry, Time!ConstantsOK
<1>2. entry' = [entry EXCEPT ![e] = new] /\ entry[e] = None
  OBVIOUS
<1>3. TimeRowsOK'
  BY <1>1, <1>2
<1>4. ASSUME NEW i \in Invoices
      PROVE  {f \in Time!Logged' : entry'[f].invoice = i} = {f \in Time!Logged : entry[f].invoice = i}
  BY <1>1, <1>2 DEF Time!Logged, Time!ConstantsOK
<1>5. ASSUME NEW f \in Time!Logged PROVE entry'[f] = entry[f]
  BY <1>2 DEF Time!Logged
<1> QED BY <1>3, <1>4, <1>5, BilledStays

LEMMA TimeIsUpdated ==
  ASSUME Time!ConstantsOK, TimeRowsOK, Time!BilledIsLinked,
         NEW e \in Entries, NEW h \in Time!Hours, NEW b \in BOOLEAN, Time!UpdateTime(e, h, b)
  PROVE  TimeRowsOK' /\ Time!BilledIsLinked'
<1> USE DEF TimeRowsOK, Time!UpdateTime, Time!Editable
<1>1. entry[e] \in Time!Entry /\ entry[e].invoice = None
  OBVIOUS
<1>2. entry' = [entry EXCEPT ![e] = [entry[e] EXCEPT !.hours = h, !.billable = b]]
  BY <1>1
<1>3. /\ [entry[e] EXCEPT !.hours = h, !.billable = b] \in Time!Entry
      /\ [entry[e] EXCEPT !.hours = h, !.billable = b].invoice = None
  BY <1>1 DEF Time!Entry
<1>4. TimeRowsOK'
  BY <1>2, <1>3
<1>5. entry'[e] # None /\ entry'[e].invoice = None /\ \A f \in Entries : f # e => entry'[f] = entry[f]
  BY <1>2, <1>3 DEF Time!ConstantsOK
<1>6. ASSUME NEW i \in Invoices
      PROVE  {f \in Time!Logged' : entry'[f].invoice = i} = {f \in Time!Logged : entry[f].invoice = i}
  BY <1>1, <1>5 DEF Time!Logged, Time!ConstantsOK
<1>7. ASSUME NEW f \in Time!Logged, entry[f].invoice # None PROVE entry'[f] = entry[f]
  BY <1>1, <1>5, <1>7 DEF Time!Logged
<1> QED BY <1>4, <1>6, <1>7, BilledStays

LEMMA TimeIsDeleted ==
  ASSUME Time!ConstantsOK, TimeRowsOK, Time!BilledIsLinked, NEW e \in Entries, Time!DeleteTime(e)
  PROVE  TimeRowsOK' /\ Time!BilledIsLinked'
<1> USE DEF TimeRowsOK, Time!DeleteTime, Time!Editable
<1>1. TimeRowsOK'
  OBVIOUS
<1>2. ASSUME NEW i \in Invoices
      PROVE  {f \in Time!Logged' : entry'[f].invoice = i} = {f \in Time!Logged : entry[f].invoice = i}
  BY DEF Time!Logged, Time!ConstantsOK
<1>3. ASSUME NEW f \in Time!Logged, entry[f].invoice # None PROVE entry'[f] = entry[f]
  BY <1>3 DEF Time!Logged
<1> QED BY <1>1, <1>2, <1>3, BilledStays

LEMMA TimeIsInvoiced ==
  ASSUME Time!ConstantsOK, TimeRowsOK, Time!BilledIsLinked,
         NEW i \in Invoices, NEW p \in Projects, NEW ids, NEW shown \in Nat,
         Time!InvoiceTime(i, p, ids, shown)
  PROVE  TimeRowsOK' /\ Time!BilledIsLinked'
<1> USE DEF TimeRowsOK
<1> DEFINE es == Time!Chosen(p, ids)
           new == [project |-> p, status |-> "sent", shown |-> shown, billed |-> [e \in es |-> entry[e].hours]]
<1>1. /\ invoice[i] = None /\ project' = project
      /\ invoice' = [invoice EXCEPT ![i] = new]
      /\ entry' = [e \in Entries |-> IF e \in es THEN [entry[e] EXCEPT !.invoice = i] ELSE entry[e]]
  BY DEF Time!InvoiceTime
<1>2. es \subseteq Entries /\ \A e \in es : entry[e] \in Time!Entry /\ entry[e] # None /\ entry[e].invoice = None
  BY DEF Time!Chosen, Time!Unbilled, Time!Logged
<1> HIDE DEF es
<1>3. [e \in es |-> entry[e].hours] \in Time!HoursOfSome
  BY <1>2 DEF Time!HoursOfSome, Time!Entry
<1>4. new \in Time!Invoice /\ new # None
  BY <1>3 DEF Time!Invoice, Time!ConstantsOK
<1>5. \A e \in es : /\ [entry[e] EXCEPT !.invoice = i] \in Time!Entry
                    /\ [entry[e] EXCEPT !.invoice = i].invoice = i
                    /\ [entry[e] EXCEPT !.invoice = i].hours = entry[e].hours
                    /\ [entry[e] EXCEPT !.invoice = i] # None
  BY <1>2 DEF Time!Entry, Time!ConstantsOK
<1>6. TimeRowsOK'
  <2> HIDE DEF new
  <2> QED BY <1>1, <1>4, <1>5
<1>7. {e \in Time!Logged : entry[e].invoice = i} = {}
  BY <1>1 DEF Time!BilledIsLinked
<1>8. {e \in Time!Logged' : entry'[e].invoice = i} = es
  BY <1>1, <1>2, <1>5, <1>7 DEF Time!Logged
<1>9. invoice'[i] # None /\ invoice'[i].status # "void" /\ invoice'[i].billed = [e \in es |-> entry'[e].hours]
  BY <1>1, <1>2, <1>4, <1>5
<1>10. ASSUME NEW j \in Invoices, j # i
       PROVE  /\ invoice'[j] = invoice[j]
              /\ {e \in Time!Logged' : entry'[e].invoice = j} = {e \in Time!Logged : entry[e].invoice = j}
              /\ \A e \in Time!Logged : entry[e].invoice = j => entry'[e] = entry[e]
  <2>1. invoice'[j] = invoice[j]
    BY <1>1, <1>10
  <2>2. \A e \in Entries : e \notin es => entry'[e] = entry[e]
    BY <1>1
  <2>3. \A e \in es : entry[e].invoice # j /\ entry'[e].invoice # j
    BY <1>1, <1>2, <1>5, <1>10 DEF Time!ConstantsOK
  <2> QED BY <1>2, <2>1, <2>2, <2>3 DEF Time!Logged
<1>11. ASSUME NEW j \in Invoices, j # i
       PROVE  IF invoice'[j] # None /\ invoice'[j].status # "void"
              THEN invoice'[j].billed = [e \in {e \in Time!Logged' : entry'[e].invoice = j} |-> entry'[e].hours]
              ELSE {e \in Time!Logged' : entry'[e].invoice = j} = {}
  BY <1>10, <1>11 DEF Time!BilledIsLinked
<1> QED BY <1>6, <1>8, <1>9, <1>11 DEF Time!BilledIsLinked

LEMMA ProjectIsDeleted ==
  ASSUME Time!ConstantsOK, TimeRowsOK, Time!BilledIsLinked, NEW p \in Projects, Time!DeleteProject(p)
  PROVE  TimeRowsOK' /\ Time!BilledIsLinked'
<1> DEFINE kept == \/ \E e \in Time!Logged : entry[e].project = p /\ entry[e].invoice # None
                   \/ \E i \in Invoices : invoice[i] # None /\ invoice[i].project = p
<1>1. /\ invoice' = invoice /\ project' \in [Projects -> {"absent", "active", "completed"}]
      /\ entry' = IF kept THEN entry
                  ELSE [e \in Entries |-> IF e \in Time!Logged /\ entry[e].project = p THEN None ELSE entry[e]]
  BY DEF Time!DeleteProject, TimeRowsOK
<1>2. CASE kept
  BY <1>1, <1>2, BilledStays DEF TimeRowsOK, Time!Logged
<1>3. CASE ~kept
  <2>1. entry' = [e \in Entries |-> IF e \in Time!Logged /\ entry[e].project = p THEN None ELSE entry[e]]
    BY <1>1, <1>3
  <2>2. \A e \in Time!Logged : entry[e].invoice # None => entry'[e] = entry[e]
    BY <1>3, <2>1 DEF Time!Logged
  <2>3. ASSUME NEW i \in Invoices
        PROVE  {e \in Time!Logged' : entry'[e].invoice = i} = {e \in Time!Logged : entry[e].invoice = i}
    BY <2>1, <2>2 DEF Time!Logged, Time!ConstantsOK
  <2>4. TimeRowsOK'
    BY <1>1, <2>1 DEF TimeRowsOK
  <2> QED BY <1>1, <2>2, <2>3, <2>4, BilledStays
<1> QED BY <1>2, <1>3

LEMMA EntriesAreReleased ==
  ASSUME Time!ConstantsOK, TimeRowsOK, Time!BilledIsLinked, NEW i \in Invoices,
         project' = project, entry' = Time!Released(i), invoice' \in [Invoices -> {None} \cup Time!Invoice],
         invoice'[i] = None \/ invoice'[i].status = "void",
         \A j \in Invoices : j # i => invoice'[j] = invoice[j]
  PROVE  TimeRowsOK' /\ Time!BilledIsLinked'
<1>1. ASSUME NEW e \in Time!Logged
      PROVE  /\ entry'[e] \in Time!Entry /\ entry'[e] # None
             /\ entry[e].invoice # i => entry'[e] = entry[e]
             /\ entry[e].invoice = i => entry'[e].invoice = None
  <2>1. entry[e] \in Time!Entry
    BY DEF Time!Logged, TimeRowsOK
  <2>2. [entry[e] EXCEPT !.invoice = None] \in Time!Entry /\ [entry[e] EXCEPT !.invoice = None].invoice = None
    BY <2>1 DEF Time!Entry
  <2> QED BY <2>1, <2>2 DEF Time!Released, Time!Logged, Time!ConstantsOK
<1>2. ASSUME NEW e \in Entries \ Time!Logged PROVE entry'[e] = None
  BY DEF Time!Released, Time!Logged
<1>3. entry' \in [Entries -> {None} \cup Time!Entry] /\ Time!Logged' = Time!Logged
  <2>1. entry' = [e \in Entries |-> entry'[e]]
    BY DEF Time!Released
  <2> QED BY <1>1, <1>2, <2>1 DEF Time!Logged
<1>4. {e \in Time!Logged' : entry'[e].invoice = i} = {}
  BY <1>1, <1>3 DEF Time!ConstantsOK
<1>5. ASSUME NEW j \in Invoices, j # i
      PROVE  IF invoice'[j] # None /\ invoice'[j].status # "void"
             THEN invoice'[j].billed = [e \in {e \in Time!Logged' : entry'[e].invoice = j} |-> entry'[e].hours]
             ELSE {e \in Time!Logged' : entry'[e].invoice = j} = {}
  <2>1. {e \in Time!Logged' : entry'[e].invoice = j} = {e \in Time!Logged : entry[e].invoice = j}
    BY <1>1, <1>3, <1>5 DEF Time!ConstantsOK
  <2>2. \A e \in {e \in Time!Logged : entry[e].invoice = j} : entry'[e] = entry[e]
    BY <1>1, <1>5
  <2> QED BY <1>5, <2>1, <2>2 DEF Time!BilledIsLinked
<1> QED BY <1>3, <1>4, <1>5 DEF TimeRowsOK, Time!BilledIsLinked

LEMMA InvoiceMoves ==
  ASSUME Time!ConstantsOK, TimeRowsOK, Time!BilledIsLinked, NEW i \in Invoices,
         Time!VoidInvoice(i) \/ Time!SendOrRevert(i) \/ Time!DeleteInvoice(i)
  PROVE  TimeRowsOK' /\ Time!BilledIsLinked'
<1>1. CASE Time!DeleteInvoice(i)
  <2>1. invoice' = [invoice EXCEPT ![i] = None]
    BY <1>1 DEF Time!DeleteInvoice
  <2>2. invoice' \in [Invoices -> {None} \cup Time!Invoice]
    BY <2>1 DEF TimeRowsOK
  <2> QED BY <1>1, <2>1, <2>2, EntriesAreReleased DEF Time!DeleteInvoice, TimeRowsOK
<1>2. CASE Time!VoidInvoice(i)
  <2>1. invoice[i] \in Time!Invoice /\ invoice' = [invoice EXCEPT ![i] = [invoice[i] EXCEPT !.status = "void"]]
    BY <1>2 DEF Time!VoidInvoice, TimeRowsOK
  <2>2. [invoice[i] EXCEPT !.status = "void"] \in Time!Invoice /\ [invoice[i] EXCEPT !.status = "void"].status = "void"
    BY <2>1 DEF Time!Invoice
  <2>3. invoice' \in [Invoices -> {None} \cup Time!Invoice] /\ invoice'[i].status = "void"
    BY <2>1, <2>2 DEF TimeRowsOK
  <2> QED BY <1>2, <2>1, <2>3, EntriesAreReleased DEF Time!VoidInvoice, TimeRowsOK
<1>3. CASE Time!SendOrRevert(i)
  <2> DEFINE status == IF invoice[i].status = "sent" THEN "draft" ELSE "sent"
  <2>1. /\ invoice[i] \in Time!Invoice /\ invoice[i].status # "void"
        /\ invoice' = [invoice EXCEPT ![i] = [invoice[i] EXCEPT !.status = status]]
        /\ project' = project /\ entry' = entry
    BY <1>3 DEF Time!SendOrRevert, TimeRowsOK
  <2>2. /\ [invoice[i] EXCEPT !.status = status] \in Time!Invoice
        /\ [invoice[i] EXCEPT !.status = status].status # "void"
        /\ [invoice[i] EXCEPT !.status = status].billed = invoice[i].billed
    BY <2>1 DEF Time!Invoice
  <2> HIDE DEF status
  <2>3. /\ invoice' \in [Invoices -> {None} \cup Time!Invoice] /\ invoice'[i] # None /\ invoice'[i].status # "void"
        /\ invoice'[i].billed = invoice[i].billed /\ invoice[i] # None
        /\ \A j \in Invoices : j # i => invoice'[j] = invoice[j]
    BY <2>1, <2>2 DEF TimeRowsOK, Time!ConstantsOK
  <2> QED BY <2>1, <2>3 DEF TimeRowsOK, Time!BilledIsLinked, Time!Logged
<1> QED BY <1>1, <1>2, <1>3

-----------------------------------------------------------------------------
(* The tabs of users                                                       *)

LEMMA PageIsSet ==
  ASSUME TimePagesOK, NEW u \in Users, NEW pg \in Time!TimePage, Time!Fits(pg.dialog.kind, pg.dialog.on),
         page' = [page EXCEPT ![u] = pg], call' = call
  PROVE  TimePagesOK'
BY DEF TimePagesOK

LEMMA CallIsSet ==
  ASSUME TimePagesOK, NEW u \in Users, NEW c \in Time!Call, Time!Fits(c.kind, c.on),
         call' = [call EXCEPT ![u] = c], page' = page
  PROVE  TimePagesOK'
BY DEF TimePagesOK

LEMMA UnbilledIsTyped ==
  ASSUME Time!ConstantsOK, TimeRowsOK, NEW p
  PROVE  /\ [e \in Time!Unbilled(p) |-> entry[e].hours] \in Time!HoursOfSome
         /\ Time!UnbilledHours(p) \in Nat
<1> DEFINE es == Time!Unbilled(p)
<1>1. es \in SUBSET Entries /\ \A e \in es : entry[e].hours \in Time!Hours
  BY DEF Time!Unbilled, Time!Logged, TimeRowsOK, Time!Entry
<1>2. [e \in es |-> entry[e].hours] \in Time!HoursOfSome
  <2> HIDE DEF es
  <2> QED BY <1>1 DEF Time!HoursOfSome
<1> QED BY <1>2, HoursAddUp DEF Time!UnbilledHours

LEMMA StoredIsTyped ==
  ASSUME Time!ConstantsOK, TimeRowsOK, NEW tab
  PROVE  Time!Stored(tab) \in [Projects -> {None} \cup Time!Card] \cup [Entries -> {None} \cup Time!Entry]
<1>1. ASSUME NEW p \in Projects
      PROVE  project[p] # "absent" => [status |-> project[p], unbilled |-> Time!UnbilledHours(p)] \in Time!Card
  BY UnbilledIsTyped DEF TimeRowsOK, Time!Card
<1>2. Time!Cards \in [Projects -> {None} \cup Time!Card]
  BY <1>1 DEF Time!Cards
<1> QED BY <1>2 DEF Time!Stored, TimeRowsOK

LEMMA LoadKeepsPages ==
  ASSUME Time!ConstantsOK, TimeRowsOK, TimePagesOK, NEW u \in Users,
         Time!Load(u) \/ Time!Close(u) \/ \E tab \in Time!Tabs : Time!SwitchTab(u, tab)
  PROVE  TimePagesOK'
<1> USE DEF Time!TimePage, TimePagesOK
<1>n. Time!NoDialog \in [kind : Time!Kinds \cup {"none"}, on : {None} \cup Projects \cup Entries,
                         items : {None} \cup Time!HoursOfSome, ticked : SUBSET Entries]
      /\ Time!Fits(Time!NoDialog.kind, Time!NoDialog.on)
  BY DEF Time!NoDialog, Time!Dialog, Time!Fits
<1>1. CASE Time!Load(u)
  <2>1. [page[u] EXCEPT !.shown = Time!Stored(page[u].tab)] \in Time!TimePage
    BY StoredIsTyped
  <2> QED BY <1>1, <2>1 DEF Time!Load
<1>2. CASE Time!Close(u)
  <2>1. page' = [page EXCEPT ![u] = [page[u] EXCEPT !.dialog = Time!NoDialog]] /\ call' = call
    BY <1>2 DEF Time!Close
  <2>2. [page[u] EXCEPT !.dialog = Time!NoDialog] \in Time!TimePage
    BY <1>n
  <2> QED BY <1>n, <2>1, <2>2, PageIsSet
<1>3. ASSUME NEW tab \in Time!Tabs, Time!SwitchTab(u, tab) PROVE TimePagesOK'
  <2>1. [tab |-> tab, shown |-> None, dialog |-> Time!NoDialog] \in Time!TimePage
    BY <1>n
  <2>2. [call[u] EXCEPT !.here = FALSE] \in Time!Call
    BY DEF Time!Call
  <2>3. Time!Fits([call[u] EXCEPT !.here = FALSE].kind, [call[u] EXCEPT !.here = FALSE].on)
    BY DEF Time!Call
  <2> QED BY <1>3, <2>1, <2>2, <2>3, <1>n DEF Time!SwitchTab
<1> QED BY <1>1, <1>2, <1>3

LEMMA OpenKeepsPages ==
  ASSUME TimePagesOK, NEW u \in Users, NEW kind \in Time!Kinds,
         NEW on \in {None} \cup Projects \cup Entries, Time!Fits(kind, on),
         Time!Open(u, Time!Dialog(kind, on))
  PROVE  TimePagesOK'
<1> DEFINE d == Time!Dialog(kind, on)
<1>1. d \in [kind : Time!Kinds \cup {"none"}, on : {None} \cup Projects \cup Entries,
             items : {None} \cup Time!HoursOfSome, ticked : SUBSET Entries]
      /\ d.kind = kind /\ d.on = on
  BY DEF Time!Dialog
<1> HIDE DEF d
<1>2. page' = [page EXCEPT ![u] = [page[u] EXCEPT !.dialog = d]] /\ call' = call
  BY DEF Time!Open, d
<1>3. [page[u] EXCEPT !.dialog = d] \in Time!TimePage /\ [page[u] EXCEPT !.dialog = d].dialog = d
  BY <1>1 DEF TimePagesOK, Time!TimePage
<1> QED BY <1>1, <1>2, <1>3, PageIsSet

LEMMA DialogsKeepPages ==
  ASSUME Time!ConstantsOK, TimeRowsOK, TimePagesOK, NEW u \in Users,
         \/ Time!OpenLog(u) \/ \E p \in Projects \cup {None} : Time!OpenProject(u, p)
         \/ \E p \in Projects : Time!OpenInvoice(u, p) \/ Time!OpenDeleteProject(u, p)
         \/ \E e \in Entries, kind \in {"edit", "delete"} : Time!OpenEntry(u, kind, e)
  PROVE  TimePagesOK'
<1>1. CASE Time!OpenLog(u)
  BY <1>1, OpenKeepsPages DEF Time!OpenLog, Time!Fits, Time!Kinds
<1>2. ASSUME NEW p \in Projects \cup {None}, Time!OpenProject(u, p) PROVE TimePagesOK'
  BY <1>2, OpenKeepsPages DEF Time!OpenProject, Time!Fits, Time!Kinds
<1>3. ASSUME NEW p \in Projects, Time!OpenInvoice(u, p) PROVE TimePagesOK'
  BY <1>3, OpenKeepsPages DEF Time!OpenInvoice, Time!Fits, Time!Kinds
<1>4. ASSUME NEW p \in Projects, Time!OpenDeleteProject(u, p) PROVE TimePagesOK'
  BY <1>4, OpenKeepsPages DEF Time!OpenDeleteProject, Time!Fits, Time!Kinds
<1>5. ASSUME NEW e \in Entries, NEW kind \in {"edit", "delete"}, Time!OpenEntry(u, kind, e) PROVE TimePagesOK'
  BY <1>5, OpenKeepsPages DEF Time!OpenEntry, Time!Fits, Time!Kinds
<1> QED BY <1>1, <1>2, <1>3, <1>4, <1>5

LEMMA TicksKeepPages ==
  ASSUME Time!ConstantsOK, TimeRowsOK, TimePagesOK, NEW u \in Users,
         Time!LoadItems(u) \/ \E e \in Entries : Time!Toggle(u, e)
  PROVE  TimePagesOK'
<1> USE DEF Time!TimePage, TimePagesOK
<1>1. CASE Time!LoadItems(u)
  <2> DEFINE items == [e \in Time!Unbilled(page[u].dialog.on) |-> entry[e].hours]
  <2>1. items \in Time!HoursOfSome /\ DOMAIN items \subseteq Entries
    BY UnbilledIsTyped DEF Time!HoursOfSome
  <2> HIDE DEF items
  <2>2. [page[u] EXCEPT !.dialog = [page[u].dialog EXCEPT !.items = items, !.ticked = DOMAIN items]] \in Time!TimePage
    BY <2>1
  <2> DEFINE pg == [page[u] EXCEPT !.dialog = [page[u].dialog EXCEPT !.items = items, !.ticked = DOMAIN items]]
  <2>3. page' = [page EXCEPT ![u] = pg] /\ call' = call
    BY <1>1 DEF Time!LoadItems, items
  <2>4. Time!Fits(pg.dialog.kind, pg.dialog.on)
    <3>1. pg.dialog.kind = page[u].dialog.kind /\ pg.dialog.on = page[u].dialog.on
      OBVIOUS
    <3> QED BY <3>1
  <2> HIDE DEF pg
  <2> QED BY <2>2, <2>3, <2>4, PageIsSet DEF pg
<1>2. ASSUME NEW e \in Entries, Time!Toggle(u, e) PROVE TimePagesOK'
  <2> DEFINE ticked == IF e \in page[u].dialog.ticked THEN page[u].dialog.ticked \ {e} ELSE page[u].dialog.ticked \cup {e}
             pg == [page[u] EXCEPT !.dialog = [page[u].dialog EXCEPT !.ticked = ticked]]
  <2>1. ticked \in SUBSET Entries
    OBVIOUS
  <2>2. page' = [page EXCEPT ![u] = pg] /\ call' = call
    BY <1>2 DEF Time!Toggle
  <2> HIDE DEF ticked
  <2>3. pg \in Time!TimePage /\ Time!Fits(pg.dialog.kind, pg.dialog.on)
    BY <2>1
  <2> QED BY <2>2, <2>3, PageIsSet
<1> QED BY <1>1, <1>2

LEMMA SendKeepsPages ==
  ASSUME TimePagesOK, NEW u \in Users, NEW kind \in Time!Kinds, NEW on \in {None} \cup Projects \cup Entries,
         Time!Fits(kind, on), NEW ids \in SUBSET Entries, NEW shown \in Nat, Time!Send(u, kind, on, ids, shown)
  PROVE  TimePagesOK'
<1> DEFINE c == [kind |-> kind, on |-> on, ids |-> ids, shown |-> shown, step |-> "sent", here |-> TRUE]
<1>1. c \in Time!Call /\ c.kind = kind /\ c.on = on
  BY DEF Time!Call
<1>2. call' = [call EXCEPT ![u] = c] /\ page' = page
  BY DEF Time!Send
<1> QED BY <1>1, <1>2, CallIsSet

LEMMA TickedAddUp ==
  ASSUME Time!ConstantsOK, NEW items \in Time!HoursOfSome, NEW ticked \in SUBSET DOMAIN items
  PROVE  Time!TotalHours([e \in ticked |-> items[e]]) \in Nat
<1>1. [e \in ticked |-> items[e]] \in Time!HoursOfSome
  BY DEF Time!HoursOfSome
<1> QED BY <1>1, HoursAddUp

LEMMA SubmitKeepsPages ==
  ASSUME Time!ConstantsOK, TimePagesOK, NEW u \in Users,
         Time!TicksAreListed,
         Time!SubmitInvoice(u) \/ Time!SubmitProject(u) \/ Time!SubmitEntry(u) \/ Time!ConfirmDelete(u)
  PROVE  TimePagesOK'
<1>1. /\ page[u].dialog.kind \in Time!Kinds \cup {"none"} /\ page[u].dialog.on \in {None} \cup Projects \cup Entries
      /\ page[u].dialog.ticked \in SUBSET Entries /\ page[u].dialog.items \in {None} \cup Time!HoursOfSome
      /\ Time!Fits(page[u].dialog.kind, page[u].dialog.on)
  BY DEF TimePagesOK, Time!TimePage
<1>2. CASE Time!SubmitInvoice(u)
  <2>1. page[u].dialog.items \in Time!HoursOfSome
    BY <1>1, <1>2 DEF Time!SubmitInvoice, Time!TicksAreListed
  <2>2. Time!TotalHours([e \in page[u].dialog.ticked |-> page[u].dialog.items[e]]) \in Nat
    BY <2>1, TickedAddUp DEF Time!ConstantsOK, Time!TicksAreListed
  <2> QED BY <1>1, <1>2, <2>2, SendKeepsPages DEF Time!SubmitInvoice, Time!Kinds
<1>3. CASE Time!SubmitProject(u) \/ Time!SubmitEntry(u) \/ Time!ConfirmDelete(u)
  <2>1. page[u].dialog.kind \in Time!Kinds /\ Time!Send(u, page[u].dialog.kind, page[u].dialog.on, {}, 0)
    BY <1>3 DEF Time!SubmitProject, Time!SubmitEntry, Time!ConfirmDelete, Time!Kinds
  <2> QED BY <1>1, <2>1, SendKeepsPages
<1> QED BY <1>2, <1>3

LEMMA AnswersKeepPages ==
  ASSUME Time!ConstantsOK, TimePagesOK, NEW u \in Users, Time!Answered(u)
  PROVE  TimePagesOK'
<1> DEFINE pg == Time!Refresh(page[u], call[u].kind)
<1>1. pg \in Time!TimePage /\ Time!Fits(pg.dialog.kind, pg.dialog.on)
  <2> DEFINE dialog == IF Time!Form(page[u].dialog.kind) = Time!Form(call[u].kind) THEN Time!NoDialog ELSE page[u].dialog
  <2>1. /\ dialog \in [kind : Time!Kinds \cup {"none"}, on : {None} \cup Projects \cup Entries,
                       items : {None} \cup Time!HoursOfSome, ticked : SUBSET Entries]
        /\ Time!Fits(dialog.kind, dialog.on)
    BY DEF TimePagesOK, Time!TimePage, Time!NoDialog, Time!Dialog, Time!Fits
  <2>2. pg = [page[u] EXCEPT !.dialog = dialog, !.shown = None]
    BY DEF TimePagesOK, Time!Refresh, Time!TimePage
  <2> HIDE DEF dialog, pg
  <2>3. pg.dialog = dialog
    BY <2>2 DEF TimePagesOK, Time!TimePage
  <2> QED BY <2>1, <2>2, <2>3 DEF TimePagesOK, Time!TimePage
<1>2. page' \in [Users -> Time!TimePage] /\ \A v \in Users : Time!Fits(page'[v].dialog.kind, page'[v].dialog.on)
  <2>1. page' = IF call[u].step = "done" /\ call[u].here THEN [page EXCEPT ![u] = pg] ELSE page
    BY Zenon DEF Time!Answered
  <2> HIDE DEF pg
  <2> QED BY <1>1, <2>1 DEF TimePagesOK
<1>3. Time!NoCall \in Time!Call /\ Time!Fits(Time!NoCall.kind, Time!NoCall.on)
  BY DEF Time!NoCall, Time!Call, Time!Fits, Time!Kinds, Time!ConstantsOK
<1>4. call' = [call EXCEPT ![u] = Time!NoCall]
  BY DEF Time!Answered
<1> QED BY <1>2, <1>3, <1>4 DEF TimePagesOK

LEMMA StepsKeepPages ==
  ASSUME TimePagesOK, NEW u \in Users,
         page' = page,
         \/ call' = [call EXCEPT ![u].step = "done"] \/ call' = [call EXCEPT ![u].step = "refused"]
  PROVE  TimePagesOK'
<1>1. ASSUME NEW s \in {"done", "refused"}, call' = [call EXCEPT ![u].step = s] PROVE TimePagesOK'
  <2> DEFINE c == [call[u] EXCEPT !.step = s]
  <2>1. c \in Time!Call /\ c.kind = call[u].kind /\ c.on = call[u].on
    BY DEF TimePagesOK, Time!Call
  <2>2. call' = [call EXCEPT ![u] = c]
    BY <1>1
  <2>3. Time!Fits(c.kind, c.on)
    BY <2>1 DEF TimePagesOK
  <2> HIDE DEF c
  <2> QED BY <2>1, <2>2, <2>3, CallIsSet
<1> QED BY <1>1

-----------------------------------------------------------------------------
(* Every step                                                              *)

LEMMA TimeIsHandled ==
  ASSUME Time!ConstantsOK, TimeRowsOK, Time!BilledIsLinked,
         NEW kind, NEW on \in {None} \cup Projects \cup Entries, Time!Fits(kind, on),
         NEW ids, NEW shown \in Nat, Time!Handled(kind, on, ids, shown)
  PROVE  TimeRowsOK' /\ Time!BilledIsLinked'
<1>1. CASE kind = "log" /\ \E e \in Entries, p \in Projects, h \in Time!Hours, b \in BOOLEAN : Time!LogTime(e, p, h, b)
  BY <1>1, TimeIsLogged
<1>2. CASE kind = "edit" /\ \E h \in Time!Hours, b \in BOOLEAN : Time!UpdateTime(on, h, b)
  BY <1>2, TimeIsUpdated DEF Time!Fits
<1>3. CASE kind = "delete" /\ Time!DeleteTime(on)
  BY <1>3, TimeIsDeleted DEF Time!Fits
<1>4. CASE kind = "project" /\ \E p \in Projects, s \in {"active", "completed"} : Time!SaveProject(p, on, s)
  <2>1. project' \in [Projects -> {"absent", "active", "completed"}] /\ entry' = entry /\ invoice' = invoice
    BY <1>4 DEF Time!SaveProject, TimeRowsOK
  <2> QED BY <2>1 DEF TimeRowsOK, Time!BilledIsLinked, Time!Logged
<1>5. CASE kind = "deleteProject" /\ Time!DeleteProject(on)
  BY <1>5, ProjectIsDeleted DEF Time!Fits
<1>6. CASE kind = "invoice" /\ \E i \in Invoices : Time!InvoiceTime(i, on, ids, shown)
  BY <1>6, TimeIsInvoiced DEF Time!Fits
<1> QED BY <1>1, <1>2, <1>3, <1>4, <1>5, <1>6 DEF Time!Handled

(* What a user does at the page, and what others do to the rows. *)
AtThePage(u) ==
  \/ Time!Load(u) \/ Time!Close(u) \/ Time!OpenLog(u)
  \/ \E tab \in Time!Tabs : Time!SwitchTab(u, tab)
  \/ \E p \in Projects \cup {None} : Time!OpenProject(u, p)
  \/ \E p \in Projects : Time!OpenInvoice(u, p) \/ Time!OpenDeleteProject(u, p)
  \/ \E e \in Entries, kind \in {"edit", "delete"} : Time!OpenEntry(u, kind, e)
  \/ Time!LoadItems(u) \/ \E e \in Entries : Time!Toggle(u, e)
  \/ Time!SubmitInvoice(u) \/ Time!SubmitProject(u) \/ Time!SubmitEntry(u) \/ Time!ConfirmDelete(u)
  \/ Time!Refuse(u) \/ Time!Answered(u)
OtherRequests ==
  /\ ~Alone /\ UNCHANGED <<page, call>>
  /\ \/ Time!Handled("log", None, {}, 0)
     \/ \E e \in Entries, kind \in {"edit", "delete"} : Time!Handled(kind, e, {}, 0)
     \/ \E p \in Projects, kind \in {"project", "deleteProject", "invoice"} : Time!Handled(kind, p, {}, 0)
InvoiceChanges ==
  \E i \in Invoices :
    /\ Alone => \A u \in Users : page[u].tab = "elsewhere"
    /\ Time!VoidInvoice(i) \/ Time!SendOrRevert(i) \/ Time!DeleteInvoice(i)

LEMMA TimeSteps ==
  ASSUME Time!Next
  PROVE  \/ \E u \in Users : AtThePage(u) \/ Time!Serve(u)
         \/ InvoiceChanges \/ OtherRequests
BY Zenon DEF Time!Next, AtThePage, InvoiceChanges, OtherRequests

LEMMA PageKeepsRows ==
  ASSUME NEW u \in Users, AtThePage(u)
  PROVE  project' = project /\ entry' = entry /\ invoice' = invoice
<1> USE DEF Time!server, Time!Open, Time!Send
<1>1. CASE Time!Load(u) \/ Time!Close(u) \/ \E tab \in Time!Tabs : Time!SwitchTab(u, tab)
  BY <1>1 DEF Time!Load, Time!Close, Time!SwitchTab
<1>2. CASE \/ Time!OpenLog(u) \/ \E p \in Projects \cup {None} : Time!OpenProject(u, p)
           \/ \E p \in Projects : Time!OpenInvoice(u, p) \/ Time!OpenDeleteProject(u, p)
           \/ \E e \in Entries, kind \in {"edit", "delete"} : Time!OpenEntry(u, kind, e)
  BY <1>2 DEF Time!OpenLog, Time!OpenProject, Time!OpenInvoice, Time!OpenDeleteProject, Time!OpenEntry
<1>3. CASE Time!LoadItems(u) \/ \E e \in Entries : Time!Toggle(u, e)
  BY <1>3 DEF Time!LoadItems, Time!Toggle
<1>4. CASE Time!SubmitInvoice(u) \/ Time!SubmitProject(u) \/ Time!SubmitEntry(u) \/ Time!ConfirmDelete(u)
  BY <1>4 DEF Time!SubmitInvoice, Time!SubmitProject, Time!SubmitEntry, Time!ConfirmDelete
<1>5. CASE Time!Refuse(u) \/ Time!Answered(u)
  BY <1>5 DEF Time!Refuse, Time!Answered
<1> QED BY <1>1, <1>2, <1>3, <1>4, <1>5 DEF AtThePage

LEMMA PageKeepsPages ==
  ASSUME Time!ConstantsOK, TimeRowsOK, TimePagesOK, Time!TicksAreListed, NEW u \in Users, AtThePage(u)
  PROVE  TimePagesOK'
<1>1. CASE Time!Refuse(u)
  BY <1>1, StepsKeepPages DEF Time!Refuse
<1> QED BY <1>1, LoadKeepsPages, DialogsKeepPages, TicksKeepPages, SubmitKeepsPages, AnswersKeepPages DEF AtThePage

LEMMA TicksStayListed ==
  ASSUME Time!ConstantsOK, TimeRowsOK, TimePagesOK, Time!TicksAreListed, NEW u \in Users, AtThePage(u)
  PROVE  Time!TicksAreListed'
<1> DEFINE Listed(d) == d.ticked \subseteq (IF d.items = None THEN {} ELSE DOMAIN d.items)
<1>0. \A v \in Users : Listed(page[v].dialog)
  BY DEF Time!TicksAreListed
<1>n. Time!NoDialog.ticked = {} /\ \A kind, on : Time!Dialog(kind, on).ticked = {}
  BY DEF Time!NoDialog, Time!Dialog
<1> SUFFICES ASSUME page' # page
             PROVE  Listed(page'[u].dialog) /\ \A v \in Users : v # u => page'[v] = page[v]
  BY <1>0 DEF Time!TicksAreListed, TimePagesOK
<1> USE DEF TimePagesOK, Time!TimePage
<1>1. CASE Time!Load(u) \/ Time!Close(u) \/ \E tab \in Time!Tabs : Time!SwitchTab(u, tab)
  BY <1>0, <1>1, <1>n DEF Time!Load, Time!Close, Time!SwitchTab
<1>2. CASE \/ Time!OpenLog(u) \/ \E p \in Projects \cup {None} : Time!OpenProject(u, p)
           \/ \E p \in Projects : Time!OpenInvoice(u, p) \/ Time!OpenDeleteProject(u, p)
           \/ \E e \in Entries, kind \in {"edit", "delete"} : Time!OpenEntry(u, kind, e)
  <2>1. PICK kind, on : Time!Open(u, Time!Dialog(kind, on))
    BY <1>2 DEF Time!OpenLog, Time!OpenProject, Time!OpenInvoice, Time!OpenDeleteProject, Time!OpenEntry
  <2> QED BY <1>n, <2>1 DEF Time!Open
<1>3. CASE Time!LoadItems(u)
  <2> DEFINE items == [e \in Time!Unbilled(page[u].dialog.on) |-> entry[e].hours]
  <2>1. items # None
    BY UnbilledIsTyped DEF Time!ConstantsOK
  <2> HIDE DEF items
  <2> QED BY <1>3, <2>1 DEF Time!LoadItems, items
<1>4. ASSUME NEW e \in Entries, Time!Toggle(u, e) PROVE Listed(page'[u].dialog) /\ \A v \in Users : v # u => page'[v] = page[v]
  BY <1>0, <1>4 DEF Time!Toggle
<1>5. CASE Time!SubmitInvoice(u) \/ Time!SubmitProject(u) \/ Time!SubmitEntry(u) \/ Time!ConfirmDelete(u) \/ Time!Refuse(u)
  BY <1>5 DEF Time!SubmitInvoice, Time!SubmitProject, Time!SubmitEntry, Time!ConfirmDelete, Time!Send, Time!Refuse
<1>6. CASE Time!Answered(u)
  BY <1>0, <1>6, <1>n DEF Time!Answered, Time!Refresh
<1> QED BY <1>1, <1>2, <1>3, <1>4, <1>5, <1>6 DEF AtThePage

LEMMA TimeStep ==
  ASSUME Time!ConstantsOK, Time!TimeInv, [Time!Next]_Time!vars
  PROVE  Time!TimeInv'
<1>0. TimeRowsOK /\ TimePagesOK /\ Time!TicksAreListed /\ Time!BilledIsLinked
  BY TimeTypesByParts DEF Time!TimeInv
<1> SUFFICES TimeRowsOK' /\ TimePagesOK' /\ Time!TicksAreListed' /\ Time!BilledIsLinked'
  BY TimeTypesByParts DEF Time!TimeInv, Time!TypeOK, TimeRowsOK, TimePagesOK
<1>1. ASSUME project' = project, entry' = entry, invoice' = invoice PROVE TimeRowsOK' /\ Time!BilledIsLinked'
  BY <1>0, <1>1 DEF TimeRowsOK, Time!BilledIsLinked, Time!Logged
<1>2. ASSUME page' = page PROVE Time!TicksAreListed'
  BY <1>0, <1>2 DEF Time!TicksAreListed
<1>3. ASSUME page' = page, call' = call PROVE TimePagesOK'
  BY <1>0, <1>3 DEF TimePagesOK
<1>4. ASSUME NEW u \in Users, AtThePage(u) PROVE TimeRowsOK' /\ TimePagesOK' /\ Time!TicksAreListed' /\ Time!BilledIsLinked'
  BY <1>0, <1>1, <1>4, PageKeepsRows, PageKeepsPages, TicksStayListed
<1>5. ASSUME NEW u \in Users, Time!Serve(u) PROVE TimeRowsOK' /\ TimePagesOK' /\ Time!TicksAreListed' /\ Time!BilledIsLinked'
  <2>1. /\ call[u].on \in {None} \cup Projects \cup Entries /\ call[u].shown \in Nat
        /\ Time!Fits(call[u].kind, call[u].on)
    BY <1>0 DEF TimePagesOK, Time!Call
  <2>2. TimeRowsOK' /\ Time!BilledIsLinked'
    BY <1>0, <1>5, <2>1, TimeIsHandled DEF Time!Serve
  <2>3. TimePagesOK'
    BY <1>0, <1>5, StepsKeepPages DEF Time!Serve
  <2> QED BY <1>2, <1>5, <2>2, <2>3 DEF Time!Serve
<1>6. CASE InvoiceChanges
  <2>1. page' = page /\ call' = call
    BY <1>6 DEF InvoiceChanges, Time!VoidInvoice, Time!SendOrRevert, Time!DeleteInvoice
  <2> QED BY <1>0, <1>2, <1>3, <1>6, <2>1, InvoiceMoves DEF InvoiceChanges
<1>7. CASE OtherRequests
  <2>1. PICK kind \in Time!Kinds, on \in {None} \cup Projects \cup Entries :
          Time!Fits(kind, on) /\ Time!Handled(kind, on, {}, 0)
    BY <1>7 DEF OtherRequests, Time!Fits, Time!Kinds
  <2> QED BY <1>0, <1>2, <1>3, <1>7, <2>1, TimeIsHandled DEF OtherRequests
<1>8. CASE UNCHANGED Time!vars
  BY <1>1, <1>2, <1>3, <1>8 DEF Time!vars
<1> QED BY <1>4, <1>5, <1>6, <1>7, <1>8, TimeSteps

LEMMA TimeInit ==
  ASSUME Time!ConstantsOK, Time!Init
  PROVE  Time!TimeInv
<1>1. Time!NoDialog \in [kind : Time!Kinds \cup {"none"}, on : {None} \cup Projects \cup Entries,
                         items : {None} \cup Time!HoursOfSome, ticked : SUBSET Entries]
      /\ Time!Fits(Time!NoDialog.kind, Time!NoDialog.on) /\ Time!NoDialog.ticked = {}
  BY DEF Time!NoDialog, Time!Dialog, Time!Fits
<1>2. [tab |-> "projects", shown |-> None, dialog |-> Time!NoDialog] \in Time!TimePage
  BY <1>1 DEF Time!TimePage, Time!Tabs
<1>3. Time!NoCall \in Time!Call /\ Time!Fits(Time!NoCall.kind, Time!NoCall.on)
  BY DEF Time!NoCall, Time!Call, Time!Fits, Time!Kinds, Time!ConstantsOK
<1>4. TimeRowsOK /\ TimePagesOK
  BY <1>1, <1>2, <1>3 DEF Time!Init, TimeRowsOK, TimePagesOK
<1>5. Time!TicksAreListed /\ Time!BilledIsLinked
  BY <1>1 DEF Time!Init, Time!TicksAreListed, Time!BilledIsLinked, Time!Logged
<1> QED BY <1>4, <1>5, TimeTypesByParts DEF Time!TimeInv

(* However many users log, edit, delete and invoice hours, pages, dialogs  *)
(* and requests keep their types, what is ticked is among what is listed,  *)
(* and what an invoice billed is what is linked to it (projects.py,        *)
(* ProjectsTab.tsx, TimesheetsTab.tsx).                                    *)
THEOREM TimeInvariant ==
  ASSUME Time!ConstantsOK
  PROVE  Time!Spec => []Time!TimeInv
<1>1. Time!Init => Time!TimeInv
  BY TimeInit
<1>2. Time!TimeInv /\ [Time!Next]_Time!vars => Time!TimeInv'
  BY TimeStep
<1> QED BY <1>1, <1>2, PTL DEF Time!Spec

-----------------------------------------------------------------------------
(* A user alone                                                            *)

\* What a tab and a call are, of the one user there is.
UserOK(pg, c) ==
  /\ pg.tab \in Time!OnTab(pg.dialog.kind)
  /\ pg.dialog.items # None => pg.dialog.kind = "invoice"
  /\ c.step # "idle" => c.here /\ pg.tab \in Time!OnTab(c.kind)
  /\ \/ pg.dialog.items = None \/ (c.kind = "invoice" /\ c.step = "done")
     \/ Time!StillUnbilled(pg.dialog.on, pg.dialog.items)
  /\ c.kind = "invoice" /\ c.step = "sent" =>
       \/ Time!Unbilled(c.on) = {}
       \/ /\ c.ids # {} /\ c.ids \subseteq Time!Unbilled(c.on)
          /\ c.shown = Time!TotalHours([e \in c.ids |-> entry[e].hours])
  /\ pg.shown # None => pg.tab # "elsewhere" /\ (c.step # "done" => pg.shown = Time!Stored(pg.tab))

LEMMA AloneByUser ==
  ASSUME NEW u \in Users, Users = {u}
  PROVE  Time!AloneInv <=> UserOK(page[u], call[u]) /\ Time!BilledAsShown
BY DEF Time!AloneInv, UserOK, Time!BelongsToTab, Time!ItemsAreUnbilled, Time!AskedAsShown, Time!ShownIsStored

LEMMA AloneByUserNext ==
  ASSUME NEW u \in Users, Users = {u}, UserOK(page[u], call[u])', Time!BilledAsShown'
  PROVE  Time!AloneInv'
BY DEF Time!AloneInv, UserOK, Time!BelongsToTab, Time!ItemsAreUnbilled, Time!AskedAsShown, Time!ShownIsStored

LEMMA SameRows ==
  ASSUME project' = project, entry' = entry, invoice' = invoice, NEW u \in Users, UserOK(page'[u], call'[u])
  PROVE  UserOK(page[u], call[u])' /\ Time!BilledAsShown' = Time!BilledAsShown
<1>1. \A p : Time!Unbilled(p)' = Time!Unbilled(p)
  BY DEF Time!Unbilled, Time!Logged
<1>2. \A tab : Time!Stored(tab)' = Time!Stored(tab)
  BY DEF Time!Stored, Time!Cards, Time!UnbilledHours, Time!Unbilled, Time!Logged
<1>3. \A p, hours : Time!StillUnbilled(p, hours)' = Time!StillUnbilled(p, hours)
  BY <1>1 DEF Time!StillUnbilled
<1> QED BY <1>1, <1>2, <1>3 DEF UserOK, Time!BilledAsShown

LEMMA LoadAlone ==
  ASSUME TimePagesOK, Alone, NEW u \in Users, UserOK(page[u], call[u]),
         Time!Load(u) \/ Time!Close(u) \/ \E tab \in Time!Tabs : Time!SwitchTab(u, tab)
  PROVE  UserOK(page'[u], call'[u])
<1> USE DEF UserOK, TimePagesOK, Time!TimePage
<1>n. Time!NoDialog.kind = "none" /\ Time!NoDialog.items = None /\ Time!OnTab("none") = Time!Tabs
  BY DEF Time!NoDialog, Time!Dialog, Time!OnTab
<1>1. CASE Time!Load(u)
  BY <1>1 DEF Time!Load
<1>2. CASE Time!Close(u)
  BY <1>2, <1>n DEF Time!Close
<1>3. ASSUME NEW tab \in Time!Tabs, Time!SwitchTab(u, tab) PROVE UserOK(page'[u], call'[u])
  <2>1. /\ page'[u].tab = tab /\ page'[u].shown = None /\ page'[u].dialog = Time!NoDialog
        /\ call[u].step = "idle" /\ call'[u].step = "idle"
    BY <1>3 DEF Time!SwitchTab, Time!Call
  <2> QED BY <1>n, <2>1
<1> QED BY <1>1, <1>2, <1>3

LEMMA DialogsAlone ==
  ASSUME TimePagesOK, NEW u \in Users, UserOK(page[u], call[u]),
         \/ Time!OpenLog(u) \/ \E p \in Projects \cup {None} : Time!OpenProject(u, p)
         \/ \E p \in Projects : Time!OpenInvoice(u, p) \/ Time!OpenDeleteProject(u, p)
         \/ \E e \in Entries, kind \in {"edit", "delete"} : Time!OpenEntry(u, kind, e)
  PROVE  UserOK(page'[u], call'[u])
<1>1. PICK kind, on : Time!Open(u, Time!Dialog(kind, on)) /\ page[u].tab \in Time!OnTab(kind)
  BY DEF Time!OpenLog, Time!OpenProject, Time!OpenInvoice, Time!OpenDeleteProject, Time!OpenEntry, Time!OnTab
<1>2. /\ page'[u] = [page[u] EXCEPT !.dialog = Time!Dialog(kind, on)] /\ call' = call
      /\ Time!Dialog(kind, on).kind = kind /\ Time!Dialog(kind, on).items = None
  BY <1>1 DEF Time!Open, Time!Dialog, TimePagesOK
<1> QED BY <1>1, <1>2 DEF UserOK, TimePagesOK, Time!TimePage

LEMMA TicksAlone ==
  ASSUME TimePagesOK, NEW u \in Users, UserOK(page[u], call[u]),
         Time!LoadItems(u) \/ \E e \in Entries : Time!Toggle(u, e)
  PROVE  UserOK(page'[u], call'[u])
<1> USE DEF TimePagesOK, Time!TimePage
<1>1. CASE Time!LoadItems(u)
  <2> DEFINE items == [e \in Time!Unbilled(page[u].dialog.on) |-> entry[e].hours]
  <2>1. Time!StillUnbilled(page[u].dialog.on, items)
    BY DEF Time!StillUnbilled
  <2>2. /\ page'[u].dialog.items = items /\ page'[u].dialog.kind = "invoice" /\ page[u].dialog.kind = "invoice"
        /\ page'[u].dialog.on = page[u].dialog.on /\ page'[u].tab = page[u].tab /\ page'[u].shown = page[u].shown
        /\ call' = call
    BY <1>1 DEF Time!LoadItems
  <2> HIDE DEF items
  <2> QED BY <2>1, <2>2 DEF UserOK
<1>2. ASSUME NEW e \in Entries, Time!Toggle(u, e) PROVE UserOK(page'[u], call'[u])
  <2>1. /\ page'[u].dialog.items = page[u].dialog.items /\ page'[u].dialog.kind = page[u].dialog.kind
        /\ page'[u].dialog.on = page[u].dialog.on /\ page'[u].tab = page[u].tab /\ page'[u].shown = page[u].shown
        /\ call' = call
    BY <1>2 DEF Time!Toggle
  <2> QED BY <2>1 DEF UserOK
<1> QED BY <1>1, <1>2

LEMMA SubmitAlone ==
  ASSUME TimePagesOK, Time!TicksAreListed, NEW u \in Users, UserOK(page[u], call[u]),
         Time!SubmitInvoice(u) \/ Time!SubmitProject(u) \/ Time!SubmitEntry(u) \/ Time!ConfirmDelete(u)
  PROVE  UserOK(page'[u], call'[u])
<1>1. CASE Time!SubmitInvoice(u)
  <2> DEFINE d == page[u].dialog
             hours == [e \in d.ticked |-> d.items[e]]
  <2>1. /\ d.kind = "invoice" /\ d.ticked # {} /\ call[u].step = "idle" /\ page' = page
        /\ call'[u] = [kind |-> "invoice", on |-> d.on, ids |-> d.ticked, shown |-> Time!TotalHours(hours),
                       step |-> "sent", here |-> TRUE]
    BY <1>1 DEF Time!SubmitInvoice, Time!Send, TimePagesOK
  <2>2. d.items # None /\ d.ticked \subseteq DOMAIN d.items
    BY <2>1 DEF Time!TicksAreListed
  <2>3. Time!StillUnbilled(d.on, d.items)
    BY <2>1, <2>2 DEF UserOK
  <2>4. \/ Time!Unbilled(d.on) = {}
        \/ d.ticked \subseteq Time!Unbilled(d.on) /\ hours = [e \in d.ticked |-> entry[e].hours]
    BY <2>2, <2>3 DEF Time!StillUnbilled
  <2> HIDE DEF hours
  <2> QED BY <2>1, <2>2, <2>3, <2>4 DEF UserOK
<1>2. CASE Time!SubmitProject(u) \/ Time!SubmitEntry(u) \/ Time!ConfirmDelete(u)
  <2>1. /\ page' = page /\ call[u].step = "idle" /\ call'[u].kind = page[u].dialog.kind /\ call'[u].here
        /\ call'[u].kind # "invoice" /\ call'[u].step = "sent"
    BY <1>2 DEF Time!SubmitProject, Time!SubmitEntry, Time!ConfirmDelete, Time!Send, TimePagesOK
  <2> QED BY <2>1 DEF UserOK
<1> QED BY <1>1, <1>2

LEMMA AnswersAlone ==
  ASSUME TimePagesOK, NEW u \in Users, UserOK(page[u], call[u]), Time!Refuse(u) \/ Time!Answered(u)
  PROVE  UserOK(page'[u], call'[u])
<1>n. Time!NoDialog.kind = "none" /\ Time!NoDialog.items = None /\ Time!OnTab("none") = Time!Tabs
  BY DEF Time!NoDialog, Time!Dialog, Time!OnTab
<1>1. CASE Time!Refuse(u)
  <2>1. /\ page' = page /\ call[u].step = "sent" /\ call'[u].step = "refused"
        /\ call'[u].kind = call[u].kind /\ call'[u].here = call[u].here
    BY <1>1 DEF Time!Refuse, TimePagesOK, Time!Call
  <2> QED BY <2>1 DEF UserOK
<1>2. CASE Time!Answered(u)
  <2>0. call'[u].step = "idle"
    BY <1>2 DEF Time!Answered, TimePagesOK, Time!NoCall
  <2>1. CASE call[u].step = "done"
    <3>1. /\ page'[u].tab = page[u].tab /\ page'[u].shown = None
          /\ page'[u].dialog = IF Time!Form(page[u].dialog.kind) = Time!Form(call[u].kind) THEN Time!NoDialog ELSE page[u].dialog
      BY <1>2, <2>1 DEF Time!Answered, Time!Refresh, UserOK, TimePagesOK, Time!TimePage
    <3>2. page[u].tab \in Time!Tabs
      BY DEF TimePagesOK, Time!TimePage
    <3> QED BY <1>n, <2>0, <2>1, <3>1, <3>2 DEF UserOK
  <2>2. CASE call[u].step # "done"
    BY <1>2, <2>0, <2>2 DEF Time!Answered, UserOK
  <2> QED BY <2>1, <2>2
<1> QED BY <1>1, <1>2

LEMMA PageAlone ==
  ASSUME TimePagesOK, Time!TicksAreListed, Alone, NEW u \in Users, UserOK(page[u], call[u]), AtThePage(u)
  PROVE  UserOK(page'[u], call'[u])
BY LoadAlone, DialogsAlone, TicksAlone, SubmitAlone, AnswersAlone DEF AtThePage
LEMMA ProjectTakesItsOwn ==
  ASSUME TimeRowsOK, NEW p \in Projects, Time!DeleteProject(p), NEW q, NEW hours, Time!StillUnbilled(q, hours)
  PROVE  Time!StillUnbilled(q, hours)'
<1>1. \/ entry' = entry
      \/ entry' = [e \in Entries |-> IF e \in Time!Logged /\ entry[e].project = p THEN None ELSE entry[e]]
  BY DEF Time!DeleteProject
<1>2. CASE entry' = entry
  BY <1>2 DEF Time!StillUnbilled, Time!Unbilled, Time!Logged
<1>3. CASE entry' = [e \in Entries |-> IF e \in Time!Logged /\ entry[e].project = p THEN None ELSE entry[e]]
  <2>1. CASE q = p
    <3>1. Time!Unbilled(q)' = {}
      BY <1>3, <2>1 DEF Time!Unbilled, Time!Logged
    <3> QED BY <3>1 DEF Time!StillUnbilled
  <2>2. CASE q # p
    <3>1. Time!Unbilled(q)' = Time!Unbilled(q) /\ \A e \in Time!Unbilled(q) : entry'[e] = entry[e]
      BY <1>3, <2>2 DEF Time!Unbilled, Time!Logged
    <3> QED BY <3>1 DEF Time!StillUnbilled
  <2> QED BY <2>1, <2>2
<1> QED BY <1>1, <1>2, <1>3

LEMMA InvoicedAsShown ==
  ASSUME TimeRowsOK, Time!BilledAsShown, NEW i \in Invoices, NEW p, NEW ids, NEW shown,
         Time!InvoiceTime(i, p, ids, shown),
         \/ Time!Unbilled(p) = {}
         \/ /\ ids # {} /\ ids \subseteq Time!Unbilled(p)
            /\ shown = Time!TotalHours([e \in ids |-> entry[e].hours])
  PROVE  Time!BilledAsShown'
<1>1. Time!Chosen(p, ids) = ids /\ shown = Time!TotalHours([e \in ids |-> entry[e].hours])
  BY DEF Time!InvoiceTime, Time!Chosen
<1>2. /\ invoice'[i].billed = [e \in ids |-> entry[e].hours] /\ invoice'[i].shown = shown
      /\ \A j \in Invoices : j # i => invoice'[j] = invoice[j]
  BY <1>1 DEF Time!InvoiceTime, TimeRowsOK
<1> QED BY <1>1, <1>2 DEF Time!BilledAsShown

\* What a request changes.
LEMMA RequestsChange ==
  ASSUME NEW kind, NEW on, NEW ids, NEW shown, Time!Handled(kind, on, ids, shown)
  PROVE  /\ \/ invoice' = invoice
            \/ (kind = "invoice" /\ \E i \in Invoices : Time!InvoiceTime(i, on, ids, shown))
         /\ \/ entry' = entry \/ kind \in {"log", "edit", "delete", "invoice"}
            \/ (kind = "deleteProject" /\ Time!DeleteProject(on))
<1>1. CASE kind = "log" /\ \E e \in Entries, p \in Projects, h \in Time!Hours, b \in BOOLEAN : Time!LogTime(e, p, h, b)
  BY <1>1 DEF Time!LogTime
<1>2. CASE kind = "edit" /\ \E h \in Time!Hours, b \in BOOLEAN : Time!UpdateTime(on, h, b)
  BY <1>2 DEF Time!UpdateTime
<1>3. CASE kind = "delete" /\ Time!DeleteTime(on)
  BY <1>3 DEF Time!DeleteTime
<1>4. CASE kind = "project" /\ \E p \in Projects, s \in {"active", "completed"} : Time!SaveProject(p, on, s)
  BY <1>4 DEF Time!SaveProject
<1>5. CASE kind = "deleteProject" /\ Time!DeleteProject(on)
  BY <1>5 DEF Time!DeleteProject
<1>6. CASE kind = "invoice" /\ \E i \in Invoices : Time!InvoiceTime(i, on, ids, shown)
  BY <1>6
<1> QED BY <1>1, <1>2, <1>3, <1>4, <1>5, <1>6 DEF Time!Handled

LEMMA ServeAlone ==
  ASSUME Time!ConstantsOK, TimeRowsOK, TimePagesOK, NEW u \in Users, UserOK(page[u], call[u]),
         Time!BilledAsShown, Time!Serve(u)
  PROVE  UserOK(page[u], call[u])' /\ Time!BilledAsShown'
<1> DEFINE c == call[u]
           d == page[u].dialog
<1>1. /\ page' = page /\ c.step = "sent" /\ call'[u].step = "done" /\ call'[u].kind = c.kind /\ call'[u].here = c.here
      /\ Time!Handled(c.kind, c.on, c.ids, c.shown) /\ Time!Fits(c.kind, c.on)
  BY DEF Time!Serve, TimePagesOK, Time!Call
<1>2. Time!BilledAsShown'
  <2>1. CASE invoice' = invoice
    BY <2>1 DEF Time!BilledAsShown
  <2>2. ASSUME NEW i \in Invoices, c.kind = "invoice", Time!InvoiceTime(i, c.on, c.ids, c.shown) PROVE Time!BilledAsShown'
    BY <1>1, <2>2, InvoicedAsShown DEF UserOK
  <2>3. invoice' = invoice \/ (c.kind = "invoice" /\ \E i \in Invoices : Time!InvoiceTime(i, c.on, c.ids, c.shown))
    BY <1>1, RequestsChange
  <2> QED BY <2>1, <2>2, <2>3
<1>3. \/ d.items = None \/ (c.kind = "invoice")
      \/ Time!StillUnbilled(d.on, d.items)'
  <2> SUFFICES ASSUME d.items # None, c.kind # "invoice" PROVE Time!StillUnbilled(d.on, d.items)'
    OBVIOUS
  <2>1. page[u].tab = "projects" /\ page[u].tab \in Time!OnTab(c.kind) /\ Time!StillUnbilled(d.on, d.items)
    BY <1>1 DEF UserOK, Time!OnTab
  <2>2. entry' = entry \/ (c.kind = "deleteProject" /\ Time!DeleteProject(c.on))
    BY <1>1, <2>1, RequestsChange DEF Time!OnTab
  <2>3. CASE entry' = entry
    <3>1. page'[u] = page[u]
      BY <1>1
    <3>2. Time!Unbilled(d.on)' = Time!Unbilled(d.on)
      BY <2>3, <3>1 DEF Time!Unbilled, Time!Logged
    <3> QED BY <2>1, <2>3, <3>1, <3>2 DEF Time!StillUnbilled
  <2>4. CASE c.kind = "deleteProject" /\ Time!DeleteProject(c.on)
    <3>1. c.on \in Projects
      BY <1>1, <2>4 DEF Time!Fits
    <3>2. Time!StillUnbilled(d.on, d.items) /\ page'[u] = page[u]
      BY <1>1, <2>1
    <3> HIDE DEF d
    <3>3. \A q, hours : Time!StillUnbilled(q, hours) => Time!StillUnbilled(q, hours)'
      BY <2>4, <3>1, ProjectTakesItsOwn
    <3> QED BY <3>2, <3>3 DEF d
  <2> QED BY <2>2, <2>3, <2>4
<1> QED BY <1>1, <1>2, <1>3 DEF UserOK

LEMMA InvoicesAlone ==
  ASSUME TimeRowsOK, Alone, NEW u \in Users, UserOK(page[u], call[u]), Time!BilledAsShown, InvoiceChanges
  PROVE  UserOK(page[u], call[u])' /\ Time!BilledAsShown'
<1>1. page' = page /\ call' = call /\ page[u].tab = "elsewhere"
  BY DEF InvoiceChanges, Time!VoidInvoice, Time!SendOrRevert, Time!DeleteInvoice
<1>2. page[u].dialog.items = None /\ page[u].shown = None /\ ~(call[u].kind = "invoice" /\ call[u].step = "sent")
  BY <1>1 DEF UserOK, Time!OnTab
<1>3. UserOK(page[u], call[u])'
  BY <1>1, <1>2 DEF UserOK
<1>4. PICK i \in Invoices : Time!VoidInvoice(i) \/ Time!SendOrRevert(i) \/ Time!DeleteInvoice(i)
  BY DEF InvoiceChanges
<1>5. \/ invoice' = [invoice EXCEPT ![i] = None]
      \/ \E s : invoice[i] # None /\ invoice' = [invoice EXCEPT ![i] = [invoice[i] EXCEPT !.status = s]]
  BY <1>4 DEF Time!VoidInvoice, Time!SendOrRevert, Time!DeleteInvoice
<1>6. CASE invoice' = [invoice EXCEPT ![i] = None]
  BY <1>3, <1>6 DEF TimeRowsOK, Time!BilledAsShown
<1>7. ASSUME NEW s, invoice[i] # None, invoice' = [invoice EXCEPT ![i] = [invoice[i] EXCEPT !.status = s]]
      PROVE  Time!BilledAsShown'
  <2>1. /\ invoice'[i].billed = invoice[i].billed /\ invoice'[i].shown = invoice[i].shown
        /\ \A j \in Invoices : j # i => invoice'[j] = invoice[j]
    BY <1>7 DEF TimeRowsOK, Time!Invoice
  <2> QED BY <1>7, <2>1 DEF Time!BilledAsShown
<1> QED BY <1>3, <1>5, <1>6, <1>7

LEMMA AloneStep ==
  ASSUME Time!ConstantsOK, Alone, Time!TimeInv, Time!AloneInv, [Time!Next]_Time!vars
  PROVE  Time!AloneInv'
<1>1. TimeRowsOK /\ TimePagesOK /\ Time!TicksAreListed
  BY TimeTypesByParts DEF Time!TimeInv
<1>2. PICK u \in Users : Users = {u}
  BY DEF Time!ConstantsOK
<1>3. UserOK(page[u], call[u]) /\ Time!BilledAsShown
  BY <1>2, AloneByUser
<1> SUFFICES UserOK(page[u], call[u])' /\ Time!BilledAsShown'
  BY <1>2, AloneByUserNext
<1>4. CASE AtThePage(u)
  <2>1. project' = project /\ entry' = entry /\ invoice' = invoice
    BY <1>4, PageKeepsRows
  <2>2. UserOK(page'[u], call'[u])
    BY <1>1, <1>3, <1>4, PageAlone
  <2> QED BY <1>3, <2>1, <2>2, SameRows
<1>5. CASE Time!Serve(u)
  BY <1>1, <1>3, <1>5, ServeAlone
<1>6. CASE InvoiceChanges
  BY <1>1, <1>3, <1>6, InvoicesAlone
<1>7. CASE UNCHANGED Time!vars
  <2>1. /\ project' = project /\ entry' = entry /\ invoice' = invoice /\ UserOK(page'[u], call'[u])
    BY <1>3, <1>7 DEF Time!vars
  <2> QED BY <1>3, <2>1, SameRows
<1>8. ~OtherRequests
  BY DEF OtherRequests
<1> QED BY <1>2, <1>4, <1>5, <1>6, <1>7, <1>8, TimeSteps

LEMMA AloneInit ==
  ASSUME Time!ConstantsOK, Time!Init
  PROVE  Time!AloneInv
<1>1. /\ Time!NoDialog.kind = "none" /\ Time!NoDialog.items = None /\ Time!NoDialog.ticked = {}
      /\ Time!OnTab("none") = Time!Tabs /\ Time!NoCall.step = "idle"
  BY DEF Time!NoDialog, Time!Dialog, Time!NoCall, Time!OnTab
<1>2. \A u \in Users : /\ page[u].tab = "projects" /\ page[u].shown = None
                       /\ page[u].dialog = Time!NoDialog /\ call[u] = Time!NoCall
  BY DEF Time!Init
<1>3. "projects" \in Time!Tabs
  BY DEF Time!Tabs
<1> QED BY <1>1, <1>2, <1>3 DEF Time!Init, Time!AloneInv, Time!BelongsToTab, Time!ItemsAreUnbilled, Time!AskedAsShown,
                               Time!BilledAsShown, Time!ShownIsStored

(* To a user alone, the hours a form holds are still to be billed when he  *)
(* sends it, a dialog is of the tab it is over, and what is shown is       *)
(* stored (ProjectsTab.tsx, TimesheetsTab.tsx).                            *)
THEOREM AloneInvariant ==
  ASSUME Time!ConstantsOK, Alone
  PROVE  Time!Spec => []Time!AloneInv
<1>1. Time!Init => Time!AloneInv
  BY AloneInit
<1>2. Time!TimeInv /\ Time!AloneInv /\ [Time!Next]_Time!vars => Time!AloneInv'
  BY AloneStep
<1> QED BY <1>1, <1>2, TimeInvariant, PTL DEF Time!Spec

(* At every value of the constants an hour is billed once, and by a user   *)
(* alone as the form showed it.                                            *)
THEOREM HourBilledOnce ==
  ASSUME Time!ConstantsOK
  PROVE  Time!Spec => []Time!HoursBilledOnce
<1>1. CASE Alone
  <2>1. Time!TimeInv /\ Time!AloneInv => Time!HoursBilledOnce
    BY DEF Time!TimeInv, Time!AloneInv, Time!HoursBilledOnce
  <2> QED BY <1>1, <2>1, TimeInvariant, AloneInvariant, PTL
<1>2. CASE ~Alone
  <2>1. Time!TimeInv => Time!HoursBilledOnce
    BY <1>2 DEF Time!TimeInv, Time!HoursBilledOnce
  <2> QED BY <2>1, TimeInvariant, PTL
<1> QED BY <1>1, <1>2

(* A user alone who waits for his calls sees what is stored.               *)
THEOREM TimePageConverges ==
  ASSUME Time!ConstantsOK, Alone
  PROVE  Time!Spec => []Time!PagesConverge
<1>1. Time!AloneInv => Time!PagesConverge
  BY DEF Time!AloneInv, Time!ShownIsStored, Time!PagesConverge
<1> QED BY <1>1, AloneInvariant, PTL
-----------------------------------------------------------------------------
(* The sales pages *)

CONSTANTS N, P, PageSize, MaxTotalsPages, Pages, Clicks, LeavesBusy
VARIABLES stored, pays, filter, number, picked, dialog, bulk, totals, walk

Desk == INSTANCE SalesDesk

\* What of a payment counts for invoice i.
Count(row, i) == IF row # None /\ row.invoice = i THEN row.amount ELSE 0
Counts(ps, i) == [k \in 1..P |-> Count(ps[k], i)]

(* The documents, with what relates payments to invoices. *)
DocsOK ==
  /\ stored \in [Desk!Ids -> Desk!InvoiceRow \cup {None}] /\ pays \in [1..P -> Desk!PaymentRow \cup {None}]
  /\ Desk!PaidIsReceived /\ Desk!DraftsAreUnpaid /\ Desk!PaidStays
PlaceOK ==
  /\ page \in Pages /\ filter \in Desk!Filters /\ number \in 1..N + P
  /\ rows \in [at : {"idle", "sent", "read"}, shown : {rows.shown}, answer : {rows.answer}]
  /\ picked \subseteq Desk!Ids
  /\ bulk \in [on : BOOLEAN, here : BOOLEAN, todo : SUBSET Desk!Ids, failed : SUBSET Desk!Ids]
  /\ walk.page \in 1..MaxTotalsPages
DialogOK ==
  /\ dialog \in [at : {"idle", "open", "sent", "done"}, kind : Desk!Kinds \cup {None}, id : 0..N + P, amount : 0..Total,
                 status : {"draft", "sent", None}, ok : BOOLEAN]
  /\ Desk!DialogFits

LEMMA DeskByParts ==
  /\ Desk!DeskInv <=> DocsOK /\ PlaceOK /\ DialogOK
  /\ Desk!DeskInv' <=> DocsOK' /\ PlaceOK' /\ DialogOK'
BY DEF Desk!DeskInv, Desk!TypeOK, DocsOK, PlaceOK, DialogOK

LEMMA DeskSums ==
  ASSUME NEW f, NEW S
  PROVE  Desk!SumFunctionOnSet(f, S) = SumFunctionOnSet(f, S)
BY DEF Desk!SumFunctionOnSet, SumFunctionOnSet, Desk!FoldFunctionOnSet, FoldFunctionOnSet, Desk!MapThenFoldSet, MapThenFoldSet

LEMMA DeskIsFinite ==
  ASSUME Desk!ConstantsOK
  PROVE  N \in Nat /\ P \in Nat /\ IsFiniteSet(1..P)
<1>1. N \in Nat /\ P \in Nat
  BY DEF Desk!ConstantsOK
<1>2. IsFiniteSet(1..P)
  BY <1>1, FS_Interval
<1> QED BY <1>1, <1>2

LEMMA PaidIsCounted ==
  /\ Desk!PaidIsReceived <=>
       \A i \in Desk!Ids : stored[i] # None => stored[i].paid = SumFunctionOnSet(Counts(pays, i), 1..P)
  /\ Desk!PaidIsReceived' <=>
       \A i \in Desk!Ids : stored'[i] # None => stored'[i].paid = SumFunctionOnSet(Counts(pays', i), 1..P)
BY DeskSums DEF Desk!PaidIsReceived, Count, Counts

LEMMA LeastExists ==
  ASSUME NEW S, IsFiniteSet(S), S \subseteq Int, S # {}
  PROVE  \E m \in S : \A x \in S : m <= x
<1> DEFINE Good == {T \in SUBSET S : T # {} => \E m \in T : \A x \in T : m <= x}
<1>1. ASSUME NEW T \in SUBSET S, \A U \in SUBSET T : U # T => U \in Good
      PROVE  T \in Good
  <2> SUFFICES ASSUME T # {} PROVE \E m \in T : \A x \in T : m <= x
    OBVIOUS
  <2>1. PICK a \in T : TRUE
    OBVIOUS
  <2>2. CASE T \ {a} = {}
    BY <2>1, <2>2
  <2>3. CASE T \ {a} # {}
    <3>1. PICK m \in T \ {a} : \A x \in T \ {a} : m <= x
      BY <1>1, <2>3
    <3>2. a \in Int /\ m \in Int /\ \A x \in T : x \in Int
      BY <2>1
    <3>3. CASE a <= m
      BY <3>1, <3>2, <3>3, <2>1
    <3>4. CASE m <= a
      BY <3>1, <3>2, <3>4, <2>1
    <3> QED BY <3>2, <3>3, <3>4
  <2> QED BY <2>2, <2>3
<1>2. SUBSET S \subseteq Good
  <2> HIDE DEF Good
  <2> QED BY <1>1, SubsetInduction
<1> QED BY <1>2

(* A new document takes a free place. *)
LEMMA PlaceIsFree ==
  ASSUME NEW top \in Nat, NEW S, Desk!Fresh(S, top) # {}
  PROVE  Desk!Next1(S, top) \in 1..top /\ S[Desk!Next1(S, top)] = None
<1> DEFINE F == Desk!Fresh(S, top)
<1>1. F \subseteq 1..top /\ \A k \in F : S[k] = None
  BY DEF Desk!Fresh
<1>2. IsFiniteSet(F) /\ F \subseteq Int /\ F # {}
  <2>1. IsFiniteSet(1..top)
    BY FS_Interval
  <2> QED BY <1>1, <2>1, FS_Subset
<1>3. \E m \in F : \A x \in F : m <= x
  <2> HIDE DEF F
  <2> QED BY <1>2, LeastExists
<1>4. Desk!Next1(S, top) \in F
  BY <1>3 DEF Desk!Next1
<1> QED BY <1>1, <1>4

LEMMA SumIsAtLeast ==
  ASSUME NEW S, IsFiniteSet(S), NEW f, \A x \in S : f[x] \in Nat, NEW a \in S
  PROVE  SumFunctionOnSet(f, S) >= f[a]
<1>1. \A x \in S : f[x] \in Int
  OBVIOUS
<1>2. SumFunctionOnSet(f, S) = f[a] + SumFunctionOnSet(f, S \ {a})
  BY <1>1, SumRemoves
<1>3. SumFunctionOnSet(f, S \ {a}) \in Nat
  BY SumIsNat, FS_Subset
<1> QED BY <1>2, <1>3

(* An invoice nothing was paid for has no payments. *)
LEMMA UnpaidHasNone ==
  ASSUME DocsOK, Desk!ConstantsOK, NEW i \in Desk!Ids, stored[i] # None, stored[i].paid = 0
  PROVE  \A k \in 1..P : pays[k] # None => pays[k].invoice # i
<1> SUFFICES ASSUME NEW k \in 1..P, pays[k] # None, pays[k].invoice = i PROVE FALSE
  OBVIOUS
<1> DEFINE f == Counts(pays, i)
<1>1. \A j \in 1..P : f[j] \in Nat
  BY DEF Count, Counts, DocsOK, Desk!PaymentRow
<1>2. f[k] \in Nat /\ f[k] >= 1
  BY DEF Count, Counts, DocsOK, Desk!PaymentRow
<1>3. SumFunctionOnSet(f, 1..P) = 0
  BY PaidIsCounted DEF DocsOK
<1>4. IsFiniteSet(1..P)
  BY DeskIsFinite
<1>5. SumFunctionOnSet(f, 1..P) >= f[k]
  <2> HIDE DEF f
  <2> QED BY <1>1, <1>4, SumIsAtLeast
<1> QED BY <1>2, <1>3, <1>5

(* What counts for an invoice changes by the payment that changes. *)
LEMMA CountsChange ==
  ASSUME DocsOK, Desk!ConstantsOK, NEW k \in 1..P, NEW row \in Desk!PaymentRow \cup {None},
         pays' = [pays EXCEPT ![k] = row], NEW i \in Desk!Ids
  PROVE  /\ pays' \in [1..P -> Desk!PaymentRow \cup {None}]
         /\ SumFunctionOnSet(Counts(pays, i), 1..P) \in Nat /\ SumFunctionOnSet(Counts(pays', i), 1..P) \in Nat
         /\ SumFunctionOnSet(Counts(pays', i), 1..P) = SumFunctionOnSet(Counts(pays, i), 1..P)
              + Count(row, i) - Count(pays[k], i)
<1> DEFINE f == Counts(pays, i)
           g == Counts(pays', i)
<1>1. pays' \in [1..P -> Desk!PaymentRow \cup {None}]
  BY DEF DocsOK
<1>2. \A j \in 1..P : f[j] \in Nat /\ g[j] \in Nat /\ f[j] \in Int /\ g[j] \in Int
  BY <1>1 DEF Count, Counts, DocsOK, Desk!PaymentRow
<1>3. \A j \in 1..P \ {k} : f[j] = g[j]
  BY DEF Counts, DocsOK
<1>4. f[k] = Count(pays[k], i) /\ g[k] = Count(row, i)
  BY DEF Counts, DocsOK
<1>5. IsFiniteSet(1..P)
  BY DeskIsFinite
<1> HIDE DEF f, g
<1>6. SumFunctionOnSet(g, 1..P) = SumFunctionOnSet(f, 1..P) + (g[k] - f[k])
  <2> DEFINE S == 1..P
  <2>1. k \in S
    OBVIOUS
  <2>2. \A j \in S : f[j] \in Int /\ g[j] \in Int
    BY <1>2
  <2>3. IsFiniteSet(S) /\ \A j \in S \ {k} : f[j] = g[j]
    BY <1>3, <1>5
  <2> HIDE DEF S
  <2>4. SumFunctionOnSet(g, S) = SumFunctionOnSet(f, S) + (g[k] - f[k])
    BY <2>1, <2>2, <2>3, SumChanges
  <2> QED BY <2>4 DEF S
<1>7. SumFunctionOnSet(f, 1..P) \in Nat /\ SumFunctionOnSet(g, 1..P) \in Nat
  BY <1>2, <1>5, SumIsNat
<1>8. f[k] \in Int /\ g[k] \in Int
  BY <1>2
<1> QED BY <1>1, <1>4, <1>6, <1>7, <1>8 DEF f, g
(* What is asked of the server, and what the server changes. *)
Asked(kind, id, amount, status) ==
  /\ kind \in Desk!Kinds
  /\ kind \in {"send", "void", "delete", "update"} => id \in Desk!Ids
  /\ kind = "pay" => id \in 0..N /\ amount \in 1..Total
  /\ kind = "unpay" => id \in 1..P
  /\ kind \in Desk!Forms => status \in {"draft", "sent"}

(* What is done to one invoice that is unpaid, before and after. *)
LEMMA InvoiceChanges1 ==
  ASSUME DocsOK, Desk!ConstantsOK, NEW i \in Desk!Ids, NEW row \in Desk!InvoiceRow \cup {None},
         stored' = [stored EXCEPT ![i] = row], pays' = pays,
         stored[i] # None => row # None \/ stored[i].paid = 0,
         row # None => /\ row.paid = IF stored[i] = None THEN 0 ELSE stored[i].paid
                       /\ row.status # "sent" => row.paid = 0
  PROVE  DocsOK'
<1>1. stored' \in [Desk!Ids -> Desk!InvoiceRow \cup {None}] /\ stored'[i] = row /\ \A j \in Desk!Ids \ {i} : stored'[j] = stored[j]
  BY DEF DocsOK
<1>2. IsFiniteSet(1..P)
  BY DeskIsFinite
<1>3. Desk!PaidIsReceived'
  <2> SUFFICES ASSUME NEW j \in Desk!Ids, stored'[j] # None
               PROVE  stored'[j].paid = SumFunctionOnSet(Counts(pays, j), 1..P)
    BY PaidIsCounted
  <2>1. CASE stored[j] # None
    <3>1. stored'[j].paid = stored[j].paid
      BY <1>1, <2>1
    <3> QED BY <2>1, <3>1, PaidIsCounted DEF DocsOK
  <2>2. CASE stored[j] = None
    <3> DEFINE f == Counts(pays, j)
    <3>1. \A k \in 1..P : f[k] = 0
      BY <2>2 DEF DocsOK, Desk!PaidStays, Count, Counts, Desk!Ids, Desk!ConstantsOK
    <3>2. SumFunctionOnSet(f, 1..P) = 0
      <4> HIDE DEF f
      <4> QED BY <1>2, <3>1, SumOfZeros
    <3>3. stored'[j].paid = 0
      BY <1>1, <2>2
    <3> QED BY <3>2, <3>3
  <2> QED BY <2>1, <2>2
<1>4. Desk!DraftsAreUnpaid'
  BY <1>1 DEF DocsOK, Desk!DraftsAreUnpaid
<1>5. Desk!PaidStays'
  <2>1. CASE row # None
    BY <1>1, <2>1 DEF DocsOK, Desk!PaidStays
  <2>2. CASE row = None /\ stored[i] # None
    BY <1>1, <2>2, UnpaidHasNone DEF DocsOK, Desk!PaidStays
  <2>3. CASE row = None /\ stored[i] = None
    BY <1>1, <2>3 DEF DocsOK, Desk!PaidStays
  <2> QED BY <2>1, <2>2, <2>3
<1> QED BY <1>1, <1>3, <1>4, <1>5 DEF DocsOK

LEMMA DeskServes ==
  ASSUME DocsOK, Desk!ConstantsOK, NEW kind, NEW id, NEW amount, NEW status, Asked(kind, id, amount, status),
         Desk!Allowed(kind, id, amount), Desk!Room(kind), Desk!Does(kind, id, amount, status)
  PROVE  DocsOK'
<1>0. N \in Nat \ {0} /\ P \in Nat /\ Total \in Nat
  BY DEF Desk!ConstantsOK
<1>1. /\ stored \in [Desk!Ids -> Desk!InvoiceRow \cup {None}] /\ pays \in [1..P -> Desk!PaymentRow \cup {None}]
      /\ None \notin Desk!InvoiceRow \cup Desk!PaymentRow
  BY DEF DocsOK, Desk!ConstantsOK
<1>2. CASE kind \in {"send", "void", "delete", "update"}
  <2>1. id \in Desk!Ids /\ stored[id] \in Desk!InvoiceRow /\ stored[id] # None /\ pays' = pays
    BY <1>1, <1>2 DEF Asked, Desk!Allowed, Desk!Unpaid, Desk!Does
  <2>2. PICK row \in Desk!InvoiceRow \cup {None} :
          /\ stored' = [stored EXCEPT ![id] = row]
          /\ row # None \/ stored[id].paid = 0
          /\ row # None => row.paid = stored[id].paid /\ (row.status # "sent" => row.paid = 0)
    <3> DEFINE Row(s) == [stored[id] EXCEPT !.status = s]
    <3>0. \A s \in {"draft", "sent", "void"} :
            Row(s) \in Desk!InvoiceRow /\ Row(s).paid = stored[id].paid /\ Row(s).status = s
      BY <2>1 DEF Desk!InvoiceRow
    <3>1. CASE kind = "send"
      <4>1. stored' = [stored EXCEPT ![id] = Row("sent")]
        BY <3>1 DEF Desk!Does
      <4> HIDE DEF Row
      <4> QED BY <1>1, <3>0, <4>1
    <3>2. CASE kind = "void"
      <4>1. stored' = [stored EXCEPT ![id] = Row("void")] /\ stored[id].paid = 0
        BY <3>2 DEF Desk!Does, Desk!Allowed, Desk!Unpaid
      <4> HIDE DEF Row
      <4> QED BY <1>1, <3>0, <4>1
    <3>3. CASE kind = "delete"
      BY <1>1, <2>1, <3>3 DEF Desk!Allowed, Desk!Unpaid, Desk!Does
    <3>4. CASE kind = "update"
      <4> DEFINE new == IF stored[id].status = "sent" THEN "sent" ELSE status
      <4>1. stored' = [stored EXCEPT ![id] = Row(new)] /\ stored[id].paid = 0
        BY <3>4 DEF Desk!Does, Desk!Allowed, Desk!Unpaid
      <4>2. new \in {"draft", "sent", "void"}
        BY <3>4 DEF Asked, Desk!Forms
      <4> HIDE DEF Row, new
      <4> QED BY <1>1, <3>0, <4>1, <4>2
    <3> QED BY <1>2, <3>1, <3>2, <3>3, <3>4
  <2> QED BY <2>1, <2>2, InvoiceChanges1
<1>3. CASE kind = "create"
  <2> DEFINE i == Desk!Next1(stored, N)
             row == [status |-> status, paid |-> 0]
  <2>1. i \in Desk!Ids /\ stored[i] = None
    BY <1>0, <1>3, PlaceIsFree DEF Desk!Room, Desk!Ids
  <2>2. row \in Desk!InvoiceRow
    BY <1>0, <1>3 DEF Asked, Desk!Forms, Desk!InvoiceRow
  <2>3. stored' = [stored EXCEPT ![i] = row] /\ pays' = pays
    BY <1>3 DEF Desk!Does
  <2>4. row.paid = 0
    OBVIOUS
  <2> HIDE DEF i, row
  <2> QED BY <2>1, <2>2, <2>3, <2>4, InvoiceChanges1
<1>4. CASE kind = "pay"
  <2> DEFINE k == Desk!Next1(pays, P)
             row == [invoice |-> id, amount |-> amount]
  <2>1. k \in 1..P /\ pays[k] = None
    BY <1>0, <1>4, PlaceIsFree DEF Desk!Room
  <2>2. row \in Desk!PaymentRow /\ row # None /\ row.invoice = id /\ row.amount = amount /\ id \in 0..N /\ amount \in 1..Total
    BY <1>1, <1>4 DEF Asked, Desk!PaymentRow
  <2>3. pays' = [pays EXCEPT ![k] = row]
    BY <1>4 DEF Desk!Does
  <2>4. stored' = IF id = 0 THEN stored ELSE [stored EXCEPT ![id].paid = @ + amount]
    BY <1>4 DEF Desk!Does
  <2>5. id # 0 => id \in Desk!Ids /\ stored[id] # None /\ stored[id].status = "sent" /\ amount <= Total - stored[id].paid
    BY <1>0, <1>4, <2>2 DEF Desk!Allowed, Desk!Posted, Desk!Due, Desk!Ids
  <2> HIDE DEF k, row
  <2>6. ASSUME NEW i \in Desk!Ids
        PROVE  /\ SumFunctionOnSet(Counts(pays', i), 1..P) = SumFunctionOnSet(Counts(pays, i), 1..P) + IF id = i THEN amount ELSE 0
               /\ SumFunctionOnSet(Counts(pays, i), 1..P) \in Nat
    <3>1. row \in Desk!PaymentRow \cup {None}
      BY <2>2
    <3>2. /\ SumFunctionOnSet(Counts(pays, i), 1..P) \in Nat
          /\ SumFunctionOnSet(Counts(pays', i), 1..P) = SumFunctionOnSet(Counts(pays, i), 1..P)
               + Count(row, i) - Count(pays[k], i)
      BY <2>1, <2>3, <3>1, CountsChange
    <3> QED BY <2>1, <2>2, <3>2 DEF Count
  <2> DEFINE paid == [stored[id] EXCEPT !.paid = @ + amount]
  <2>11. id # 0 => /\ stored' = [stored EXCEPT ![id] = paid] /\ paid \in Desk!InvoiceRow
                   /\ paid.paid = stored[id].paid + amount /\ paid.status = "sent"
    BY <1>0, <1>1, <2>2, <2>4, <2>5 DEF Desk!InvoiceRow
  <2> HIDE DEF paid
  <2>7. stored' \in [Desk!Ids -> Desk!InvoiceRow \cup {None}] /\ \A i \in Desk!Ids \ {id} : stored'[i] = stored[i]
    BY <1>1, <2>2, <2>4, <2>5, <2>11
  <2>8. id # 0 => stored'[id].paid = stored[id].paid + amount /\ stored'[id].status = "sent" /\ stored'[id] # None
    BY <1>1, <2>5, <2>11
  <2>9. Desk!PaidIsReceived'
    <3> SUFFICES ASSUME NEW i \in Desk!Ids, stored'[i] # None
                 PROVE  stored'[i].paid = SumFunctionOnSet(Counts(pays', i), 1..P)
      BY PaidIsCounted
    <3>1. stored[i] # None /\ stored'[i].paid = stored[i].paid + IF id = i THEN amount ELSE 0
      <4>1. CASE i = id
        BY <2>5, <2>8, <4>1 DEF Desk!Ids
      <4>2. CASE i # id
        <5>1. stored'[i] = stored[i] /\ (stored[i] # None => stored[i].paid \in Int)
          BY <1>1, <2>7, <4>2 DEF Desk!InvoiceRow
        <5> QED BY <4>2, <5>1
      <4> QED BY <4>1, <4>2
    <3>2. stored[i].paid = SumFunctionOnSet(Counts(pays, i), 1..P)
      BY <3>1, PaidIsCounted DEF DocsOK
    <3> QED BY <2>6, <3>1, <3>2
  <2>10. Desk!DraftsAreUnpaid' /\ Desk!PaidStays' /\ pays' \in [1..P -> Desk!PaymentRow \cup {None}]
    <3>1. \A i \in Desk!Ids : i = id => id # 0
      BY DEF Desk!Ids
    <3>2. Desk!DraftsAreUnpaid'
      BY <2>7, <2>8, <3>1 DEF DocsOK, Desk!DraftsAreUnpaid
    <3>3. pays' \in [1..P -> Desk!PaymentRow \cup {None}] /\ pays'[k] = row /\ \A j \in 1..P \ {k} : pays'[j] = pays[j]
      BY <1>1, <2>1, <2>2, <2>3
    <3>4. \A j \in 1..P : pays[j] # None /\ pays[j].invoice # 0 =>
            pays[j].invoice \in Desk!Ids /\ stored[pays[j].invoice] # None
      BY <1>1 DEF DocsOK, Desk!PaidStays, Desk!PaymentRow, Desk!Ids
    <3>5. \A i \in Desk!Ids : stored[i] # None => stored'[i] # None
      BY <2>7, <2>8, <3>1
    <3>6. Desk!PaidStays'
      BY <2>2, <2>5, <3>3, <3>4, <3>5 DEF Desk!PaidStays
    <3> QED BY <3>2, <3>3, <3>6
  <2> QED BY <2>7, <2>9, <2>10 DEF DocsOK
<1>5. CASE kind = "unpay"
  <2> DEFINE i == pays[id].invoice
  <2>1. id \in 1..P /\ pays[id] # None /\ pays[id] \in Desk!PaymentRow /\ pays[id].amount \in 1..Total /\ i \in 0..N
    BY <1>1, <1>5 DEF Asked, Desk!Allowed, Desk!PaymentRow
  <2>2. pays' = [pays EXCEPT ![id] = None] /\ stored' = IF i = 0 THEN stored ELSE [stored EXCEPT ![i].paid = @ - pays[id].amount]
    BY <1>5 DEF Desk!Does
  <2>3. i # 0 => i \in Desk!Ids /\ stored[i] # None /\ stored[i] \in Desk!InvoiceRow
    BY <1>1, <2>1 DEF DocsOK, Desk!PaidStays, Desk!Ids
  <2>4. ASSUME NEW j \in Desk!Ids
        PROVE  /\ SumFunctionOnSet(Counts(pays', j), 1..P) = SumFunctionOnSet(Counts(pays, j), 1..P) - IF i = j THEN pays[id].amount ELSE 0
               /\ SumFunctionOnSet(Counts(pays, j), 1..P) \in Nat /\ SumFunctionOnSet(Counts(pays', j), 1..P) \in Nat
    <3>1. None \in Desk!PaymentRow \cup {None}
      OBVIOUS
    <3>2. /\ SumFunctionOnSet(Counts(pays, j), 1..P) \in Nat /\ SumFunctionOnSet(Counts(pays', j), 1..P) \in Nat
          /\ SumFunctionOnSet(Counts(pays', j), 1..P) = SumFunctionOnSet(Counts(pays, j), 1..P)
               + Count(None, j) - Count(pays[id], j)
      BY <2>1, <2>2, <3>1, CountsChange
    <3> QED BY <2>1, <3>2 DEF Count
  <2>5. i # 0 => /\ stored[i].paid = SumFunctionOnSet(Counts(pays, i), 1..P)
                 /\ stored[i].paid - pays[id].amount \in 0..Total /\ stored[i].paid # 0
    <3> HIDE DEF i
    <3>1. i # 0 => stored[i].paid = SumFunctionOnSet(Counts(pays, i), 1..P) /\ stored[i].paid \in 0..Total
      BY <2>3, PaidIsCounted DEF DocsOK, Desk!InvoiceRow
    <3> QED BY <1>0, <2>1, <2>3, <2>4, <3>1
  <2>6. i # 0 => stored[i].status = "sent"
    BY <2>3, <2>5 DEF DocsOK, Desk!DraftsAreUnpaid
  <2>7. /\ stored' \in [Desk!Ids -> Desk!InvoiceRow \cup {None}] /\ \A j \in Desk!Ids \ {i} : stored'[j] = stored[j]
        /\ i # 0 => stored'[i].paid = stored[i].paid - pays[id].amount /\ stored'[i].status = "sent" /\ stored'[i] # None
    BY <1>1, <2>2, <2>3, <2>5, <2>6 DEF Desk!InvoiceRow
  <2>8. Desk!PaidIsReceived'
    <3> HIDE DEF i
    <3> QED BY <2>1, <2>3, <2>4, <2>5, <2>7, PaidIsCounted DEF DocsOK, Desk!Ids
  <2>9. Desk!DraftsAreUnpaid' /\ Desk!PaidStays' /\ pays' \in [1..P -> Desk!PaymentRow \cup {None}]
    BY <1>1, <2>1, <2>2, <2>3, <2>7 DEF DocsOK, Desk!DraftsAreUnpaid, Desk!PaidStays, Desk!Ids
  <2> QED BY <2>7, <2>8, <2>9 DEF DocsOK
<1> QED BY <1>2, <1>3, <1>4, <1>5 DEF Asked, Desk!Kinds
(* What the tab does by itself, and what changes no document. *)
ReadSteps == Desk!RowsRead \/ Desk!RowsShown \/ Desk!TotalsPage
PageSteps ==
  \/ \E i \in Desk!Ids : Desk!OpenInvoice(i) \/ Desk!Tick(i)
  \/ \E p \in Pages : Desk!OpenPage(p)
  \/ \E f \in Desk!Filters : Desk!SetFilter(f)
  \/ \E n \in 1..N + P : Desk!SetPage(n)
  \/ Desk!SelectAll \/ Desk!ConfirmBulkDelete \/ Desk!BulkDone
OpenSteps ==
  \/ \E kind \in Desk!Kinds, id \in 1..N + P : Desk!OpenDialog(kind, id)
  \/ \E id \in 0..N, amount \in 1..Total : Desk!OpenPayment(id, amount)
  \/ \E id \in 0..N, status \in {"draft", "sent"} : Desk!OpenForm(id, status)
DialogSteps == Desk!CancelDialog \/ Desk!Confirm \/ Desk!Done
OtherSteps ==
  \E kind \in Others, id \in 0..N + P, amount \in 1..Total, status \in {"draft", "sent"} : Desk!Elsewhere(kind, id, amount, status)

LEMMA DeskSteps ==
  Desk!Next =>
    \/ ReadSteps \/ PageSteps \/ OpenSteps \/ DialogSteps \/ OtherSteps \/ Desk!Served
    \/ \E i \in Desk!Ids : Desk!BulkDelete(i)
BY DEF Desk!Next, ReadSteps, PageSteps, OpenSteps, DialogSteps, OtherSteps

LEMMA DocsStay ==
  ASSUME DocsOK, UNCHANGED <<stored, pays>>
  PROVE  DocsOK'
BY PaidIsCounted DEF DocsOK, Desk!DraftsAreUnpaid, Desk!PaidStays

LEMMA PlaceStays ==
  ASSUME PlaceOK, UNCHANGED <<page, filter, number, rows, picked, bulk, walk>>
  PROVE  PlaceOK'
BY DEF PlaceOK

LEMMA DialogStays ==
  ASSUME DialogOK, UNCHANGED dialog
  PROVE  DialogOK'
BY DEF DialogOK, Desk!DialogFits

LEMMA ClosedFits ==
  ASSUME Desk!ConstantsOK, dialog' = Desk!Closed
  PROVE  DialogOK'
<1>1. Desk!Closed.at = "idle" /\ Desk!Closed.kind = None /\ None \notin Desk!Kinds
  BY DEF Desk!Closed, Desk!ConstantsOK
<1>2. 0 \in 0..N + P /\ 0 \in 0..Total
  BY DEF Desk!ConstantsOK
<1> QED BY <1>1, <1>2 DEF DialogOK, Desk!DialogFits, Desk!Closed, Desk!Kinds, Desk!Forms

LEMMA VisitFits ==
  ASSUME Desk!ConstantsOK, PlaceOK, NEW p \in Pages, NEW n \in 1..N + P, Desk!Visit(p, n)
  PROVE  PlaceOK' /\ UNCHANGED <<stored, pays>> /\ dialog' = Desk!Closed
<1>1. walk'.page \in 1..MaxTotalsPages
  BY DEF Desk!Visit, Desk!AskTotals, Desk!NoWalk, Desk!ConstantsOK
<1>2. bulk' \in [on : BOOLEAN, here : BOOLEAN, todo : SUBSET Desk!Ids, failed : SUBSET Desk!Ids]
  BY DEF Desk!Visit, PlaceOK
<1> QED BY <1>1, <1>2 DEF Desk!Visit, PlaceOK, Desk!Filters

LEMMA FetchFits ==
  ASSUME PlaceOK, Desk!Fetch
  PROVE  rows' \in [at : {"idle", "sent", "read"}, shown : {rows'.shown}, answer : {rows'.answer}] /\ rows'.at = "sent"
BY DEF PlaceOK, Desk!Fetch

LEMMA ReadsFit ==
  ASSUME Desk!ConstantsOK, PlaceOK, ReadSteps
  PROVE  PlaceOK' /\ UNCHANGED <<stored, pays, dialog>>
<1>1. CASE Desk!RowsRead \/ Desk!RowsShown
  <2>1. rows' \in [at : {"idle", "sent", "read"}, shown : {rows'.shown}, answer : {rows'.answer}]
    <3>1. CASE Desk!RowsShown
      BY <3>1 DEF Desk!RowsShown
    <3>2. CASE Desk!RowsRead
      <4> DEFINE answer == Desk!Read
      <4>1. rows' = [rows EXCEPT !.at = "read", !.answer = answer]
        BY <3>2 DEF Desk!RowsRead
      <4> HIDE DEF answer
      <4>2. rows' = [at |-> "read", shown |-> rows.shown, answer |-> answer]
        BY <4>1 DEF PlaceOK
      <4> QED BY <4>2
    <3> QED BY <1>1, <3>1, <3>2
  <2>2. UNCHANGED <<stored, pays, page, filter, number, picked, dialog, bulk, walk>>
    BY <1>1 DEF Desk!RowsRead, Desk!RowsShown
  <2> QED BY <2>1, <2>2 DEF PlaceOK
<1>2. CASE Desk!TotalsPage
  <2>1. \/ walk' = Desk!NoWalk
        \/ /\ walk.page # MaxTotalsPages
           /\ \E a, b, c : walk' = [on |-> TRUE, page |-> walk.page + 1, received |-> a, unapplied |-> b, count |-> c]
    BY <1>2, Zenon DEF Desk!TotalsPage
  <2>2. walk'.page \in 1..MaxTotalsPages
    BY <2>1 DEF Desk!NoWalk, PlaceOK, Desk!ConstantsOK
  <2> QED BY <1>2, <2>2 DEF PlaceOK, Desk!TotalsPage
<1> QED BY <1>1, <1>2 DEF ReadSteps

LEMMA PagesFit ==
  ASSUME Desk!ConstantsOK, PlaceOK, DialogOK, PageSteps
  PROVE  PlaceOK' /\ DialogOK' /\ UNCHANGED <<stored, pays>>
<1>0. N \in Nat \ {0} /\ P \in Nat
  BY DEF Desk!ConstantsOK
<1>1. CASE (\E i \in Desk!Ids : Desk!OpenInvoice(i)) \/ \E p \in Pages : Desk!OpenPage(p)
  <2>1. PICK p \in Pages, n \in 1..N + P : Desk!Visit(p, n)
    <3>1. 1 \in 1..N + P /\ Desk!Ids \subseteq 1..N + P
      BY <1>0 DEF Desk!Ids
    <3> QED BY <1>1, <3>1 DEF Desk!OpenInvoice, Desk!OpenPage
  <2>2. PlaceOK' /\ UNCHANGED <<stored, pays>> /\ dialog' = Desk!Closed
    BY <2>1, VisitFits
  <2>3. DialogOK'
    BY <2>2, ClosedFits
  <2> QED BY <2>2, <2>3
<1>2. CASE \E i \in Desk!Ids : Desk!Tick(i)
  BY <1>2, DialogStays DEF Desk!Tick, PlaceOK
<1>3. CASE (\E f \in Desk!Filters : Desk!SetFilter(f)) \/ (\E n \in 1..N + P : Desk!SetPage(n))
  <2>1. Desk!Fetch /\ filter' \in Desk!Filters /\ number' \in 1..N + P
        /\ UNCHANGED <<stored, pays, page, picked, dialog, bulk, walk>>
    BY <1>0, <1>3 DEF Desk!SetFilter, Desk!SetPage, PlaceOK
  <2> QED BY <2>1, FetchFits, DialogStays DEF PlaceOK
<1>4. CASE Desk!SelectAll \/ Desk!ConfirmBulkDelete
  <2>1. /\ picked' \in {picked, {}, Desk!Deletable}
        /\ bulk' = bulk \/ bulk' = [on |-> TRUE, here |-> TRUE, todo |-> picked, failed |-> {}]
        /\ UNCHANGED <<stored, pays, page, filter, number, rows, dialog, walk>>
    BY <1>4 DEF Desk!SelectAll, Desk!ConfirmBulkDelete
  <2>2. Desk!Deletable \subseteq Desk!Ids
    BY DEF Desk!Deletable
  <2>3. picked' \subseteq Desk!Ids /\ picked \subseteq Desk!Ids
    BY <2>1, <2>2 DEF PlaceOK
  <2>4. bulk' \in [on : BOOLEAN, here : BOOLEAN, todo : SUBSET Desk!Ids, failed : SUBSET Desk!Ids]
    <3>1. [on |-> TRUE, here |-> TRUE, todo |-> picked, failed |-> {}] \in
            [on : BOOLEAN, here : BOOLEAN, todo : SUBSET Desk!Ids, failed : SUBSET Desk!Ids]
      BY <2>3
    <3> QED BY <2>1, <3>1 DEF PlaceOK
  <2> QED BY <2>1, <2>3, <2>4, DialogStays DEF PlaceOK
<1>5. CASE Desk!BulkDone
  <2>1. /\ picked' \in {picked, bulk.failed} /\ (rows' = rows \/ Desk!Fetch) /\ bulk' = Desk!NoBulk
        /\ UNCHANGED <<stored, pays, page, filter, number, dialog, walk>>
    BY <1>5 DEF Desk!BulkDone
  <2> QED BY <2>1, FetchFits, DialogStays DEF PlaceOK, Desk!NoBulk
<1> QED BY <1>1, <1>2, <1>3, <1>4, <1>5 DEF PageSteps

LEMMA OpensFit ==
  ASSUME Desk!ConstantsOK, PlaceOK, OpenSteps
  PROVE  PlaceOK' /\ DialogOK' /\ UNCHANGED <<stored, pays>> /\ dialog'.at = "open" /\ dialog.at = "idle"
         /\ UNCHANGED <<page, filter, number, rows, picked, bulk, walk>>
<1>1. PICK kind \in Desk!Kinds, id \in 0..N + P, amount \in 0..Total, status \in {"draft", "sent", None} :
         /\ Desk!Open(kind, id, amount, status)
         /\ kind \in {"send", "void", "delete", "update"} => id \in Desk!Ids
         /\ kind = "pay" => id \in 0..N /\ amount \in 1..Total
         /\ kind = "unpay" => id \in 1..P
         /\ kind \in Desk!Forms => status \in {"draft", "sent"}
  <2>0. N \in Nat \ {0} /\ P \in Nat /\ Total \in Nat /\ 1..N + P \subseteq 0..N + P /\ 0..N \subseteq 0..N + P /\ 1..Total \subseteq 0..Total
        /\ 0 \in 0..Total /\ 0 \in 0..N + P
    BY DEF Desk!ConstantsOK
  <2>1. ASSUME NEW kind \in Desk!Kinds, NEW id \in 1..N + P, Desk!OpenDialog(kind, id)
        PROVE  /\ Desk!Open(kind, id, 0, None) /\ kind \notin Desk!Forms /\ kind # "pay"
               /\ kind \in {"send", "void", "delete", "update"} => id \in Desk!Ids
               /\ kind = "unpay" => id \in 1..P
    BY <2>1 DEF Desk!OpenDialog, Desk!Offered, Desk!Forms
  <2>2. ASSUME NEW id \in 0..N, NEW amount \in 1..Total, Desk!OpenPayment(id, amount)
        PROVE  Desk!Open("pay", id, amount, None)
    BY <2>2 DEF Desk!OpenPayment
  <2>3. ASSUME NEW id \in 0..N, NEW status \in {"draft", "sent"}, Desk!OpenForm(id, status)
        PROVE  Desk!Open("create", 0, 0, status) \/ (id \in Desk!Ids /\ Desk!Open("update", id, 0, status))
    BY <2>3 DEF Desk!OpenForm, Desk!Offered
  <2>4. CASE \E kind \in Desk!Kinds, id \in 1..N + P : Desk!OpenDialog(kind, id)
    BY <2>0, <2>1, <2>4
  <2>5. CASE \E id \in 0..N, amount \in 1..Total : Desk!OpenPayment(id, amount)
    BY <2>0, <2>2, <2>5 DEF Desk!Kinds, Desk!Forms
  <2>6. CASE \E id \in 0..N, status \in {"draft", "sent"} : Desk!OpenForm(id, status)
    BY <2>0, <2>3, <2>6 DEF Desk!Kinds
  <2> QED BY <2>4, <2>5, <2>6 DEF OpenSteps
<1>2. /\ dialog' = [at |-> "open", kind |-> kind, id |-> id, amount |-> amount, status |-> status, ok |-> FALSE]
      /\ UNCHANGED <<stored, pays, page, filter, number, rows, picked, bulk, walk>> /\ dialog.at = "idle"
  BY <1>1 DEF Desk!Open
<1>3. kind # None
  BY DEF Desk!ConstantsOK
<1>4. DialogOK'
  BY <1>1, <1>2, <1>3 DEF DialogOK, Desk!DialogFits
<1> QED BY <1>2, <1>4, PlaceStays
LEMMA DialogsFit ==
  ASSUME Desk!ConstantsOK, PlaceOK, DialogOK, DialogSteps
  PROVE  PlaceOK' /\ DialogOK' /\ UNCHANGED <<stored, pays>>
<1>1. CASE Desk!Confirm
  <2>1. dialog' = [dialog EXCEPT !.at = "sent"] /\ UNCHANGED <<stored, pays, page, filter, number, rows, picked, bulk, walk>>
        /\ dialog.at = "open"
    BY <1>1 DEF Desk!Confirm
  <2>2. DialogOK'
    BY <2>1 DEF DialogOK, Desk!DialogFits
  <2> QED BY <2>1, <2>2, PlaceStays
<1>2. CASE Desk!CancelDialog
  <2>1. dialog' = Desk!Closed /\ UNCHANGED <<stored, pays, page, filter, number, bulk, walk>>
        /\ (rows' = rows \/ Desk!Fetch) /\ picked' \in {picked, {}}
    BY <1>2 DEF Desk!CancelDialog
  <2> QED BY <2>1, ClosedFits, FetchFits DEF PlaceOK
<1>3. CASE Desk!Done
  <2>1. CASE ~dialog.ok
    <3>1. dialog' = [dialog EXCEPT !.at = "open"] /\ UNCHANGED <<stored, pays, page, filter, number, rows, picked, bulk, walk>>
          /\ dialog.at = "done"
      BY <1>3, <2>1 DEF Desk!Done
    <3>2. DialogOK'
      BY <3>1 DEF DialogOK, Desk!DialogFits
    <3> QED BY <3>1, <3>2, PlaceStays
  <2>2. CASE dialog.ok /\ dialog.kind \notin Desk!Forms
    <3>1. /\ dialog' = Desk!Closed /\ Desk!Fetch /\ UNCHANGED <<stored, pays, page, filter, number, picked, bulk>>
          /\ walk' = walk \/ Desk!AskTotals(page)
      BY <1>3, <2>2 DEF Desk!Done, Desk!Refresh
    <3>2. walk'.page \in 1..MaxTotalsPages
      BY <3>1 DEF Desk!AskTotals, Desk!NoWalk, PlaceOK, Desk!ConstantsOK
    <3> QED BY <3>1, <3>2, ClosedFits, FetchFits DEF PlaceOK
  <2>3. CASE dialog.ok /\ dialog.kind \in Desk!Forms
    <3>1. /\ dialog' = Desk!Closed /\ Desk!Fetch /\ UNCHANGED <<stored, pays, bulk, walk>>
          /\ page' = "view" /\ number' = dialog.id /\ filter' = "all" /\ picked' = {} /\ dialog.at = "done"
      BY <1>3, <2>3 DEF Desk!Done
    <3>2. number' \in 1..N + P
      BY <2>3, <3>1 DEF DialogOK, Desk!DialogFits, Desk!Forms, Desk!Ids, Desk!ConstantsOK
    <3>3. page' \in Pages /\ filter' \in Desk!Filters
      BY <3>1 DEF Desk!ConstantsOK, Desk!Filters
    <3> QED BY <3>1, <3>2, <3>3, ClosedFits, FetchFits DEF PlaceOK
  <2> QED BY <2>1, <2>2, <2>3
<1> QED BY <1>1, <1>2, <1>3 DEF DialogSteps

LEMMA AllowedIsBoolean ==
  ASSUME NEW kind, NEW id, NEW amount, NEW status, Asked(kind, id, amount, status)
  PROVE  Desk!Allowed(kind, id, amount) \in BOOLEAN
BY DEF Asked, Desk!Kinds, Desk!Allowed, Desk!Unpaid

LEMMA ServedFits ==
  ASSUME Desk!ConstantsOK, DocsOK, PlaceOK, DialogOK, Desk!Served
  PROVE  DocsOK' /\ PlaceOK' /\ DialogOK' /\ dialog'.at = "done" /\ (dialog'.ok \/ UNCHANGED <<stored, pays>>)
         /\ UNCHANGED <<page, filter, number, rows, picked, bulk, walk>>
<1> DEFINE kind == dialog.kind
           ok == Desk!Allowed(kind, dialog.id, dialog.amount)
           id == IF kind = "create" THEN Desk!Next1(stored, N) ELSE dialog.id
<1>1. /\ dialog.at = "sent" /\ Desk!Room(kind)
      /\ dialog' = [dialog EXCEPT !.at = "done", !.ok = ok, !.id = id]
      /\ IF ok THEN Desk!Does(kind, dialog.id, dialog.amount, dialog.status) ELSE UNCHANGED <<stored, pays>>
      /\ UNCHANGED <<page, filter, number, rows, picked, bulk, walk>>
  BY DEF Desk!Served, Desk!server
<1>2. Asked(kind, dialog.id, dialog.amount, dialog.status)
  BY <1>1 DEF DialogOK, Desk!DialogFits, Asked
<1>3. DocsOK'
  BY <1>1, <1>2, DeskServes, DocsStay
<1>4. kind = "create" => id \in Desk!Ids
  BY <1>1, PlaceIsFree DEF Desk!Room, Desk!Ids, Desk!ConstantsOK
<1>5. id \in 0..N + P /\ ok \in BOOLEAN
  <2>1. Desk!Ids \subseteq 0..N + P
    BY DEF Desk!Ids, Desk!ConstantsOK
  <2>2. id \in 0..N + P
    BY <1>4, <2>1 DEF DialogOK
  <2>3. ok \in BOOLEAN
    BY <1>2, AllowedIsBoolean
  <2> QED BY <2>2, <2>3
<1>6. kind # "create" => id = dialog.id
  OBVIOUS
<1> HIDE DEF ok, id
<1>7. /\ dialog'.at = "done" /\ dialog'.ok = ok /\ dialog'.id = id
      /\ dialog' \in [at : {"idle", "open", "sent", "done"}, kind : Desk!Kinds \cup {None}, id : 0..N + P, amount : 0..Total,
                      status : {"draft", "sent", None}, ok : BOOLEAN]
      /\ dialog'.kind = dialog.kind /\ dialog'.amount = dialog.amount /\ dialog'.status = dialog.status
  BY <1>1, <1>5 DEF DialogOK
<1>8. DialogOK'
  BY <1>1, <1>4, <1>6, <1>7 DEF DialogOK, Desk!DialogFits
<1>9. UNCHANGED <<page, filter, number, rows, picked, bulk, walk>>
  BY <1>1
<1>10. PlaceOK'
  BY <1>9, PlaceStays
<1>11. dialog'.ok \/ UNCHANGED <<stored, pays>>
  BY <1>1, <1>7
<1> QED BY <1>3, <1>7, <1>8, <1>9, <1>10, <1>11

LEMMA BulkFits ==
  ASSUME Desk!ConstantsOK, DocsOK, PlaceOK, NEW i \in Desk!Ids, Desk!BulkDelete(i)
  PROVE  /\ DocsOK' /\ PlaceOK' /\ bulk.on /\ bulk'.on /\ bulk'.here = bulk.here
         /\ UNCHANGED <<page, filter, number, rows, picked, dialog, walk>>
<1>1. bulk'.on = bulk.on /\ bulk'.here = bulk.here /\ bulk.on
      /\ bulk' \in [on : BOOLEAN, here : BOOLEAN, todo : SUBSET Desk!Ids, failed : SUBSET Desk!Ids]
      /\ UNCHANGED <<page, filter, number, rows, picked, dialog, walk>>
  <2>1. /\ bulk' = [bulk EXCEPT !.todo = @ \ {i}] \/ bulk' = [bulk EXCEPT !.todo = @ \ {i}, !.failed = @ \cup {i}]
        /\ bulk.on /\ UNCHANGED <<page, filter, number, rows, picked, dialog, walk>>
    BY DEF Desk!BulkDelete
  <2>2. bulk \in [on : BOOLEAN, here : BOOLEAN, todo : SUBSET Desk!Ids, failed : SUBSET Desk!Ids]
    BY DEF PlaceOK
  <2>3. CASE bulk' = [bulk EXCEPT !.todo = @ \ {i}]
    BY <2>1, <2>2, <2>3
  <2>4. CASE bulk' = [bulk EXCEPT !.todo = @ \ {i}, !.failed = @ \cup {i}]
    BY <2>1, <2>2, <2>4
  <2> QED BY <2>1, <2>3, <2>4
<1>2. UNCHANGED <<stored, pays>> \/ (Desk!Allowed("delete", i, 0) /\ Desk!Does("delete", i, 0, None))
  BY DEF Desk!BulkDelete, Desk!server
<1>3. Asked("delete", i, 0, None) /\ Desk!Room("delete")
  BY DEF Asked, Desk!Kinds, Desk!Forms, Desk!Room
<1>4. DocsOK'
  BY <1>2, <1>3, DeskServes, DocsStay
<1> QED BY <1>1, <1>4 DEF PlaceOK

LEMMA OthersFit ==
  ASSUME Desk!ConstantsOK, DocsOK, OtherSteps
  PROVE  DocsOK' /\ UNCHANGED <<page, filter, number, rows, picked, dialog, bulk, walk>> /\ Others # {}
<1>1. PICK kind \in Others, id \in 0..N + P, amount \in 1..Total, status \in {"draft", "sent"} : Desk!Elsewhere(kind, id, amount, status)
  BY DEF OtherSteps
<1>2. Asked(kind, id, amount, status)
  BY <1>1 DEF Desk!Elsewhere, Asked, Desk!ConstantsOK
<1> QED BY <1>1, <1>2, DeskServes DEF Desk!Elsewhere

LEMMA DeskStep ==
  ASSUME Desk!ConstantsOK, Desk!DeskInv, [Desk!Next]_Desk!vars
  PROVE  Desk!DeskInv'
<1>1. DocsOK /\ PlaceOK /\ DialogOK
  BY DeskByParts
<1> SUFFICES DocsOK' /\ PlaceOK' /\ DialogOK'
  BY DeskByParts
<1>2. CASE ReadSteps \/ PageSteps \/ OpenSteps \/ DialogSteps
  BY <1>1, <1>2, ReadsFit, PagesFit, OpensFit, DialogsFit, DocsStay, DialogStays
<1>3. CASE Desk!Served
  BY <1>1, <1>3, ServedFits
<1>4. CASE \E i \in Desk!Ids : Desk!BulkDelete(i)
  BY <1>1, <1>4, BulkFits, DialogStays
<1>5. CASE OtherSteps
  BY <1>1, <1>5, OthersFit, PlaceStays, DialogStays
<1>6. CASE UNCHANGED Desk!vars
  BY <1>1, <1>6, DocsStay, PlaceStays, DialogStays DEF Desk!vars
<1> QED BY <1>2, <1>3, <1>4, <1>5, <1>6, DeskSteps

LEMMA DeskInit ==
  ASSUME Desk!ConstantsOK, Desk!Init
  PROVE  Desk!DeskInv
<1>1. /\ stored = [i \in Desk!Ids |-> None] /\ pays = [k \in 1..P |-> None]
      /\ page \in Pages /\ filter = "all" /\ number = 1
      /\ rows = [at |-> "sent", shown |-> Desk!Unread, answer |-> Desk!Unread]
      /\ picked = {} /\ dialog = Desk!Closed /\ bulk = Desk!NoBulk /\ walk = Desk!NoWalk
  BY DEF Desk!Init
<1>2. DocsOK
  BY <1>1, PaidIsCounted DEF DocsOK, Desk!DraftsAreUnpaid, Desk!PaidStays
<1>3. PlaceOK
  BY <1>1 DEF PlaceOK, Desk!ConstantsOK, Desk!Filters, Desk!NoBulk, Desk!NoWalk
<1>4. DialogOK
  <2>1. Desk!Closed.at = "idle" /\ Desk!Closed.kind = None /\ None \notin Desk!Kinds
    BY DEF Desk!Closed, Desk!ConstantsOK
  <2>2. 0 \in 0..N + P /\ 0 \in 0..Total
    BY DEF Desk!ConstantsOK
  <2> QED BY <1>1, <2>1, <2>2 DEF DialogOK, Desk!DialogFits, Desk!Closed, Desk!Kinds, Desk!Forms
<1> QED BY <1>2, <1>3, <1>4, DeskByParts

(* Whoever sends, edits, voids, deletes and pays invoices at the same time *)
(* as a tab does, from a list that is out of date or not: what an invoice  *)
(* says was paid is what its payments come to, no invoice that has         *)
(* payments is deleted or voided, and none is paid but one that was sent   *)
(* (invoices.py, payments.py; InvoicesPage.tsx, PaymentsReceivedPage.tsx). *)
THEOREM DeskInvariant ==
  ASSUME Desk!ConstantsOK
  PROVE  Desk!Spec => []Desk!DeskInv
<1>1. Desk!Init => Desk!DeskInv
  BY DeskInit
<1>2. Desk!DeskInv /\ [Desk!Next]_Desk!vars => Desk!DeskInv'
  BY DeskStep
<1> QED BY <1>1, <1>2, PTL DEF Desk!Spec

(* What the page reads depends on the documents and on where it is. *)
LEMMA ReadStays ==
  ASSUME UNCHANGED <<stored, pays, page, filter, number>>
  PROVE  Desk!Read' = Desk!Read
BY DEF Desk!Read, Desk!Listing, Desk!PaymentList, Desk!Matches, Desk!Posted

LEMMA DeskCounts ==
  ASSUME NEW S
  PROVE  Desk!Cardinality(S) = Cardinality(S)
BY DEF Desk!Cardinality, Cardinality, Desk!IsFiniteSet, IsFiniteSet

(* The newest first: each element once. *)
LEMMA NewestLists ==
  ASSUME NEW S, IsFiniteSet(S), S \subseteq Int
  PROVE  LET c == Cardinality(S)
             L == Desk!Newest(S)
         IN  /\ c \in Nat /\ L \in Seq(S) /\ Len(L) = c
             /\ \A i, j \in 1..c : L[i] = L[j] => i = j
             /\ \A x \in S : \E i \in 1..c : L[i] = x
<1> DEFINE c == Cardinality(S)
           L == Desk!Newest(S)
           After(i) == {j \in S : j > i}
           Rank(i) == Cardinality(After(i))
<1>0. c \in Nat
  BY FS_CardinalityType
<1>1. L = [k \in 1..c |-> CHOOSE i \in S : Rank(i) = k - 1]
  BY DEF Desk!Newest, Desk!Cardinality, Cardinality, Desk!IsFiniteSet, IsFiniteSet
<1>2. \A i \in S : IsFiniteSet(After(i)) /\ Rank(i) \in Nat /\ Rank(i) < c
  <2> TAKE i \in S
  <2>1. After(i) \in SUBSET S /\ i \notin After(i)
    OBVIOUS
  <2>2. IsFiniteSet(After(i)) /\ Rank(i) <= c /\ Rank(i) # c
    BY <2>1, FS_Subset
  <2> QED BY <1>0, <2>2, FS_CardinalityType
<1>3. \A i, j \in S : i < j => Rank(j) < Rank(i)
  <2> SUFFICES ASSUME NEW i \in S, NEW j \in S, i < j PROVE Rank(j) < Rank(i)
    OBVIOUS
  <2>1. (\A k \in S : k > j => k > i) /\ j > i /\ ~(j > j)
    OBVIOUS
  <2>2. After(j) \in SUBSET After(i) /\ j \in After(i) /\ j \notin After(j)
    BY <2>1, Zenon
  <2> HIDE DEF After
  <2>3. Rank(j) <= Rank(i) /\ Rank(j) # Rank(i)
    BY <1>2, <2>2, FS_Subset
  <2> QED BY <1>2, <2>3
<1> HIDE DEF After
<1> DEFINE f == [i \in S |-> Rank(i) + 1]
<1>4. \A i, j \in S : Rank(i) = Rank(j) => i = j
  BY <1>2, <1>3
<1>5. f \in [S -> 1..c] /\ \A i, j \in S : f[i] = f[j] => i = j
  BY <1>0, <1>2, <1>4
<1>6. \A k \in 1..c : \E i \in S : f[i] = k
  <2>1. f \in Injection(S, 1..c)
    BY <1>5 DEF Injection, IsInjective
  <2>2. IsFiniteSet(1..c) /\ Cardinality(1..c) = c
    BY <1>0, FS_Interval
  <2>3. f \in Surjection(S, 1..c)
    BY <2>1, <2>2, FS_Injection
  <2> QED BY <2>3 DEF Surjection
<1>7. \A k \in 1..c : L[k] \in S /\ Rank(L[k]) = k - 1
  <2> TAKE k \in 1..c
  <2>1. \E i \in S : Rank(i) = k - 1
    BY <1>0, <1>2, <1>6
  <2>2. L[k] = CHOOSE i \in S : Rank(i) = k - 1
    BY <1>1
  <2> HIDE DEF L, Rank
  <2> QED BY <2>1, <2>2
<1>8. \A x \in S : Rank(x) + 1 \in 1..c
  BY <1>0, <1>2
<1> HIDE DEF Rank, f
<1>9. L \in [1..c -> S]
  BY <1>1, <1>7 DEF L
<1> QED
  <2>1. L \in Seq(S) /\ Len(L) = c
    BY <1>0, <1>9
  <2>2. ASSUME NEW x \in S PROVE L[Rank(x) + 1] = x
    <3> DEFINE k == Rank(x) + 1
    <3>1. k \in 1..c /\ k - 1 = Rank(x)
      BY <1>2, <1>8
    <3> HIDE DEF k
    <3>2. L[k] \in S /\ Rank(L[k]) = Rank(x)
      BY <1>7, <3>1, Zenon
    <3> QED BY <1>4, <3>2 DEF k
  <2>3. \A i, j \in 1..c : L[i] = L[j] => i = j
    BY <1>0, <1>7
  <2> QED BY <1>0, <1>8, <2>1, <2>2, <2>3

(* The payments received, and what they come to, page by page. *)
LEMMA PaymentsAreListed ==
  ASSUME Desk!ConstantsOK
  PROVE  LET S == Desk!OnFile
             L == Desk!PaymentList
         IN  /\ IsFiniteSet(S) /\ S \subseteq 1..P
             /\ Cardinality(S) \in Nat /\ L \in Seq(S) /\ Len(L) = Cardinality(S)
             /\ \A i, j \in 1..Len(L) : L[i] = L[j] => i = j
             /\ \A x \in S : \E i \in 1..Len(L) : L[i] = x
<1>1. IsFiniteSet(1..P)
  BY DeskIsFinite
<1>2. Desk!OnFile \in SUBSET (1..P)
  BY DEF Desk!OnFile
<1>3. IsFiniteSet(Desk!OnFile)
  BY <1>1, <1>2, FS_Subset
<1>4. Desk!OnFile \subseteq Int
  BY <1>2 DEF Desk!ConstantsOK
<1> QED BY <1>2, <1>3, <1>4, NewestLists DEF Desk!PaymentList

LEMMA SliceItems ==
  ASSUME NEW S, NEW L, L \in Seq(S), NEW a, NEW b, a \in Nat, b \in Nat, b <= Len(L),
         NEW got, got = SubSeq(L, a + 1, b)
  PROVE  got \in Seq(S) /\ \A i \in 1..Len(got) : got[i] = L[a + i]
OBVIOUS

LEMMA PageEnds ==
  ASSUME NEW a \in Nat, NEW b \in Nat, NEW c \in Nat, a < b
  PROVE  LET m == IF b < c THEN b ELSE c
         IN  /\ m \in Nat /\ m <= c /\ m = Desk!Smaller(b, c)
             /\ m = b \/ (m = c /\ m <= b)
             /\ (IF a < m THEN m - a ELSE 0) = m - Desk!Smaller(a, c)
<1>1. CASE b < c
  BY <1>1 DEF Desk!Smaller
<1>2. CASE c <= b /\ a < c
  BY <1>2 DEF Desk!Smaller
<1>3. CASE c <= b /\ c <= a
  <2>1. Desk!Smaller(a, c) = c /\ Desk!Smaller(b, c) = c
    BY <1>3 DEF Desk!Smaller
  <2> QED BY <1>3, <2>1
<1> QED BY <1>1, <1>2, <1>3

LEMMA PagesFollow ==
  ASSUME Desk!ConstantsOK, NEW n \in Nat \ {0}
  PROVE  LET L == Desk!PaymentList
             got == Desk!Slice(L, n)
         IN  /\ Desk!Before(n) \cup Desk!ToSet(got) = Desk!Before(n + 1)
             /\ Desk!Before(n) \cap Desk!ToSet(got) = {}
             /\ Desk!Before(n + 1) \subseteq Desk!OnFile
             /\ Desk!Smaller((n - 1) * PageSize, Len(L)) + Len(got) = Desk!Smaller(((n + 1) - 1) * PageSize, Len(L))
             /\ Desk!Smaller(((n + 1) - 1) * PageSize, Len(L)) >= Len(L) \/ got = << >>
                  => Desk!Before(n + 1) = Desk!OnFile
<1> DEFINE L == Desk!PaymentList
           S == Desk!OnFile
           got == Desk!Slice(L, n)
           a == (n - 1) * PageSize
           b == n * PageSize
           m == IF b < Len(L) THEN b ELSE Len(L)
<1>1. /\ L \in Seq(S) /\ Len(L) \in Nat
      /\ \A i, j \in 1..Len(L) : L[i] = L[j] => i = j
      /\ \A x \in S : \E i \in 1..Len(L) : L[i] = x
  BY PaymentsAreListed
<1>2. a \in Nat /\ b \in Nat /\ a < b /\ (n + 1) - 1 = n
  <2>1. PageSize \in Nat \ {0} /\ n - 1 \in Nat /\ b = (n - 1) * PageSize + PageSize
    BY DEF Desk!ConstantsOK
  <2>2. a \in Nat
    BY <2>1
  <2> HIDE DEF a, b
  <2>3. b = a + PageSize
    BY <2>1 DEF a
  <2> QED BY <2>1, <2>2, <2>3
<1>3. Desk!Before(n) = {L[i] : i \in 1..a \cap DOMAIN L} /\ Desk!Before(n + 1) = {L[i] : i \in 1..b \cap DOMAIN L}
  BY <1>2 DEF Desk!Before
<1>4. got = SubSeq(L, a + 1, m)
  BY DEF Desk!Slice, Desk!Smaller
<1> HIDE DEF a, b, L, got
<1>5. /\ m \in Nat /\ m <= Len(L) /\ m = Desk!Smaller(b, Len(L))
      /\ m = b \/ (m = Len(L) /\ m <= b)
      /\ (IF a < m THEN m - a ELSE 0) = m - Desk!Smaller(a, Len(L))
  <2>1. Len(L) \in Nat
    BY <1>1
  <2> QED BY <1>2, <2>1, PageEnds
<1> HIDE DEF m
<1>6. /\ Len(got) = IF a < m THEN m - a ELSE 0
      /\ got = << >> => ~(a < m)
      /\ \A x : x \in Desk!ToSet(got) <=> \E i \in (a + 1)..m : x = L[i]
  <2>1. Len(got) = IF a < m THEN m - a ELSE 0
    BY <1>1, <1>2, <1>4, <1>5
  <2>2. DOMAIN got = 1..Len(got) /\ \A i \in 1..Len(got) : got[i] = L[a + i]
    <3>1. L \in Seq(S) /\ a \in Nat /\ m \in Nat /\ m <= Len(L)
      BY <1>1, <1>2, <1>5
    <3>2. got \in Seq(S) /\ \A i \in 1..Len(got) : got[i] = L[a + i]
      BY <1>4, <3>1, SliceItems
    <3> QED BY <3>2
  <2>3. ASSUME NEW x \in Desk!ToSet(got) PROVE \E i \in (a + 1)..m : x = L[i]
    <3>1. PICK i \in 1..Len(got) : x = L[a + i]
      BY <2>2, <2>3 DEF Desk!ToSet
    <3>2. a + i \in (a + 1)..m
      BY <1>2, <1>5, <2>1
    <3> QED BY <3>1, <3>2
  <2>4. ASSUME NEW i \in (a + 1)..m PROVE L[i] \in Desk!ToSet(got)
    <3>1. i - a \in 1..Len(got) /\ a + (i - a) = i
      BY <1>2, <1>5, <2>1
    <3>2. got[i - a] = L[i]
      BY <2>2, <3>1
    <3> QED BY <2>2, <3>1, <3>2 DEF Desk!ToSet
  <2>5. got = << >> => ~(a < m)
    BY <1>2, <1>5, <2>1
  <2> QED BY <2>1, <2>3, <2>4, <2>5
<1>7. DOMAIN L = 1..Len(L)
  BY <1>1
<1>8. /\ 1..b \cap DOMAIN L = (1..a \cap DOMAIN L) \cup (a + 1)..m
      /\ (1..a \cap DOMAIN L) \cap (a + 1)..m = {}
      /\ (1..a \cap DOMAIN L) \subseteq DOMAIN L /\ (a + 1)..m \subseteq DOMAIN L
  BY <1>1, <1>2, <1>5, <1>7
<1>9. Desk!Before(n) \cup Desk!ToSet(got) = Desk!Before(n + 1)
  BY <1>3, <1>6, <1>8
<1>10. Desk!Before(n) \cap Desk!ToSet(got) = {}
  BY <1>1, <1>3, <1>6, <1>7, <1>8
<1>11. Desk!Before(n + 1) \subseteq S
  BY <1>1, <1>3
<1>12. Desk!Smaller(a, Len(L)) + Len(got) = m /\ m = Desk!Smaller(b, Len(L))
  <2>1. CASE a < Len(L)
    BY <1>1, <1>2, <1>5, <1>6, <2>1 DEF Desk!Smaller
  <2>2. CASE ~(a < Len(L))
    BY <1>1, <1>2, <1>5, <1>6, <2>2 DEF Desk!Smaller
  <2> QED BY <2>1, <2>2
<1>13. ASSUME m >= Len(L) \/ got = << >> PROVE Desk!Before(n + 1) = S
  <2>1. DOMAIN L \subseteq 1..b
    BY <1>1, <1>2, <1>5, <1>6, <1>7, <1>13
  <2>2. ASSUME NEW x \in S PROVE x \in Desk!Before(n + 1)
    <3>1. PICK i \in 1..Len(L) : L[i] = x
      BY <1>1
    <3> QED BY <1>3, <1>7, <2>1, <3>1
  <2> QED BY <1>11, <2>2
<1> QED BY <1>2, <1>9, <1>10, <1>11, <1>12, <1>13 DEF a, b, L, got

(* What payments come to, and that two sets of them come to what both do. *)
LEMMA ReceivedAdds ==
  ASSUME DocsOK, Desk!ConstantsOK, NEW A \in SUBSET Desk!OnFile, NEW B \in SUBSET Desk!OnFile, A \cap B = {}
  PROVE  Desk!Received(A \cup B) = Desk!Received(A) + Desk!Received(B)
<1> DEFINE f == [k \in Desk!OnFile |-> pays[k].amount]
<1>1. IsFiniteSet(Desk!OnFile) /\ Desk!OnFile \subseteq 1..P
  BY PaymentsAreListed
<1>2. \A k \in Desk!OnFile : pays[k].amount \in Int
  <2>1. \A k \in Desk!OnFile : pays[k] \in Desk!PaymentRow
    BY <1>1 DEF DocsOK, Desk!OnFile
  <2> QED BY <2>1 DEF Desk!PaymentRow, Desk!ConstantsOK
<1>3. ASSUME NEW T \in SUBSET Desk!OnFile PROVE Desk!Received(T) = SumFunctionOnSet(f, T)
  <2> DEFINE g == [k \in T |-> pays[k].amount]
  <2>1. IsFiniteSet(T) /\ \A x \in T : g[x] = f[x]
    BY <1>1, FS_Subset
  <2>2. Desk!Received(T) = SumFunctionOnSet(g, T)
    BY DeskSums DEF Desk!Received
  <2> HIDE DEF f, g
  <2> QED BY <2>1, <2>2, SumAgrees
<1>4. \A x \in Desk!OnFile : f[x] \in Int
  BY <1>2
<1> HIDE DEF f
<1>5. A \cup B \in SUBSET Desk!OnFile
  OBVIOUS
<1>6. SumFunctionOnSet(f, A \cup B) = SumFunctionOnSet(f, A) + SumFunctionOnSet(f, B)
  <2> DEFINE S == Desk!OnFile
  <2>1. IsFiniteSet(S) /\ A \in SUBSET S /\ B \in SUBSET S /\ \A x \in S : f[x] \in Int
    BY <1>1, <1>4
  <2> HIDE DEF S
  <2> QED BY <2>1, SumOfUnion
<1> QED BY <1>3, <1>5, <1>6

LEMMA UnappliedAdds ==
  ASSUME DocsOK, Desk!ConstantsOK, NEW A \in SUBSET Desk!OnFile, NEW B \in SUBSET Desk!OnFile, A \cap B = {}
  PROVE  Desk!Received(Desk!Unapplied(A \cup B)) = Desk!Received(Desk!Unapplied(A)) + Desk!Received(Desk!Unapplied(B))
<1>1. /\ Desk!Unapplied(A) \in SUBSET Desk!OnFile /\ Desk!Unapplied(B) \in SUBSET Desk!OnFile
      /\ Desk!Unapplied(A) \cap Desk!Unapplied(B) = {}
      /\ Desk!Unapplied(A \cup B) = Desk!Unapplied(A) \cup Desk!Unapplied(B)
  BY DEF Desk!Unapplied
<1> QED BY <1>1, ReceivedAdds

(* A walk begins with nothing added up. *)
LEMMA WalksBeginRight ==
  ASSUME Desk!ConstantsOK, walk'.page = 1, walk'.received = 0, walk'.unapplied = 0, walk'.count = 0
  PROVE  Desk!WalkIsRight'
<1>1. Desk!Before(1)' = {} /\ Desk!Unapplied({})' = {}
  BY DEF Desk!Before, Desk!Unapplied, Desk!ConstantsOK
<1>2. Desk!Received({})' = 0
  <2> DEFINE g == [k \in {} |-> pays'[k].amount]
  <2>1. Desk!Received({})' = SumFunctionOnSet(g, {})
    BY DeskSums DEF Desk!Received
  <2>2. \A x \in {} : g[x] = 0
    OBVIOUS
  <2> HIDE DEF g
  <2> QED BY <2>1, <2>2, SumOfZeros, FS_EmptySet
<1>3. Desk!Smaller((1 - 1) * PageSize, Len(Desk!PaymentList))' = 0
  <2>1. (Len(Desk!PaymentList) \in Nat)'
    <3>1. Desk!PaymentList' = Desk!Newest(Desk!OnFile')
      BY DEF Desk!PaymentList
    <3>2. IsFiniteSet(Desk!OnFile') /\ Desk!OnFile' \subseteq Int
      <4>1. IsFiniteSet(1..P) /\ 1..P \subseteq Int
        BY DeskIsFinite
      <4>2. Desk!OnFile' \in SUBSET (1..P)
        BY DEF Desk!OnFile
      <4> QED BY <4>1, <4>2, FS_Subset
    <3> QED BY <3>1, <3>2, NewestLists
  <2>2. (1 - 1) * PageSize = 0
    BY DEF Desk!ConstantsOK
  <2> QED BY <2>1, <2>2 DEF Desk!Smaller
<1> QED BY <1>1, <1>2, <1>3 DEF Desk!WalkIsRight

LEMMA TotalsStay ==
  ASSUME UNCHANGED <<pays, walk, totals>>
  PROVE  (Desk!WalkIsRight' <=> Desk!WalkIsRight) /\ (Desk!TotalsRight' <=> Desk!TotalsRight)
BY DEF Desk!WalkIsRight, Desk!TotalsRight, Desk!Before, Desk!PaymentList, Desk!OnFile, Desk!Received, Desk!Unapplied

(* Where nothing is paid, a walk and the totals are right if they say so of the payments there were. *)
LEMMA WalkIs ==
  ASSUME pays' = pays, NEW q, walk'.page = q, walk'.received = Desk!Received(Desk!Before(q)),
         walk'.unapplied = Desk!Received(Desk!Unapplied(Desk!Before(q))),
         walk'.count = Desk!Smaller((q - 1) * PageSize, Len(Desk!PaymentList))
  PROVE  Desk!WalkIsRight'
BY DEF Desk!WalkIsRight, Desk!Before, Desk!PaymentList, Desk!OnFile, Desk!Received, Desk!Unapplied

LEMMA TotalsAre ==
  ASSUME pays' = pays, totals'.count = Cardinality(Desk!OnFile),
         totals'.received = Desk!Received(Desk!OnFile),
         totals'.unapplied = Desk!Received(Desk!Unapplied(Desk!OnFile))
  PROVE  Desk!TotalsRight'
BY DeskCounts DEF Desk!TotalsRight, Desk!OnFile, Desk!Received, Desk!Unapplied

LEMMA TotalsAreWalked ==
  ASSUME Desk!ConstantsOK, DocsOK, PlaceOK, walk.on, Desk!WalkIsRight, Desk!TotalsPage
  PROVE  (walk'.on /\ Desk!WalkIsRight') \/ (~walk'.on /\ Desk!TotalsRight')
<1> DEFINE n == walk.page
           L == Desk!PaymentList
           got == Desk!Slice(L, n)
           now == Desk!ToSet(got)
           received == walk.received + Desk!Received(now)
           unapplied == walk.unapplied + Desk!Received(Desk!Unapplied(now))
           count == walk.count + Len(got)
           done == Desk!SeenAll(count, got)
<1>1. n \in Nat \ {0}
  BY DEF PlaceOK, Desk!ConstantsOK
<1>2. /\ Desk!Before(n) \cup now = Desk!Before(n + 1)
      /\ Desk!Before(n) \cap now = {}
      /\ Desk!Before(n + 1) \subseteq Desk!OnFile
      /\ Desk!Smaller((n - 1) * PageSize, Len(L)) + Len(got) = Desk!Smaller(((n + 1) - 1) * PageSize, Len(L))
      /\ Desk!Smaller(((n + 1) - 1) * PageSize, Len(L)) >= Len(L) \/ got = << >>
           => Desk!Before(n + 1) = Desk!OnFile
  BY <1>1, PagesFollow
<1>3. /\ IF done \/ n = MaxTotalsPages
         THEN /\ totals' = [received |-> received, unapplied |-> unapplied, known |-> TRUE, truncated |-> ~done,
                            count |-> Len(L)]
              /\ walk' = Desk!NoWalk
         ELSE walk' = [on |-> TRUE, page |-> n + 1, received |-> received, unapplied |-> unapplied, count |-> count]
      /\ pays' = pays
  BY DEF Desk!TotalsPage
<1> HIDE DEF L, got, now
<1>4. Desk!Before(n) \in SUBSET Desk!OnFile /\ now \in SUBSET Desk!OnFile
  BY <1>2
<1>5. /\ received = Desk!Received(Desk!Before(n + 1))
      /\ unapplied = Desk!Received(Desk!Unapplied(Desk!Before(n + 1)))
  BY <1>2, <1>4, ReceivedAdds, UnappliedAdds DEF Desk!WalkIsRight
<1>6. count = Desk!Smaller(((n + 1) - 1) * PageSize, Len(L))
  BY <1>2 DEF Desk!WalkIsRight, L
<1>7. done => Desk!Before(n + 1) = Desk!OnFile
  BY <1>2, <1>6 DEF Desk!SeenAll, L
<1>8. Len(L) = Cardinality(Desk!OnFile)
  BY PaymentsAreListed DEF L
<1>9. done \in BOOLEAN
  BY DEF Desk!SeenAll
<1> HIDE DEF n, received, unapplied, count, done
<1>10. CASE done
  <2>0. ~done = FALSE
    BY <1>10
  <2>1. /\ totals' = [received |-> received, unapplied |-> unapplied, known |-> TRUE, truncated |-> FALSE, count |-> Len(L)]
        /\ walk' = Desk!NoWalk
    BY <1>3, <1>10, <2>0, Zenon
  <2>2. ~walk'.on /\ totals'.received = received /\ totals'.unapplied = unapplied /\ totals'.count = Len(L)
    BY <2>1 DEF Desk!NoWalk
  <2> QED BY <1>3, <1>5, <1>7, <1>8, <1>10, <2>2, TotalsAre
<1>11. CASE ~done /\ n = MaxTotalsPages
  <2>0. ~done = TRUE
    BY <1>11
  <2>1. /\ totals' = [received |-> received, unapplied |-> unapplied, known |-> TRUE, truncated |-> TRUE, count |-> Len(L)]
        /\ walk' = Desk!NoWalk
    BY <1>3, <1>11, <2>0, Zenon
  <2> QED BY <2>1 DEF Desk!TotalsRight, Desk!NoWalk
<1>12. CASE ~done /\ n # MaxTotalsPages
  <2>1. walk'.on /\ walk'.page = n + 1 /\ walk'.received = received /\ walk'.unapplied = unapplied /\ walk'.count = count
    BY <1>3, <1>12
  <2> DEFINE q == n + 1
  <2>2. /\ walk'.page = q /\ walk'.received = Desk!Received(Desk!Before(q))
        /\ walk'.unapplied = Desk!Received(Desk!Unapplied(Desk!Before(q)))
        /\ walk'.count = Desk!Smaller((q - 1) * PageSize, Len(Desk!PaymentList))
    BY <1>5, <1>6, <2>1, Zenon DEF L
  <2> HIDE DEF q
  <2> QED BY <1>3, <2>1, <2>2, WalkIs, Zenon
<1> QED BY <1>10, <1>11, <1>12

LEMMA DeskStaysFresh ==
  ASSUME Desk!ConstantsOK, Desk!DeskInv, Desk!DeskIsFresh, bulk.on => bulk.here, Others = {}, ~LeavesBusy,
         [Desk!Next]_Desk!vars
  PROVE  Desk!DeskIsFresh' /\ (bulk'.on => bulk'.here)
<1>1. DocsOK /\ PlaceOK /\ DialogOK
  BY DeskByParts
<1>2. ASSUME Desk!Fetch, bulk' = bulk \/ ~bulk'.on PROVE Desk!DeskIsFresh' /\ (bulk'.on => bulk'.here)
  BY <1>1, <1>2, FetchFits DEF Desk!DeskIsFresh
<1>3. ASSUME UNCHANGED <<stored, pays, page, filter, number, rows>>, bulk' = bulk \/ (bulk'.on /\ bulk'.here),
             dialog.at = "done" /\ dialog.ok => dialog' = dialog
      PROVE  Desk!DeskIsFresh' /\ (bulk'.on => bulk'.here)
  BY <1>3, ReadStays DEF Desk!DeskIsFresh
<1>4. CASE ReadSteps
  <2>1. CASE Desk!RowsRead
    <3> DEFINE answer == Desk!Read
    <3>1. rows' = [rows EXCEPT !.at = "read", !.answer = answer]
          /\ UNCHANGED <<stored, pays, page, filter, number, bulk, dialog>>
      BY <2>1 DEF Desk!RowsRead
    <3>2. Desk!Read' = answer
      BY <3>1, ReadStays
    <3> HIDE DEF answer
    <3>3. rows'.at = "read" /\ rows'.answer = answer
      BY <1>1, <3>1 DEF PlaceOK
    <3> QED BY <3>1, <3>2, <3>3 DEF Desk!DeskIsFresh
  <2>2. CASE Desk!RowsShown
    <3>1. /\ rows.at = "read" /\ rows'.at = "idle" /\ rows'.shown = rows.answer
          /\ UNCHANGED <<stored, pays, page, filter, number, bulk, dialog>>
      BY <2>2 DEF Desk!RowsShown
    <3> QED BY <3>1, ReadStays DEF Desk!DeskIsFresh
  <2>3. CASE Desk!TotalsPage
    BY <1>3, <2>3 DEF Desk!TotalsPage
  <2> QED BY <1>4, <2>1, <2>2, <2>3 DEF ReadSteps
<1>5. CASE PageSteps
  <2>1. CASE (\E i \in Desk!Ids : Desk!OpenInvoice(i)) \/ \E p \in Pages : Desk!OpenPage(p)
    <3>1. PICK p, n : Desk!Visit(p, n)
      BY <2>1 DEF Desk!OpenInvoice, Desk!OpenPage
    <3>2. rows'.at = "sent" /\ ~bulk.on /\ bulk' = [bulk EXCEPT !.here = FALSE]
      BY <3>1 DEF Desk!Visit, Desk!Busy
    <3>3. ~bulk'.on
      BY <1>1, <3>2 DEF PlaceOK
    <3> QED BY <3>2, <3>3 DEF Desk!DeskIsFresh
  <2>2. CASE Desk!SelectAll \/ Desk!ConfirmBulkDelete \/ \E i \in Desk!Ids : Desk!Tick(i)
    BY <1>3, <2>2 DEF Desk!SelectAll, Desk!ConfirmBulkDelete, Desk!Tick
  <2>3. CASE (\E f \in Desk!Filters : Desk!SetFilter(f)) \/ \E n \in 1..N + P : Desk!SetPage(n)
    BY <1>2, <2>3 DEF Desk!SetFilter, Desk!SetPage
  <2>4. CASE Desk!BulkDone
    BY <1>2, <2>4 DEF Desk!BulkDone, Desk!NoBulk
  <2> QED BY <1>5, <2>1, <2>2, <2>3, <2>4 DEF PageSteps
<1>6. CASE OpenSteps
  BY <1>1, <1>3, <1>6, OpensFit
<1>7. CASE DialogSteps
  <2>1. CASE Desk!Confirm
    BY <1>3, <2>1 DEF Desk!Confirm
  <2>2. CASE Desk!CancelDialog
    <3>1. bulk' = bulk /\ (Desk!Fetch \/ UNCHANGED <<stored, pays, page, filter, number, rows>>) /\ dialog.at = "open"
      BY <2>2 DEF Desk!CancelDialog
    <3> QED BY <1>2, <1>3, <3>1
  <2>3. CASE Desk!Done
    <3>1. bulk' = bulk /\ (Desk!Fetch \/ (~dialog.ok /\ UNCHANGED <<stored, pays, page, filter, number, rows>>))
      BY <2>3 DEF Desk!Done, Desk!Refresh
    <3> QED BY <1>2, <1>3, <3>1
  <2> QED BY <1>7, <2>1, <2>2, <2>3 DEF DialogSteps
<1>8. CASE Desk!Served
  <2>1. /\ dialog'.at = "done" /\ (dialog'.ok \/ UNCHANGED <<stored, pays>>)
        /\ UNCHANGED <<page, filter, number, rows, bulk>> /\ dialog.at = "sent"
    BY <1>1, <1>8, ServedFits DEF Desk!Served
  <2> QED BY <1>3, <2>1 DEF Desk!DeskIsFresh
<1>9. CASE \E i \in Desk!Ids : Desk!BulkDelete(i)
  <2>1. bulk.on /\ bulk'.on /\ bulk'.here = bulk.here
    BY <1>1, <1>9, BulkFits
  <2> QED BY <2>1 DEF Desk!DeskIsFresh
<1>10. CASE OtherSteps
  BY <1>10 DEF OtherSteps
<1>11. CASE UNCHANGED Desk!vars
  BY <1>3, <1>11 DEF Desk!vars
<1> QED BY <1>4, <1>5, <1>6, <1>7, <1>8, <1>9, <1>10, <1>11, DeskSteps

LEMMA TotalsStayFresh ==
  ASSUME Desk!ConstantsOK, Desk!DeskInv, Desk!TotalsAreFresh, Others = {}, [Desk!Next]_Desk!vars
  PROVE  Desk!TotalsAreFresh'
<1>1. DocsOK /\ PlaceOK /\ DialogOK
  BY DeskByParts
<1>2. ASSUME UNCHANGED <<pays, walk, totals, page>>, dialog.at = "done" /\ dialog.ok => dialog' = dialog
      PROVE  Desk!TotalsAreFresh'
  BY <1>2, TotalsStay DEF Desk!TotalsAreFresh
<1>3. ASSUME NEW p, Desk!AskTotals(p), page' = p PROVE Desk!TotalsAreFresh'
  <2>1. CASE p = "received"
    <3>1. walk' = [Desk!NoWalk EXCEPT !.on = TRUE]
      BY <1>3, <2>1 DEF Desk!AskTotals
    <3>2. walk'.on /\ walk'.page = 1 /\ walk'.received = 0 /\ walk'.unapplied = 0 /\ walk'.count = 0
      BY <3>1 DEF Desk!NoWalk
    <3> QED BY <3>2, WalksBeginRight DEF Desk!TotalsAreFresh
  <2> QED BY <1>3, <2>1 DEF Desk!TotalsAreFresh
<1>4. CASE ReadSteps
  <2>1. CASE Desk!RowsRead \/ Desk!RowsShown
    BY <1>2, <2>1 DEF Desk!RowsRead, Desk!RowsShown
  <2>2. CASE Desk!TotalsPage
    <3>1. walk.on /\ UNCHANGED <<page, dialog>>
      BY <2>2 DEF Desk!TotalsPage
    <3>2. walk.on /\ Desk!WalkIsRight => (walk'.on /\ Desk!WalkIsRight') \/ (~walk'.on /\ Desk!TotalsRight')
      BY <1>1, <2>2, TotalsAreWalked
    <3> QED BY <3>1, <3>2 DEF Desk!TotalsAreFresh
  <2> QED BY <1>4, <2>1, <2>2 DEF ReadSteps
<1>5. CASE PageSteps
  <2>1. CASE (\E i \in Desk!Ids : Desk!OpenInvoice(i)) \/ \E p \in Pages : Desk!OpenPage(p)
    <3>1. PICK p, n : Desk!Visit(p, n)
      BY <2>1 DEF Desk!OpenInvoice, Desk!OpenPage
    <3> QED BY <1>3, <3>1 DEF Desk!Visit
  <2>2. CASE Desk!SelectAll \/ Desk!ConfirmBulkDelete \/ Desk!BulkDone \/ \E i \in Desk!Ids : Desk!Tick(i)
    BY <1>2, <2>2 DEF Desk!SelectAll, Desk!ConfirmBulkDelete, Desk!BulkDone, Desk!Tick
  <2>3. CASE (\E f \in Desk!Filters : Desk!SetFilter(f)) \/ \E n \in 1..N + P : Desk!SetPage(n)
    BY <1>2, <2>3 DEF Desk!SetFilter, Desk!SetPage
  <2> QED BY <1>5, <2>1, <2>2, <2>3 DEF PageSteps
<1>6. CASE OpenSteps
  <2>1. UNCHANGED totals
    BY <1>6 DEF OpenSteps, Desk!OpenDialog, Desk!OpenPayment, Desk!OpenForm, Desk!Open
  <2> QED BY <1>1, <1>2, <1>6, <2>1, OpensFit
<1>7. CASE DialogSteps
  <2>1. CASE Desk!Confirm \/ Desk!CancelDialog
    BY <1>2, <2>1 DEF Desk!Confirm, Desk!CancelDialog
  <2>2. CASE Desk!Done
    <3>1. UNCHANGED <<pays, totals>>
      BY <2>2 DEF Desk!Done
    <3>2. \/ ~dialog.ok /\ UNCHANGED <<page, walk>>
          \/ page' = page /\ (IF page = "received" THEN Desk!AskTotals(page) ELSE UNCHANGED walk)
          \/ page' = "view"
      BY <2>2 DEF Desk!Done, Desk!Refresh
    <3> QED BY <1>2, <1>3, <3>1, <3>2 DEF Desk!TotalsAreFresh
  <2> QED BY <1>7, <2>1, <2>2 DEF DialogSteps
<1>8. CASE Desk!Served
  <2>1. UNCHANGED totals /\ dialog.at = "sent"
    BY <1>8 DEF Desk!Served
  <2>2. dialog'.at = "done" /\ (dialog'.ok \/ UNCHANGED pays) /\ UNCHANGED <<page, walk>>
    BY <1>1, <1>8, ServedFits
  <2> QED BY <1>2, <2>1, <2>2 DEF Desk!TotalsAreFresh
<1>9. CASE \E i \in Desk!Ids : Desk!BulkDelete(i)
  <2>1. UNCHANGED <<pays, walk, totals, page, dialog>>
    BY <1>9 DEF Desk!BulkDelete, Desk!Does, Desk!server
  <2> QED BY <1>2, <2>1
<1>10. CASE OtherSteps
  BY <1>10 DEF OtherSteps
<1>11. CASE UNCHANGED Desk!vars
  BY <1>2, <1>11 DEF Desk!vars
<1> QED BY <1>4, <1>5, <1>6, <1>7, <1>8, <1>9, <1>10, <1>11, DeskSteps

(* To one person who waits for answers, the invoice list, an invoice and   *)
(* the payments received show what is stored once nothing is under way, as *)
(* each change reads the page again; and the totals over the payments,     *)
(* read page by page, are what all of them come to, unless they say that   *)
(* they stop short (InvoicesPage.tsx, PaymentsReceivedPage.tsx).           *)
THEOREM SalesPagesConverge ==
  ASSUME Desk!ConstantsOK, Others = {}, ~LeavesBusy
  PROVE  Desk!Spec => []Desk!PagesConverge
<1>1. Desk!Init => Desk!AloneInv
  <2>1. Desk!Init => page = "list" /\ rows.at = "sent" /\ ~bulk.on
    BY DEF Desk!Init, Desk!NoBulk
  <2> QED BY <2>1 DEF Desk!AloneInv, Desk!DeskIsFresh, Desk!TotalsAreFresh
<1>2. Desk!DeskInv /\ Desk!AloneInv /\ [Desk!Next]_Desk!vars => Desk!AloneInv'
  BY DeskStaysFresh, TotalsStayFresh DEF Desk!AloneInv
<1>3. Desk!AloneInv => Desk!PagesConverge
  BY DEF Desk!AloneInv, Desk!DeskIsFresh, Desk!TotalsAreFresh, Desk!PagesConverge,
         Desk!DeskConverges, Desk!TotalsExact, Desk!AtRest, Desk!Busy
<1> QED BY <1>1, <1>2, <1>3, DeskInvariant, PTL DEF Desk!Spec
-----------------------------------------------------------------------------
(* Documents *)

CONSTANTS MaxLines, Amounts, Rates
VARIABLES lines, discount

Doc == INSTANCE Pricing

LEMMA DocSums ==
  ASSUME NEW f
  PROVE  Doc!SumFunction(f) = SumFunctionOnSet(f, DOMAIN f)
BY DEF Doc!SumFunction, Doc!SumFunctionOnSet, SumFunctionOnSet, Doc!FoldFunctionOnSet, FoldFunctionOnSet,
       Doc!MapThenFoldSet, MapThenFoldSet

LEMMA DocCounts ==
  ASSUME NEW S
  PROVE  Doc!Cardinality(S) = Cardinality(S)
BY DEF Doc!Cardinality, Cardinality, Doc!IsFiniteSet, IsFiniteSet

(* A product grows with its factor. *)
LEMMA ProductGrows ==
  ASSUME NEW a \in Nat, NEW x \in Int, NEW y \in Int, x <= y
  PROVE  a * x \in Int /\ a * y \in Int /\ a * x <= a * y
<1>1. a * (y - x) \in Nat
  OBVIOUS
<1>2. a * (y - x) = a * y - a * x
  OBVIOUS
<1> QED BY <1>1, <1>2

(* Rounding costs half a unit at most. *)
LEMMA MoneyRounds ==
  ASSUME NEW n \in Int, NEW d \in Nat \ {0}
  PROVE  LET m == Doc!Money(n, d)
         IN  m \in Int /\ 2 * (d * m) <= 2 * n + d /\ 2 * n + d < 2 * (d * m) + 2 * d
<1> DEFINE x == 2 * n + d
           y == 2 * d
           q == x \div y
<1>1. x \in Int /\ y \in Nat \ {0}
  OBVIOUS
<1>2. q \in Int /\ y * q <= x /\ x < y * q + y
  <2> HIDE DEF x, y
  <2> QED BY <1>1
<1>3. q = Doc!Money(n, d)
  BY DEF Doc!Money
<1> HIDE DEF q
<1>4. y * q = 2 * (d * q)
  BY <1>2
<1> QED BY <1>2, <1>3, <1>4

LEMMA TakesOut ==
  ASSUME NEW x \in Int, NEW y \in Int, NEW z \in Int, NEW u \in Int, NEW v \in Int, x * y - u = v + x * z
  PROVE  x * (y - z) - u = v
<1>1. x * (y - z) = x * y - x * z /\ x * y \in Int /\ x * z \in Int
  OBVIOUS
<1> QED BY <1>1

(* Shares of D in proportion to a, out of A in all, leave a rest that differs from the last one's proportion
   by what the others were rounded. *)
LEMMA RestIsWithin ==
  ASSUME NEW V, IsFiniteSet(V), NEW last \in V, NEW A \in Nat \ {0}, NEW D \in Nat, NEW a, NEW p,
         \A k \in V : a[k] \in Nat /\ p[k] \in Int /\ 2 * (D * a[k] - A * p[k]) <= A /\ -A <= 2 * (D * a[k] - A * p[k]),
         SumFunctionOnSet(a, V) = A
  PROVE  LET m == Cardinality(V) - 1
             rest == D - SumFunctionOnSet(p, V \ {last})
             off == A * rest - D * a[last]
         IN  /\ m \in Nat /\ rest \in Int /\ Cardinality(V \ {last}) = m
             /\ off \in Int /\ 2 * off <= A * m /\ -(A * m) <= 2 * off
<1> DEFINE S == V \ {last}
           m == Cardinality(V) - 1
           given == SumFunctionOnSet(p, S)
           e == [k \in S |-> D * a[k] - A * p[k]]
           Ap == [k \in S |-> A * p[k]]
           Da == [k \in S |-> D * a[k]]
           g == [k \in S |-> A]
           twice == [k \in S |-> 2 * (D * a[k] - A * p[k])]
<1>1. IsFiniteSet(S) /\ Cardinality(S) = m /\ m \in Nat
  <2>1. IsFiniteSet(S) /\ Cardinality(S) = m
    BY FS_RemoveElement
  <2>2. Cardinality(S) \in Nat
    BY <2>1, FS_CardinalityType
  <2> QED BY <2>1, <2>2
<1>2. \A k \in S : /\ a[k] \in Nat /\ a[k] \in Int /\ p[k] \in Int /\ D * a[k] \in Int /\ A * p[k] \in Int
                   /\ 2 * (D * a[k] - A * p[k]) <= A /\ -A <= 2 * (D * a[k] - A * p[k])
  OBVIOUS
<1>3. /\ \A k \in S : e[k] \in Int /\ Ap[k] \in Int /\ Da[k] = e[k] + Ap[k] /\ Ap[k] = A * p[k] /\ Da[k] = D * a[k]
      /\ \A k \in S : twice[k] = 2 * e[k] /\ twice[k] \in Int /\ g[k] \in Int /\ twice[k] <= g[k] /\ -g[k] <= twice[k]
      /\ \A k \in S : g[k] = A
  BY <1>2
<1>4. \A k \in V : a[k] \in Int
  OBVIOUS
<1> HIDE DEF S, m, e, Ap, Da, g, twice
<1>5. SumFunctionOnSet(a, V) = a[last] + SumFunctionOnSet(a, S)
  BY <1>4, SumRemoves DEF S
<1>6. SumFunctionOnSet(Da, S) = D * SumFunctionOnSet(a, S)
  BY <1>1, <1>2, <1>3, SumOfMultiples
<1>7. SumFunctionOnSet(Ap, S) = A * given
  BY <1>1, <1>2, <1>3, SumOfMultiples
<1>8. SumFunctionOnSet(Da, S) = SumFunctionOnSet(e, S) + SumFunctionOnSet(Ap, S)
  BY <1>1, <1>3, SumOfSums
<1>9. SumFunctionOnSet(twice, S) = 2 * SumFunctionOnSet(e, S)
  BY <1>1, <1>3, SumOfMultiples
<1>10. SumFunctionOnSet(g, S) = A * m
  BY <1>1, <1>3, SumOfConstants
<1>11. SumFunctionOnSet(twice, S) <= SumFunctionOnSet(g, S) /\ -SumFunctionOnSet(g, S) <= SumFunctionOnSet(twice, S)
  BY <1>1, <1>3, SumIsWithin
<1>12. given \in Int /\ SumFunctionOnSet(e, S) \in Int /\ SumFunctionOnSet(a, S) \in Int /\ a[last] \in Nat
  BY <1>1, <1>2, <1>3, SumIsInt
<1> HIDE DEF given
<1>13. A * (D - given) = A * D - A * given /\ D * (A - a[last]) = A * D - D * a[last]
  BY <1>12
<1>14. A * (D - given) - D * a[last] = SumFunctionOnSet(e, S)
  <2>1. SumFunctionOnSet(a, S) = A - a[last]
    BY <1>5, <1>12
  <2>2. A * D - D * a[last] = SumFunctionOnSet(e, S) + A * given
    BY <1>6, <1>7, <1>8, <1>13, <2>1
  <2> DEFINE u == D * a[last]
             v == SumFunctionOnSet(e, S)
  <2>3. A \in Int /\ D \in Int /\ given \in Int /\ u \in Int /\ v \in Int
    BY <1>12
  <2>4. A * D - u = v + A * given
    BY <2>2
  <2> HIDE DEF u, v
  <2>5. A * (D - given) - u = v
    BY <2>3, <2>4, TakesOut
  <2> QED BY <2>5 DEF u, v
<1> QED BY <1>1, <1>9, <1>10, <1>11, <1>12, <1>14 DEF given, S, m

(* What the last one gets is short of the rest by less than half a unit for each of the others, and only
   when it is worth no more. *)
LEMMA LastTakesRest ==
  ASSUME NEW A \in Nat \ {0}, NEW D \in Nat, D <= A, NEW al \in Nat, NEW rest \in Int, NEW m \in Nat,
         2 * (A * rest - D * al) <= A * m, -(A * m) <= 2 * (A * rest - D * al)
  PROVE  LET s == Doc!Least(rest, al)
             short == rest - s
         IN  /\ s \in Int /\ s <= al /\ short >= 0 /\ 2 * short <= m /\ (short > 0 => s = al)
             /\ 2 * (D * al - A * s) <= A * m /\ -(A * m) <= 2 * (D * al - A * s)
<1>1. CASE rest < al
  <2>1. Doc!Least(rest, al) = rest
    BY <1>1 DEF Doc!Least
  <2>2. A * rest \in Int /\ D * al \in Int /\ A * m \in Int
    OBVIOUS
  <2> QED BY <1>1, <2>1, <2>2
<1>2. CASE ~(rest < al)
  <2> DEFINE x == rest - al
  <2>1. Doc!Least(rest, al) = al /\ x \in Nat
    BY <1>2 DEF Doc!Least
  <2>2. A * rest = A * al + A * x /\ A * al \in Int /\ A * x \in Nat /\ D * al \in Int /\ A * m \in Nat /\ A * x = x * A
    BY <2>1
  <2>3. al * D <= al * A /\ al * D = D * al /\ al * A = A * al
    BY ProductGrows
  <2> HIDE DEF x
  <2>4. 2 * (A * x) <= A * m /\ 2 * (D * al - A * al) <= 0 /\ -(A * m) <= 2 * (D * al - A * al)
    BY <2>2, <2>3
  <2>5. 2 * x <= m
    <3>1. SUFFICES ASSUME m + 1 <= 2 * x PROVE FALSE
      BY <2>1
    <3>2. A * (m + 1) <= A * (2 * x)
      BY <2>1, <3>1, ProductGrows
    <3>3. A * (m + 1) = A * m + A /\ A * (2 * x) = 2 * (A * x)
      BY <2>1
    <3> QED BY <2>2, <2>4, <3>2, <3>3
  <2>6. rest - al = x
    BY DEF x
  <2> QED BY <2>1, <2>2, <2>4, <2>5, <2>6
<1> QED BY <1>1, <1>2

(* A set of whole numbers that is finite and has members has a largest one. *)
LEMMA MaxIsMember ==
  ASSUME NEW S, IsFiniteSet(S), S \subseteq Int, S # {}
  PROVE  Doc!Max(S) \in S
<1> DEFINE Good == {T \in SUBSET S : T = {} \/ \E x \in T : \A y \in T : x >= y}
<1>1. ASSUME NEW T \in SUBSET S, \A U \in SUBSET T : U # T => U \in Good
      PROVE  T \in Good
  <2>1. SUFFICES ASSUME T # {} PROVE \E x \in T : \A y \in T : x >= y
    OBVIOUS
  <2>2. PICK z \in T : TRUE
    BY <2>1
  <2>3. T \ {z} = {} \/ \E x \in T \ {z} : \A y \in T \ {z} : x >= y
    <3> HIDE DEF Good
    <3>1. T \ {z} \in SUBSET T /\ T \ {z} # T
      BY <2>2
    <3>2. T \ {z} \in Good
      BY <1>1, <3>1
    <3> QED BY <3>2 DEF Good
  <2>4. CASE T \ {z} = {}
    BY <2>2, <2>4
  <2>5. CASE \E x \in T \ {z} : \A y \in T \ {z} : x >= y
    <3>1. PICK x \in T \ {z} : \A y \in T \ {z} : x >= y
      BY <2>5
    <3>2. CASE x >= z
      BY <3>1, <3>2
    <3>3. CASE ~(x >= z)
      <4>1. z \in Int /\ x \in Int /\ \A y \in T : y \in Int
        BY <3>1
      <4>2. \A y \in T : z >= y
        BY <3>1, <3>3, <4>1
      <4> QED BY <2>2, <4>2
    <3> QED BY <3>2, <3>3
  <2> QED BY <2>3, <2>4, <2>5
<1>2. SUBSET S \subseteq Good
  <2> HIDE DEF Good
  <2> QED BY <1>1, SubsetInduction
<1>3. \E x \in S : \A y \in S : x >= y
  BY <1>2
<1> QED BY <1>3 DEF Doc!Max

(* What a document that is accepted has: lines, those of some value among them, and a subtotal. *)
Worth == [k \in DOMAIN lines |-> lines[k].amount]
LEMMA LinesHaveValue ==
  ASSUME Doc!ConstantsOK, Doc!TypeOK, Doc!Accepted, Doc!Valued # {}
  PROVE  /\ IsFiniteSet(DOMAIN lines) /\ IsFiniteSet(Doc!Valued) /\ Doc!Valued \in SUBSET DOMAIN lines
         /\ Doc!LastValued \in Doc!Valued
         /\ \A k \in DOMAIN lines : lines[k].amount \in Nat /\ lines[k].rate \in Nat
         /\ \A k \in DOMAIN lines \ Doc!Valued : lines[k].amount = 0
         /\ Doc!Subtotal \in Nat \ {0} /\ discount \in Nat /\ discount <= Doc!Subtotal
         /\ SumFunctionOnSet(Worth, Doc!Valued) = Doc!Subtotal
<1>1. PICK n \in 1..MaxLines : lines \in [1..n -> Doc!Line]
  BY DEF Doc!TypeOK
<1>2. DOMAIN lines = 1..n /\ n \in Nat
  BY <1>1 DEF Doc!ConstantsOK
<1>3. \A k \in DOMAIN lines : lines[k].amount \in Nat /\ lines[k].rate \in Nat
  BY <1>1, <1>2 DEF Doc!Line, Doc!ConstantsOK
<1>4. IsFiniteSet(DOMAIN lines)
  BY <1>2, FS_Interval
<1>5. Doc!Valued \in SUBSET DOMAIN lines /\ \A k \in DOMAIN lines \ Doc!Valued : lines[k].amount = 0
  BY <1>3 DEF Doc!Valued
<1>6. IsFiniteSet(Doc!Valued)
  BY <1>4, <1>5, FS_Subset
<1>7. Doc!LastValued \in Doc!Valued
  <2>1. Doc!Valued \subseteq Int
    BY <1>2, <1>5
  <2> QED BY <1>6, <2>1, MaxIsMember DEF Doc!LastValued
<1>8. DOMAIN Worth = DOMAIN lines /\ \A k \in DOMAIN lines : Worth[k] \in Nat /\ Worth[k] \in Int /\ Worth[k] = lines[k].amount
  BY <1>3 DEF Worth
<1>9. Doc!Subtotal = SumFunctionOnSet(Worth, DOMAIN lines)
  BY <1>8, DocSums DEF Doc!Subtotal, Worth
<1>10. SumFunctionOnSet(Worth, DOMAIN lines) = SumFunctionOnSet(Worth, Doc!Valued)
  BY <1>4, <1>5, <1>8, SumOfSupport
<1>11. Worth[Doc!LastValued] > 0 /\ Worth[Doc!LastValued] \in Nat
  BY <1>7, <1>8 DEF Doc!Valued
<1>12. SumFunctionOnSet(Worth, Doc!Valued) >= Worth[Doc!LastValued]
  BY <1>5, <1>6, <1>7, <1>8, SumIsAtLeast
<1>13. SumFunctionOnSet(Worth, Doc!Valued) \in Nat
  BY <1>5, <1>6, <1>8, SumIsNat
<1>14. discount \in Nat /\ discount <= Doc!Subtotal
  BY DEF Doc!TypeOK, Doc!Accepted
<1> QED BY <1>3, <1>4, <1>5, <1>6, <1>7, <1>9, <1>10, <1>11, <1>12, <1>13, <1>14

(* The proportion of a line is off by half a unit at most, and no more than the line. *)
LEMMA ProportionFits ==
  ASSUME NEW A \in Nat \ {0}, NEW D \in Nat, D <= A, NEW a \in Nat
  PROVE  LET p == Doc!Money(D * a, A)
         IN  /\ p \in Int /\ p <= a /\ (D = 0 => p = 0)
             /\ 2 * (D * a - A * p) <= A /\ -A <= 2 * (D * a - A * p)
<1> DEFINE n == D * a
           p == Doc!Money(n, A)
<1>1. n \in Int /\ a * D <= a * A /\ n = a * D
  BY ProductGrows
<1>2. D = 0 => n = 0
  OBVIOUS
<1> HIDE DEF n
<1>3. p \in Int /\ 2 * (A * p) <= 2 * n + A /\ 2 * n + A < 2 * (A * p) + 2 * A
  BY <1>1, MoneyRounds
<1> HIDE DEF p
<1>4. A * p \in Int /\ a * A \in Int
  BY <1>3
<1>5. 2 * (n - A * p) <= A /\ -A <= 2 * (n - A * p)
  BY <1>1, <1>3, <1>4
<1>6. p <= a
  <2>1. SUFFICES ASSUME a + 1 <= p PROVE FALSE
    BY <1>3
  <2>2. A * (a + 1) <= A * p
    BY <1>3, <2>1, ProductGrows
  <2>3. A * (a + 1) = a * A + A
    OBVIOUS
  <2> QED BY <1>1, <1>3, <1>4, <2>2, <2>3
<1>7. D = 0 => p = 0
  <2>1. SUFFICES ASSUME D = 0, p # 0 PROVE FALSE
    OBVIOUS
  <2>2. CASE p >= 1
    <3>1. A * 1 <= A * p
      BY <1>3, <2>2, ProductGrows
    <3> QED BY <1>2, <1>3, <1>4, <2>1, <3>1
  <2>3. CASE p <= -1
    <3>1. A * p <= A * (-1)
      BY <1>3, <2>3, ProductGrows
    <3>2. A * (-1) = -A
      OBVIOUS
    <3> QED BY <1>2, <1>3, <1>4, <2>1, <3>1, <3>2
  <2> QED BY <1>3, <2>1, <2>2, <2>3
<1> QED BY <1>3, <1>5, <1>6, <1>7 DEF n, p

(* What comes off a document: the others' proportions, and the rest off the last line. *)
Part == [k \in Doc!Valued |-> Doc!Money(discount * lines[k].amount, Doc!Subtotal)]
LEMMA SharesAre ==
  ASSUME Doc!ConstantsOK, Doc!TypeOK, Doc!Accepted, Doc!Valued # {}
  PROVE  LET A == Doc!Subtotal
             D == discount
             last == Doc!LastValued
             others == Doc!Valued \ {last}
             rest == D - SumFunctionOnSet(Part, others)
         IN  /\ \A k \in Doc!Valued : /\ Part[k] \in Int /\ Part[k] <= lines[k].amount
                                      /\ 2 * (D * lines[k].amount - A * Part[k]) <= A
                                      /\ -A <= 2 * (D * lines[k].amount - A * Part[k])
             /\ \A k \in others : Doc!Share(k) = Part[k]
             /\ Doc!Share(last) = Doc!Least(rest, lines[last].amount)
             /\ \A k \in DOMAIN lines \ Doc!Valued : Doc!Share(k) = 0
<1> DEFINE A == Doc!Subtotal
           D == discount
           V == Doc!Valued
           last == Doc!LastValued
           others == V \ {last}
           rest == D - SumFunctionOnSet(Part, others)
<1>1. /\ IsFiniteSet(V) /\ V \in SUBSET DOMAIN lines /\ last \in V /\ A \in Nat \ {0} /\ D \in Nat /\ D <= A
      /\ \A k \in V : lines[k].amount \in Nat
  BY LinesHaveValue
<1>2. ASSUME NEW k \in V
      PROVE  /\ Part[k] = Doc!Money(D * lines[k].amount, A) /\ Part[k] \in Int /\ Part[k] <= lines[k].amount
             /\ D = 0 => Part[k] = 0
             /\ 2 * (D * lines[k].amount - A * Part[k]) <= A /\ -A <= 2 * (D * lines[k].amount - A * Part[k])
  <2>1. Part[k] = Doc!Money(D * lines[k].amount, A)
    BY DEF Part
  <2>2. lines[k].amount \in Nat
    BY <1>1
  <2> HIDE DEF A, D
  <2> QED BY <1>1, <2>1, <2>2, ProportionFits
<1>3. ASSUME NEW k \in V PROVE Doc!Capped(k, Doc!Proportion(k)) = Part[k]
  <2>1. Doc!Proportion(k) = Part[k]
    BY <1>2 DEF Doc!Proportion
  <2>2. Part[k] \in Int /\ Part[k] <= lines[k].amount /\ lines[k].amount \in Nat
    BY <1>1, <1>2
  <2> QED BY <2>1, <2>2 DEF Doc!Capped, Doc!Least
<1>4. IsFiniteSet(others)
  BY <1>1, FS_Subset
<1>5. Doc!Rest = rest
  <2> DEFINE f == [k \in others |-> Doc!Capped(k, Doc!Proportion(k))]
  <2>1. Doc!Rest = D - SumFunctionOnSet(f, others)
    BY DocSums DEF Doc!Rest
  <2>2. \A k \in others : f[k] = Part[k]
    BY <1>3
  <2> HIDE DEF f
  <2>3. SumFunctionOnSet(f, others) = SumFunctionOnSet(Part, others)
    BY <1>4, <2>2, SumAgrees
  <2> QED BY <2>1, <2>3
<1>6. D = 0 => SumFunctionOnSet(Part, others) = 0
  BY <1>2, <1>4, SumOfZeros
<1>7. ASSUME NEW k \in others PROVE Doc!Share(k) = Part[k]
  <2>1. CASE D = 0
    BY <1>2, <2>1 DEF Doc!Share
  <2>2. CASE D # 0
    BY <1>3, <2>2 DEF Doc!Share
  <2> QED BY <2>1, <2>2
<1>8. Doc!Share(last) = Doc!Least(rest, lines[last].amount)
  <2>1. CASE D = 0
    <3>1. rest = 0 /\ lines[last].amount \in Nat
      BY <1>1, <1>6, <2>1
    <3> QED BY <2>1, <3>1 DEF Doc!Share, Doc!Least
  <2>2. CASE D # 0
    BY <1>1, <1>5, <2>2 DEF Doc!Share, Doc!Capped
  <2> QED BY <2>1, <2>2
<1>9. \A k \in DOMAIN lines \ Doc!Valued : Doc!Share(k) = 0
  BY DEF Doc!Share
<1> QED BY <1>2, <1>7, <1>8, <1>9

(* The shares, with what the last line is short of and off by. *)
LEMMA SharesCome ==
  ASSUME Doc!ConstantsOK, Doc!TypeOK, Doc!Accepted, Doc!Valued # {}
  PROVE  LET A == Doc!Subtotal
             last == Doc!LastValued
             m == Cardinality(Doc!Valued) - 1
             short == discount - SumFunctionOnSet([k \in DOMAIN lines |-> Doc!Share(k)], DOMAIN lines)
             Off(k) == discount * lines[k].amount - A * Doc!Share(k)
         IN  /\ m \in Nat /\ Cardinality(Doc!Valued \ {last}) = m
             /\ \A k \in DOMAIN lines : Doc!Share(k) \in Int /\ Doc!Share(k) <= lines[k].amount
             /\ \A k \in Doc!Valued \ {last} : 2 * Off(k) <= A /\ -A <= 2 * Off(k)
             /\ 2 * Off(last) <= A * m /\ -(A * m) <= 2 * Off(last)
             /\ short \in Int /\ short >= 0 /\ 2 * short <= m /\ (short > 0 => Doc!Share(last) = lines[last].amount)
<1> DEFINE A == Doc!Subtotal
           D == discount
           V == Doc!Valued
           last == Doc!LastValued
           others == V \ {last}
           m == Cardinality(V) - 1
           s == [k \in DOMAIN lines |-> Doc!Share(k)]
           rest == D - SumFunctionOnSet(Part, others)
           al == lines[last].amount
<1>1. /\ IsFiniteSet(DOMAIN lines) /\ IsFiniteSet(V) /\ V \in SUBSET DOMAIN lines /\ last \in V
      /\ A \in Nat \ {0} /\ D \in Nat /\ D <= A /\ SumFunctionOnSet(Worth, V) = A
      /\ \A k \in DOMAIN lines : lines[k].amount \in Nat
      /\ \A k \in DOMAIN lines \ V : lines[k].amount = 0
  BY LinesHaveValue
<1>2. /\ \A k \in V : /\ Part[k] \in Int /\ Part[k] <= lines[k].amount
                      /\ 2 * (D * lines[k].amount - A * Part[k]) <= A
                      /\ -A <= 2 * (D * lines[k].amount - A * Part[k])
      /\ \A k \in others : Doc!Share(k) = Part[k]
      /\ Doc!Share(last) = Doc!Least(rest, al)
      /\ \A k \in DOMAIN lines \ V : Doc!Share(k) = 0
  BY SharesAre
<1>3. /\ m \in Nat /\ rest \in Int /\ Cardinality(others) = m
      /\ A * rest - D * al \in Int /\ 2 * (A * rest - D * al) <= A * m /\ -(A * m) <= 2 * (A * rest - D * al)
  <2>1. \A k \in V : /\ Worth[k] \in Nat /\ Part[k] \in Int /\ 2 * (D * Worth[k] - A * Part[k]) <= A
                     /\ -A <= 2 * (D * Worth[k] - A * Part[k])
    BY <1>1, <1>2 DEF Worth
  <2>2. Worth[last] = al
    BY <1>1 DEF Worth
  <2>3. IsFiniteSet(V) /\ last \in V /\ A \in Nat \ {0} /\ D \in Nat /\ SumFunctionOnSet(Worth, V) = A
    BY <1>1
  <2> HIDE DEF A, D, V, last
  <2>4. LET w == A * (D - SumFunctionOnSet(Part, V \ {last})) - D * Worth[last]
            n == Cardinality(V) - 1
        IN  /\ n \in Nat /\ D - SumFunctionOnSet(Part, V \ {last}) \in Int /\ Cardinality(V \ {last}) = n
            /\ w \in Int /\ 2 * w <= A * n /\ -(A * n) <= 2 * w
    BY <2>1, <2>3, RestIsWithin, ZenonT(30)
  <2> QED BY <2>2, <2>4
<1>4. al \in Nat
  BY <1>1
<1>5. LET x == Doc!Least(rest, al)
          short == rest - x
      IN  /\ x \in Int /\ x <= al /\ short >= 0 /\ 2 * short <= m /\ (short > 0 => x = al)
          /\ 2 * (D * al - A * x) <= A * m /\ -(A * m) <= 2 * (D * al - A * x)
  <2> HIDE DEF A, D, rest, al, m
  <2> QED BY <1>1, <1>3, <1>4, LastTakesRest
<1>6. \A k \in DOMAIN lines : /\ s[k] = Doc!Share(k) /\ s[k] \in Int /\ s[k] <= lines[k].amount
                              /\ k \in others => s[k] = Part[k]
                              /\ k \notin V => s[k] = 0
  <2>1. ASSUME NEW k \in DOMAIN lines PROVE Doc!Share(k) \in Int /\ Doc!Share(k) <= lines[k].amount
    <3>1. CASE k \in others
      BY <1>2, <3>1
    <3>2. CASE k = last
      BY <1>2, <1>5, <3>2
    <3>3. CASE k \notin V
      BY <1>1, <1>2, <3>3
    <3> QED BY <3>1, <3>2, <3>3
  <2> QED BY <1>2, <2>1
<1> HIDE DEF s
<1>7. SumFunctionOnSet(s, DOMAIN lines) = Doc!Share(last) + SumFunctionOnSet(Part, others)
  <2>1. SumFunctionOnSet(s, DOMAIN lines) = SumFunctionOnSet(s, V)
    BY <1>1, <1>6, SumOfSupport
  <2>2. \A k \in V : s[k] \in Int
    BY <1>1, <1>6
  <2>3. SumFunctionOnSet(s, V) = s[last] + SumFunctionOnSet(s, others)
    BY <1>1, <2>2, SumRemoves
  <2>4. IsFiniteSet(others) /\ \A k \in others : s[k] = Part[k]
    BY <1>1, <1>6, FS_Subset
  <2>5. SumFunctionOnSet(s, others) = SumFunctionOnSet(Part, others)
    BY <2>4, SumAgrees
  <2> QED BY <1>1, <1>6, <2>1, <2>3, <2>5
<1>8. SumFunctionOnSet(Part, others) \in Int
  BY <1>1, <1>2, FS_Subset, SumIsInt
<1>9. D - SumFunctionOnSet(s, DOMAIN lines) = rest - Doc!Share(last)
  BY <1>1, <1>2, <1>5, <1>7, <1>8
<1> QED BY <1>1, <1>2, <1>3, <1>5, <1>6, <1>9 DEF s

(* The shares of a discount come to it, but for what the last line is not
   worth (documents.py: compute_lines). *)
LEMMA SharesAlwaysFit ==
  ASSUME Doc!ConstantsOK, Doc!TypeOK
  PROVE  Doc!SharesFit
<1> SUFFICES ASSUME Doc!Accepted, Doc!Valued # {}
             PROVE  LET short == discount - Doc!SumFunction([k \in DOMAIN lines |-> Doc!Share(k)])
                    IN  /\ \A k \in DOMAIN lines : Doc!Share(k) <= lines[k].amount
                        /\ short >= 0 /\ 2 * short < Doc!Cardinality(Doc!Valued)
                        /\ short > 0 => Doc!Billed(Doc!LastValued) = 0
  BY DEF Doc!SharesFit
<1> DEFINE s == [k \in DOMAIN lines |-> Doc!Share(k)]
           short == discount - SumFunctionOnSet(s, DOMAIN lines)
           m == Cardinality(Doc!Valued) - 1
<1>1. /\ m \in Nat /\ \A k \in DOMAIN lines : Doc!Share(k) \in Int /\ Doc!Share(k) <= lines[k].amount
      /\ short \in Int /\ short >= 0 /\ 2 * short <= m
      /\ short > 0 => Doc!Share(Doc!LastValued) = lines[Doc!LastValued].amount
  BY SharesCome
<1>2. Doc!SumFunction(s) = SumFunctionOnSet(s, DOMAIN lines)
  BY DocSums
<1>3. Cardinality(Doc!Valued) = m + 1
  <2>1. Cardinality(Doc!Valued) \in Nat
    BY LinesHaveValue, FS_CardinalityType
  <2> QED BY <2>1
<1>4. short > 0 => Doc!Billed(Doc!LastValued) = 0
  <2>1. lines[Doc!LastValued].amount \in Nat
    BY LinesHaveValue
  <2> HIDE DEF short
  <2> QED BY <1>1, <2>1 DEF Doc!Billed
<1>5. 2 * short < Cardinality(Doc!Valued)
  <2> HIDE DEF short, m
  <2> QED BY <1>1, <1>3
<1> QED BY <1>1, <1>2, <1>4, <1>5, DocCounts

(* The tax on a line is off what its rate comes to on its part of the discounted amount by the rounding of
   the tax and that of the share. *)
LEMMA TaxIsWithin ==
  ASSUME NEW A \in Nat \ {0}, NEW D \in Nat, NEW W \in Nat \ {0}, NEW a \in Nat, NEW r \in Nat, NEW s \in Int,
         NEW c \in Int, 2 * (D * a - A * s) <= c, -c <= 2 * (D * a - A * s)
  PROVE  LET t == Doc!Money((a - s) * r, W)
             off == W * t * A - (A - D) * (r * a)
         IN  t \in Int /\ off \in Int /\ 2 * off <= A * W + r * c /\ -(A * W + r * c) <= 2 * off
<1> DEFINE b == a - s
           t == Doc!Money(b * r, W)
           x == W * t - b * r
           e == D * a - A * s
<1>1. b \in Int /\ b * r \in Int /\ e \in Int
  OBVIOUS
<1>2. t \in Int /\ 2 * (W * t) <= 2 * (b * r) + W /\ 2 * (b * r) + W < 2 * (W * t) + 2 * W
  <2> HIDE DEF b
  <2> QED BY <1>1, MoneyRounds
<1>3. b = a - s /\ e = D * a - A * s
  OBVIOUS
<1> HIDE DEF t, b, e
<1>4. x \in Int /\ 2 * x <= W /\ -W <= 2 * x
  <2>1. W * t \in Int
    BY <1>2
  <2> QED BY <1>1, <1>2, <2>1
<1>5. W * t * A - (A - D) * (r * a) = A * x + r * e
  <2>1. W * t * A = A * x + A * (b * r)
    BY <1>1, <1>2
  <2>2. A * (b * r) = r * (A * a) - r * (A * s)
    BY <1>1, <1>3
  <2>3. (A - D) * (r * a) = r * (A * a) - r * (D * a)
    OBVIOUS
  <2>4. r * e = r * (D * a) - r * (A * s)
    BY <1>3
  <2>5. /\ A * x \in Int /\ r * e \in Int /\ A * (b * r) \in Int /\ r * (A * a) \in Int /\ r * (A * s) \in Int
        /\ r * (D * a) \in Int
    BY <1>1, <1>4
  <2> HIDE DEF x
  <2> QED BY <2>1, <2>2, <2>3, <2>4, <2>5
<1> HIDE DEF x
<1>6. 2 * (A * x) <= A * W /\ -(A * W) <= 2 * (A * x) /\ A * x \in Int /\ A * W \in Int
  <2>1. A * (2 * x) <= A * W /\ A * (-W) <= A * (2 * x)
    BY <1>4, ProductGrows
  <2>2. A * (2 * x) = 2 * (A * x) /\ A * (-W) = -(A * W)
    BY <1>4
  <2> QED BY <1>4, <2>1, <2>2
<1>7. 2 * (r * e) <= r * c /\ -(r * c) <= 2 * (r * e) /\ r * e \in Int /\ r * c \in Int
  <2>1. r * (2 * e) <= r * c /\ r * (-c) <= r * (2 * e)
    BY <1>1, <1>3, ProductGrows
  <2>2. r * (2 * e) = 2 * (r * e) /\ r * (-c) = -(r * c)
    BY <1>1
  <2> QED BY <1>1, <2>1, <2>2
<1>8. 2 * (A * x + r * e) <= A * W + r * c /\ -(A * W + r * c) <= 2 * (A * x + r * e) /\ A * x + r * e \in Int
  BY <1>6, <1>7
<1> QED BY <1>2, <1>5, <1>8 DEF t, b

LEMMA Regroups ==
  ASSUME NEW w \in Int, NEW x \in Int, NEW d \in Int, NEW y \in Int, NEW z \in Int
  PROVE  w * y * x - (x - d) * z = (w * x) * y + (d - x) * z
<1>1. w * y * x = (w * x) * y /\ w * y * x \in Int
  OBVIOUS
<1>2. (x - d) * z = x * z - d * z /\ (d - x) * z = d * z - x * z /\ x * z \in Int /\ d * z \in Int
  OBVIOUS
<1> QED BY <1>1, <1>2

(* What is off on the lines together. *)
LEMMA BoundsAddUp ==
  ASSUME NEW A \in Nat, NEW W \in Nat, NEW S, IsFiniteSet(S), NEW r, NEW rl \in Nat, NEW t, NEW tl \in Int,
         \A k \in S : /\ r[k] \in Nat /\ t[k] \in Int
                      /\ 2 * t[k] <= A * W + r[k] * A /\ -(A * W + r[k] * A) <= 2 * t[k],
         2 * tl <= A * W + rl * (A * Cardinality(S)), -(A * W + rl * (A * Cardinality(S))) <= 2 * tl
  PROVE  LET off == tl + SumFunctionOnSet(t, S)
             slack == W * (Cardinality(S) + 1) + SumFunctionOnSet([k \in S |-> r[k] + rl], S)
         IN  2 * off <= A * slack /\ -2 * off <= A * slack
<1> DEFINE m == Cardinality(S)
           T == SumFunctionOnSet(t, S)
           twice == [k \in S |-> 2 * t[k]]
           w == [k \in S |-> W + r[k]]
           Aw == [k \in S |-> A * (W + r[k])]
           q == [k \in S |-> r[k] + rl]
           Q == SumFunctionOnSet(q, S)
           Ws == [k \in S |-> W - rl]
           X == SumFunctionOnSet(w, S)
<1>1. m \in Nat
  BY FS_CardinalityType
<1>2. \A k \in S : /\ t[k] \in Int /\ twice[k] = 2 * t[k] /\ twice[k] \in Int
                   /\ w[k] \in Int /\ Aw[k] \in Int /\ Aw[k] = A * w[k]
                   /\ q[k] \in Int /\ Ws[k] \in Int /\ Ws[k] = W - rl /\ w[k] = q[k] + Ws[k]
  OBVIOUS
<1>3. \A k \in S : twice[k] <= Aw[k] /\ -Aw[k] <= twice[k]
  <2> SUFFICES ASSUME NEW k \in S PROVE twice[k] <= Aw[k] /\ -Aw[k] <= twice[k]
    OBVIOUS
  <2>1. A * (W + r[k]) = A * W + r[k] * A
    OBVIOUS
  <2> QED BY <2>1
<1> HIDE DEF twice, w, Aw, q, Ws
<1>4. SumFunctionOnSet(twice, S) = 2 * T
  BY <1>2, SumOfMultiples
<1>5. SumFunctionOnSet(Aw, S) = A * X
  BY <1>2, SumOfMultiples
<1>6. X = Q + SumFunctionOnSet(Ws, S)
  BY <1>2, SumOfSums
<1>7. SumFunctionOnSet(Ws, S) = (W - rl) * m
  BY <1>2, SumOfConstants
<1>8. SumFunctionOnSet(twice, S) <= SumFunctionOnSet(Aw, S) /\ -SumFunctionOnSet(Aw, S) <= SumFunctionOnSet(twice, S)
  BY <1>2, <1>3, SumIsWithin
<1>9. T \in Int /\ Q \in Int
  BY <1>2, SumIsInt
<1> HIDE DEF T, X, Q, m
<1>10. A * X = A * Q + A * (W * m) - rl * (A * m)
  <2>1. X = Q + W * m - rl * m /\ W * m \in Int /\ rl * m \in Int
    BY <1>1, <1>6, <1>7
  <2> DEFINE u == W * m
             v == rl * m
  <2>2. u \in Int /\ v \in Int /\ X = Q + u - v
    BY <2>1
  <2>3. rl * (A * m) = A * v
    BY <1>1
  <2> HIDE DEF u, v
  <2>4. A * X = A * Q + A * u - A * v
    BY <1>9, <2>2
  <2> QED BY <2>3, <2>4 DEF u
<1>11. 2 * tl <= A * W + rl * (A * m) /\ -(A * W + rl * (A * m)) <= 2 * tl
  BY DEF m
<1>12. /\ A * W \in Int /\ rl * (A * m) \in Int /\ A * (W * m) \in Int /\ A * Q \in Int
       /\ A * (W * (m + 1) + Q) = A * (W * m) + A * W + A * Q
  <2> DEFINE u == W * m
  <2>1. u \in Int /\ W * (m + 1) = u + W /\ A * m \in Int /\ rl * (A * m) \in Int /\ A * W \in Int
    BY <1>1
  <2> HIDE DEF u
  <2>2. A * (u + W + Q) = A * u + A * W + A * Q /\ A * u \in Int /\ A * Q \in Int
    BY <1>9, <2>1
  <2> QED BY <2>1, <2>2 DEF u
<1>13. 2 * (tl + T) <= A * (W * (m + 1) + Q) /\ -2 * (tl + T) <= A * (W * (m + 1) + Q)
  <2> DEFINE aw == A * W
             rm == rl * (A * m)
             awm == A * (W * m)
             aq == A * Q
             goal == A * (W * (m + 1) + Q)
  <2>1. aw \in Int /\ rm \in Int /\ awm \in Int /\ aq \in Int /\ goal = awm + aw + aq
    BY <1>12
  <2>2. 2 * T <= aq + awm - rm /\ -(aq + awm - rm) <= 2 * T
    BY <1>4, <1>5, <1>8, <1>10
  <2>3. 2 * tl <= aw + rm /\ -(aw + rm) <= 2 * tl
    BY <1>11
  <2> HIDE DEF aw, rm, awm, aq, goal
  <2>4. 2 * (tl + T) <= goal /\ -2 * (tl + T) <= goal
    BY <1>9, <2>1, <2>2, <2>3
  <2> QED BY <2>4 DEF goal
<1> QED BY <1>13 DEF T, Q, q, m

(* Tax is charged on the discounted amount, but for what rounding may cost
   (documents.py: compute_lines). *)
LEMMA TaxAlwaysFollows ==
  ASSUME Doc!ConstantsOK, Doc!TypeOK
  PROVE  Doc!TaxFollowsDiscount
<1> DEFINE A == Doc!Subtotal
           D == discount
           L == DOMAIN lines
           V == Doc!Valued
           last == Doc!LastValued
           others == V \ {last}
           W == Doc!Whole
           ra == [k \in L |-> lines[k].rate * lines[k].amount]
           tax == [k \in L |-> Doc!Tax(k)]
           q == [k \in others |-> lines[k].rate + lines[last].rate]
           off == W * SumFunctionOnSet(tax, L) * A - (A - D) * SumFunctionOnSet(ra, L)
           slack == W * Cardinality(V) + SumFunctionOnSet(q, others)
<1> SUFFICES ASSUME Doc!Accepted, V # {}
             PROVE  2 * off <= A * slack /\ -2 * off <= A * slack
  <2>1. DOMAIN ra = L /\ DOMAIN tax = L /\ DOMAIN q = others
    OBVIOUS
  <2>2. /\ Doc!SumFunction(ra) = SumFunctionOnSet(ra, L) /\ Doc!SumFunction(q) = SumFunctionOnSet(q, others)
        /\ Doc!TaxTotal = SumFunctionOnSet(tax, L)
    BY <2>1, DocSums DEF Doc!TaxTotal
  <2>3. Doc!Cardinality(V) = Cardinality(V)
    BY DocCounts
  <2> QED BY <2>2, <2>3 DEF Doc!TaxFollowsDiscount
<1>1. /\ IsFiniteSet(L) /\ IsFiniteSet(V) /\ V \in SUBSET L /\ last \in V /\ A \in Nat \ {0} /\ D \in Nat
      /\ \A k \in L : lines[k].amount \in Nat /\ lines[k].rate \in Nat
      /\ \A k \in L \ V : lines[k].amount = 0
  BY LinesHaveValue
<1> DEFINE Off(k) == D * lines[k].amount - A * Doc!Share(k)
           m == Cardinality(others)
<1>2. /\ m \in Nat /\ Cardinality(V) = m + 1
      /\ \A k \in L : Doc!Share(k) \in Int /\ Doc!Share(k) <= lines[k].amount
      /\ \A k \in others : 2 * Off(k) <= A /\ -A <= 2 * Off(k)
      /\ 2 * Off(last) <= A * m /\ -(A * m) <= 2 * Off(last)
  <2>1. Cardinality(V) \in Nat
    BY <1>1, FS_CardinalityType
  <2>2. m = Cardinality(V) - 1
    BY SharesCome
  <2>3. /\ \A k \in L : Doc!Share(k) \in Int /\ Doc!Share(k) <= lines[k].amount
        /\ \A k \in others : 2 * Off(k) <= A /\ -A <= 2 * Off(k)
        /\ 2 * Off(last) <= A * (Cardinality(V) - 1) /\ -(A * (Cardinality(V) - 1)) <= 2 * Off(last)
        /\ Cardinality(V) - 1 \in Nat
    BY SharesCome
  <2> QED BY <2>1, <2>2, <2>3
<1>3. W \in Nat \ {0} /\ W = 10000
  BY DEF Doc!Whole
<1> DEFINE t == [k \in L |-> W * tax[k] * A - (A - D) * ra[k]]
           r == [k \in L |-> lines[k].rate]
<1>4. ASSUME NEW k \in L, NEW c \in Int, 2 * Off(k) <= c, -c <= 2 * Off(k)
      PROVE  tax[k] \in Int /\ t[k] \in Int /\ 2 * t[k] <= A * W + r[k] * c /\ -(A * W + r[k] * c) <= 2 * t[k]
  <2> DEFINE a == lines[k].amount
             b == lines[k].rate
             s == Doc!Share(k)
  <2>1. tax[k] = Doc!Money((a - s) * b, W)
    BY DEF Doc!Tax, Doc!Billed
  <2>2. a \in Nat /\ b \in Nat /\ s \in Int /\ A \in Nat \ {0} /\ D \in Nat /\ W \in Nat \ {0}
    BY <1>1, <1>2, <1>3
  <2>3. t[k] = W * tax[k] * A - (A - D) * (b * a) /\ r[k] = b
    OBVIOUS
  <2>4. 2 * (D * a - A * s) <= c /\ -c <= 2 * (D * a - A * s)
    BY <1>4
  <2> HIDE DEF A, D, L, W, tax, t, r, a, b, s
  <2>5. LET x == Doc!Money((a - s) * b, W)
            y == W * x * A - (A - D) * (b * a)
        IN  x \in Int /\ y \in Int /\ 2 * y <= A * W + b * c /\ -(A * W + b * c) <= 2 * y
    BY <2>2, <2>4, TaxIsWithin
  <2> QED BY <2>1, <2>3, <2>5
<1>5. ASSUME NEW k \in L \ V PROVE tax[k] = 0 /\ t[k] = 0
  <2>1. lines[k].amount = 0 /\ Doc!Share(k) = 0 /\ lines[k].rate \in Nat
    BY <1>1, <1>5 DEF Doc!Share
  <2>2. tax[k] = Doc!Money(0, W)
    <3>1. (lines[k].amount - Doc!Share(k)) * lines[k].rate = 0
      BY <2>1
    <3> QED BY <3>1 DEF Doc!Tax, Doc!Billed
  <2>3. Doc!Money(0, W) = 0
    BY <1>3 DEF Doc!Money
  <2>4. ra[k] = 0
    BY <2>1
  <2> QED BY <1>1, <1>3, <2>2, <2>3, <2>4
<1>6. \A k \in L : tax[k] \in Int /\ ra[k] \in Int /\ t[k] \in Int /\ r[k] \in Nat /\ r[k] = lines[k].rate
  <2> SUFFICES ASSUME NEW k \in L PROVE tax[k] \in Int /\ ra[k] \in Int /\ t[k] \in Int /\ r[k] \in Nat /\ r[k] = lines[k].rate
    OBVIOUS
  <2>1. ra[k] \in Int /\ r[k] \in Nat /\ r[k] = lines[k].rate
    BY <1>1
  <2>2. tax[k] \in Int /\ t[k] \in Int
    <3>1. CASE k \in others
      <4>1. 2 * Off(k) <= A /\ -A <= 2 * Off(k) /\ A \in Int
        BY <1>1, <1>2, <3>1
      <4> HIDE DEF A, Off, tax, t
      <4> QED BY <1>4, <4>1
    <3>2. CASE k = last
      <4>1. 2 * Off(k) <= A * m /\ -(A * m) <= 2 * Off(k) /\ A * m \in Int
        BY <1>1, <1>2, <3>2
      <4> HIDE DEF A, m, Off, tax, t
      <4> QED BY <1>4, <4>1
    <3>3. CASE k \notin V
      BY <1>5, <3>3
    <3> QED BY <3>1, <3>2, <3>3
  <2> QED BY <2>1, <2>2
<1>7. off = t[last] + SumFunctionOnSet(t, others)
  <2> DEFINE u == [k \in L |-> (W * A) * tax[k]]
             v == [k \in L |-> (D - A) * ra[k]]
  <2>1. \A k \in L : /\ tax[k] \in Int /\ ra[k] \in Int /\ t[k] \in Int
                     /\ u[k] = (W * A) * tax[k] /\ v[k] = (D - A) * ra[k] /\ t[k] = W * tax[k] * A - (A - D) * ra[k]
    BY <1>6
  <2> HIDE DEF u, v, t, tax, ra, A, D, W, L
  <2>2. W * A \in Int /\ D - A \in Int
    BY <1>1, <1>3
  <2>3. SumFunctionOnSet(u, L) = (W * A) * SumFunctionOnSet(tax, L)
    BY <1>1, <2>1, <2>2, SumOfMultiples
  <2>4. SumFunctionOnSet(v, L) = (D - A) * SumFunctionOnSet(ra, L)
    BY <1>1, <2>1, <2>2, SumOfMultiples
  <2>5. \A k \in L : u[k] \in Int /\ v[k] \in Int /\ t[k] = u[k] + v[k]
    <3> SUFFICES ASSUME NEW k \in L PROVE u[k] \in Int /\ v[k] \in Int /\ t[k] = u[k] + v[k]
      OBVIOUS
    <3>1. /\ W \in Int /\ A \in Int /\ D \in Int /\ tax[k] \in Int /\ ra[k] \in Int
          /\ u[k] = (W * A) * tax[k] /\ v[k] = (D - A) * ra[k] /\ t[k] = W * tax[k] * A - (A - D) * ra[k]
      BY <1>1, <1>3, <2>1
    <3>2. u[k] \in Int /\ v[k] \in Int
      BY <3>1
    <3> QED BY <3>1, <3>2, Regroups
  <2>6. SumFunctionOnSet(t, L) = SumFunctionOnSet(u, L) + SumFunctionOnSet(v, L)
    BY <1>1, <2>5, SumOfSums
  <2>7. SumFunctionOnSet(t, L) = SumFunctionOnSet(t, V)
    BY <1>1, <1>5, <2>1, SumOfSupport
  <2>8. SumFunctionOnSet(t, V) = t[last] + SumFunctionOnSet(t, others)
    <3>1. \A k \in V : t[k] \in Int
      BY <1>1, <2>1
    <3> QED BY <1>1, <3>1, SumRemoves
  <2>9. off = SumFunctionOnSet(t, L)
    <3>1. SumFunctionOnSet(tax, L) \in Int /\ SumFunctionOnSet(ra, L) \in Int
      BY <1>1, <2>1, SumIsInt
    <3>2. W \in Int /\ A \in Int /\ D \in Int
      BY <1>1, <1>3
    <3> QED BY <2>3, <2>4, <2>6, <3>1, <3>2, Regroups
  <2> QED BY <2>7, <2>8, <2>9
<1>8. IsFiniteSet(others)
  BY <1>1, FS_Subset
<1>9. \A k \in others : /\ r[k] \in Nat /\ t[k] \in Int
                        /\ 2 * t[k] <= A * W + r[k] * A /\ -(A * W + r[k] * A) <= 2 * t[k]
  <2> SUFFICES ASSUME NEW k \in others
               PROVE  /\ r[k] \in Nat /\ t[k] \in Int
                      /\ 2 * t[k] <= A * W + r[k] * A /\ -(A * W + r[k] * A) <= 2 * t[k]
    OBVIOUS
  <2>1. k \in L /\ A \in Int /\ 2 * Off(k) <= A /\ -A <= 2 * Off(k)
    BY <1>1, <1>2
  <2> HIDE DEF A, L, W, Off, t, r
  <2> QED BY <1>4, <1>6, <2>1
<1>10. /\ r[last] \in Nat /\ t[last] \in Int
       /\ 2 * t[last] <= A * W + r[last] * (A * m) /\ -(A * W + r[last] * (A * m)) <= 2 * t[last]
  <2>1. last \in L /\ A * m \in Int /\ 2 * Off(last) <= A * m /\ -(A * m) <= 2 * Off(last)
    BY <1>1, <1>2
  <2> HIDE DEF A, L, W, m, Off, t, r, last
  <2> QED BY <1>4, <1>6, <2>1
<1>11. q = [k \in others |-> r[k] + r[last]]
  BY <1>1
<1> HIDE DEF t, r, q, off, A, W, others
<1>12. LET o == t[last] + SumFunctionOnSet(t, others)
           b == W * (Cardinality(others) + 1) + SumFunctionOnSet([k \in others |-> r[k] + r[last]], others)
       IN  2 * o <= A * b /\ -2 * o <= A * b
  <2>1. A \in Nat /\ W \in Nat
    BY <1>1, <1>3
  <2> QED BY <1>8, <1>9, <1>10, <2>1, BoundsAddUp
<1> QED BY <1>2, <1>7, <1>11, <1>12

(* The lines and the discount keep their types, whatever is written in the
   form (InvoiceFormPage.tsx, BillFormPage.tsx). *)
LEMMA FormKeepsType ==
  ASSUME Doc!ConstantsOK, Doc!TypeOK, [Doc!Next]_Doc!vars
  PROVE  Doc!TypeOK'
<1>1. PICK n \in 1..MaxLines : lines \in [1..n -> Doc!Line]
  BY DEF Doc!TypeOK
<1>2. n \in Nat /\ n >= 1 /\ MaxLines \in Nat /\ Len(lines) = n /\ lines \in Seq(Doc!Line) /\ DOMAIN lines = 1..n
  BY <1>1 DEF Doc!ConstantsOK
<1>3. discount \in Nat
  BY DEF Doc!TypeOK
<1>4. ASSUME NEW p \in 1..MaxLines, lines' \in [1..p -> Doc!Line], discount' \in Nat PROVE Doc!TypeOK'
  BY <1>4 DEF Doc!TypeOK
<1>5. CASE Doc!AddLine
  <2>1. PICK line \in Doc!Line : lines' = Append(lines, line)
    BY <1>5 DEF Doc!AddLine
  <2>2. n + 1 \in 1..MaxLines /\ discount' \in Nat
    BY <1>2, <1>3, <1>5 DEF Doc!AddLine
  <2>3. lines' \in Seq(Doc!Line) /\ Len(lines') = n + 1
    BY <1>2, <2>1
  <2>4. lines' \in [1..(n + 1) -> Doc!Line]
    BY <2>3
  <2> QED BY <1>4, <2>2, <2>4
<1>6. CASE Doc!UpdateLine
  <2>1. lines' \in [1..n -> Doc!Line] /\ discount' \in Nat
    BY <1>1, <1>2, <1>3, <1>6 DEF Doc!UpdateLine
  <2> QED BY <1>4, <2>1
<1>7. CASE Doc!RemoveLine
  <2>1. PICK k \in 1..n : lines' = [j \in 1..(n - 1) |-> lines[IF j < k THEN j ELSE j + 1]]
    BY <1>2, <1>7 DEF Doc!RemoveLine
  <2>2. n - 1 \in 1..MaxLines /\ discount' \in Nat
    BY <1>2, <1>3, <1>7 DEF Doc!RemoveLine
  <2>3. \A j \in 1..(n - 1) : (IF j < k THEN j ELSE j + 1) \in 1..n
    BY <1>2
  <2>4. lines' \in [1..(n - 1) -> Doc!Line]
    BY <1>1, <2>1, <2>3
  <2> QED BY <1>4, <2>2, <2>4
<1>8. CASE Doc!SetDiscount
  <2>1. discount' \in Nat /\ lines' = lines
    BY <1>8 DEF Doc!SetDiscount
  <2> QED BY <1>1, <1>4, <2>1
<1>9. CASE UNCHANGED Doc!vars
  BY <1>1, <1>3, <1>4, <1>9 DEF Doc!vars
<1> QED BY <1>5, <1>6, <1>7, <1>8, <1>9 DEF Doc!Next

(* However many lines a document has, whatever they are worth and whatever
   their rates: no line has more off than it is worth, the shares of a
   discount come to it but for less than half a paisa for each line, and
   only when the last line with a value is given away; and tax is charged
   on the discounted amount, but for what rounding may cost (documents.py:
   compute_lines). *)
THEOREM DiscountIsAlwaysShared ==
  ASSUME Doc!ConstantsOK
  PROVE  Doc!Spec => []Doc!DiscountIsShared
<1>1. Doc!Init => Doc!TypeOK
  <2> SUFFICES ASSUME Doc!Init PROVE Doc!TypeOK
    OBVIOUS
  <2>1. lines \in [1..1 -> Doc!Line] /\ 1 \in 1..MaxLines /\ discount \in Nat
    BY DEF Doc!Init, Doc!ConstantsOK
  <2> QED BY <2>1 DEF Doc!TypeOK
<1>2. Doc!TypeOK /\ [Doc!Next]_Doc!vars => Doc!TypeOK'
  BY FormKeepsType
<1>3. Doc!TypeOK => Doc!DiscountIsShared
  BY SharesAlwaysFit, TaxAlwaysFollows DEF Doc!DiscountIsShared
<1> QED BY <1>1, <1>2, <1>3, PTL DEF Doc!Spec
=============================================================================
