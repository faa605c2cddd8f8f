--------------------------- MODULE ConsoleProofs ----------------------------
(***************************************************************************)
(* Proofs about ExternalPayments, OrgConsole, Content, Registers and       *)
(* ModulePicker.  A payment from outside is recorded and decided once and  *)
(* invoices show as paid what was received, provided the database lets one *)
(* transaction write at a time or deliveries of one transaction do not     *)
(* overlap.  What is decided on an organization holds together, where      *)
(* requests are handled one at a time.  An organization's content is its   *)
(* own.  A list page shows what is stored and does what it offers.  The    *)
(* modules picked are those ticked and what they need.                     *)
(***************************************************************************)
EXTENDS ExternalPayments, Sums, FiniteSetTheorems, TLAPS

-----------------------------------------------------------------------------
(* The inductive invariant is BookingInv.  First the part of it that does  *)
(* not speak of money, which the rest relies on.                           *)

Shape ==
  /\ ext \in [Payments -> {None} \cup Row]
  /\ receipts \in [Payments -> Nat]
  /\ request \in [Requests -> Requested]
  /\ told \in [Payments -> SUBSET {"approved", "rejected"}]

Inv ==
  /\ Shape /\ WellAddressed /\ ClaimsHold /\ BookedWhenApproved
  /\ ApprovedOnce /\ ClaimsFresh /\ OneOpen /\ ToldTruth

-----------------------------------------------------------------------------
(* Steps that leave every payment's status as it is                        *)

LEMMA IdleRequested == Idle \in Requested
  BY DEF Idle, Requested

\* Requests only end, and rows keep their reference and status.
Ending == \A r \in Requests : request'[r] = request[r] \/ request'[r] = Idle
Standing ==
  \A p \in Payments :
    /\ ext'[p] = None <=> ext[p] = None
    /\ ext'[p].ref = ext[p].ref /\ ext'[p].status = ext[p].status

LEMMA StandingKeeps ==
  ASSUME Inv, Shape', Ending, Standing, UNCHANGED <<receipts, told>>
  PROVE Inv'
<1>1. WellAddressed'
  BY ConstantsAssumption DEF Inv, Ending, Standing, Shape, Requested, WellAddressed, Claimed, Known, Idle
<1>2. ClaimsHold'
  BY ConstantsAssumption
  DEF Inv, Ending, Standing, Shape, Requested, WellAddressed, ClaimsHold, Claimed, Pending, Known, Idle
<1>3. BookedWhenApproved' /\ ApprovedOnce' /\ ToldTruth'
  BY DEF Inv, Standing, BookedWhenApproved, ApprovedOnce, ToldTruth, Approved, Known
<1>4. ClaimsFresh'
  BY ConstantsAssumption
  DEF Inv, Ending, Standing, Shape, Requested, WellAddressed, ClaimsFresh, Claimed, Approved, Known, Idle
<1>5. OneOpen'
  BY ConstantsAssumption DEF Inv, Ending, Standing, OneOpen, IsOpen, Known, Idle
<1> QED
  BY <1>1, <1>2, <1>3, <1>4, <1>5 DEF Inv

LEMMA AbortKeeps ==
  ASSUME Inv, NEW r \in Requests, Abort(r)
  PROVE Inv'
<1>1. Shape' /\ Ending /\ Standing
  BY IdleRequested DEF Inv, Shape, Abort, Ends, Ending, Standing
<1> QED
  BY <1>1, StandingKeeps DEF Abort

LEMMA ExpireKeeps ==
  ASSUME Inv, NEW p \in Payments, Expire(p)
  PROVE Inv'
<1>1. ext[p] \in Row
  BY DEF Inv, Shape, Expire
<1>2. [ext[p] EXCEPT !.window = "over"] \in Row
  BY <1>1 DEF Row
<1>3. Shape' /\ Ending
  BY <1>2 DEF Inv, Shape, Expire, Ending
<1>4. Standing
  BY <1>1, <1>2, ConstantsAssumption DEF Inv, Shape, Expire, Standing, Row
<1> QED
  BY <1>3, <1>4, StandingKeeps DEF Expire

LEMMA RenewKeeps ==
  ASSUME Inv, NEW r \in Requests, Renew(r)
  PROVE Inv'
<1> DEFINE p == request[r].pay
<1>1. p \in Payments /\ ext[p] \in Row
  BY DEF Inv, Shape, WellAddressed, Known, Renew
<1>2. [ext[p] EXCEPT !.token = @ + 1] \in Row
  BY <1>1, ConstantsAssumption DEF Row, Renew
<1>3. ext' = [ext EXCEPT ![p] = [ext[p] EXCEPT !.token = @ + 1]]
  BY <1>1 DEF Renew, Inv, Shape
<1>4. Shape' /\ Ending
  BY <1>1, <1>2, <1>3, IdleRequested DEF Inv, Shape, Renew, Ends, Ending
<1>5. Standing
  BY <1>1, <1>2, <1>3, ConstantsAssumption DEF Inv, Shape, Standing, Row
<1> QED
  BY <1>4, <1>5, StandingKeeps DEF Renew

LEMMA DeleteInvoiceKeeps ==
  ASSUME Inv, NEW i \in Invoices, DeleteInvoice(i)
  PROVE Inv'
<1>1. ASSUME NEW p \in Payments, ext[p] # None
      PROVE  ext[p] \in Row /\ [ext[p] EXCEPT !.invoice = None] \in Row
  BY <1>1 DEF Inv, Shape, Row
<1>2. Shape' /\ Ending
  BY <1>1 DEF Inv, Shape, DeleteInvoice, Ending, Known
<1>3. Standing
  BY <1>1, ConstantsAssumption DEF DeleteInvoice, Standing, Row, Known
<1> QED
  BY <1>2, <1>3, StandingKeeps DEF DeleteInvoice

-----------------------------------------------------------------------------
(* Requests that read                                                      *)

LEMMA DeliverKeeps ==
  ASSUME Inv, NEW r \in Requests, NEW ref \in References, NEW i \in Invoices \cup {None},
         Deliver(r, ref, i)
  PROVE Inv'
<1>1. Shape' /\ WellAddressed'
  BY DEF Inv, Shape, Requested, WellAddressed, Claimed, Known, Deliver, Idle
<1>2. ClaimsHold' /\ ClaimsFresh'
  BY DEF Inv, Shape, Requested, ClaimsHold, ClaimsFresh, Claimed, Pending, Approved, Known, Deliver, Idle
<1>3. BookedWhenApproved' /\ ApprovedOnce' /\ ToldTruth'
  BY DEF Inv, BookedWhenApproved, ApprovedOnce, ToldTruth, Approved, Known, Deliver
<1>4. OneOpen'
  BY ConstantsAssumption DEF Inv, Shape, Requested, OneOpen, IsOpen, Known, Deliver, Recorded, Idle
<1> QED
  BY <1>1, <1>2, <1>3, <1>4 DEF Inv

LEMMA StartKeeps ==
  ASSUME Inv, NEW r \in Requests, NEW p \in Payments, NEW op \in {"resend", "yes", "no"},
         Start(r, op, p)
  PROVE Inv'
<1>1. ext[p] \in Row
  BY DEF Start, Answerable, Known, Inv, Shape
<1>2. Shape'
  BY <1>1 DEF Inv, Shape, Requested, Row, Start
<1>3. WellAddressed'
  BY DEF Inv, Shape, Requested, WellAddressed, Claimed, Known, Start, Answerable, Idle
<1>4. ClaimsHold' /\ ClaimsFresh'
  BY DEF Inv, Shape, Requested, ClaimsHold, ClaimsFresh, Claimed, Pending, Approved, Known, Start, Idle
<1>5. BookedWhenApproved' /\ ApprovedOnce' /\ ToldTruth'
  BY DEF Inv, BookedWhenApproved, ApprovedOnce, ToldTruth, Approved, Known, Start
<1>6. OneOpen'
  BY ConstantsAssumption DEF Inv, Shape, Requested, OneOpen, IsOpen, Known, Start, Idle
<1> QED
  BY <1>2, <1>3, <1>4, <1>5, <1>6 DEF Inv

-----------------------------------------------------------------------------
(* Steps that change what a payment's row says                             *)

LEMMA ReceiveKeeps ==
  ASSUME Inv, NEW r \in Requests, NEW p \in Payments, Receive(r, p)
  PROVE Inv'
<1> DEFINE row == [ref |-> request[r].ref, invoice |-> request[r].invoice, token |-> 1,
                   window |-> "open", status |-> "pending_confirmation"]
<1>1. row \in Row
  BY ConstantsAssumption DEF Inv, Shape, Requested, WellAddressed, Receive, Row
<1>2. /\ ext[p] = None /\ ext'[p] = row /\ row # None
      /\ \A q \in Payments \ {p} : ext'[q] = ext[q]
  BY <1>1, ConstantsAssumption DEF Inv, Shape, Receive
<1>3. Shape'
  BY <1>1, IdleRequested DEF Inv, Shape, Receive, Ends
<1>4. \A q \in Requests : request'[q] = request[q] \/ request'[q] = Idle
  BY DEF Inv, Shape, Receive, Ends
<1>5. WellAddressed'
  BY <1>2, <1>4, ConstantsAssumption DEF Inv, Shape, Requested, WellAddressed, Claimed, Known, Idle
<1>6. ClaimsHold' /\ ClaimsFresh'
  BY <1>2, <1>4, ConstantsAssumption
  DEF Inv, Shape, Requested, WellAddressed, ClaimsHold, ClaimsFresh, Claimed, Pending, Approved, Known,
                    Idle
<1>7. BookedWhenApproved' /\ ApprovedOnce' /\ ToldTruth'
  BY <1>2 DEF Inv, BookedWhenApproved, ApprovedOnce, ToldTruth, Approved, Known, Receive
<1>8. OneOpen'
  <2> SUFFICES ASSUME OneByOne
               PROVE  OneOpen'
    BY DEF OneOpen
  <2>1. \A q \in Payments : IsOpen(q) => ext[q].ref # row.ref
    BY DEF Inv, OneOpen, Receive
  <2>2. \A q \in Requests \ {r} : request[q].op = "deliver" => request[q].ref # row.ref
    BY DEF Inv, OneOpen, Receive
  <2>3. request'[r] = Idle /\ \A q \in Requests \ {r} : request'[q] = request[q]
    BY DEF Inv, Shape, Receive, Ends
  <2>4. \A q \in Payments : IsOpen(q)' => q = p \/ IsOpen(q)
    BY <1>2 DEF IsOpen, Known
  <2> QED
    BY <1>2, <2>1, <2>2, <2>3, <2>4, ConstantsAssumption DEF Inv, OneOpen, Idle
<1> QED
  BY <1>3, <1>5, <1>6, <1>7, <1>8 DEF Inv

LEMMA ClaimKeeps ==
  ASSUME Inv, NEW r \in Requests, Claim(r)
  PROVE Inv'
<1> DEFINE p == request[r].pay
           fresh == Pending(p) /\ Recorded(ext[p].ref, {"approved"}) \subseteq {p}
<1>1. p \in Known /\ request[r] \in Requested /\ request[r].op = "yes"
  BY DEF Inv, Shape, WellAddressed, Claim
<1>2. request' = [request EXCEPT ![r] = IF fresh THEN [request[r] EXCEPT !.step = "claimed"] ELSE Idle]
  BY DEF Claim
<1>3. /\ \A q \in Requests \ {r} : request'[q] = request[q]
      /\ request'[r] = IF fresh THEN [request[r] EXCEPT !.step = "claimed"] ELSE Idle
  BY <1>2 DEF Inv, Shape
<1>4. [request[r] EXCEPT !.step = "claimed"] \in Requested
  BY <1>1 DEF Requested
<1>5. /\ Claimed(r)' => fresh
      /\ request'[r].pay = p \/ request'[r] = Idle
      /\ request'[r].op \in {"yes", None}
  BY <1>1, <1>3 DEF Claimed, Idle, Requested
<1>6. Shape'
  BY <1>2, <1>4, IdleRequested DEF Inv, Shape, Claim
<1>7. WellAddressed'
  BY <1>1, <1>3, <1>4, <1>5, ConstantsAssumption DEF Inv, WellAddressed, Claimed, Known, Idle, Claim, Requested
<1>8. ClaimsHold'
  BY <1>1, <1>3, <1>5 DEF Inv, ClaimsHold, Claimed, Pending, Writes, Claim, Idle, Requested
<1>9. BookedWhenApproved' /\ ApprovedOnce' /\ ToldTruth'
  BY DEF Inv, BookedWhenApproved, ApprovedOnce, ToldTruth, Approved, Known, Claim
<1>10. ClaimsFresh'
  <2>1. fresh => \A q \in Payments : Approved(q) => ext[q].ref # ext[p].ref
    BY DEF Recorded, Approved, Pending
  <2>2. Claimed(r)' => request'[r].pay = p
    BY <1>5 DEF Claimed, Idle
  <2> QED
    BY <1>3, <1>5, <2>1, <2>2 DEF Inv, ClaimsFresh, Claimed, Approved, Known, Claim
<1>11. OneOpen'
  BY <1>1, <1>3, <1>5, ConstantsAssumption DEF Inv, OneOpen, IsOpen, Known, Claim
<1> QED
  BY <1>6, <1>7, <1>8, <1>9, <1>10, <1>11 DEF Inv

LEMMA BookKeeps ==
  ASSUME SingleWriter \/ OneByOne, Inv, NEW r \in Requests, Book(r)
  PROVE Inv'
<1> DEFINE p == request[r].pay
<1>1. p \in Payments /\ p \in Known /\ ext[p] \in Row /\ ext[p].status = "pending_confirmation" /\ Claimed(r)
  BY DEF Inv, Shape, WellAddressed, ClaimsHold, Pending, Known, Book
<1>2. [ext[p] EXCEPT !.status = "approved"] \in Row
  BY <1>1 DEF Row
<1>3. /\ ext' = [ext EXCEPT ![p] = [ext[p] EXCEPT !.status = "approved"]]
      /\ receipts' = [receipts EXCEPT ![p] = receipts[p] + 1]
      /\ told' = [told EXCEPT ![p] = told[p] \cup {"approved"}]
  BY <1>1 DEF Book, Inv, Shape
<1>4. /\ ext'[p] # None /\ ext'[p].ref = ext[p].ref /\ ext'[p].status = "approved"
      /\ \A q \in Payments \ {p} : ext'[q] = ext[q] /\ receipts'[q] = receipts[q] /\ told'[q] = told[q]
      /\ receipts'[p] = receipts[p] + 1 /\ told'[p] = told[p] \cup {"approved"}
  BY <1>1, <1>2, <1>3, ConstantsAssumption DEF Inv, Shape, Row
<1>5. request'[r] = Idle /\ \A q \in Requests \ {r} : request'[q] = request[q]
  BY DEF Inv, Shape, Book, Ends
<1>6. Shape'
  BY <1>1, <1>2, <1>3, IdleRequested DEF Inv, Shape, Book, Ends
<1>7. \A q \in Payments : Approved(q)' <=> Approved(q) \/ q = p
  BY <1>1, <1>4 DEF Approved, Known
<1>8. WellAddressed'
  BY <1>1, <1>4, <1>5, ConstantsAssumption DEF Inv, WellAddressed, Claimed, Known, Idle
<1>9. \A q \in Requests \ {r} : Claimed(q) => request[q].pay # p /\ request[q].pay \in Known
  BY <1>1 DEF Inv, ClaimsHold, WellAddressed
<1>10. ClaimsHold'
  BY <1>4, <1>5, <1>9 DEF Inv, ClaimsHold, Claimed, Pending, Known, Idle
<1>11. BookedWhenApproved'
  BY <1>1, <1>4, <1>7 DEF Inv, Shape, BookedWhenApproved, Approved
<1>12. ApprovedOnce'
  BY <1>1, <1>4, <1>7 DEF Inv, ApprovedOnce, ClaimsFresh
<1>13. ClaimsFresh'
  \* Another claim is of another transaction.
  <2>1. ASSUME NEW q \in Requests \ {r}, Claimed(q)
        PROVE  ext[request[q].pay].ref # ext[p].ref
    <3>1. ~SingleWriter /\ OneByOne
      BY <1>1, <2>1, ConstantsAssumption DEF Inv, ClaimsHold
    <3>2. IsOpen(p) /\ IsOpen(request[q].pay)
      BY <1>1, <1>9, <2>1 DEF Inv, ClaimsHold, Pending, IsOpen, Open
    <3> QED
      BY <1>1, <1>9, <2>1, <3>1, <3>2 DEF Inv, OneOpen, Known
  <2> QED
    BY <1>1, <1>4, <1>5, <1>7, <1>9, <2>1 DEF Inv, ClaimsFresh, Claimed, Known, Idle
<1>14. OneOpen'
  <2>1. \A q \in Payments : IsOpen(q)' <=> IsOpen(q)
    BY <1>1, <1>4 DEF IsOpen, Open, Known
  <2>2. \A q \in Payments : ext'[q].ref = ext[q].ref
    BY <1>4
  <2> QED
    BY <1>5, <2>1, <2>2, ConstantsAssumption DEF Inv, OneOpen, Idle
<1>15. ToldTruth'
  BY <1>1, <1>4 DEF Inv, Shape, ToldTruth, Known
<1> QED
  BY <1>6, <1>8, <1>10, <1>11, <1>12, <1>13, <1>14, <1>15 DEF Inv

LEMMA RejectKeeps ==
  ASSUME Inv, NEW r \in Requests, Reject(r)
  PROVE Inv'
<1> DEFINE p == request[r].pay
<1>1. p \in Payments /\ p \in Known /\ ext[p] \in Row
  BY DEF Inv, Shape, WellAddressed, Known, Reject
<1>2. CASE ~Rejectable(p)
  <2>1. Shape' /\ Ending /\ Standing
    BY <1>2, IdleRequested DEF Inv, Shape, Reject, Ends, Ending, Standing
  <2> QED
    BY <1>2, <2>1, StandingKeeps DEF Reject
<1>3. CASE Rejectable(p)
  <2>1. [ext[p] EXCEPT !.status = "rejected"] \in Row
    BY <1>1 DEF Row
  <2>2. /\ ext' = [ext EXCEPT ![p] = [ext[p] EXCEPT !.status = "rejected"]]
        /\ told' = [told EXCEPT ![p] = told[p] \cup {"rejected"}]
    BY <1>1, <1>3 DEF Reject, Inv, Shape
  <2>3. /\ ext'[p] # None /\ ext'[p].ref = ext[p].ref /\ ext'[p].status = "rejected"
        /\ \A q \in Payments \ {p} : ext'[q] = ext[q] /\ told'[q] = told[q]
        /\ told'[p] = told[p] \cup {"rejected"}
    BY <1>1, <2>1, <2>2, ConstantsAssumption DEF Inv, Shape, Row
  <2>4. request'[r] = Idle /\ \A q \in Requests \ {r} : request'[q] = request[q]
    BY DEF Inv, Shape, Reject, Ends
  <2>5. Shape'
    BY <1>1, <2>1, <2>2, IdleRequested DEF Inv, Shape, Reject, Ends
  <2>6. \A q \in Payments : Approved(q)' <=> Approved(q)
    BY <1>1, <1>3, <2>3 DEF Approved, Known, Rejectable
  <2>7. WellAddressed'
    BY <1>1, <2>3, <2>4, ConstantsAssumption DEF Inv, WellAddressed, Claimed, Known, Idle
  <2>8. \A q \in Requests \ {r} : Claimed(q) => request[q].pay # p /\ request[q].pay \in Known
    BY DEF Inv, WellAddressed, Writes, Reject
  <2>9. ClaimsHold'
    BY <2>3, <2>4, <2>8 DEF Inv, ClaimsHold, Claimed, Pending, Known, Idle
  <2>10. BookedWhenApproved' /\ ApprovedOnce'
    BY <2>3, <2>6 DEF Inv, BookedWhenApproved, ApprovedOnce, Reject
  <2>11. ClaimsFresh'
    BY <2>3, <2>4, <2>6, <2>8 DEF Inv, ClaimsFresh, Claimed, Known, Idle
  <2>12. OneOpen'
    <3>1. \A q \in Payments : IsOpen(q)' => IsOpen(q)
      BY <1>1, <2>3 DEF IsOpen, Open, Known
    <3> QED
      BY <2>3, <2>4, <3>1, ConstantsAssumption DEF Inv, OneOpen, Idle
  <2>13. ToldTruth'
    BY <1>1, <1>3, <2>3 DEF Inv, Shape, ToldTruth, Known, Rejectable
  <2> QED
    BY <2>5, <2>7, <2>9, <2>10, <2>11, <2>12, <2>13 DEF Inv
<1> QED
  BY <1>2, <1>3

LEMMA DeletePaymentKeeps ==
  ASSUME Inv, NEW p \in Payments, DeletePayment(p)
  PROVE Inv'
<1>1. Approved(p) /\ receipts[p] = 1 /\ ext[p] \in Row
  BY DEF Inv, Shape, BookedWhenApproved, Approved, Known, DeletePayment
<1>2. [ext[p] EXCEPT !.status = "reversed"] \in Row
  BY <1>1 DEF Row
<1>3. /\ ext' = [ext EXCEPT ![p] = [ext[p] EXCEPT !.status = "reversed"]]
      /\ receipts' = [receipts EXCEPT ![p] = receipts[p] - 1]
  BY DEF DeletePayment, Unlinked, Inv, Shape
<1>4. /\ ext'[p] # None /\ ext'[p].ref = ext[p].ref /\ ext'[p].status = "reversed"
      /\ \A q \in Payments \ {p} : ext'[q] = ext[q] /\ receipts'[q] = receipts[q]
      /\ receipts'[p] = 0
  BY <1>1, <1>2, <1>3, ConstantsAssumption DEF Inv, Shape, Row
<1>5. Shape'
  BY <1>1, <1>2, <1>3 DEF Inv, Shape, DeletePayment
<1>6. \A q \in Payments : Approved(q)' <=> Approved(q) /\ q # p
  BY <1>4 DEF Approved, Known
<1>7. WellAddressed'
  BY <1>1, <1>4 DEF Inv, WellAddressed, Claimed, Known, Approved, DeletePayment
<1>8. ClaimsHold'
  BY <1>1, <1>4 DEF Inv, WellAddressed, ClaimsHold, Claimed, Pending, Known, Approved, DeletePayment
<1>9. BookedWhenApproved' /\ ApprovedOnce'
  BY <1>4, <1>6 DEF Inv, BookedWhenApproved, ApprovedOnce
<1>10. ClaimsFresh'
  BY <1>4, <1>6 DEF Inv, WellAddressed, ClaimsFresh, Claimed, Known, DeletePayment
<1>11. OneOpen'
  <2>1. \A q \in Payments : IsOpen(q)' => IsOpen(q)
    BY <1>4 DEF IsOpen, Open, Known
  <2> QED
    BY <1>4, <2>1 DEF Inv, OneOpen, DeletePayment
<1>12. ToldTruth'
  BY <1>1, <1>4 DEF Inv, ToldTruth, Approved, Known, DeletePayment
<1> QED
  BY <1>5, <1>7, <1>8, <1>9, <1>10, <1>11, <1>12 DEF Inv

-----------------------------------------------------------------------------
(* The theorems                                                            *)

LEMMA InitInv == Init => Inv
  BY IdleRequested, ConstantsAssumption
  DEF Init, Inv, Shape, WellAddressed, ClaimsHold, BookedWhenApproved, ApprovedOnce, ClaimsFresh,
     OneOpen, ToldTruth, Claimed, Approved, IsOpen, Known, Idle

LEMMA NextInv ==
  ASSUME SingleWriter \/ OneByOne
  PROVE Inv /\ [Next]_vars => Inv'
<1> SUFFICES ASSUME Inv, [Next]_vars PROVE Inv'
  OBVIOUS
<1>1. ASSUME NEW r \in Requests, NEW ref \in References, NEW i \in Invoices \cup {None}, Deliver(r, ref, i)
      PROVE  Inv'
  BY <1>1, DeliverKeeps
<1>2. ASSUME NEW r \in Requests, NEW p \in Payments, Receive(r, p) \/ Resend(r, p)
      PROVE  Inv'
  BY <1>2, ReceiveKeeps, StartKeeps DEF Resend
<1>3. ASSUME NEW r \in Requests, NEW p \in Payments, NEW decision \in {"yes", "no"}, Follow(r, p, decision)
      PROVE  Inv'
  BY <1>3, StartKeeps DEF Follow
<1>4. ASSUME NEW r \in Requests, Renew(r) \/ Claim(r) \/ Book(r) \/ Abort(r) \/ Reject(r)
      PROVE  Inv'
  BY <1>4, RenewKeeps, ClaimKeeps, BookKeeps, AbortKeeps, RejectKeeps
<1>5. ASSUME NEW p \in Payments, Expire(p) \/ DeletePayment(p)
      PROVE  Inv'
  BY <1>5, ExpireKeeps, DeletePaymentKeeps
<1>6. ASSUME NEW i \in Invoices, DeleteInvoice(i)
      PROVE  Inv'
  BY <1>6, DeleteInvoiceKeeps
<1>7. ASSUME UNCHANGED <<ext, receipts, request, told>>
      PROVE  Inv'
  BY <1>7 DEF Inv, Shape, WellAddressed, ClaimsHold, BookedWhenApproved, ApprovedOnce, ClaimsFresh, OneOpen, ToldTruth,
     Claimed, Pending, Approved, IsOpen, Known
<1>8. ASSUME NEW i \in Invoices, PayAtDesk(i) \/ Void(i)
      PROVE  Inv'
  BY <1>7, <1>8 DEF PayAtDesk, Void
<1>9. CASE UNCHANGED vars
  BY <1>7, <1>9 DEF vars
<1> QED
  BY <1>1, <1>2, <1>3, <1>4, <1>5, <1>6, <1>8, <1>9 DEF Next

-----------------------------------------------------------------------------
(* What was received for an invoice                                        *)

\* Two sums differ by what one element contributes more.
LEMMA SumsDiffer ==
  ASSUME NEW S, IsFiniteSet(S), NEW T \in SUBSET S, NEW U \in SUBSET S, NEW f, NEW g,
         \A x \in S : f[x] \in Nat /\ g[x] \in Nat, NEW a \in S, NEW d \in Int,
         \A x \in S \ {a} : (IF x \in T THEN f[x] ELSE 0) = (IF x \in U THEN g[x] ELSE 0),
         (IF a \in U THEN g[a] ELSE 0) = (IF a \in T THEN f[a] ELSE 0) + d
  PROVE  SumFunctionOnSet(g, U) = SumFunctionOnSet(f, T) + d
<1> DEFINE ft == [x \in S |-> IF x \in T THEN f[x] ELSE 0]
           gu == [x \in S |-> IF x \in U THEN g[x] ELSE 0]
<1>1. /\ \A x \in S : ft[x] \in Int /\ gu[x] \in Int
      /\ \A x \in S \ {a} : ft[x] = gu[x]
      /\ gu[a] - ft[a] = d
      /\ \A x \in S \ T : ft[x] = 0
      /\ \A x \in S \ U : gu[x] = 0
      /\ \A x \in T : f[x] = ft[x]
      /\ \A x \in U : g[x] = gu[x]
      /\ IsFiniteSet(T) /\ IsFiniteSet(U)
  BY FS_Subset
<1> HIDE DEF ft, gu
<1>2. SumFunctionOnSet(gu, S) = SumFunctionOnSet(ft, S) + (gu[a] - ft[a])
  BY <1>1, SumChanges
<1>3. SumFunctionOnSet(ft, S) = SumFunctionOnSet(ft, T) /\ SumFunctionOnSet(gu, S) = SumFunctionOnSet(gu, U)
  BY <1>1, SumOfSupport
<1>4. SumFunctionOnSet(f, T) = SumFunctionOnSet(ft, T) /\ SumFunctionOnSet(g, U) = SumFunctionOnSet(gu, U)
  BY <1>1, SumAgrees
<1> QED
  BY <1>1, <1>2, <1>3, <1>4

\* Nothing is more than the sum that it is part of.
LEMMA TermBelowSum ==
  ASSUME NEW S, IsFiniteSet(S), NEW f, \A x \in S : f[x] \in Nat, NEW a \in S
  PROVE  f[a] <= SumFunctionOnSet(f, S)
<1>1. IsFiniteSet(S \ {a})
  BY FS_Subset
<1>2. SumFunctionOnSet(f, S \ {a}) \in Nat
  BY <1>1, SumIsNat
<1>3. SumFunctionOnSet(f, S) = f[a] + SumFunctionOnSet(f, S \ {a})
  BY SumRemoves
<1> QED
  BY <1>2, <1>3

Paying(i) == {p \in Known : ext[p].invoice = i}
ReceivedFor(i) == SumFunctionOnSet(receipts, Paying(i))

LEMMA ReceivedIsNat ==
  ASSUME Shape, NEW i PROVE ReceivedFor(i) \in Nat /\ IsFiniteSet(Paying(i)) /\ Paying(i) \in SUBSET Payments
<1>1. Paying(i) \in SUBSET Payments
  BY DEF Paying, Known
<1>2. IsFiniteSet(Paying(i))
  BY <1>1, FS_Subset, ConstantsAssumption
<1>3. \A p \in Paying(i) : receipts[p] \in Nat
  BY <1>1 DEF Shape
<1> QED
  BY <1>1, <1>2, <1>3, SumIsNat DEF ReceivedFor

\* Rows that bring in something stay with their invoice.
Staying == \A p \in Payments : receipts[p] # 0 => ext'[p] # None /\ ext'[p].invoice = ext[p].invoice

\* A step that changes what one payment brings in.
LEMMA ReceivedChanges ==
  ASSUME Inv, Inv', NEW i \in Invoices, NEW p \in Payments, NEW d \in Int, Staying,
         \A q \in Payments \ {p} : receipts'[q] = receipts[q],
         (IF p \in Paying(i)' THEN receipts'[p] ELSE 0) = (IF p \in Paying(i) THEN receipts[p] ELSE 0) + d
  PROVE  ReceivedFor(i)' = ReceivedFor(i) + d
<1>1. /\ Paying(i) \in SUBSET Payments /\ Paying(i)' \in SUBSET Payments
      /\ \A q \in Payments : receipts[q] \in Nat /\ receipts'[q] \in Nat
  BY DEF Inv, Shape, Paying, Known
<1>2. \A q \in Payments : receipts[q] # 0 => ext[q] # None
  BY DEF Inv, BookedWhenApproved, Approved, Known
<1>3. \A q \in Payments \ {p} :
        (IF q \in Paying(i) THEN receipts[q] ELSE 0) = (IF q \in Paying(i)' THEN receipts'[q] ELSE 0)
  BY <1>1, <1>2 DEF Staying, Paying, Known
<1>4. IsFiniteSet(Payments)
  BY ConstantsAssumption
<1>5. ASSUME NEW T \in SUBSET Payments, NEW U \in SUBSET Payments, NEW f, NEW g,
             \A q \in Payments : f[q] \in Nat /\ g[q] \in Nat,
             \A q \in Payments \ {p} : (IF q \in T THEN f[q] ELSE 0) = (IF q \in U THEN g[q] ELSE 0),
             (IF p \in U THEN g[p] ELSE 0) = (IF p \in T THEN f[p] ELSE 0) + d
      PROVE  SumFunctionOnSet(g, U) = SumFunctionOnSet(f, T) + d
  BY <1>4, <1>5, SumsDiffer
<1>6. SumFunctionOnSet(receipts', Paying(i)') = SumFunctionOnSet(receipts, Paying(i)) + d
  BY <1>1, <1>3, <1>5
<1> QED
  BY <1>6 DEF ReceivedFor

LEMMA ReceivedStays ==
  ASSUME Inv, Inv', NEW i \in Invoices, Staying, receipts' = receipts
  PROVE  ReceivedFor(i)' = ReceivedFor(i)
<1>1. CASE Payments = {}
  BY <1>1 DEF ReceivedFor, Paying, Known
<1>2. CASE Payments # {}
  <2>1. PICK p \in Payments : TRUE
    BY <1>2
  <2>2. 0 \in Int /\ \A q \in Payments \ {p} : receipts'[q] = receipts[q]
    OBVIOUS
  <2>3. receipts[p] # 0 => ext[p] # None
    BY DEF Inv, BookedWhenApproved, Approved, Known
  <2>4. (IF p \in Paying(i)' THEN receipts'[p] ELSE 0) = (IF p \in Paying(i) THEN receipts[p] ELSE 0) + 0
    BY <2>3 DEF Inv, Shape, Staying, Paying, Known
  <2>5. ReceivedFor(i)' = ReceivedFor(i) + 0
    BY <2>2, <2>4, ReceivedChanges
  <2> QED
    BY <2>5, ReceivedIsNat DEF Inv
<1> QED
  BY <1>1, <1>2

MoneyInv == TypeOK /\ SameInvoice /\ PaidFits

\* What a request says it pays is what it said, or what its row says.
AskingTheSame ==
  \A r \in Requests : request'[r].op = "yes" =>
    \/ request[r].op = "yes" /\ request'[r].pay = request[r].pay /\ request'[r].invoice = request[r].invoice
    \/ request'[r].invoice = ext'[request'[r].pay].invoice

\* Rows stay with their invoices, and what is deleted stays so.
LinkedTheSame ==
  /\ \A p \in Known : ext'[p] # None /\ ext'[p].invoice = ext[p].invoice
  /\ \A i \in Invoices : invoice[i].status = "deleted" => invoice'[i].status = "deleted"

LEMMA SameInvoiceStays ==
  ASSUME Inv, Inv', MoneyInv, AskingTheSame, LinkedTheSame
  PROVE  SameInvoice'
<1> SUFFICES ASSUME NEW r \in Requests, request'[r].op = "yes"
             PROVE  \/ request'[r].invoice = ext'[request'[r].pay].invoice
                    \/ request'[r].invoice # None /\ invoice'[request'[r].invoice].status = "deleted"
  BY DEF SameInvoice
<1>1. CASE request'[r].invoice = ext'[request'[r].pay].invoice
  BY <1>1
<1>2. CASE request[r].op = "yes" /\ request'[r].pay = request[r].pay /\ request'[r].invoice = request[r].invoice
  <2>1. request[r].pay \in Known /\ request[r].invoice \in Invoices \cup {None}
    BY <1>2 DEF Inv, Shape, WellAddressed, Requested
  <2> QED
    BY <1>2, <2>1 DEF MoneyInv, SameInvoice, LinkedTheSame
<1> QED
  BY <1>1, <1>2 DEF AskingTheSame

LEMMA PaidFitsStays ==
  ASSUME Inv, Inv', MoneyInv, Staying, receipts' = receipts,
         \A i \in Invoices : invoice'[i].paid = invoice[i].paid /\ invoice'[i].desk = invoice[i].desk
  PROVE  PaidFits'
<1>1. \A i \in Invoices : ReceivedFor(i)' = ReceivedFor(i)
  BY ReceivedStays
<1> QED
  BY <1>1 DEF MoneyInv, PaidFits, ReceivedFor, Paying

\* Steps that leave receipts and invoices alone.
LEMMA MoneyStays ==
  ASSUME Inv, Inv', MoneyInv, UNCHANGED <<receipts, invoice>>, AskingTheSame, LinkedTheSame,
         links' \subseteq Payments \X (1..MaxTokens)
  PROVE  MoneyInv'
<1>1. TypeOK'
  BY DEF Inv, Shape, MoneyInv, TypeOK
<1>2. SameInvoice'
  BY SameInvoiceStays
<1>3. Staying
  BY DEF Inv, BookedWhenApproved, Approved, Staying, LinkedTheSame, Known
<1>4. PaidFits'
  BY <1>3, PaidFitsStays
<1> QED
  BY <1>1, <1>2, <1>4 DEF MoneyInv

LEMMA RequestsKeepMoney ==
  ASSUME Inv, Inv', MoneyInv, NEW r \in Requests, UNCHANGED <<receipts, invoice>>,
         \/ \E ref \in References, i \in Invoices \cup {None} : Deliver(r, ref, i)
         \/ \E p \in Payments, op \in {"resend", "yes", "no"} : Start(r, op, p)
         \/ Claim(r) \/ Abort(r)
  PROVE  MoneyInv'
<1>1. LinkedTheSame /\ links' \subseteq Payments \X (1..MaxTokens)
  BY DEF MoneyInv, TypeOK, LinkedTheSame, Known, Deliver, Start, Claim, Abort
<1>2. request \in [Requests -> Requested] /\ None # "yes"
  BY ConstantsAssumption DEF Inv, Shape
<1>3. AskingTheSame
  <2>1. ASSUME NEW ref \in References, NEW i \in Invoices \cup {None}, Deliver(r, ref, i)
        PROVE  AskingTheSame
    BY <1>2, <2>1 DEF AskingTheSame, Deliver
  <2>2. ASSUME NEW p \in Payments, NEW op \in {"resend", "yes", "no"}, Start(r, op, p)
        PROVE  AskingTheSame
    BY <1>2, <2>2 DEF AskingTheSame, Start
  <2>3. CASE Claim(r)
    BY <1>2, <2>3 DEF AskingTheSame, Claim, Idle, Requested
  <2>4. CASE Abort(r)
    BY <1>2, <2>4 DEF AskingTheSame, Abort, Ends, Idle
  <2> QED
    BY <2>1, <2>2, <2>3, <2>4
<1> QED
  BY <1>1, <1>3, MoneyStays

LEMMA RowsKeepMoney ==
  ASSUME Inv, Inv', MoneyInv, NEW r \in Requests, NEW p \in Payments,
         Receive(r, p) \/ Renew(r) \/ Reject(r)
  PROVE  MoneyInv'
<1>1. /\ request \in [Requests -> Requested] /\ ext \in [Payments -> {None} \cup Row] /\ None # "yes"
      /\ request[r].op \in {"resend", "yes", "no"} => request[r].pay \in Known
  BY ConstantsAssumption DEF Inv, Shape, WellAddressed
<1>2. ext' \in [Payments -> {None} \cup Row] /\ UNCHANGED <<receipts, invoice>>
  BY DEF Inv, Shape, Receive, Renew, Reject
<1>3. ASSUME NEW q \in Known PROVE ext'[q] # None /\ ext'[q].invoice = ext[q].invoice
  <2>1. ext[q] \in Row /\ None \notin Row
    BY <1>1, <1>3, ConstantsAssumption DEF Known
  <2>2. CASE Receive(r, p)
    BY <1>1, <2>1, <2>2 DEF Receive, Known
  <2>3. CASE Renew(r)
    BY <1>1, <1>3, <2>1, <2>3, ConstantsAssumption DEF Renew, Known, Row
  <2>4. CASE Reject(r)
    BY <1>1, <1>3, <2>1, <2>4, ConstantsAssumption DEF Reject, Known, Row
  <2> QED
    BY <2>2, <2>3, <2>4
<1>4. LinkedTheSame
  BY <1>2, <1>3 DEF LinkedTheSame
<1>5. \A q \in Requests : request'[q] = request[q] \/ request'[q] = Idle
  BY <1>1 DEF Receive, Renew, Reject, Ends
<1>6. AskingTheSame
  BY <1>1, <1>5 DEF AskingTheSame, Idle
<1>7. links' \subseteq Payments \X (1..MaxTokens)
  <2>1. CASE Receive(r, p)
    BY <2>1, ConstantsAssumption DEF MoneyInv, TypeOK, Receive, Mailed
  <2>2. CASE Renew(r)
    <3>1. request[r].pay \in Payments /\ ext'[request[r].pay] \in Row
      BY <1>1, <1>2, <1>3, <2>2 DEF Renew, Known
    <3> QED
      BY <2>2, <3>1 DEF MoneyInv, TypeOK, Renew, Mailed, Row
  <2>3. CASE Reject(r)
    BY <2>3 DEF MoneyInv, TypeOK, Reject
  <2> QED
    BY <2>1, <2>2, <2>3
<1> QED
  BY <1>2, <1>4, <1>6, <1>7, MoneyStays

\* An invoice is paid what a payment brings in, or loses it.
LEMMA PaysAsReceived ==
  ASSUME Inv, Inv', MoneyInv, NEW p \in Known, NEW n \in {1, -1},
         invoice' = Pays(ext[p].invoice, n), Fits(ext[p].invoice) \/ n = -1,
         receipts'[p] = receipts[p] + n, \A q \in Payments \ {p} : receipts'[q] = receipts[q],
         LinkedTheSame, AskingTheSame, links' = links
  PROVE  MoneyInv'
<1> DEFINE i == ext[p].invoice
           Share(k) == IF k = i THEN n ELSE 0
<1>1. /\ p \in Payments /\ ext[p] \in Row /\ ext'[p] # None /\ ext'[p].invoice = i
      /\ i \in Invoices \cup {None} /\ None \notin Invoices /\ n \in Int
  BY ConstantsAssumption DEF Inv, Shape, Known, LinkedTheSame, Row
<1>2. Staying
  BY DEF Inv, BookedWhenApproved, Approved, Staying, LinkedTheSame, Known
<1>3. ASSUME NEW k \in Invoices PROVE ReceivedFor(k)' = ReceivedFor(k) + Share(k)
  <2>1. p \in Paying(k)' <=> k = i
    BY <1>1 DEF Paying, Known
  <2>2. p \in Paying(k) <=> k = i
    BY <1>1 DEF Paying
  <2>3. (IF p \in Paying(k)' THEN receipts'[p] ELSE 0) = (IF p \in Paying(k) THEN receipts[p] ELSE 0) + Share(k)
    BY <2>1, <2>2
  <2>4. Share(k) \in Int
    BY <1>1
  <2> HIDE DEF Share
  <2> QED
    BY <1>1, <1>2, <2>3, <2>4, ReceivedChanges
<1>4. invoice \in [Invoices -> [status : {"sent", "void", "deleted"}, paid : 0..Total, desk : 0..Total]]
  BY DEF MoneyInv, TypeOK
<1>5. ASSUME NEW k \in Invoices
      PROVE  /\ invoice[k] \in [status : {"sent", "void", "deleted"}, paid : 0..Total, desk : 0..Total]
             /\ invoice'[k].paid = invoice[k].paid + Share(k)
             /\ invoice'[k].status = invoice[k].status /\ invoice'[k].desk = invoice[k].desk
             /\ invoice'[k] = [status |-> invoice'[k].status, paid |-> invoice'[k].paid, desk |-> invoice'[k].desk]
  <2>1. invoice[k] \in [status : {"sent", "void", "deleted"}, paid : 0..Total, desk : 0..Total]
    BY <1>4
  <2>2. CASE k = i
    <3>1. invoice'[k] = [invoice[k] EXCEPT !.paid = invoice[k].paid + n]
      BY <1>1, <1>4, <2>2 DEF Pays
    <3> QED
      BY <2>1, <2>2, <3>1
  <2>3. CASE k # i
    <3>1. invoice'[k] = invoice[k]
      BY <1>4, <2>3 DEF Pays
    <3> QED
      BY <2>1, <2>3, <3>1
  <2> QED
    BY <2>1, <2>2, <2>3
<1>6. ASSUME NEW k \in Invoices
      PROVE  /\ invoice'[k].paid = invoice'[k].desk + ReceivedFor(k)' /\ invoice'[k].paid \in 0..Total
             /\ invoice'[k].status = invoice[k].status /\ invoice'[k].desk = invoice[k].desk
  <2>1. Share(k) = 1 => invoice[k].paid < Total
    BY <1>1 DEF Fits
  <2>2. Share(k) \in {0, 1, -1}
    OBVIOUS
  <2> HIDE DEF Share
  <2>3. /\ invoice[k].paid \in 0..Total /\ invoice[k].desk \in 0..Total
        /\ invoice'[k].paid = invoice[k].paid + Share(k)
        /\ invoice'[k].status = invoice[k].status /\ invoice'[k].desk = invoice[k].desk
    BY <1>5
  <2>4. invoice[k].paid = invoice[k].desk + ReceivedFor(k)
    BY DEF MoneyInv, PaidFits, ReceivedFor, Paying
  <2>5. ReceivedFor(k)' \in Nat /\ ReceivedFor(k) \in Nat /\ Total \in Nat
    <3>1. Paying(k)' \subseteq Payments /\ \A q \in Payments : receipts'[q] \in Nat
      BY DEF Inv, Shape, Paying, Known
    <3>2. IsFiniteSet(Paying(k)') /\ \A q \in Paying(k)' : receipts'[q] \in Nat
      BY <3>1, FS_Subset, ConstantsAssumption
    <3> QED
      BY <3>2, SumIsNat, ReceivedIsNat, ConstantsAssumption DEF Inv, ReceivedFor
  <2>6. ReceivedFor(k)' = ReceivedFor(k) + Share(k)
    BY <1>3
  <2> QED
    BY <2>1, <2>2, <2>3, <2>4, <2>5, <2>6
<1>7. invoice' \in [Invoices -> [status : {"sent", "void", "deleted"}, paid : 0..Total, desk : 0..Total]]
  <2>1. invoice' = [k \in Invoices |-> invoice'[k]]
    <3>1. invoice' = invoice \/ \E m : invoice' = [invoice EXCEPT ![i] = m]
      BY DEF Pays
    <3> HIDE DEF i
    <3> QED
      BY <1>4, <3>1
  <2>2. ASSUME NEW k \in Invoices
        PROVE  invoice'[k] \in [status : {"sent", "void", "deleted"}, paid : 0..Total, desk : 0..Total]
    <3>1. invoice'[k] = [status |-> invoice'[k].status, paid |-> invoice'[k].paid, desk |-> invoice'[k].desk]
      BY <1>5
    <3> QED
      BY <1>5, <1>6, <3>1
  <2> QED
    BY <2>1, <2>2
<1>8. TypeOK'
  BY <1>7 DEF Inv, Shape, MoneyInv, TypeOK
<1>9. PaidFits'
  BY <1>6, ConstantsAssumption DEF PaidFits, ReceivedFor, Paying
<1>10. SameInvoice'
  BY SameInvoiceStays
<1> QED
  BY <1>8, <1>9, <1>10 DEF MoneyInv

LEMMA BookKeepsMoney ==
  ASSUME Inv, Inv', MoneyInv, NEW r \in Requests, Book(r)
  PROVE  MoneyInv'
<1> DEFINE p == request[r].pay
<1>1. /\ p \in Known /\ p \in Payments /\ ext[p] \in Row /\ request[r].op = "yes" /\ request \in [Requests -> Requested]
      /\ ext \in [Payments -> {None} \cup Row] /\ receipts \in [Payments -> Nat] /\ None \notin Row /\ None # "yes"
  BY ConstantsAssumption DEF Inv, Shape, WellAddressed, Known, Book
<1>2. request[r].invoice = ext[p].invoice
  BY <1>1 DEF MoneyInv, SameInvoice, Book, Fits
<1>3. invoice' = Pays(ext[p].invoice, 1) /\ Fits(ext[p].invoice)
  BY <1>2 DEF Book
<1>4. receipts'[p] = receipts[p] + 1 /\ \A q \in Payments \ {p} : receipts'[q] = receipts[q]
  BY <1>1 DEF Book
<1>5. LinkedTheSame
  <2>1. ASSUME NEW q \in Known PROVE ext'[q] # None /\ ext'[q].invoice = ext[q].invoice
    BY <1>1, <2>1 DEF Book, Known, Row
  <2>2. ASSUME NEW i \in Invoices PROVE invoice'[i].status = invoice[i].status
    BY <1>3 DEF Pays, MoneyInv, TypeOK
  <2> QED
    BY <2>1, <2>2 DEF LinkedTheSame
<1>6. AskingTheSame /\ links' = links
  BY <1>1 DEF AskingTheSame, Book, Ends, Idle
<1> HIDE DEF p
<1> QED
  BY <1>1, <1>3, <1>4, <1>5, <1>6, PaysAsReceived

LEMMA DeletePaymentKeepsMoney ==
  ASSUME Inv, Inv', MoneyInv, NEW p \in Payments, DeletePayment(p)
  PROVE  MoneyInv'
<1>1. /\ p \in Known /\ ext[p] \in Row /\ ext \in [Payments -> {None} \cup Row] /\ receipts \in [Payments -> Nat]
      /\ None \notin Row
  BY ConstantsAssumption DEF Inv, Shape, BookedWhenApproved, Approved, Known, DeletePayment
<1>2. receipts'[p] = receipts[p] + -1 /\ \A q \in Payments \ {p} : receipts'[q] = receipts[q]
  BY <1>1 DEF DeletePayment
<1>3. LinkedTheSame
  <2>1. ASSUME NEW q \in Known PROVE ext'[q] # None /\ ext'[q].invoice = ext[q].invoice
    BY <1>1, <2>1 DEF DeletePayment, Unlinked, Known, Row
  <2>2. ASSUME NEW i \in Invoices PROVE invoice'[i].status = invoice[i].status
    BY DEF DeletePayment, Pays, MoneyInv, TypeOK
  <2> QED
    BY <2>1, <2>2 DEF LinkedTheSame
<1>4. AskingTheSame /\ links' = links
  <2>1. request' = request /\ links' = links
    BY DEF DeletePayment
  <2> QED
    BY <2>1 DEF AskingTheSame
<1>5. invoice' = Pays(ext[p].invoice, -1)
  BY DEF DeletePayment
<1> QED
  BY <1>1, <1>2, <1>3, <1>4, <1>5, PaysAsReceived

LEMMA PayAtDeskKeepsMoney ==
  ASSUME Inv, Inv', MoneyInv, NEW i \in Invoices, PayAtDesk(i)
  PROVE  MoneyInv'
<1>1. invoice \in [Invoices -> [status : {"sent", "void", "deleted"}, paid : 0..Total, desk : 0..Total]]
  BY DEF MoneyInv, TypeOK
<1>2. /\ invoice[i].paid < Total /\ i # None /\ Total \in Nat
      /\ UNCHANGED <<ext, receipts, links, request, told>>
  BY ConstantsAssumption DEF PayAtDesk, Fits
<1>3. invoice[i] \in [status : {"sent", "void", "deleted"}, paid : 0..Total, desk : 0..Total]
  BY <1>1
<1>4. invoice[i].desk <= invoice[i].paid
  <2>1. ReceivedFor(i) \in Nat /\ invoice[i].paid = invoice[i].desk + ReceivedFor(i)
    BY ReceivedIsNat DEF Inv, MoneyInv, PaidFits, ReceivedFor, Paying
  <2> QED
    BY <1>3, <2>1
<1> DEFINE next == [status |-> invoice[i].status, paid |-> invoice[i].paid + 1, desk |-> invoice[i].desk + 1]
<1>5. next \in [status : {"sent", "void", "deleted"}, paid : 0..Total, desk : 0..Total]
  BY <1>2, <1>3, <1>4
<1>6. invoice' = [invoice EXCEPT ![i] = next]
  <2>1. invoice' = [invoice EXCEPT ![i] =
                      [[invoice[i] EXCEPT !.paid = invoice[i].paid + 1] EXCEPT !.desk = invoice[i].desk + 1]]
    BY DEF PayAtDesk
  <2>2. [invoice[i] EXCEPT !.paid = invoice[i].paid + 1]
          = [status |-> invoice[i].status, paid |-> invoice[i].paid + 1, desk |-> invoice[i].desk]
    BY <1>3
  <2>3. ASSUME NEW row, row = [status |-> invoice[i].status, paid |-> invoice[i].paid + 1, desk |-> invoice[i].desk]
        PROVE  [row EXCEPT !.desk = invoice[i].desk + 1] = next
    BY <2>3
  <2> HIDE DEF next
  <2>4. [[invoice[i] EXCEPT !.paid = invoice[i].paid + 1] EXCEPT !.desk = invoice[i].desk + 1] = next
    BY <2>2, <2>3
  <2> QED
    BY <2>1, <2>4
<1>7. /\ invoice'[i].paid = invoice[i].paid + 1 /\ invoice'[i].desk = invoice[i].desk + 1
      /\ invoice'[i].status = invoice[i].status
      /\ \A k \in Invoices \ {i} : invoice'[k] = invoice[k]
  BY <1>1, <1>6
<1>8. TypeOK'
  <2> HIDE DEF next
  <2> QED
    BY <1>1, <1>2, <1>5, <1>6 DEF MoneyInv, TypeOK
<1>9. SameInvoice'
  <2>1. AskingTheSame
    BY <1>2 DEF AskingTheSame
  <2>2. LinkedTheSame
    BY <1>2, <1>7 DEF LinkedTheSame, Known
  <2> QED
    BY <2>1, <2>2, SameInvoiceStays
<1>10. PaidFits'
  <2> SUFFICES ASSUME NEW k \in Invoices
               PROVE  invoice'[k].paid = invoice'[k].desk + ReceivedFor(k)' /\ invoice'[k].paid <= Total
    BY DEF PaidFits, ReceivedFor, Paying
  <2>1. ReceivedFor(k)' = ReceivedFor(k)
    BY <1>2 DEF ReceivedFor, Paying, Known
  <2>2. invoice[k].paid = invoice[k].desk + ReceivedFor(k) /\ invoice[k].paid <= Total
    BY DEF MoneyInv, PaidFits, ReceivedFor, Paying
  <2>3. ReceivedFor(k) \in Nat
    BY ReceivedIsNat DEF Inv
  <2>4. invoice[k].paid \in 0..Total /\ invoice[k].desk \in 0..Total
    BY <1>1
  <2> QED
    BY <1>2, <1>7, <2>1, <2>2, <2>3, <2>4
<1> QED
  BY <1>8, <1>9, <1>10 DEF MoneyInv

LEMMA EndedInvoiceKeepsMoney ==
  ASSUME Inv, Inv', MoneyInv, NEW i \in Invoices, Void(i) \/ DeleteInvoice(i)
  PROVE  MoneyInv'
<1>1. invoice \in [Invoices -> [status : {"sent", "void", "deleted"}, paid : 0..Total, desk : 0..Total]]
  BY DEF MoneyInv, TypeOK
<1>2. /\ invoice[i].paid = 0
      /\ \E status \in {"void", "deleted"} :
           /\ invoice' = [invoice EXCEPT ![i].status = status]
           /\ invoice[i].status = "deleted" => status = "deleted"
      /\ UNCHANGED <<receipts, links, request, told>>
  BY DEF Void, DeleteInvoice
<1>3. /\ invoice' \in [Invoices -> [status : {"sent", "void", "deleted"}, paid : 0..Total, desk : 0..Total]]
      /\ \A k \in Invoices : /\ invoice'[k].paid = invoice[k].paid /\ invoice'[k].desk = invoice[k].desk
                             /\ invoice[k].status = "deleted" => invoice'[k].status = "deleted"
  <2>1. PICK status \in {"void", "deleted"} : /\ invoice' = [invoice EXCEPT ![i].status = status]
                                              /\ invoice[i].status = "deleted" => status = "deleted"
    BY <1>2
  <2> QED
    BY <1>1, <2>1
<1>4. TypeOK'
  BY <1>2, <1>3 DEF Inv, Shape, MoneyInv, TypeOK
\* Nothing was received for an invoice that is not paid.
<1>5. \A p \in Payments : receipts[p] # 0 => p \in Known /\ ext[p].invoice # i
  <2> SUFFICES ASSUME NEW p \in Payments, receipts[p] # 0, ext[p].invoice = i PROVE FALSE
    BY DEF Inv, BookedWhenApproved, Approved
  <2>1. p \in Paying(i) /\ receipts[p] \in Nat
    BY DEF Inv, Shape, BookedWhenApproved, Approved, Paying, Known
  <2>2. ReceivedFor(i) \in Nat /\ IsFiniteSet(Paying(i)) /\ \A q \in Paying(i) : receipts[q] \in Nat
    BY ReceivedIsNat DEF Inv, Shape, Paying, Known
  <2>3. receipts[p] <= ReceivedFor(i)
    BY <2>1, <2>2, TermBelowSum DEF ReceivedFor
  <2>4. 0 = invoice[i].desk + ReceivedFor(i) /\ invoice[i].desk \in Nat
    BY <1>1, <1>2 DEF MoneyInv, PaidFits, ReceivedFor, Paying
  <2> QED
    BY <2>1, <2>2, <2>3, <2>4
<1>6. ASSUME NEW p \in Known
      PROVE  ext'[p] # None /\ (ext'[p].invoice = ext[p].invoice \/ (ext[p].invoice = i /\ ext'[p].invoice = None))
  <2>1. ext[p] \in Row /\ p \in Payments
    BY <1>6 DEF Inv, Shape, Known
  <2>2. CASE Void(i)
    BY <1>6, <2>2 DEF Void, Known
  <2>3. CASE DeleteInvoice(i)
    <3>1. ext'[p] = IF ext[p].invoice = i THEN [ext[p] EXCEPT !.invoice = None] ELSE ext[p]
      BY <1>6, <2>1, <2>3 DEF DeleteInvoice
    <3>2. [ext[p] EXCEPT !.invoice = None] \in Row /\ [ext[p] EXCEPT !.invoice = None].invoice = None
      BY <2>1 DEF Row
    <3> QED
      BY <1>6, <3>1, <3>2, ConstantsAssumption DEF Known
  <2> QED
    BY <2>2, <2>3
<1>7. PaidFits'
  <2>1. Staying
    BY <1>5, <1>6 DEF Staying
  <2> QED
    BY <1>2, <1>3, <2>1, PaidFitsStays
<1>8. SameInvoice'
  <2>1. CASE Void(i)
    <3>1. LinkedTheSame /\ AskingTheSame
      BY <1>2, <1>3, <2>1 DEF LinkedTheSame, AskingTheSame, Void, Known
    <3> QED
      BY <3>1, SameInvoiceStays
  <2>2. CASE DeleteInvoice(i)
    <3> SUFFICES ASSUME NEW r \in Requests, request'[r].op = "yes"
                 PROVE  \/ request'[r].invoice = ext'[request'[r].pay].invoice
                        \/ request'[r].invoice # None /\ invoice'[request'[r].invoice].status = "deleted"
      BY DEF SameInvoice
    <3>1. /\ request[r].op = "yes" /\ request'[r] = request[r]
          /\ request[r].pay \in Known /\ request[r].invoice \in Invoices \cup {None}
      BY <1>2 DEF Inv, Shape, WellAddressed, Requested
    <3>2. invoice'[i].status = "deleted" /\ i # None
      BY <1>1, <2>2, ConstantsAssumption DEF DeleteInvoice
    <3> QED
      BY <1>3, <1>6, <3>1, <3>2 DEF MoneyInv, SameInvoice
  <2> QED
    BY <2>1, <2>2
<1> QED
  BY <1>4, <1>7, <1>8 DEF MoneyInv

LEMMA InitMoney == Init => MoneyInv
<1> SUFFICES ASSUME Init PROVE MoneyInv
  OBVIOUS
<1>1. TypeOK
  BY IdleRequested, ConstantsAssumption DEF Init, TypeOK
<1>2. SameInvoice
  BY ConstantsAssumption DEF Init, SameInvoice, Idle
<1>3. PaidFits
  <2>1. \A i : Paying(i) = {}
    BY DEF Init, Paying, Known
  <2>2. \A i : ReceivedFor(i) = 0
    <3>1. SumFunctionOnSet(receipts, {}) = 0
      BY FS_EmptySet, SumOfZeros
    <3> QED
      BY <2>1, <3>1 DEF ReceivedFor
  <2>3. \A i \in Invoices : invoice[i].paid = invoice[i].desk + ReceivedFor(i) /\ invoice[i].paid <= Total
    BY <2>2, ConstantsAssumption DEF Init
  <2> QED
    BY <2>3 DEF PaidFits, ReceivedFor, Paying
<1> QED
  BY <1>1, <1>2, <1>3 DEF MoneyInv

LEMMA NextMoney ==
  ASSUME Inv, Inv', MoneyInv, [Next]_vars
  PROVE  MoneyInv'
<1>1. ASSUME NEW r \in Requests, NEW ref \in References, NEW i \in Invoices \cup {None}, Deliver(r, ref, i)
      PROVE  MoneyInv'
  BY <1>1, RequestsKeepMoney DEF Deliver
<1>2. ASSUME NEW r \in Requests, NEW p \in Payments, Resend(r, p)
      PROVE  MoneyInv'
  BY <1>2, RequestsKeepMoney DEF Resend, Start
<1>3. ASSUME NEW r \in Requests, NEW p \in Payments, NEW decision \in {"yes", "no"}, Follow(r, p, decision)
      PROVE  MoneyInv'
  BY <1>3, RequestsKeepMoney DEF Follow, Start
<1>4. ASSUME NEW r \in Requests, Claim(r) \/ Abort(r)
      PROVE  MoneyInv'
  BY <1>4, RequestsKeepMoney DEF Claim, Abort
<1>5. ASSUME NEW r \in Requests, NEW p \in Payments, Receive(r, p)
      PROVE  MoneyInv'
  BY <1>5, RowsKeepMoney
<1>6. ASSUME NEW r \in Requests, Renew(r) \/ Reject(r)
      PROVE  MoneyInv'
  <2>1. request[r].pay \in Payments
    BY <1>6, ConstantsAssumption DEF Inv, WellAddressed, Known, Renew, Reject
  <2> QED
    BY <1>6, <2>1, RowsKeepMoney
<1>7. ASSUME NEW r \in Requests, Book(r)
      PROVE  MoneyInv'
  BY <1>7, BookKeepsMoney
<1>8. ASSUME NEW p \in Payments, Expire(p)
      PROVE  MoneyInv'
  <2>1. LinkedTheSame
    <3>1. \A q \in Known : ext[q] \in Row /\ q \in Payments
      BY DEF Inv, Shape, Known
    <3>2. ASSUME NEW q \in Known PROVE ext'[q] # None /\ ext'[q].invoice = ext[q].invoice
      <4>1. [ext[q] EXCEPT !.window = "over"] \in Row /\ [ext[q] EXCEPT !.window = "over"].invoice = ext[q].invoice
        BY <3>1, <3>2 DEF Row
      <4>2. ext'[q] = ext[q] \/ ext'[q] = [ext[q] EXCEPT !.window = "over"]
        BY <1>8, <3>1, <3>2 DEF Expire, Inv, Shape
      <4> QED
        BY <3>2, <4>1, <4>2, ConstantsAssumption DEF Known
    <3> QED
      BY <1>8, <3>2 DEF LinkedTheSame, Expire
  <2>2. AskingTheSame /\ UNCHANGED <<receipts, invoice>> /\ links' \subseteq Payments \X (1..MaxTokens)
    BY <1>8 DEF AskingTheSame, Expire, MoneyInv, TypeOK
  <2> QED
    BY <2>1, <2>2, MoneyStays
<1>9. ASSUME NEW p \in Payments, DeletePayment(p)
      PROVE  MoneyInv'
  BY <1>9, DeletePaymentKeepsMoney
<1>10. ASSUME NEW i \in Invoices, PayAtDesk(i) \/ Void(i) \/ DeleteInvoice(i)
       PROVE  MoneyInv'
  BY <1>10, PayAtDeskKeepsMoney, EndedInvoiceKeepsMoney
<1>11. CASE UNCHANGED vars
  <2>1. LinkedTheSame /\ AskingTheSame
    BY <1>11 DEF vars, LinkedTheSame, AskingTheSame, Known
  <2> QED
    BY <1>11, <2>1, MoneyStays DEF vars, MoneyInv, TypeOK
<1> QED
  BY <1>1, <1>2, <1>3, <1>4, <1>5, <1>6, <1>7, <1>8, <1>9, <1>10, <1>11 DEF Next

(* The inductive invariant holds in every reachable state, where one       *)
(* transaction writes at a time or deliveries of a transaction do not      *)
(* overlap.                                                                *)
THEOREM BookingInvariant ==
  ASSUME SingleWriter \/ OneByOne
  PROVE Spec => []BookingInv
<1>1. Init => Inv /\ MoneyInv
  BY InitInv, InitMoney
<1>2. Inv /\ MoneyInv /\ [Next]_vars => (Inv /\ MoneyInv)'
  BY NextInv, NextMoney
<1>3. Inv /\ MoneyInv => BookingInv
  BY DEF Inv, MoneyInv, BookingInv
<1> QED
  BY <1>1, <1>2, <1>3, PTL DEF Spec

(* However often a payment is delivered and its links are followed, it is  *)
(* in the books once at most and decided once, it is approved exactly      *)
(* while it is booked, and an invoice shows as paid what was received for  *)
(* it and no more than its total (payments.py:                             *)
(* process_approved_external_payment,                                      *)
(* confirm_external_payment_from_email, delete_customer_payment,           *)
(* _apply_invoice_payment).                                                *)
THEOREM ExternalPaymentsAreBookedOnce ==
  ASSUME SingleWriter \/ OneByOne
  PROVE Spec => []ExternalPaymentsOnce
<1>1. BookingInv => RecordedOnce
  BY DEF BookingInv, BookedWhenApproved, ApprovedOnce, RecordedOnce, Booked, Approved
<1>2. BookingInv => DecidedOnce
  BY DEF BookingInv, BookedWhenApproved, ToldTruth, DecidedOnce, Approved
<1>3. BookingInv => ApprovedIsBooked
  BY DEF BookingInv, BookedWhenApproved, ApprovedIsBooked, Approved, Known
<1>4. BookingInv => ExternalPaymentsOnce
  BY <1>1, <1>2, <1>3 DEF BookingInv, ExternalPaymentsOnce
<1> QED
  BY <1>4, BookingInvariant, PTL

-----------------------------------------------------------------------------
(* The console, a component of its own *)

CONSTANTS Admins, Tenants, Plans, Decisions, Workers, Slots, MaxDay, AllModules
VARIABLES org, day, row, view, refetch, call, tab, check, ask, work

Org == INSTANCE OrgConsole

-----------------------------------------------------------------------------
(* An organization and who decides on it                                   *)

Fields == {"approval", "suspended", "archived", "status", "ends", "plan", "wanted", "modules"}

LEMMA RowsHaveFields ==
  ASSUME NEW o \in Org!Rows
  PROVE  DOMAIN o = Fields /\ o = [c \in Fields |-> o[c]]
BY DEF Org!Rows, Fields

(* What a handler writes over the row it read is what it decided.          *)
LEMMA FlushOverItsOwn ==
  ASSUME NEW o \in Org!Rows, NEW n \in Org!Rows
  PROVE  Org!Flush(o, n, o) = n
<1>1. \A c \in Fields : (IF n[c] # o[c] THEN n[c] ELSE o[c]) = n[c]
  OBVIOUS
<1> QED BY <1>1, RowsHaveFields DEF Org!Flush

LEMMA FlushIsARow ==
  ASSUME NEW o \in Org!Rows, NEW n \in Org!Rows, NEW now \in Org!Rows
  PROVE  Org!Flush(o, n, now) \in Org!Rows
<1> DEFINE new == Org!Flush(o, n, now)
           Pick(c) == IF n[c] # o[c] THEN n[c] ELSE now[c]
<1>1. new = [c \in Fields |-> Pick(c)]
  BY RowsHaveFields DEF Org!Flush
<1>2. new = [approval |-> Pick("approval"), suspended |-> Pick("suspended"), archived |-> Pick("archived"),
             status |-> Pick("status"), ends |-> Pick("ends"), plan |-> Pick("plan"), wanted |-> Pick("wanted"),
             modules |-> Pick("modules")]
  BY <1>1 DEF Fields
<1> QED BY <1>2 DEF Org!Rows

(* Each decision, on a row it is not refused for, leaves a row with its    *)
(* lock and its plan in order.                                             *)
Sound(o) == /\ o.archived => o.suspended
            /\ (o.status = "active") = (o.plan # None)
            /\ o.modules = IF o.plan = None THEN AllModules ELSE o.plan
TakesPlan(op, p) == op \in {"accept", "request"} => p \in Plans

LEMMA DecideIsTyped ==
  ASSUME Org!ConstantsOK, day \in 0..MaxDay, NEW o \in Org!Rows, NEW p,
         NEW op \in (Org!AllDecisions \ {"delete"}) \cup {"request", "withdraw"}, TakesPlan(op, p)
  PROVE  Org!Decide(o, op, p) \in Org!Rows
<1> USE DEF Org!ConstantsOK, Org!Rows, Org!Days
<1>0. day \in Org!Days /\ day + 1 \in Org!Days
  OBVIOUS
<1>1. CASE op = "approve"
  <2> HIDE DEF Org!Days
  <2> DEFINE a == [o EXCEPT !.approval = "approved"]
  <2>1. a \in Org!Rows /\ [a EXCEPT !.ends = day + 1] \in Org!Rows
    BY <1>0
  <2>2. Org!Decide(o, op, p) = Org!StartTrial(a)
    BY <1>1 DEF Org!Decide
  <2> HIDE DEF a
  <2> QED BY <2>1, <2>2 DEF Org!StartTrial
<1>2. CASE op = "extend"
  BY <1>2 DEF Org!Decide, Org!ExtendTrial
<1>3. CASE op = "cancelPlan"
  <2> HIDE DEF Org!Days
  <2> DEFINE ends == IF o.ends = None \/ o.ends > day THEN day ELSE o.ends
  <2>1. ends \in Org!Days \cup {None}
    BY <1>0
  <2>2. Org!Decide(o, op, p) = [o EXCEPT !.status = "trial", !.ends = ends, !.plan = None, !.modules = AllModules]
    BY <1>3 DEF Org!Decide, Org!CancelPlan
  <2> HIDE DEF ends
  <2> QED BY <2>1, <2>2
<1>4. CASE op \in {"accept", "decline", "withdraw", "request"}
  BY <1>4 DEF Org!Decide, Org!CancelRequest, Org!ApplyPlan, TakesPlan
<1>5. CASE op \in {"reject", "suspend", "unsuspend", "archive", "restore"}
  BY <1>5 DEF Org!Decide
<1> QED BY <1>1, <1>2, <1>3, <1>4, <1>5
        DEF Org!AllDecisions, Org!Approvals, Org!PlanDecisions, Org!Lifecycle

LEMMA DecideIsSound ==
  ASSUME Org!ConstantsOK, NEW o \in Org!Rows, NEW p, Sound(o),
         NEW op \in (Org!AllDecisions \ {"delete"}) \cup {"request", "withdraw"}, TakesPlan(op, p),
         ~Org!Refused(o, op)
  PROVE  Sound(Org!Decide(o, op, p))
<1> USE DEF Org!ConstantsOK, Org!Rows, Sound
<1>1. CASE op = "approve"
  BY <1>1 DEF Org!Decide, Org!StartTrial
<1>2. CASE op = "extend"
  BY <1>2 DEF Org!Decide, Org!ExtendTrial
<1>3. CASE op = "cancelPlan"
  BY <1>3 DEF Org!Decide, Org!CancelPlan
<1>4. CASE op \in {"accept", "decline", "withdraw", "request"}
  BY <1>4 DEF Org!Decide, Org!CancelRequest, Org!ApplyPlan, TakesPlan
<1>5. CASE op \in {"reject", "suspend", "unsuspend", "archive", "restore"}
  BY <1>5 DEF Org!Decide, Org!Refused
<1> QED BY <1>1, <1>2, <1>3, <1>4, <1>5
        DEF Org!AllDecisions, Org!Approvals, Org!PlanDecisions, Org!Lifecycle
-----------------------------------------------------------------------------
(* Steps                                                                   *)

OrgRowOK == org \in Org!Copies /\ day \in 0..MaxDay
ConsoleOK ==
  /\ row \in [Admins -> Org!ListRow] /\ view \in [Admins -> Org!Copies]
  /\ refetch \in [Admins \X Slots -> Org!Refetch] /\ call \in [Admins -> Org!Call]
TenantsOK ==
  /\ tab \in [Tenants -> Org!Tab] /\ check \in [Tenants \X Slots -> Org!Check]
  /\ ask \in [Tenants -> Org!Ask] /\ work \in [Tenants -> {"idle", "sent", "refused"}]

LEMMA OrgTypesByParts == Org!TypeOK <=> OrgRowOK /\ ConsoleOK /\ TenantsOK
  BY DEF Org!TypeOK, OrgRowOK, ConsoleOK, TenantsOK

Carries(c) ==
  /\ c.at # "idle" => c.op \in Org!AllDecisions /\ (c.op = "accept" => c.plan \in Plans)
  /\ c.at = "read" => c.seen # None /\ ~Org!Refused(c.seen, c.op)
AskCarries(c) ==
  /\ c.at # "idle" => c.op # None /\ (c.op = "request" => c.plan \in Plans)
  /\ c.at = "read" => c.seen # None

LEMMA CarriesByCall ==
  Org!DecisionsCarry <=> (\A a \in Admins : Carries(call[a])) /\ (\A t \in Tenants : AskCarries(ask[t]))
BY DEF Org!DecisionsCarry, Carries, AskCarries

LEMMA QuietCalls ==
  /\ Org!Quiet \in Org!Call /\ Org!Quiet.at = "idle" /\ Carries(Org!Quiet)
  /\ Org!Idle \in Org!Refetch /\ Org!Unsent \in Org!Ask /\ Org!Unsent.at = "idle" /\ AskCarries(Org!Unsent)
  /\ Org!NoCheck \in Org!Check
BY DEF Org!Quiet, Org!Idle, Org!Unsent, Org!NoCheck, Org!Call, Org!Refetch, Org!Ask, Org!Check, Org!Copies, Carries, AskCarries

\* What the console does but write to the row.
AtTheConsole(a) ==
  \/ Org!OpenDrawer(a) \/ Org!CloseDrawer(a) \/ Org!CancelDialog(a) \/ Org!Confirm(a)
  \/ \E op \in Decisions, p \in Plans \cup {None} : Org!OpenDialog(a, op, p)
  \/ Org!ServerReads(a) \/ Org!DecisionFails(a) \/ Org!DecisionShown(a) \/ Org!ListRead(a) \/ Org!ListDone(a)
  \/ \E s \in Slots : Org!PlanDecisionShown(a, s) \/ Org!RefetchRead(a, s) \/ Org!RefetchDone(a, s)
AtTheTab(t) ==
  \/ Org!Work(t) \/ Org!WithdrawRequest(t) \/ \E p \in Plans : Org!SendRequest(t, p)
  \/ Org!WorkAnswered(t) \/ Org!AskRead(t) \/ Org!AskDone(t)
  \/ \E s \in Slots : \/ Org!SubscriptionRequired(t, s)
                      \/ Org!Load(t, s) \/ Org!Poll(t, s) \/ Org!CheckRead(t, s) \/ Org!CheckDone(t, s)

LEMMA OrgSteps ==
  ASSUME Org!Next
  PROVE  \/ \E a \in Admins : AtTheConsole(a) \/ Org!ServerWrites(a)
         \/ \E t \in Tenants : AtTheTab(t) \/ Org!AskWrite(t)
         \/ Org!DayPasses
BY Zenon DEF Org!Next, Org!People, Org!Console, Org!TabMoves, AtTheConsole, AtTheTab

LEMMA ConsoleLeavesRest ==
  ASSUME NEW a \in Admins, AtTheConsole(a)
  PROVE  org' = org /\ day' = day /\ tab' = tab /\ check' = check /\ ask' = ask /\ work' = work
<1> USE DEF Org!tenant
<1>1. CASE Org!OpenDrawer(a) \/ Org!CloseDrawer(a) \/ Org!CancelDialog(a) \/ Org!Confirm(a)
  BY <1>1 DEF Org!OpenDrawer, Org!CloseDrawer, Org!CancelDialog, Org!Confirm
<1>2. CASE \E op \in Decisions, p \in Plans \cup {None} : Org!OpenDialog(a, op, p)
  BY <1>2 DEF Org!OpenDialog
<1>3. CASE Org!ServerReads(a) \/ Org!DecisionFails(a) \/ Org!DecisionShown(a) \/ Org!ListRead(a) \/ Org!ListDone(a)
  BY <1>3 DEF Org!ServerReads, Org!DecisionFails, Org!DecisionShown, Org!ListRead, Org!ListDone
<1>4. CASE \E s \in Slots : Org!PlanDecisionShown(a, s) \/ Org!RefetchRead(a, s) \/ Org!RefetchDone(a, s)
  BY <1>4 DEF Org!PlanDecisionShown, Org!RefetchRead, Org!RefetchDone
<1> QED BY <1>1, <1>2, <1>3, <1>4 DEF AtTheConsole

\* A step of the console sets one call, which holds the row as read when it reads it.
SetsCall(a, c) ==
  /\ call' = [call EXCEPT ![a] = c] /\ c \in Org!Call /\ Carries(c)
  /\ c.at = "read" => c.seen = org /\ Org!Free(a)

LEMMA ConsoleSetsACall ==
  ASSUME Org!ConstantsOK, OrgRowOK, ConsoleOK, NEW a \in Admins, Carries(call[a]), AtTheConsole(a)
  PROVE  call' = call \/ \E c : SetsCall(a, c)
<1>0. call[a] \in Org!Call
  BY DEF ConsoleOK
<1>1. CASE \/ Org!OpenDrawer(a) \/ Org!ListRead(a) \/ Org!ListDone(a)
           \/ \E s \in Slots : Org!RefetchRead(a, s) \/ Org!RefetchDone(a, s)
  BY <1>1 DEF Org!OpenDrawer, Org!ListRead, Org!ListDone, Org!RefetchRead, Org!RefetchDone
<1>2. CASE \/ Org!CloseDrawer(a) \/ Org!CancelDialog(a) \/ Org!DecisionShown(a)
           \/ \E s \in Slots : Org!PlanDecisionShown(a, s)
  <2>1. call' = call \/ call' = [call EXCEPT ![a] = Org!Quiet]
    BY <1>2 DEF Org!CloseDrawer, Org!CancelDialog, Org!DecisionShown, Org!PlanDecisionShown
  <2> QED BY <2>1, QuietCalls DEF SetsCall
<1>3. ASSUME NEW op \in Decisions, NEW p \in Plans \cup {None}, Org!OpenDialog(a, op, p)
      PROVE  \E c : SetsCall(a, c)
  <2> DEFINE c == [at |-> IF op \in {"unsuspend", "cancelPlan"} THEN "sent" ELSE "open", op |-> op, plan |-> p, seen |-> None]
  <2>1. c \in Org!Call /\ Carries(c) /\ c.at # "read" /\ call' = [call EXCEPT ![a] = c]
    BY <1>3 DEF Org!OpenDialog, Org!Call, Org!Copies, Carries, Org!ConstantsOK
  <2> HIDE DEF c
  <2> QED BY <2>1 DEF SetsCall
<1>4. CASE Org!Confirm(a)
  <2> DEFINE c == [call[a] EXCEPT !.at = "sent"]
  <2>1. c \in Org!Call /\ Carries(c) /\ c.at # "read" /\ call' = [call EXCEPT ![a] = c]
    BY <1>0, <1>4 DEF Org!Confirm, Org!Call, Carries
  <2> HIDE DEF c
  <2> QED BY <2>1 DEF SetsCall
<1>5. CASE Org!ServerReads(a)
  <2> DEFINE refused == Org!Refused(org, call[a].op)
             c == [call[a] EXCEPT !.at = IF refused THEN "done" ELSE "read", !.seen = IF refused THEN None ELSE org]
  <2>1. call' = [call EXCEPT ![a] = c] /\ call[a].at = "sent" /\ Org!Free(a)
    BY <1>5 DEF Org!ServerReads
  <2>2. org \in Org!Copies /\ (~refused => org # None)
    BY DEF OrgRowOK, Org!Refused
  <2> HIDE DEF refused
  <2>3. /\ c \in Org!Call /\ c.op = call[a].op /\ c.plan = call[a].plan
        /\ c.at = "read" => c.seen = org /\ ~refused
    BY <1>0, <2>2 DEF Org!Call, Org!Copies
  <2> HIDE DEF c
  <2>4. Carries(c)
    BY <2>1, <2>2, <2>3 DEF Carries, refused
  <2> QED BY <2>1, <2>3, <2>4 DEF SetsCall
<1>6. CASE Org!DecisionFails(a)
  <2> DEFINE c == [call[a] EXCEPT !.at = "open"]
  <2>1. c \in Org!Call /\ Carries(c) /\ c.at # "read"
    BY <1>0, <1>6 DEF Org!DecisionFails, Org!Call, Carries
  <2>2. call' = [call EXCEPT ![a] = Org!Quiet] \/ call' = [call EXCEPT ![a] = c]
    BY <1>6 DEF Org!DecisionFails
  <2> HIDE DEF c
  <2> QED BY <2>1, <2>2, QuietCalls DEF SetsCall
<1> QED BY <1>1, <1>2, <1>3, <1>4, <1>5, <1>6 DEF AtTheConsole
LEMMA ConsoleKeepsTypes ==
  ASSUME Org!ConstantsOK, OrgRowOK, ConsoleOK, NEW a \in Admins, Carries(call[a]), AtTheConsole(a)
  PROVE  ConsoleOK'
<1>1. call' \in [Admins -> Org!Call]
  BY ConsoleSetsACall DEF ConsoleOK, SetsCall
<1>2. None \in Org!Copies /\ org \in Org!Copies
  BY DEF OrgRowOK, Org!Copies
<1> SUFFICES /\ row' \in [Admins -> Org!ListRow] /\ view' \in [Admins -> Org!Copies]
             /\ refetch' \in [Admins \X Slots -> Org!Refetch]
  BY <1>1 DEF ConsoleOK
<1>a. /\ row \in [Admins -> Org!ListRow] /\ view \in [Admins -> Org!Copies]
      /\ refetch \in [Admins \X Slots -> Org!Refetch] /\ call[a].seen \in Org!Copies
  BY DEF ConsoleOK, Org!Call
<1>b. [row EXCEPT ![a].at = "sent", ![a].seen = None] \in [Admins -> Org!ListRow]
  BY <1>2, <1>a DEF Org!ListRow
<1>c. [s \in Admins \X Slots |-> IF s[1] = a THEN Org!Idle ELSE refetch[s]] \in [Admins \X Slots -> Org!Refetch]
  BY <1>a, QuietCalls
<1>3. CASE Org!OpenDrawer(a) \/ Org!CloseDrawer(a) \/ Org!CancelDialog(a) \/ Org!Confirm(a)
  BY <1>2, <1>3, <1>a, <1>c DEF Org!OpenDrawer, Org!CloseDrawer, Org!CancelDialog, Org!Confirm
<1>4. CASE \E op \in Decisions, p \in Plans \cup {None} : Org!OpenDialog(a, op, p)
  BY <1>4, <1>a DEF Org!OpenDialog
<1>5. CASE Org!ServerReads(a) \/ Org!DecisionFails(a)
  BY <1>5, <1>a DEF Org!ServerReads, Org!DecisionFails
<1>6. CASE Org!DecisionShown(a)
  BY <1>2, <1>6, <1>a, <1>b, <1>c DEF Org!DecisionShown, Org!Reload
<1>7. CASE Org!ListRead(a)
  BY <1>2, <1>7, <1>a DEF Org!ListRead, Org!ListRow
<1>8. CASE Org!ListDone(a)
  BY <1>2, <1>8, <1>a DEF Org!ListDone, Org!ListRow
<1>9. ASSUME NEW s \in Slots, Org!PlanDecisionShown(a, s) \/ Org!RefetchRead(a, s) \/ Org!RefetchDone(a, s)
      PROVE  /\ row' \in [Admins -> Org!ListRow] /\ view' \in [Admins -> Org!Copies]
             /\ refetch' \in [Admins \X Slots -> Org!Refetch]
  <2>1. refetch[<<a, s>>] \in Org!Refetch
    BY <1>a
  <2>2. CASE Org!PlanDecisionShown(a, s)
    <3>1. refetch' = refetch \/ refetch' = [refetch EXCEPT ![<<a, s>>] = [refetch[<<a, s>>] EXCEPT !.at = "sent"]]
      BY <2>2 DEF Org!PlanDecisionShown
    <3>2. [refetch[<<a, s>>] EXCEPT !.at = "sent"] \in Org!Refetch
      BY <2>1 DEF Org!Refetch
    <3> QED BY <1>a, <1>b, <2>2, <3>1, <3>2 DEF Org!PlanDecisionShown, Org!Reload
  <2>3. CASE Org!RefetchRead(a, s)
    <3>1. [at |-> "read", seen |-> org] \in Org!Refetch
      BY <1>2 DEF Org!Refetch
    <3> QED BY <1>a, <2>3, <3>1 DEF Org!RefetchRead
  <2>4. CASE Org!RefetchDone(a, s)
    BY <1>a, <2>1, <2>4, QuietCalls DEF Org!RefetchDone, Org!Refetch
  <2> QED BY <1>9, <2>2, <2>3, <2>4
<1> QED BY <1>3, <1>4, <1>5, <1>6, <1>7, <1>8, <1>9 DEF AtTheConsole

(* A decision is written.                                                  *)
LEMMA DecisionIsWritten ==
  ASSUME Org!ConstantsOK, OrgRowOK, ConsoleOK, NEW a \in Admins, Carries(call[a]), Org!ServerWrites(a)
  PROVE  /\ OrgRowOK' /\ ConsoleOK' /\ UNCHANGED <<day, row, view, refetch, tab, check, ask, work>>
         /\ \E c \in Org!Call : call' = [call EXCEPT ![a] = c] /\ Carries(c) /\ c.at = "done"
<1> DEFINE c == call[a]
           d == [call[a] EXCEPT !.at = "done", !.seen = IF call[a].op = "delete" THEN @ ELSE org']
<1>1. /\ c \in Org!Call /\ c.at = "read" /\ c.op \in Org!AllDecisions /\ (c.op = "accept" => c.plan \in Plans)
      /\ c.seen \in Org!Rows
  BY DEF Org!ServerWrites, Carries, ConsoleOK, Org!Call, Org!Copies
<1>2. org' \in Org!Copies
  <2>1. CASE org = None \/ c.op = "delete"
    BY <2>1 DEF Org!ServerWrites, Org!Copies
  <2>2. CASE org # None /\ c.op # "delete"
    <3>1. Org!Decide(c.seen, c.op, c.plan) \in Org!Rows
      <4>1. c.op \in (Org!AllDecisions \ {"delete"}) \cup {"request", "withdraw"}
        BY <1>1, <2>2
      <4>2. TakesPlan(c.op, c.plan)
        BY <1>1 DEF TakesPlan, Org!AllDecisions, Org!Approvals, Org!PlanDecisions, Org!Lifecycle
      <4> QED BY <1>1, <4>1, <4>2, DecideIsTyped DEF OrgRowOK
    <3>2. org \in Org!Rows
      BY <2>2 DEF OrgRowOK, Org!Copies
    <3>3. org' = Org!Flush(c.seen, Org!Decide(c.seen, c.op, c.plan), org)
      BY <2>2 DEF Org!ServerWrites
    <3> QED BY <1>1, <3>1, <3>2, <3>3, FlushIsARow DEF Org!Copies
  <2> QED BY <2>1, <2>2
<1>3. UNCHANGED <<day, row, view, refetch, tab, check, ask, work>>
  BY DEF Org!ServerWrites, Org!tenant
<1>4. call' = [call EXCEPT ![a] = d]
  BY DEF Org!ServerWrites
<1>5. d \in Org!Call /\ Carries(d) /\ d.at = "done"
  BY <1>1, <1>2 DEF Org!Call, Carries
<1> HIDE DEF d
<1>6. OrgRowOK' /\ ConsoleOK'
  BY <1>2, <1>3, <1>4, <1>5 DEF OrgRowOK, ConsoleOK
<1> QED BY <1>3, <1>4, <1>5, <1>6

\* A step of a tab sets one plan request.
SetsAsk(t, c) ==
  /\ ask' = [ask EXCEPT ![t] = c] /\ c \in Org!Ask /\ AskCarries(c)
  /\ c.at = "read" => c.seen = org /\ Org!Free(t)

LEMMA TabLeavesRest ==
  ASSUME NEW t \in Tenants, AtTheTab(t)
  PROVE  org' = org /\ day' = day /\ row' = row /\ view' = view /\ refetch' = refetch /\ call' = call
<1> USE DEF Org!console
<1>1. CASE Org!Work(t) \/ Org!WithdrawRequest(t) \/ \E p \in Plans : Org!SendRequest(t, p)
  BY <1>1 DEF Org!Work, Org!WithdrawRequest, Org!SendRequest
<1>2. CASE Org!WorkAnswered(t) \/ Org!AskRead(t) \/ Org!AskDone(t)
  BY <1>2 DEF Org!WorkAnswered, Org!AskRead, Org!AskDone
<1>3. CASE \E s \in Slots : Org!SubscriptionRequired(t, s)
  BY <1>3 DEF Org!SubscriptionRequired
<1>4. CASE \E s \in Slots : Org!Load(t, s) \/ Org!Poll(t, s) \/ Org!CheckRead(t, s) \/ Org!CheckDone(t, s)
  BY <1>4 DEF Org!Load, Org!Poll, Org!CheckRead, Org!CheckDone
<1> QED BY <1>1, <1>2, <1>3, <1>4 DEF AtTheTab

LEMMA TabSetsAnAsk ==
  ASSUME Org!ConstantsOK, OrgRowOK, TenantsOK, NEW t \in Tenants, AskCarries(ask[t]), AtTheTab(t)
  PROVE  ask' = ask \/ \E c : SetsAsk(t, c)
<1>0. ask[t] \in Org!Ask /\ Org!Unsent \in Org!Ask
  BY QuietCalls DEF TenantsOK
<1>1. CASE \/ Org!Work(t) \/ Org!WorkAnswered(t)
           \/ \E s \in Slots : \/ Org!SubscriptionRequired(t, s)
                               \/ Org!Load(t, s) \/ Org!Poll(t, s) \/ Org!CheckRead(t, s) \/ Org!CheckDone(t, s)
  BY <1>1 DEF Org!Work, Org!WorkAnswered, Org!SubscriptionRequired, Org!Load, Org!Poll, Org!CheckRead, Org!CheckDone
<1>2. CASE Org!AskDone(t)
  BY <1>2, QuietCalls DEF Org!AskDone, SetsAsk
<1>3. CASE Org!WithdrawRequest(t)
  <2> DEFINE c == [Org!Unsent EXCEPT !.at = "sent", !.op = "withdraw"]
  <2>1. c \in Org!Ask /\ c.at = "sent" /\ c.op = "withdraw" /\ ask' = [ask EXCEPT ![t] = c]
    BY <1>0, <1>3 DEF Org!WithdrawRequest, Org!Ask
  <2> HIDE DEF c
  <2>2. AskCarries(c)
    BY <2>1 DEF AskCarries, Org!ConstantsOK, Org!AllDecisions
  <2> QED BY <2>1, <2>2 DEF SetsAsk
<1>4. ASSUME NEW p \in Plans, Org!SendRequest(t, p) PROVE \E c : SetsAsk(t, c)
  <2> DEFINE c == [Org!Unsent EXCEPT !.at = "sent", !.op = "request", !.plan = p]
  <2>1. c \in Org!Ask /\ c.at = "sent" /\ c.op = "request" /\ c.plan = p /\ ask' = [ask EXCEPT ![t] = c]
    BY <1>0, <1>4 DEF Org!SendRequest, Org!Ask
  <2> HIDE DEF c
  <2>2. AskCarries(c)
    BY <2>1 DEF AskCarries, Org!ConstantsOK, Org!AllDecisions
  <2> QED BY <2>1, <2>2 DEF SetsAsk
<1>5. CASE Org!AskRead(t)
  <2> DEFINE c == [ask[t] EXCEPT !.at = "read", !.seen = org]
  <2>1. org \in Org!Copies /\ (~Org!Refused(org, ask[t].op) => org # None)
    BY DEF OrgRowOK, Org!Refused
  <2>2. c \in Org!Ask /\ c.at = "read" /\ c.seen = org /\ c.op = ask[t].op /\ c.plan = ask[t].plan
    BY <1>0, <2>1 DEF Org!Ask
  <2>3. ask' = [ask EXCEPT ![t] = Org!Unsent] \/ (ask' = [ask EXCEPT ![t] = c] /\ ~Org!Refused(org, ask[t].op))
    BY <1>5 DEF Org!AskRead
  <2> HIDE DEF c
  <2>4. ~Org!Refused(org, ask[t].op) => AskCarries(c)
    BY <1>5, <2>1, <2>2 DEF AskCarries, Org!AskRead
  <2>5. ask[t].at = "sent" /\ Org!Free(t)
    BY <1>5 DEF Org!AskRead
  <2> QED BY <2>2, <2>3, <2>4, <2>5, QuietCalls DEF SetsAsk
<1> QED BY <1>1, <1>2, <1>3, <1>4, <1>5 DEF AtTheTab
LEMMA TabKeepsTypes ==
  ASSUME Org!ConstantsOK, OrgRowOK, TenantsOK, NEW t \in Tenants, AskCarries(ask[t]), AtTheTab(t)
  PROVE  TenantsOK'
<1>1. ask' \in [Tenants -> Org!Ask]
  BY TabSetsAnAsk DEF TenantsOK, SetsAsk
<1>2. org \in Org!Copies
  BY DEF OrgRowOK
<1> SUFFICES /\ tab' \in [Tenants -> Org!Tab] /\ check' \in [Tenants \X Slots -> Org!Check]
             /\ work' \in [Tenants -> {"idle", "sent", "refused"}]
  BY <1>1 DEF TenantsOK
<1>a. /\ tab \in [Tenants -> Org!Tab] /\ check \in [Tenants \X Slots -> Org!Check]
      /\ work \in [Tenants -> {"idle", "sent", "refused"}]
      /\ ask[t].seen \in Org!Copies /\ ask[t].locked \in BOOLEAN
  BY DEF TenantsOK, Org!Ask
<1>3. CASE Org!Work(t) \/ Org!WithdrawRequest(t) \/ \E p \in Plans : Org!SendRequest(t, p)
  BY <1>3, <1>a DEF Org!Work, Org!WithdrawRequest, Org!SendRequest
<1>4. CASE Org!WorkAnswered(t) \/ Org!AskRead(t)
  BY <1>4, <1>a DEF Org!WorkAnswered, Org!AskRead
<1>5. CASE Org!AskDone(t)
  <2> DEFINE forced == tab[t].forced /\ ~Org!LiftsLock(ask[t].seen, ask[t].locked)
             new == [known |-> ask[t].seen, locked |-> ask[t].locked, forced |-> forced]
  <2>1. tab' = [tab EXCEPT ![t] = new]
    BY <1>5 DEF Org!AskDone
  <2>2. forced \in BOOLEAN
    OBVIOUS
  <2> HIDE DEF forced
  <2>3. new \in Org!Tab
    BY <1>a, <2>2 DEF Org!Tab
  <2> HIDE DEF new
  <2> QED BY <1>5, <1>a, <2>1, <2>3 DEF Org!AskDone
<1>6. ASSUME NEW s \in Slots,
             \/ Org!SubscriptionRequired(t, s)
             \/ Org!Load(t, s) \/ Org!Poll(t, s) \/ Org!CheckRead(t, s) \/ Org!CheckDone(t, s)
      PROVE  /\ tab' \in [Tenants -> Org!Tab] /\ check' \in [Tenants \X Slots -> Org!Check]
             /\ work' \in [Tenants -> {"idle", "sent", "refused"}]
  <2>1. check[<<t, s>>] \in Org!Check /\ tab[t] \in Org!Tab
    BY <1>a
  <2>2. CASE Org!SubscriptionRequired(t, s)
    <3>1. tab' = [tab EXCEPT ![t] = [tab[t] EXCEPT !.forced = TRUE, !.locked = tab[t].known # None]]
      BY <1>a, <2>2 DEF Org!SubscriptionRequired
    <3>2. [tab[t] EXCEPT !.forced = TRUE, !.locked = tab[t].known # None] \in Org!Tab
      BY <2>1 DEF Org!Tab
    <3>3. [Org!NoCheck EXCEPT !.at = "sent", !.fresh = TRUE] \in Org!Check
      BY QuietCalls DEF Org!Check
    <3>4. ASSUME NEW r \in Tenants \X Slots PROVE [check[r] EXCEPT !.fresh = FALSE] \in Org!Check
      <4>1. check[r] \in Org!Check
        BY <1>a
      <4> QED BY <4>1 DEF Org!Check
    <3>5. check' \in [Tenants \X Slots -> Org!Check]
      BY <1>a, <2>2, <3>3, <3>4 DEF Org!SubscriptionRequired
    <3> QED BY <1>a, <2>2, <3>1, <3>2, <3>5 DEF Org!SubscriptionRequired
  <2>3. CASE Org!Load(t, s) \/ Org!Poll(t, s)
    <3>1. [at |-> "sent", seen |-> None, locked |-> FALSE, clears |-> TRUE, fresh |-> TRUE] \in Org!Check
      BY DEF Org!Check, Org!Copies
    <3> QED BY <1>a, <2>3, <3>1 DEF Org!Load, Org!Poll, Org!StartCheck
  <2>4. CASE Org!CheckRead(t, s)
    <3> DEFINE new == [check[<<t, s>>] EXCEPT !.at = "read", !.seen = org, !.locked = Org!Expired(org)]
    <3>1. Org!Expired(org) \in BOOLEAN
      BY DEF Org!Expired
    <3>2. new \in Org!Check
      BY <1>2, <2>1, <3>1 DEF Org!Check
    <3>3. check' = [check EXCEPT ![<<t, s>>] = new] \/ check' = [check EXCEPT ![<<t, s>>] = Org!NoCheck]
      BY <2>4 DEF Org!CheckRead
    <3> HIDE DEF new
    <3> QED BY <1>a, <2>4, <3>2, <3>3, QuietCalls DEF Org!CheckRead
  <2>5. CASE Org!CheckDone(t, s)
    <3> DEFINE c == check[<<t, s>>]
               forced == tab[t].forced /\ ~(c.clears /\ c.fresh /\ Org!LiftsLock(c.seen, c.locked))
               new == [known |-> c.seen, locked |-> c.locked, forced |-> forced]
    <3>1. tab' = [tab EXCEPT ![t] = new] /\ check' = [check EXCEPT ![<<t, s>>] = Org!NoCheck] /\ work' = work
      BY <2>5 DEF Org!CheckDone
    <3>2. forced \in BOOLEAN
      OBVIOUS
    <3> HIDE DEF forced
    <3>3. new \in Org!Tab
      BY <2>1, <3>2 DEF Org!Tab, Org!Check
    <3> HIDE DEF new
    <3> QED BY <1>a, <3>1, <3>3, QuietCalls
  <2> QED BY <1>6, <2>2, <2>3, <2>4, <2>5
<1> QED BY <1>3, <1>4, <1>5, <1>6 DEF AtTheTab

(* A plan request or its withdrawal is written.                            *)
LEMMA RequestIsWritten ==
  ASSUME Org!ConstantsOK, OrgRowOK, TenantsOK, NEW t \in Tenants, AskCarries(ask[t]), Org!AskWrite(t)
  PROVE  /\ OrgRowOK' /\ TenantsOK' /\ UNCHANGED <<day, row, view, refetch, call>>
         /\ \E c \in Org!Ask : ask' = [ask EXCEPT ![t] = c] /\ AskCarries(c) /\ c.at # "read"
<1> DEFINE c == ask[t]
           d == [ask[t] EXCEPT !.at = "done", !.seen = org', !.locked = Org!Expired(org)']
<1>1. /\ c \in Org!Ask /\ c.at = "read" /\ c.op \in {"request", "withdraw"} /\ (c.op = "request" => c.plan \in Plans)
      /\ c.seen \in Org!Rows
  BY DEF Org!AskWrite, AskCarries, TenantsOK, Org!Ask, Org!Copies
<1>2. org' \in Org!Copies
  <2>1. CASE org = None
    BY <2>1 DEF Org!AskWrite, Org!Copies
  <2>2. CASE org # None
    <3>1. TakesPlan(c.op, c.plan)
      BY <1>1 DEF TakesPlan
    <3>2. Org!Decide(c.seen, c.op, c.plan) \in Org!Rows
      BY <1>1, <3>1, DecideIsTyped DEF OrgRowOK
    <3>3. org' = Org!Flush(c.seen, Org!Decide(c.seen, c.op, c.plan), org) /\ org \in Org!Rows
      BY <2>2 DEF Org!AskWrite, OrgRowOK, Org!Copies
    <3> QED BY <1>1, <3>2, <3>3, FlushIsARow DEF Org!Copies
  <2> QED BY <2>1, <2>2
<1>3. UNCHANGED <<day, row, view, refetch, call, tab, check, work>>
  BY DEF Org!AskWrite, Org!console
<1>4. ask' = [ask EXCEPT ![t] = Org!Unsent] \/ ask' = [ask EXCEPT ![t] = d]
  BY DEF Org!AskWrite, Org!Expired
<1>5. d \in Org!Ask /\ AskCarries(d) /\ d.at = "done"
  <2>1. Org!Expired(org)' \in BOOLEAN
    BY DEF Org!Expired
  <2> QED BY <1>1, <1>2, <2>1 DEF Org!Ask, AskCarries, Org!ConstantsOK
<1> HIDE DEF d
<1>6. OrgRowOK' /\ TenantsOK'
  BY <1>2, <1>3, <1>4, <1>5, QuietCalls DEF OrgRowOK, TenantsOK
<1> QED BY <1>3, <1>4, <1>5, <1>6, QuietCalls
LEMMA OrgStep ==
  ASSUME Org!ConstantsOK, Org!OrgInv, [Org!Next]_Org!vars
  PROVE  Org!OrgInv'
<1>0. /\ OrgRowOK /\ ConsoleOK /\ TenantsOK
      /\ \A a \in Admins : Carries(call[a])
      /\ \A t \in Tenants : AskCarries(ask[t])
  BY OrgTypesByParts, CarriesByCall DEF Org!OrgInv
<1> SUFFICES /\ OrgRowOK' /\ ConsoleOK' /\ TenantsOK'
             /\ \A a \in Admins : Carries(call'[a])
             /\ \A t \in Tenants : AskCarries(ask'[t])
  <2>1. Org!TypeOK'
    BY DEF Org!TypeOK, OrgRowOK, ConsoleOK, TenantsOK
  <2>2. Org!DecisionsCarry'
    BY DEF Org!DecisionsCarry, Carries, AskCarries
  <2> QED BY <2>1, <2>2 DEF Org!OrgInv
<1>1. ASSUME NEW a \in Admins, AtTheConsole(a)
      PROVE  OrgRowOK' /\ ConsoleOK' /\ TenantsOK' /\ \A b \in Admins : Carries(call'[b])
  <2>1. call' = call \/ \E c : SetsCall(a, c)
    BY <1>0, <1>1, ConsoleSetsACall
  <2>2. \A b \in Admins : Carries(call'[b])
    BY <1>0, <2>1 DEF SetsCall, ConsoleOK
  <2>3. ConsoleOK'
    BY <1>0, <1>1, ConsoleKeepsTypes
  <2> QED BY <1>0, <1>1, <2>2, <2>3, ConsoleLeavesRest DEF OrgRowOK, TenantsOK
<1>2. ASSUME NEW a \in Admins, Org!ServerWrites(a)
      PROVE  OrgRowOK' /\ ConsoleOK' /\ TenantsOK' /\ \A b \in Admins : Carries(call'[b])
  <2>1. /\ OrgRowOK' /\ ConsoleOK' /\ UNCHANGED <<day, row, view, refetch, tab, check, ask, work>>
        /\ \E c \in Org!Call : call' = [call EXCEPT ![a] = c] /\ Carries(c) /\ c.at = "done"
    BY <1>0, <1>2, DecisionIsWritten
  <2>2. \A b \in Admins : Carries(call'[b])
    BY <1>0, <2>1 DEF ConsoleOK
  <2> QED BY <1>0, <2>1, <2>2 DEF TenantsOK
<1>3. ASSUME NEW t \in Tenants, AtTheTab(t)
      PROVE  OrgRowOK' /\ ConsoleOK' /\ TenantsOK' /\ \A r \in Tenants : AskCarries(ask'[r])
  <2>1. ask' = ask \/ \E c : SetsAsk(t, c)
    BY <1>0, <1>3, TabSetsAnAsk
  <2>2. \A r \in Tenants : AskCarries(ask'[r])
    BY <1>0, <2>1 DEF SetsAsk, TenantsOK
  <2>3. TenantsOK'
    BY <1>0, <1>3, TabKeepsTypes
  <2> QED BY <1>0, <1>3, <2>2, <2>3, TabLeavesRest DEF OrgRowOK, ConsoleOK
<1>4. ASSUME NEW t \in Tenants, Org!AskWrite(t)
      PROVE  OrgRowOK' /\ ConsoleOK' /\ TenantsOK' /\ \A r \in Tenants : AskCarries(ask'[r])
  <2>1. /\ OrgRowOK' /\ TenantsOK' /\ UNCHANGED <<day, row, view, refetch, call>>
        /\ \E c \in Org!Ask : ask' = [ask EXCEPT ![t] = c] /\ AskCarries(c) /\ c.at # "read"
    BY <1>0, <1>4, RequestIsWritten
  <2>2. \A r \in Tenants : AskCarries(ask'[r])
    BY <1>0, <2>1 DEF TenantsOK
  <2> QED BY <1>0, <2>1, <2>2 DEF ConsoleOK
<1>5. CASE Org!DayPasses
  BY <1>0, <1>5 DEF Org!DayPasses, Org!console, Org!tenant, OrgRowOK, ConsoleOK, TenantsOK, Org!ConstantsOK
<1>6. CASE UNCHANGED Org!vars
  BY <1>0, <1>6 DEF Org!vars, OrgRowOK, ConsoleOK, TenantsOK
<1>7. ASSUME UNCHANGED ask PROVE \A t \in Tenants : AskCarries(ask'[t])
  BY <1>0, <1>7
<1>8. ASSUME UNCHANGED call PROVE \A a \in Admins : Carries(call'[a])
  BY <1>0, <1>8
<1>9. ASSUME NEW a \in Admins, AtTheConsole(a) \/ Org!ServerWrites(a) PROVE ask' = ask
  BY <1>9, ConsoleLeavesRest DEF Org!ServerWrites, Org!tenant
<1>10. ASSUME NEW t \in Tenants, AtTheTab(t) \/ Org!AskWrite(t) PROVE call' = call
  BY <1>10, TabLeavesRest DEF Org!AskWrite, Org!console
<1>11. Org!DayPasses \/ UNCHANGED Org!vars => ask' = ask /\ call' = call
  BY DEF Org!DayPasses, Org!console, Org!tenant, Org!vars
<1> QED BY <1>1, <1>2, <1>3, <1>4, <1>5, <1>6, <1>7, <1>8, <1>9, <1>10, <1>11, OrgSteps

LEMMA OrgStarts ==
  ASSUME Org!ConstantsOK, Org!Init
  PROVE  Org!OrgInv /\ Org!SerialInv /\ Org!LoneInv
<1>1. org \in Org!Rows /\ Sound(org)
  <2>1. 1 \in Org!Days
    BY DEF Org!Days, Org!ConstantsOK
  <2>2. Org!SignedUp \in Org!Rows /\ Sound(Org!SignedUp)
    BY DEF Org!SignedUp, Org!Rows, Sound
  <2>3. Org!CreatedHere \in Org!Rows /\ Sound(Org!CreatedHere)
    BY <2>1, <2>2 DEF Org!CreatedHere, Org!Rows, Sound
  <2> QED BY <2>2, <2>3 DEF Org!Init
<1>2. /\ row = [a \in Admins |-> [shown |-> org, at |-> "idle", seen |-> None]]
      /\ call = [a \in Admins |-> Org!Quiet] /\ ask = [t \in Tenants |-> Org!Unsent]
  BY DEF Org!Init
<1>3. OrgRowOK
  BY <1>1 DEF Org!Init, OrgRowOK, Org!Copies, Org!ConstantsOK
<1>4. ConsoleOK
  <2>1. [shown |-> org, at |-> "idle", seen |-> None] \in Org!ListRow
    BY <1>1 DEF Org!ListRow, Org!Copies
  <2> QED BY <2>1, QuietCalls DEF Org!Init, ConsoleOK, Org!Copies
<1>5. TenantsOK
  <2>1. [known |-> None, locked |-> FALSE, forced |-> FALSE] \in Org!Tab
    BY DEF Org!Tab, Org!Copies
  <2> QED BY <2>1, QuietCalls DEF Org!Init, TenantsOK
<1>6. Org!OrgInv
  BY <1>2, <1>3, <1>4, <1>5, OrgTypesByParts, CarriesByCall, QuietCalls DEF Org!OrgInv
<1>7. Org!OneIsHandled /\ Org!SeenIsStored
  BY <1>2, QuietCalls DEF Org!OneIsHandled, Org!SeenIsStored
<1>8. Org!OrganizationHolds
  BY <1>1 DEF Org!OrganizationHolds, Org!ArchivedIsLocked, Org!PlanMatchesModules, Sound
<1>9. Org!ListIsFresh
  BY <1>2 DEF Org!ListIsFresh
<1> QED BY <1>6, <1>7, <1>8, <1>9 DEF Org!SerialInv, Org!LoneInv

(* Whoever decides, and however many requests are handled at once, the row *)
(* of the organization, the copies of it and the requests keep their types, *)
(* and a decision that was let through read a row that allows it           *)
(* (platform_admin.py, subscription.py).                                   *)
THEOREM OrgInvariant ==
  ASSUME Org!ConstantsOK
  PROVE  Org!Spec => []Org!OrgInv
<1>1. Org!Init => Org!OrgInv
  BY OrgStarts
<1>2. Org!OrgInv /\ [Org!Next]_Org!vars => Org!OrgInv'
  BY OrgStep
<1> QED BY <1>1, <1>2, PTL DEF Org!Spec

-----------------------------------------------------------------------------
(* One request at a time                                                   *)

LEMMA FreeIsNobody ==
  ASSUME Org!ConstantsOK, Workers = 1, NEW w, Org!Free(w)
  PROVE  (\A a \in Admins : call[a].at # "read") /\ (\A t \in Tenants : ask[t].at # "read")
<1> DEFINE H == Org!Handled
<1>1. H \subseteq Admins \cup Tenants /\ IsFiniteSet(Admins) /\ IsFiniteSet(Tenants)
  BY DEF Org!Handled, Org!ConstantsOK, Org!IsFiniteSet, IsFiniteSet
<1>2. IsFiniteSet(H)
  BY <1>1, FS_Union, FS_Subset
<1>3. Cardinality(H) = Org!Cardinality(H)
  BY DEF Cardinality, Org!Cardinality
<1>4. Cardinality(H) \in Nat /\ (Cardinality(H) = 0 <=> H = {})
  BY <1>2, FS_CardinalityType, FS_EmptySet
<1>5. H = {}
  BY <1>3, <1>4 DEF Org!Free
<1> QED BY <1>5 DEF Org!Handled
LEMMA SerialSteps ==
  ASSUME Org!ConstantsOK, Workers = 1, Org!OrgInv, Org!SerialInv, [Org!Next]_Org!vars
  PROVE  Org!SerialInv'
<1>0. /\ OrgRowOK /\ ConsoleOK /\ TenantsOK
      /\ \A a \in Admins : Carries(call[a])
      /\ \A t \in Tenants : AskCarries(ask[t])
      /\ Org!OneIsHandled /\ Org!SeenIsStored /\ Org!OrganizationHolds
  BY OrgTypesByParts, CarriesByCall DEF Org!OrgInv, Org!SerialInv
<1>s. org # None => org \in Org!Rows /\ Sound(org)
  BY <1>0 DEF Org!OrganizationHolds, Org!ArchivedIsLocked, Org!PlanMatchesModules, Sound, OrgRowOK, Org!Copies
<1>h. ASSUME org' # None => Sound(org') PROVE Org!OrganizationHolds'
  BY <1>h DEF Org!OrganizationHolds, Org!ArchivedIsLocked, Org!PlanMatchesModules, Sound
<1>1. ASSUME NEW a \in Admins, AtTheConsole(a) PROVE Org!SerialInv'
  <2>1. org' = org /\ ask' = ask
    BY <1>1, ConsoleLeavesRest
  <2>2. CASE call' = call
    BY <1>0, <2>1, <2>2 DEF Org!SerialInv, Org!OneIsHandled, Org!SeenIsStored, Org!OrganizationHolds,
                            Org!ArchivedIsLocked, Org!PlanMatchesModules
  <2>3. ASSUME NEW c, SetsCall(a, c) PROVE Org!OneIsHandled' /\ Org!SeenIsStored'
    <3>1. call'[a] = c /\ \A b \in Admins : b # a => call'[b] = call[b]
      BY <1>0, <2>3 DEF SetsCall, ConsoleOK
    <3>2. CASE c.at # "read"
      BY <1>0, <2>1, <3>1, <3>2 DEF Org!OneIsHandled, Org!SeenIsStored
    <3>3. CASE c.at = "read"
      <4>1. c.seen = org /\ (\A b \in Admins : call[b].at # "read") /\ (\A t \in Tenants : ask[t].at # "read")
        BY <2>3, <3>3, FreeIsNobody DEF SetsCall
      <4> QED BY <2>1, <3>1, <4>1 DEF Org!OneIsHandled, Org!SeenIsStored
    <3> QED BY <3>2, <3>3
  <2> QED BY <1>0, <1>1, <1>h, <1>s, <2>1, <2>2, <2>3, ConsoleSetsACall DEF Org!SerialInv
<1>2. ASSUME NEW a \in Admins, Org!ServerWrites(a) PROVE Org!SerialInv'
  <2>1. /\ ask' = ask
        /\ \E c \in Org!Call : call' = [call EXCEPT ![a] = c] /\ c.at = "done"
    BY <1>0, <1>2, DecisionIsWritten
  <2>2. (\A b \in Admins : call'[b].at # "read") /\ (\A t \in Tenants : ask'[t].at # "read")
    BY <1>0, <1>2, <2>1 DEF Org!OneIsHandled, Org!ServerWrites, ConsoleOK
  <2>3. org' # None => Sound(org')
    <3> SUFFICES ASSUME org' # None PROVE Sound(org')
      OBVIOUS
    <3> DEFINE c == call[a]
               new == Org!Decide(c.seen, c.op, c.plan)
    <3>1. /\ c.seen = org /\ org # None /\ c.op # "delete" /\ ~Org!Refused(org, c.op) /\ org' = Org!Flush(org, new, org)
          /\ c.op \in Org!AllDecisions /\ (c.op = "accept" => c.plan \in Plans)
      BY <1>0, <1>2 DEF Org!ServerWrites, Org!SeenIsStored, Carries
    <3>2. c.op \in (Org!AllDecisions \ {"delete"}) \cup {"request", "withdraw"} /\ TakesPlan(c.op, c.plan)
      BY <3>1 DEF TakesPlan, Org!AllDecisions, Org!Approvals, Org!PlanDecisions, Org!Lifecycle
    <3>3. new \in Org!Rows /\ Sound(new)
      BY <1>0, <1>s, <3>1, <3>2, DecideIsTyped, DecideIsSound DEF OrgRowOK
    <3> QED BY <1>s, <3>1, <3>3, FlushOverItsOwn
  <2> QED BY <1>h, <2>2, <2>3 DEF Org!SerialInv, Org!OneIsHandled, Org!SeenIsStored
<1>3. ASSUME NEW t \in Tenants, AtTheTab(t) PROVE Org!SerialInv'
  <2>1. org' = org /\ call' = call
    BY <1>3, TabLeavesRest
  <2>2. CASE ask' = ask
    BY <1>0, <2>1, <2>2 DEF Org!SerialInv, Org!OneIsHandled, Org!SeenIsStored, Org!OrganizationHolds,
                            Org!ArchivedIsLocked, Org!PlanMatchesModules
  <2>3. ASSUME NEW c, SetsAsk(t, c) PROVE Org!OneIsHandled' /\ Org!SeenIsStored'
    <3>1. ask'[t] = c /\ \A r \in Tenants : r # t => ask'[r] = ask[r]
      BY <1>0, <2>3 DEF SetsAsk, TenantsOK
    <3>2. CASE c.at # "read"
      BY <1>0, <2>1, <3>1, <3>2 DEF Org!OneIsHandled, Org!SeenIsStored
    <3>3. CASE c.at = "read"
      <4>1. c.seen = org /\ (\A b \in Admins : call[b].at # "read") /\ (\A r \in Tenants : ask[r].at # "read")
        BY <2>3, <3>3, FreeIsNobody DEF SetsAsk
      <4> QED BY <2>1, <3>1, <4>1 DEF Org!OneIsHandled, Org!SeenIsStored
    <3> QED BY <3>2, <3>3
  <2> QED BY <1>0, <1>3, <1>h, <1>s, <2>1, <2>2, <2>3, TabSetsAnAsk DEF Org!SerialInv
<1>4. ASSUME NEW t \in Tenants, Org!AskWrite(t) PROVE Org!SerialInv'
  <2>1. /\ call' = call
        /\ \E c \in Org!Ask : ask' = [ask EXCEPT ![t] = c] /\ c.at # "read"
    BY <1>0, <1>4, RequestIsWritten
  <2>2. (\A b \in Admins : call'[b].at # "read") /\ (\A r \in Tenants : ask'[r].at # "read")
    BY <1>0, <1>4, <2>1 DEF Org!OneIsHandled, Org!AskWrite, TenantsOK
  <2>3. org' # None => Sound(org')
    <3> SUFFICES ASSUME org' # None PROVE Sound(org')
      OBVIOUS
    <3> DEFINE c == ask[t]
               new == Org!Decide(c.seen, c.op, c.plan)
    <3>1. /\ c.seen = org /\ org # None /\ org' = Org!Flush(org, new, org)
          /\ c.op \in {"request", "withdraw"} /\ (c.op = "request" => c.plan \in Plans)
      BY <1>0, <1>4 DEF Org!AskWrite, Org!SeenIsStored, AskCarries, TenantsOK, Org!Ask
    <3>2. TakesPlan(c.op, c.plan)
      BY <3>1 DEF TakesPlan
    <3>3. new \in Org!Rows
      BY <1>0, <1>s, <3>1, <3>2, DecideIsTyped DEF OrgRowOK
    <3>4. Sound(new)
      BY <1>s, <3>1 DEF Org!Decide, Org!CancelRequest, Sound, Org!Rows
    <3> QED BY <1>s, <3>1, <3>3, <3>4, FlushOverItsOwn
  <2> QED BY <1>h, <2>2, <2>3 DEF Org!SerialInv, Org!OneIsHandled, Org!SeenIsStored
<1>5. CASE Org!DayPasses \/ UNCHANGED Org!vars
  <2>1. org' = org /\ ask' = ask /\ call' = call
    BY <1>5 DEF Org!DayPasses, Org!console, Org!tenant, Org!vars
  <2> QED BY <1>0, <2>1 DEF Org!SerialInv, Org!OneIsHandled, Org!SeenIsStored, Org!OrganizationHolds,
                            Org!ArchivedIsLocked, Org!PlanMatchesModules
<1> QED BY <1>1, <1>2, <1>3, <1>4, <1>5, OrgSteps

(* An archived organization is locked out and its plan, status and modules *)
(* agree, whatever administrators and the organization's own people ask    *)
(* from stale copies, as long as requests are handled one at a time.       *)
THEOREM OrganizationAlwaysHolds ==
  ASSUME Org!ConstantsOK, Workers = 1
  PROVE  Org!Spec => []Org!OrganizationHolds
<1>1. Org!Init => Org!SerialInv
  BY OrgStarts
<1>2. Org!OrgInv /\ Org!SerialInv /\ [Org!Next]_Org!vars => Org!SerialInv'
  BY SerialSteps
<1>3. Org!SerialInv => Org!OrganizationHolds
  BY DEF Org!SerialInv
<1> QED BY <1>1, <1>2, <1>3, OrgInvariant, PTL DEF Org!Spec
-----------------------------------------------------------------------------
(* An administrator alone                                                  *)

\* What the list of an administrator is about to show.
FreshRow(r, c) == \/ r.at = "sent" \/ (c.at = "done" /\ c.seen # None)
                  \/ (IF r.at = "read" THEN r.seen ELSE r.shown) = org

LEMMA ListStaysFresh ==
  ASSUME ConsoleOK, NEW a \in Admins, FreshRow(row[a], call[a]), AtTheConsole(a)
  PROVE  FreshRow(row'[a], call'[a])
<1> USE DEF ConsoleOK, FreshRow, Org!ListRow, Org!Call
<1>1. CASE \/ Org!OpenDrawer(a) \/ Org!CloseDrawer(a) \/ Org!CancelDialog(a) \/ Org!Confirm(a)
           \/ \E s \in Slots : Org!RefetchRead(a, s) \/ Org!RefetchDone(a, s)
  <2>1. row' = row /\ (call' = call \/ call[a].at = "open")
    BY <1>1 DEF Org!OpenDrawer, Org!CloseDrawer, Org!CancelDialog, Org!Confirm, Org!RefetchRead, Org!RefetchDone
  <2> QED BY <2>1
<1>2. CASE (\E op \in Decisions, p \in Plans \cup {None} : Org!OpenDialog(a, op, p)) \/ Org!ServerReads(a)
  BY <1>2 DEF Org!OpenDialog, Org!ServerReads
<1>3. CASE Org!DecisionFails(a)
  BY <1>3 DEF Org!DecisionFails
<1>4. CASE Org!DecisionShown(a) \/ \E s \in Slots : Org!PlanDecisionShown(a, s)
  <2>1. row' = [row EXCEPT ![a] = [row[a] EXCEPT !.at = "sent", !.seen = None]]
    BY <1>4 DEF Org!DecisionShown, Org!PlanDecisionShown, Org!Reload
  <2> QED BY <2>1
<1>5. CASE Org!ListRead(a)
  <2>1. row' = [row EXCEPT ![a] = [row[a] EXCEPT !.at = "read", !.seen = org]]
    BY <1>5 DEF Org!ListRead
  <2> QED BY <2>1
<1>6. CASE Org!ListDone(a)
  BY <1>6 DEF Org!ListDone
<1> QED BY <1>1, <1>2, <1>3, <1>4, <1>5, <1>6 DEF AtTheConsole

LEMMA LoneSteps ==
  ASSUME Org!ConstantsOK, NEW a, Admins = {a}, Tenants = {}, Org!OrgInv, Org!LoneInv, [Org!Next]_Org!vars
  PROVE  Org!LoneInv'
<1>0. /\ OrgRowOK /\ ConsoleOK /\ TenantsOK /\ a \in Admins /\ Carries(call[a])
      /\ Org!SeenIsStored /\ FreshRow(row[a], call[a])
  BY OrgTypesByParts, CarriesByCall DEF Org!OrgInv, Org!LoneInv, Org!ListIsFresh, FreshRow
<1>f. ASSUME call'[a].at = "read" => call'[a].seen = org', FreshRow(row[a], call[a])' PROVE Org!LoneInv'
  BY <1>f DEF Org!LoneInv, Org!ListIsFresh, FreshRow, Org!SeenIsStored
<1>1. CASE AtTheConsole(a)
  <2>1. org' = org
    BY <1>0, <1>1, ConsoleLeavesRest
  <2>2. FreshRow(row'[a], call'[a])
    BY <1>0, <1>1, ListStaysFresh
  <2>3. call'[a].at = "read" => call'[a].seen = org
    <3>1. call' = call \/ \E c : SetsCall(a, c)
      BY <1>0, <1>1, ConsoleSetsACall
    <3> QED BY <1>0, <3>1 DEF Org!SeenIsStored, SetsCall, ConsoleOK
  <2> QED BY <1>f, <2>1, <2>2, <2>3 DEF FreshRow
<1>2. CASE Org!ServerWrites(a)
  <2> DEFINE c == call[a]
             new == Org!Decide(c.seen, c.op, c.plan)
  <2>1. /\ c.seen = org /\ org # None /\ org \in Org!Rows
        /\ c.op \in Org!AllDecisions /\ (c.op = "accept" => c.plan \in Plans)
    BY <1>0, <1>2 DEF Org!ServerWrites, Org!SeenIsStored, Carries, OrgRowOK, Org!Copies
  <2>2. c.op # "delete" => org' # None
    <3> SUFFICES ASSUME c.op # "delete" PROVE org' # None
      OBVIOUS
    <3>1. org' = Org!Flush(org, new, org)
      BY <1>2, <2>1 DEF Org!ServerWrites
    <3>2. c.op \in (Org!AllDecisions \ {"delete"}) \cup {"request", "withdraw"} /\ TakesPlan(c.op, c.plan)
      BY <2>1 DEF TakesPlan, Org!AllDecisions, Org!Approvals, Org!PlanDecisions, Org!Lifecycle
    <3>3. new \in Org!Rows
      BY <1>0, <2>1, <3>2, DecideIsTyped DEF OrgRowOK
    <3> QED BY <2>1, <3>1, <3>3, FlushOverItsOwn DEF Org!ConstantsOK
  <2>3. call'[a].at = "done" /\ call'[a].seen # None
    BY <1>0, <1>2, <2>1, <2>2 DEF Org!ServerWrites, ConsoleOK, Org!Call
  <2> QED BY <1>f, <2>3 DEF FreshRow
<1>3. CASE Org!DayPasses \/ UNCHANGED Org!vars
  <2>1. org' = org /\ call' = call /\ row' = row
    BY <1>3 DEF Org!DayPasses, Org!console, Org!tenant, Org!vars
  <2> QED BY <1>0, <1>f, <2>1 DEF FreshRow, Org!SeenIsStored
<1> QED BY <1>1, <1>2, <1>3, OrgSteps

(* To an administrator alone the console's list shows the organization as  *)
(* it is stored whenever nothing is in flight.                             *)
THEOREM ConsoleListConverges ==
  ASSUME Org!ConstantsOK, NEW a, Admins = {a}, Tenants = {}
  PROVE  Org!Spec => []Org!ListConverges
<1>1. Org!Init => Org!LoneInv
  BY OrgStarts
<1>2. Org!OrgInv /\ Org!LoneInv /\ [Org!Next]_Org!vars => Org!LoneInv'
  BY LoneSteps
<1>3. Org!LoneInv => Org!ListConverges
  BY DEF Org!LoneInv, Org!ListIsFresh, Org!ListConverges, Org!AtRest
<1> QED BY <1>1, <1>2, <1>3, OrgInvariant, PTL DEF Org!Spec

-----------------------------------------------------------------------------
(* The content published from the console; its calls and tabs are its own *)

CONSTANTS Orgs, Websites, Pricings, Apps, Scopes, Tabs, PlansChange, Waits, Loses
VARIABLES published, overrides, unpaid, touched, editor, dialog, fetch

Cms == INSTANCE Content WITH Plans <- PlansChange

-----------------------------------------------------------------------------
(* Content that is published                                               *)

ServerOK ==
  /\ published \in [Cms!Sites -> Cms!DocumentsOf("site") \cup Cms!DocumentsOf("shared")]
  /\ \A s \in Cms!Sites : published[s] \in Cms!DocumentsOf(s)
  /\ overrides \in [Orgs -> [Cms!AppFields -> Cms!Values \cup {None}]]
  /\ unpaid \subseteq Orgs /\ touched \in [Orgs -> SUBSET Cms!AppFields]

PageOK(e, p) ==
  /\ p \in Cms!PageOf(Cms!Home(e))
  /\ e \in Pricings /\ p.draft # None => p.draft["copy"] # Cms!Bad
  /\ p.at = "read" => p.answer # None
CallOK(e, op, c) ==
  /\ c \in Cms!CallOf(Cms!Home(e))
  /\ c.at # "idle" => c.scope # None
  /\ (c.at = "sent" /\ op = "save") \/ c.at = "done" => c.content # None
EditorsOK ==
  /\ editor \in [Cms!Editors -> Cms!PageOf("site") \cup Cms!PageOf("shared")]
  /\ \A e \in Cms!Editors : PageOK(e, editor[e])
  /\ dialog \subseteq Cms!Editors
CallsOK ==
  /\ call \in [Cms!Editors \X Cms!Ops -> Cms!CallOf("site") \cup Cms!CallOf("shared")]
  /\ \A e \in Cms!Editors, op \in Cms!Ops : CallOK(e, op, call[<<e, op>>])
TabsOK ==
  /\ tab \in [Tabs -> Cms!Shown] /\ fetch \in [Tabs \X Slots -> Cms!Fetch]
  /\ \A r \in Tabs \X Slots : fetch[r].at = "read" => fetch[r].of # None /\ fetch[r].answer # None

LEMMA ContentTypesByParts ==
  Cms!TypeOK /\ Cms!CallsCarry <=> ServerOK /\ EditorsOK /\ CallsOK /\ TabsOK
<1>1. Pricings \subseteq Cms!Editors
  BY DEF Cms!Editors
<1> QED BY <1>1 DEF Cms!TypeOK, Cms!CallsCarry, ServerOK, EditorsOK, CallsOK, TabsOK, PageOK, CallOK

LEMMA HomeIsASite == \A e : Cms!Home(e) \in Cms!Sites
  BY DEF Cms!Home, Cms!Sites

\* What is read of any document is one.
ContentTyped ==
  /\ \A home \in Cms!Sites : \A scope \in Cms!ScopesOf(home) : Cms!ContentOf(scope) \in Cms!DocumentsOf(home)
  /\ Cms!ContentOf("shared") \in Cms!DocumentsOf("shared")
  /\ \A o \in Orgs : Cms!ContentOf(o) \in Cms!DocumentsOf("shared")

LEMMA ContentIsTyped ==
  ASSUME Cms!ConstantsOK, ServerOK
  PROVE  ContentTyped
<1>1. published["shared"] \in [Cms!AppFields -> Cms!Values] /\ published["site"] \in Cms!DocumentsOf("site")
  BY DEF ServerOK, Cms!Sites, Cms!DocumentsOf, Cms!FieldsOf
<1>2. \A o \in Orgs : Cms!Merged(o) \in [Cms!AppFields -> Cms!Values]
  BY <1>1 DEF ServerOK, Cms!Merged
<1>3. Cms!DocumentsOf("shared") = [Cms!AppFields -> Cms!Values]
  BY DEF Cms!DocumentsOf, Cms!FieldsOf
<1>4. "shared" \notin Orgs /\ "site" \notin Orgs
  BY DEF Cms!ConstantsOK
<1> QED BY <1>1, <1>2, <1>3, <1>4 DEF ContentTyped, Cms!ContentOf, Cms!ScopesOf, Cms!Sites

LEMMA ContentIsTypedThen ==
  ASSUME Cms!ConstantsOK, ServerOK'
  PROVE  ContentTyped'
<1>1. (published["shared"])' \in [Cms!AppFields -> Cms!Values] /\ (published["site"])' \in Cms!DocumentsOf("site")
  BY DEF ServerOK, Cms!Sites, Cms!DocumentsOf, Cms!FieldsOf
<1>2. \A o \in Orgs : Cms!Merged(o)' \in [Cms!AppFields -> Cms!Values]
  BY <1>1 DEF ServerOK, Cms!Merged
<1>3. Cms!DocumentsOf("shared") = [Cms!AppFields -> Cms!Values]
  BY DEF Cms!DocumentsOf, Cms!FieldsOf
<1>4. "shared" \notin Orgs /\ "site" \notin Orgs
  BY DEF Cms!ConstantsOK
<1> QED BY <1>1, <1>2, <1>3, <1>4 DEF ContentTyped, Cms!ContentOf, Cms!ScopesOf, Cms!Sites

LEMMA PageIsPut ==
  ASSUME EditorsOK, NEW e \in Cms!Editors, NEW p, PageOK(e, p), editor' = [editor EXCEPT ![e] = p], dialog' \subseteq Cms!Editors
  PROVE  EditorsOK'
<1>1. p \in Cms!PageOf("site") \cup Cms!PageOf("shared")
  BY HomeIsASite DEF PageOK, Cms!Sites
<1> QED BY <1>1 DEF EditorsOK

LEMMA CallIsPut ==
  ASSUME CallsOK, NEW e \in Cms!Editors, NEW op \in Cms!Ops, NEW c, CallOK(e, op, c), call' = [call EXCEPT ![<<e, op>>] = c]
  PROVE  CallsOK'
<1>1. c \in Cms!CallOf("site") \cup Cms!CallOf("shared")
  BY HomeIsASite DEF CallOK, Cms!Sites
<1> QED BY <1>1 DEF CallsOK

LEMMA NoCallIsOne == \A e, op : CallOK(e, op, Cms!NoCall) /\ Cms!NoCall.at = "idle"
  BY DEF CallOK, Cms!NoCall, Cms!CallOf

\* What changes nothing but what a page shows.
Reads(e) ==
  \/ Cms!ReadServed(e) \/ Cms!ReadShown(e) \/ Cms!ReadFailed(e) \/ Cms!Retry(e) \/ Cms!Discard(e)
  \/ \E scope \in Scopes : Cms!ChangeScope(e, scope)
  \/ \E f \in Cms!WebsiteFields \cup Cms!AppFields, v \in Cms!Values \cup {Cms!Bad} :
       Cms!EditWebsite(e, f, v) \/ Cms!EditPricing(e, f, v) \/ Cms!EditApp(e, f, v)

LEMMA ReadsLeaveRest ==
  ASSUME NEW e \in Cms!Editors, Reads(e)
  PROVE  UNCHANGED <<published, overrides, unpaid, touched, dialog, call, tab, fetch>>
<1> USE DEF Cms!server, Cms!tabs
<1>1. CASE Cms!ReadServed(e) \/ Cms!ReadShown(e) \/ Cms!ReadFailed(e) \/ Cms!Retry(e) \/ Cms!Discard(e)
  BY <1>1 DEF Cms!ReadServed, Cms!ReadShown, Cms!ReadFailed, Cms!Retry, Cms!Discard
<1>2. CASE \E scope \in Scopes : Cms!ChangeScope(e, scope)
  BY <1>2 DEF Cms!ChangeScope
<1>3. CASE \E f \in Cms!WebsiteFields \cup Cms!AppFields, v \in Cms!Values \cup {Cms!Bad} :
             Cms!EditWebsite(e, f, v) \/ Cms!EditPricing(e, f, v) \/ Cms!EditApp(e, f, v)
  BY <1>3 DEF Cms!EditWebsite, Cms!EditPricing, Cms!EditApp, Cms!Edit
<1> QED BY <1>1, <1>2, <1>3 DEF Reads

LEMMA NoneIsNoDocument ==
  ASSUME Cms!ConstantsOK
  PROVE  /\ \A home \in Cms!Sites : /\ None \notin Cms!DocumentsOf(home) /\ None \notin Cms!DraftsOf(home)
                                  /\ Cms!DocumentsOf(home) \subseteq Cms!DraftsOf(home)
         /\ \A d \in Cms!DocumentsOf("site") : d["copy"] # Cms!Bad
<1>1. \A home : Cms!DocumentsOf(home) \subseteq Cms!DraftsOf(home)
  BY DEF Cms!DocumentsOf, Cms!DraftsOf
<1>2. \A d \in Cms!DocumentsOf("site") : d["copy"] # Cms!Bad
  BY DEF Cms!DocumentsOf, Cms!FieldsOf, Cms!WebsiteFields, Cms!Values, Cms!On, Cms!Off, Cms!Bad
<1> QED BY <1>1, <1>2 DEF Cms!ConstantsOK, Cms!Sites

LEMMA PricesAreOfTheSite ==
  ASSUME Cms!ConstantsOK, NEW e \in Pricings
  PROVE  Cms!Home(e) = "site"
BY DEF Cms!Home, Cms!ConstantsOK

LEMMA ReadsKeepTypes ==
  ASSUME Cms!ConstantsOK, ServerOK, EditorsOK, NEW e \in Cms!Editors, Reads(e)
  PROVE  EditorsOK'
<1> DEFINE home == Cms!Home(e)
           p == editor[e]
           Docs == Cms!DocumentsOf(home)
           Drafts == Cms!DraftsOf(home)
<1>0. /\ PageOK(e, p) /\ home \in Cms!Sites /\ dialog' \subseteq Cms!Editors
      /\ editor \in [Cms!Editors -> Cms!PageOf("site") \cup Cms!PageOf("shared")]
  BY HomeIsASite, ReadsLeaveRest DEF EditorsOK
<1>d. None \notin Docs /\ None \notin Drafts /\ Docs \subseteq Drafts
  BY <1>0, NoneIsNoDocument
<1>b. e \in Pricings => \A d \in Docs : d["copy"] # Cms!Bad
  BY PricesAreOfTheSite, NoneIsNoDocument
<1> DEFINE Pages == [scope : Cms!ScopesOf(home), saved : Docs \cup {None}, draft : Drafts \cup {None},
                      at : {"idle", "sent", "read", "failed"}, answer : Docs \cup {None}]
<1>t. p \in Pages
      /\ (p.at = "read" => p.answer # None) /\ (e \in Pricings /\ p.draft # None => p.draft["copy"] # Cms!Bad)
  BY <1>0 DEF PageOK, Cms!PageOf
<1>k. ASSUME NEW q \in Pages, q.at = "read" => q.answer # None, e \in Pricings /\ q.draft # None => q.draft["copy"] # Cms!Bad
      PROVE  PageOK(e, q)
  BY <1>k DEF PageOK, Cms!PageOf
<1> SUFFICES \E q : PageOK(e, q) /\ editor' = [editor EXCEPT ![e] = q]
  BY <1>0, PageIsPut DEF EditorsOK
<1> HIDE DEF home, Docs, Drafts, p
<1> USE <1>t
<1>1. CASE Cms!ReadServed(e)
  <2> DEFINE q == [p EXCEPT !.at = "read", !.answer = Cms!ContentOf(p.scope)]
  <2>1. editor' = [editor EXCEPT ![e] = q]
    BY <1>1 DEF p, Cms!ReadServed
  <2>2. Cms!ContentOf(p.scope) \in Docs
    BY <1>0, ContentIsTyped DEF Docs, ContentTyped
  <2>3. q \in Pages /\ q.draft = p.draft /\ q.answer # None
    BY <1>d, <2>2
  <2> HIDE DEF q
  <2>4. PageOK(e, q)
    BY <1>k, <2>3
  <2> QED BY <2>1, <2>4
<1>2. CASE Cms!ReadShown(e)
  <2> DEFINE q == [p EXCEPT !.at = "idle", !.answer = None, !.saved = p.answer, !.draft = p.answer]
  <2>1. editor' = [editor EXCEPT ![e] = q] /\ p.at = "read"
    BY <1>2 DEF p, Cms!ReadShown
  <2>3. q \in Pages /\ q.draft = p.answer /\ q.at # "read" /\ p.answer \in Docs
    BY <1>d, <2>1
  <2> HIDE DEF q
  <2>4. PageOK(e, q)
    BY <1>b, <1>k, <2>3
  <2> QED BY <2>1, <2>4
<1>3. CASE Cms!ReadFailed(e)
  <2> DEFINE q == [p EXCEPT !.at = "failed", !.answer = None, !.saved = IF e \in Apps THEN None ELSE p.saved,
                            !.draft = IF e \in Apps THEN None ELSE p.draft]
  <2>1. editor' = [editor EXCEPT ![e] = q]
    BY <1>3 DEF p, Cms!ReadFailed
  <2>3. q \in Pages /\ q.draft \in {p.draft, None} /\ q.at # "read"
    BY DEF Pages
  <2> HIDE DEF q
  <2>4. PageOK(e, q)
    BY <1>k, <2>3
  <2> QED BY <2>1, <2>4
<1>4. CASE Cms!Retry(e)
  <2> DEFINE q == [p EXCEPT !.at = "sent"]
  <2>1. editor' = [editor EXCEPT ![e] = q]
    BY <1>4 DEF p, Cms!Retry
  <2>3. q \in Pages /\ q.draft = p.draft /\ q.at # "read"
    BY DEF Pages
  <2> HIDE DEF q
  <2>4. PageOK(e, q)
    BY <1>k, <2>3
  <2> QED BY <2>1, <2>4
<1>5. CASE Cms!Discard(e)
  <2> DEFINE q == [p EXCEPT !.draft = p.saved]
  <2>1. editor' = [editor EXCEPT ![e] = q] /\ e \notin Pricings
    BY <1>5 DEF p, Cms!Discard
  <2>3. q \in Pages /\ q.at = p.at /\ q.answer = p.answer
    BY <1>d
  <2> HIDE DEF q
  <2>4. PageOK(e, q)
    BY <1>k, <2>1, <2>3
  <2> QED BY <2>1, <2>4
<1>6. ASSUME NEW scope \in Scopes, Cms!ChangeScope(e, scope)
      PROVE  \E q : PageOK(e, q) /\ editor' = [editor EXCEPT ![e] = q]
  <2> DEFINE q == [p EXCEPT !.scope = scope, !.at = "sent", !.answer = None]
  <2>1. editor' = [editor EXCEPT ![e] = q] /\ e \in Apps
    BY <1>6 DEF p, Cms!ChangeScope
  <2>2. scope \in Cms!ScopesOf(home)
    BY <2>1 DEF Cms!ConstantsOK, Cms!ScopesOf, Cms!Home, home
  <2>3. q \in Pages /\ q.draft = p.draft /\ q.at # "read"
    BY <2>2
  <2> HIDE DEF q
  <2>4. PageOK(e, q)
    BY <1>k, <2>3
  <2> QED BY <2>1, <2>4
<1>7. ASSUME NEW f \in Cms!WebsiteFields \cup Cms!AppFields, NEW v \in Cms!Values \cup {Cms!Bad}, Cms!Edit(e, f, v),
             e \in Pricings => f = "pricing"
      PROVE  \E q : PageOK(e, q) /\ editor' = [editor EXCEPT ![e] = q]
  <2> DEFINE d == [p.draft EXCEPT ![f] = v]
             q == [p EXCEPT !.draft = d]
  <2>1. editor' = [editor EXCEPT ![e] = q] /\ p.draft \in Drafts
    BY <1>7, <1>t DEF p, Cms!Edit
  <2>2. d \in Drafts
    BY <2>1 DEF Drafts, Cms!DraftsOf
  <2>3. e \in Pricings => d["copy"] # Cms!Bad
    BY <1>7, <1>t, <1>d, <2>1, PricesAreOfTheSite DEF Drafts, Cms!DraftsOf, home
  <2> HIDE DEF d
  <2>4. q \in Pages /\ q.draft = d /\ q.at = p.at /\ q.answer = p.answer
    BY <2>2
  <2> HIDE DEF q
  <2>5. PageOK(e, q)
    BY <1>k, <2>3, <2>4
  <2> QED BY <2>1, <2>5
<1>8. ASSUME NEW f \in Cms!WebsiteFields \cup Cms!AppFields, NEW v \in Cms!Values \cup {Cms!Bad},
             Cms!EditWebsite(e, f, v) \/ Cms!EditPricing(e, f, v) \/ Cms!EditApp(e, f, v)
      PROVE  \E q : PageOK(e, q) /\ editor' = [editor EXCEPT ![e] = q]
  <2>1. e \in Pricings => f = "pricing"
    BY <1>8 DEF Cms!EditWebsite, Cms!EditPricing, Cms!EditApp, Cms!PricingFields, Cms!ConstantsOK
  <2> QED BY <1>7, <1>8, <2>1 DEF Cms!EditWebsite, Cms!EditPricing, Cms!EditApp
<1> QED BY <1>1, <1>2, <1>3, <1>4, <1>5, <1>6, <1>8 DEF Reads

-----------------------------------------------------------------------------
(* Calls of the console                                                    *)

Calls(e) ==
  \/ Cms!Save(e) \/ Cms!ConfirmReset(e) \/ \E op \in Cms!Ops : Cms!CallFailed(e, op)
\* A call is set, and nothing else but what was touched.
MakesCall(e, op, c) == call' = [call EXCEPT ![<<e, op>>] = c] /\ CallOK(e, op, c)

LEMMA CallsAreSet ==
  ASSUME Cms!ConstantsOK, ServerOK, EditorsOK, CallsOK, NEW e \in Cms!Editors, Calls(e)
  PROVE  /\ \E op \in Cms!Ops : \E c : MakesCall(e, op, c)
         /\ touched' \in [Orgs -> SUBSET Cms!AppFields]
         /\ UNCHANGED <<published, overrides, unpaid, editor, dialog, tab, fetch>>
<1> DEFINE home == Cms!Home(e)
           p == editor[e]
<1>0. PageOK(e, p) /\ home \in Cms!Sites /\ touched \in [Orgs -> SUBSET Cms!AppFields]
  BY HomeIsASite DEF EditorsOK, ServerOK
<1>1. CASE Cms!Save(e)
  <2> DEFINE c == [at |-> "sent", scope |-> p.scope, content |-> p.draft]
  <2>1. call' = [call EXCEPT ![<<e, "save">>] = c] /\ Cms!Dirty(e) /\ Cms!Valid(e)
    BY <1>1 DEF Cms!Save
  <2>2. p.draft # None /\ p.draft \in Cms!DraftsOf(home) /\ p.scope \in Cms!ScopesOf(home)
    BY <1>0, <2>1 DEF Cms!Dirty, PageOK, Cms!PageOf
  <2>3. \A f \in Cms!FieldsOf(home) : p.draft[f] # Cms!Bad
    <3>1. CASE e \in Pricings
      <4>1. home = "site" /\ p.draft["copy"] # Cms!Bad /\ p.draft["pricing"] # Cms!Bad
        BY <1>0, <2>1, <2>2, <3>1, PricesAreOfTheSite DEF PageOK, Cms!Valid, Cms!PricingFields
      <4> QED BY <4>1 DEF Cms!FieldsOf, Cms!WebsiteFields
    <3>2. CASE e \notin Pricings
      BY <2>1, <2>2, <3>2 DEF Cms!Valid, Cms!DraftsOf
    <3> QED BY <3>1, <3>2
  <2>4. p.draft \in Cms!DocumentsOf(home)
    BY <2>2, <2>3 DEF Cms!DraftsOf, Cms!DocumentsOf
  <2>5. p.scope # None
    BY <1>0, <2>2 DEF Cms!ScopesOf, Cms!ConstantsOK, Cms!Sites
  <2> HIDE DEF home, p
  <2>6. CallOK(e, "save", c)
    BY <2>2, <2>4, <2>5 DEF CallOK, Cms!CallOf, home
  <2>7. touched' \in [Orgs -> SUBSET Cms!AppFields]
    BY <1>0, <1>1 DEF Cms!Save
  <2> QED BY <1>1, <2>1, <2>6, <2>7 DEF Cms!Save, MakesCall, Cms!tabs, Cms!Ops
<1>2. CASE Cms!ConfirmReset(e)
  <2> DEFINE c == [at |-> "sent", scope |-> p.scope, content |-> None]
  <2>1. call' = [call EXCEPT ![<<e, "reset">>] = c]
    BY <1>2 DEF Cms!ConfirmReset
  <2>2. p.scope \in Cms!ScopesOf(home) /\ p.scope # None
    BY <1>0 DEF PageOK, Cms!PageOf, Cms!ScopesOf, Cms!ConstantsOK, Cms!Sites
  <2> HIDE DEF home, p
  <2>3. CallOK(e, "reset", c)
    BY <2>2 DEF CallOK, Cms!CallOf, home
  <2> QED BY <1>0, <1>2, <2>1, <2>3 DEF Cms!ConfirmReset, MakesCall, Cms!tabs, Cms!server, Cms!Ops
<1>3. ASSUME NEW op \in Cms!Ops, Cms!CallFailed(e, op)
      PROVE  /\ \E o \in Cms!Ops : \E c : MakesCall(e, o, c)
             /\ touched' \in [Orgs -> SUBSET Cms!AppFields]
             /\ UNCHANGED <<published, overrides, unpaid, editor, dialog, tab, fetch>>
  BY <1>0, <1>3, NoCallIsOne DEF Cms!CallFailed, MakesCall, Cms!tabs, Cms!server
<1> QED BY <1>1, <1>2, <1>3 DEF Calls

LEMMA DialogsMove ==
  ASSUME EditorsOK, NEW e \in Cms!Editors, Cms!OpenReset(e) \/ Cms!CancelReset(e)
  PROVE  EditorsOK' /\ UNCHANGED <<published, overrides, unpaid, touched, editor, call, tab, fetch>>
BY DEF Cms!OpenReset, Cms!CancelReset, EditorsOK, Cms!server, Cms!tabs

LEMMA CallIsAnswered ==
  ASSUME Cms!ConstantsOK, EditorsOK, CallsOK, NEW e \in Cms!Editors, NEW op \in Cms!Ops, Cms!Answered(e, op)
  PROVE  EditorsOK' /\ CallsOK' /\ UNCHANGED <<published, overrides, unpaid, touched, tab, fetch>>
<1> DEFINE home == Cms!Home(e)
           p == editor[e]
           c == call[<<e, op>>]
           q == [p EXCEPT !.saved = c.content, !.draft = c.content]
<1>0. PageOK(e, p) /\ CallOK(e, op, c) /\ home \in Cms!Sites /\ c.at = "done"
  BY HomeIsASite DEF EditorsOK, CallsOK, Cms!Answered
<1>1. c.content \in Cms!DocumentsOf(home) /\ Cms!DocumentsOf(home) \subseteq Cms!DraftsOf(home)
  BY <1>0, NoneIsNoDocument DEF CallOK, Cms!CallOf
<1>2. e \in Pricings => c.content["copy"] # Cms!Bad
  BY <1>1, PricesAreOfTheSite, NoneIsNoDocument
<1>3. /\ editor' = [editor EXCEPT ![e] = q] /\ call' = [call EXCEPT ![<<e, op>>] = Cms!NoCall]
      /\ dialog' \subseteq dialog /\ UNCHANGED <<published, overrides, unpaid, touched, tab, fetch>>
  BY DEF Cms!Answered, Cms!ApplyServerContent, Cms!server, Cms!tabs
<1> HIDE DEF home, c
<1>4. PageOK(e, q)
  BY <1>0, <1>1, <1>2 DEF PageOK, Cms!PageOf, home
<1> HIDE DEF q
<1>5. EditorsOK'
  BY <1>3, <1>4, PageIsPut DEF EditorsOK
<1>6. CallsOK'
  BY <1>3, NoCallIsOne, CallIsPut
<1> QED BY <1>3, <1>5, <1>6

LEMMA ModulesAreSet ==
  ASSUME Cms!ConstantsOK, ServerOK, NEW o \in Orgs, NEW off \in BOOLEAN, Cms!SetModules(o, off)
  PROVE  ServerOK' /\ UNCHANGED <<published, editor, dialog, call, tab, fetch>>
<1>1. Cms!SwitchedOff(off) \in Cms!Values \cup {None}
  BY DEF Cms!SwitchedOff, Cms!Values
<1>2. overrides' \in [Orgs -> [Cms!AppFields -> Cms!Values \cup {None}]]
  BY <1>1 DEF Cms!SetModules, ServerOK
<1>3. touched' \in [Orgs -> SUBSET Cms!AppFields]
  BY DEF Cms!SetModules, ServerOK, Cms!AppFields
<1> QED BY <1>2, <1>3 DEF Cms!SetModules, ServerOK, Cms!pages, Cms!tabs

\* What is put is a document, and what is stored of an organization's copy is of its fields.
LEMMA DocumentIsPut ==
  ASSUME Cms!ConstantsOK, ServerOK, NEW home \in Cms!Sites, NEW scope \in Cms!ScopesOf(home),
         \/ \E content \in Cms!DocumentsOf(home) : Cms!Put(scope, content)
         \/ Cms!ResetTo(scope),
         UNCHANGED <<unpaid, touched>>
  PROVE  ServerOK'
<1>1. CASE scope \in Orgs
  <2>1. home = "shared"
    BY <1>1 DEF Cms!ScopesOf, Cms!ConstantsOK
  <2>2. \A content \in Cms!DocumentsOf(home) : Cms!Differences(content) \in [Cms!AppFields -> Cms!Values \cup {None}]
    BY <2>1 DEF Cms!DocumentsOf, Cms!FieldsOf, Cms!Differences
  <2>3. \E kept \in [Cms!AppFields -> Cms!Values \cup {None}] :
          overrides' = [overrides EXCEPT ![scope] = kept] /\ UNCHANGED published
    BY <1>1, <2>2 DEF Cms!Put, Cms!ResetTo
  <2> QED BY <2>3 DEF ServerOK
<1>2. CASE scope \notin Orgs
  <2>1. scope = home
    BY <1>2 DEF Cms!ScopesOf, Cms!Sites
  <2>2. Cms!Default(scope) \in Cms!DocumentsOf(home)
    BY <2>1 DEF Cms!Default, Cms!DocumentsOf, Cms!Values
  <2>3. \E content \in Cms!DocumentsOf(home) : published' = [published EXCEPT ![home] = content] /\ UNCHANGED overrides
    BY <1>2, <2>1, <2>2 DEF Cms!Put, Cms!ResetTo
  <2>4. Cms!DocumentsOf(home) \subseteq Cms!DocumentsOf("site") \cup Cms!DocumentsOf("shared")
    BY DEF Cms!Sites
  <2> QED BY <2>3, <2>4 DEF ServerOK
<1> QED BY <1>1, <1>2

LEMMA CallIsServed ==
  ASSUME Cms!ConstantsOK, ServerOK, CallsOK, NEW e \in Cms!Editors, NEW op \in Cms!Ops, Cms!Served(e, op)
  PROVE  ServerOK' /\ CallsOK' /\ UNCHANGED <<unpaid, touched, editor, dialog, tab, fetch>>
<1> DEFINE home == Cms!Home(e)
           c == call[<<e, op>>]
<1>1. /\ CallOK(e, op, c) /\ home \in Cms!Sites /\ c.at = "sent"
      /\ UNCHANGED <<unpaid, touched, editor, dialog, tab, fetch>>
  BY HomeIsASite DEF CallsOK, Cms!Served, Cms!tabs
<1>2. c.scope \in Cms!ScopesOf(home) /\ (op = "save" => c.content \in Cms!DocumentsOf(home))
  BY <1>1 DEF CallOK, Cms!CallOf
<1>3. ServerOK'
  BY <1>1, <1>2, DocumentIsPut DEF Cms!Served
<1>4. PICK scope \in {c.scope} :
        call' = [call EXCEPT ![<<e, op>>].at = "done", ![<<e, op>>].content = Cms!ContentOf(scope)']
  BY DEF Cms!Served
<1>5. PICK d \in Cms!DocumentsOf(home) : call' = [call EXCEPT ![<<e, op>>].at = "done", ![<<e, op>>].content = d]
  BY <1>1, <1>2, <1>3, <1>4, ContentIsTypedThen DEF ContentTyped
<1>6. d # None
  BY <1>1, NoneIsNoDocument
<1> DEFINE q == [c EXCEPT !.at = "done", !.content = d]
<1>7. CallOK(e, op, q)
  <2> HIDE DEF c
  <2> QED BY <1>1, <1>2, <1>6 DEF CallOK, Cms!CallOf, home
<1>8. call' = [call EXCEPT ![<<e, op>>] = q]
  BY <1>5
<1> HIDE DEF q
<1> QED BY <1>1, <1>3, <1>7, <1>8, CallIsPut

-----------------------------------------------------------------------------
(* The organizations' tabs                                                 *)

TabMoves(t, s) ==
  \/ Cms!FetchServed(t, s) \/ Cms!FetchFailed(t, s) \/ Cms!FetchDone(t, s)
  \/ \E o \in Orgs \cup {None} : Cms!SignInOrOut(t, s, o)

\* What a tab's last fetch and the tab itself may be of.
FetchIsFor(t, f) ==
  f.latest => /\ f.at # "idle"
              /\ f.at = "sent" => f.org \in {tab[t].org, None}
              /\ f.at = "read" => f.of \in {tab[t].org, "default", "shared"}
FetchOK(f) == f \in Cms!Fetch /\ (f.at = "read" => f.of # None /\ f.answer # None)

LEMMA NoFetchIsOne == \A t : FetchOK(Cms!NoFetch) /\ FetchIsFor(t, Cms!NoFetch) /\ ~Cms!NoFetch.latest
BY DEF FetchOK, FetchIsFor, Cms!NoFetch, Cms!Fetch

LEMMA FetchIsPut ==
  ASSUME TabsOK, Cms!LatestIsMine, Cms!TabShowsItsOwn, NEW t \in Tabs, NEW s \in Slots, NEW f,
         FetchOK(f), FetchIsFor(t, f), f.latest = fetch[<<t, s>>].latest,
         fetch' = [fetch EXCEPT ![<<t, s>>] = f], UNCHANGED tab
  PROVE  TabsOK' /\ Cms!LatestIsMine' /\ Cms!TabShowsItsOwn'
<1>1. TabsOK'
  BY DEF TabsOK, FetchOK
<1>2. \A u \in Tabs, r \in Slots : fetch'[<<u, r>>] = IF u = t /\ r = s THEN f ELSE fetch[<<u, r>>]
  BY DEF TabsOK
<1>3. Cms!LatestIsMine'
  BY <1>2 DEF Cms!LatestIsMine, FetchIsFor
<1>4. Cms!TabShowsItsOwn'
  BY <1>2 DEF Cms!TabShowsItsOwn
<1> QED BY <1>1, <1>3, <1>4

LEMMA TabsMove ==
  ASSUME Cms!ConstantsOK, ServerOK, TabsOK, Cms!LatestIsMine, Cms!TabShowsItsOwn,
         NEW t \in Tabs, NEW s \in Slots, TabMoves(t, s)
  PROVE  /\ TabsOK' /\ Cms!LatestIsMine' /\ Cms!TabShowsItsOwn'
         /\ UNCHANGED <<published, overrides, unpaid, touched, editor, dialog, call>>
<1> DEFINE f == fetch[<<t, s>>]
<1>0. FetchOK(f) /\ FetchIsFor(t, f) /\ fetch \in [Tabs \X Slots -> Cms!Fetch] /\ tab \in [Tabs -> Cms!Shown]
  BY DEF TabsOK, FetchOK, FetchIsFor, Cms!LatestIsMine
<1>u. UNCHANGED <<published, overrides, unpaid, touched, editor, dialog, call>>
  BY DEF TabMoves, Cms!FetchServed, Cms!FetchFailed, Cms!FetchDone, Cms!SignInOrOut, Cms!server, Cms!pages
<1>1. CASE Cms!FetchServed(t, s)
  <2> DEFINE of == IF f.org = None THEN "shared" ELSE f.org
             g == [f EXCEPT !.at = "read", !.of = of, !.answer = Cms!ContentOf(of)]
  <2>1. fetch' = [fetch EXCEPT ![<<t, s>>] = g] /\ UNCHANGED tab /\ f.at = "sent"
    BY <1>1 DEF Cms!FetchServed
  <2>2. of \in Orgs \cup {"shared"} /\ of # None /\ (f.latest => of \in {tab[t].org, "shared"})
    BY <1>0, <2>1 DEF Cms!ConstantsOK, FetchOK, Cms!Fetch, FetchIsFor
  <2>3. Cms!ContentOf(of) \in Cms!DocumentsOf("shared")
    BY <2>2, ContentIsTyped DEF ContentTyped
  <2>4. Cms!ContentOf(of) # None
    BY <2>3, NoneIsNoDocument DEF Cms!Sites
  <2> HIDE DEF of, f
  <2>5. FetchOK(g) /\ FetchIsFor(t, g) /\ g.latest = f.latest
    BY <1>0, <2>2, <2>3, <2>4 DEF FetchOK, FetchIsFor, Cms!Fetch
  <2> HIDE DEF g
  <2> QED BY <1>u, <2>1, <2>5, FetchIsPut DEF f
<1>2. CASE Cms!FetchFailed(t, s)
  <2> DEFINE g == IF f.org # None THEN [f EXCEPT !.org = None]
                  ELSE [f EXCEPT !.at = "read", !.of = "default", !.answer = Cms!Default("shared")]
  <2>1. fetch' = [fetch EXCEPT ![<<t, s>>] = g] /\ UNCHANGED tab /\ f.at = "sent"
    BY <1>2 DEF Cms!FetchFailed
  <2>2. Cms!Default("shared") \in Cms!DocumentsOf("shared")
    BY DEF Cms!Default, Cms!DocumentsOf, Cms!Values
  <2>3. Cms!Default("shared") # None /\ "default" # None
    BY <2>2, NoneIsNoDocument DEF Cms!Sites, Cms!ConstantsOK
  <2> HIDE DEF f
  <2>4. CASE f.org # None
    <3>1. FetchOK(g) /\ FetchIsFor(t, g) /\ g.latest = f.latest
      BY <1>0, <2>1, <2>4 DEF FetchOK, FetchIsFor, Cms!Fetch
    <3> HIDE DEF g
    <3> QED BY <1>u, <2>1, <3>1, FetchIsPut DEF f
  <2>5. CASE f.org = None
    <3>1. FetchOK(g) /\ FetchIsFor(t, g) /\ g.latest = f.latest
      BY <1>0, <2>1, <2>2, <2>3, <2>5 DEF FetchOK, FetchIsFor, Cms!Fetch
    <3> HIDE DEF g
    <3> QED BY <1>u, <2>1, <3>1, FetchIsPut DEF f
  <2> QED BY <2>4, <2>5
<1>3. CASE Cms!FetchDone(t, s)
  <2>1. fetch' = [fetch EXCEPT ![<<t, s>>] = Cms!NoFetch] /\ f.at = "read"
    BY <1>3 DEF Cms!FetchDone
  <2>2. CASE f.latest
    <3> DEFINE shown == [tab[t] EXCEPT !.of = f.of, !.shown = f.answer]
    <3>1. tab' = [tab EXCEPT ![t] = shown]
      BY <1>3, <2>2 DEF Cms!FetchDone, Cms!Shows
    <3>2. f.of \in Orgs \cup {"default", "shared"} /\ f.answer \in Cms!DocumentsOf("shared")
      BY <1>0, <2>1 DEF FetchOK, Cms!Fetch
    <3>3. /\ shown \in Cms!Shown /\ shown.org = tab[t].org /\ shown.of \in {tab[t].org, "default", "shared"}
      BY <1>0, <2>1, <2>2, <3>2 DEF Cms!Shown, FetchIsFor
    <3> HIDE DEF shown
    <3>4. TabsOK'
      BY <1>0, <2>1, <3>1, <3>3, NoFetchIsOne DEF TabsOK, FetchOK
    <3>5. \A u \in Tabs : tab'[u] = IF u = t THEN shown ELSE tab[u]
      BY <1>0, <3>1
    <3>6. \A u \in Tabs, r \in Slots : fetch'[<<u, r>>] = IF u = t /\ r = s THEN Cms!NoFetch ELSE fetch[<<u, r>>]
      BY <1>0, <2>1
    <3>7. Cms!LatestIsMine'
      BY <3>3, <3>5, <3>6, NoFetchIsOne DEF Cms!LatestIsMine
    <3>8. Cms!TabShowsItsOwn'
      BY <3>3, <3>5, <3>6 DEF Cms!TabShowsItsOwn
    <3> QED BY <1>u, <3>4, <3>7, <3>8
  <2>3. CASE ~f.latest
    <3>1. UNCHANGED tab
      BY <1>3, <2>3 DEF Cms!FetchDone, Cms!Shows
    <3>2. f.latest = Cms!NoFetch.latest
      BY <1>0, <2>3 DEF FetchOK, Cms!Fetch, Cms!NoFetch
    <3> QED BY <1>u, <2>1, <3>1, <3>2, NoFetchIsOne, FetchIsPut
  <2> QED BY <2>2, <2>3
<1>4. ASSUME NEW o \in Orgs \cup {None}, Cms!SignInOrOut(t, s, o)
      PROVE  TabsOK' /\ Cms!LatestIsMine' /\ Cms!TabShowsItsOwn'
  <2> DEFINE g == [Cms!NoFetch EXCEPT !.at = "sent", !.org = o, !.latest = TRUE]
             h(r) == [fetch[r] EXCEPT !.latest = FALSE]
  <2>1. /\ tab' = [tab EXCEPT ![t].org = o]
        /\ fetch' = [r \in Tabs \X Slots |-> IF r = <<t, s>> THEN g ELSE IF r[1] = t THEN h(r) ELSE fetch[r]]
    BY <1>4 DEF Cms!SignInOrOut, Cms!Asks
  <2>2. FetchOK(g) /\ g.latest /\ g.at = "sent" /\ g.org = o
    BY DEF FetchOK, Cms!NoFetch, Cms!Fetch
  <2>0. \A r \in Tabs \X Slots : FetchOK(fetch[r])
    BY DEF TabsOK, FetchOK
  <2>3. \A r \in Tabs \X Slots : FetchOK(h(r)) /\ ~h(r).latest
    <3>1. \A x : FetchOK(x) => FetchOK([x EXCEPT !.latest = FALSE]) /\ ~[x EXCEPT !.latest = FALSE].latest
      BY DEF FetchOK, Cms!Fetch
    <3> QED BY <2>0, <3>1
  <2> HIDE DEF g, h
  <2>5. \A r \in Tabs \X Slots : FetchOK(fetch'[r])
    BY <2>0, <2>1, <2>2, <2>3
  <2>6. tab' \in [Tabs -> Cms!Shown] /\ (\A u \in Tabs : u # t => tab'[u] = tab[u]) /\ tab'[t].org = o
    BY <1>0, <2>1 DEF Cms!Shown
  <2>7. TabsOK'
    BY <2>1, <2>5, <2>6 DEF TabsOK, FetchOK
  <2>8. \A u \in Tabs, r \in Slots :
          fetch'[<<u, r>>] = IF u = t THEN IF r = s THEN g ELSE h(<<u, r>>) ELSE fetch[<<u, r>>]
    BY <2>1
  <2>9. Cms!LatestIsMine'
    BY <2>2, <2>3, <2>6, <2>8 DEF Cms!LatestIsMine
  <2>10. Cms!TabShowsItsOwn'
    BY <2>2, <2>6, <2>8 DEF Cms!TabShowsItsOwn
  <2> QED BY <2>7, <2>9, <2>10
<1> QED BY <1>u, <1>1, <1>2, <1>3, <1>4 DEF TabMoves

-----------------------------------------------------------------------------
Parts == ServerOK /\ EditorsOK /\ CallsOK /\ TabsOK /\ Cms!LatestIsMine /\ Cms!TabShowsItsOwn

LEMMA ContentInvByParts == Cms!ContentInv <=> Parts
BY ContentTypesByParts DEF Cms!ContentInv, Parts

\* Every step, by who takes it.
LEMMA ContentSteps ==
  ASSUME Cms!Next
  PROVE  \/ \E e \in Cms!Editors : Reads(e) \/ Calls(e) \/ Cms!OpenReset(e) \/ Cms!CancelReset(e)
         \/ \E e \in Cms!Editors, op \in Cms!Ops : Cms!Served(e, op) \/ Cms!Answered(e, op)
         \/ \E o \in Orgs, off \in BOOLEAN : Cms!SetModules(o, off)
         \/ \E t \in Tabs, s \in Slots : TabMoves(t, s)
<1>1. CASE Cms!People
  BY <1>1 DEF Cms!People, Reads, Calls, TabMoves
<1>2. CASE Cms!Answers
  BY <1>2 DEF Cms!Answers, Reads, Calls, TabMoves
<1> QED BY <1>1, <1>2 DEF Cms!Next

LEMMA TabsStay ==
  ASSUME TabsOK, Cms!LatestIsMine, Cms!TabShowsItsOwn, UNCHANGED <<tab, fetch>>
  PROVE  TabsOK' /\ Cms!LatestIsMine' /\ Cms!TabShowsItsOwn'
BY DEF TabsOK, Cms!LatestIsMine, Cms!TabShowsItsOwn

LEMMA ServerStays ==
  ASSUME ServerOK, UNCHANGED <<published, overrides, unpaid>>, touched' \in [Orgs -> SUBSET Cms!AppFields]
  PROVE  ServerOK'
BY DEF ServerOK

LEMMA PagesStay ==
  /\ EditorsOK /\ UNCHANGED <<editor, dialog>> => EditorsOK'
  /\ CallsOK /\ UNCHANGED call => CallsOK'
BY DEF EditorsOK, CallsOK, PageOK, CallOK

LEMMA ContentStep ==
  ASSUME Cms!ConstantsOK, Cms!ContentInv, [Cms!Next]_Cms!vars
  PROVE  Cms!ContentInv'
<1>0. Parts
  BY ContentInvByParts
<1> SUFFICES Parts'
  <2>1. Cms!ContentInv' <=> Parts'
    BY ContentInvByParts, PTL
  <2> QED BY <2>1
<1>t. touched \in [Orgs -> SUBSET Cms!AppFields]
  BY <1>0 DEF Parts, ServerOK
<1>1. ASSUME NEW e \in Cms!Editors, Reads(e) PROVE Parts'
  <2>1. EditorsOK' /\ UNCHANGED <<published, overrides, unpaid, touched, dialog, call, tab, fetch>>
    BY <1>0, <1>1, ReadsKeepTypes, ReadsLeaveRest DEF Parts
  <2> QED BY <1>0, <1>t, <2>1, ServerStays, PagesStay, TabsStay DEF Parts
<1>2. ASSUME NEW e \in Cms!Editors, Calls(e) PROVE Parts'
  <2>1. /\ \E op \in Cms!Ops : \E c : MakesCall(e, op, c)
        /\ touched' \in [Orgs -> SUBSET Cms!AppFields]
        /\ UNCHANGED <<published, overrides, unpaid, editor, dialog, tab, fetch>>
    BY <1>0, <1>2, CallsAreSet DEF Parts
  <2>2. CallsOK'
    BY <1>0, <2>1, CallIsPut DEF Parts, MakesCall
  <2> QED BY <1>0, <2>1, <2>2, ServerStays, PagesStay, TabsStay DEF Parts
<1>3. ASSUME NEW e \in Cms!Editors, Cms!OpenReset(e) \/ Cms!CancelReset(e) PROVE Parts'
  <2>1. EditorsOK' /\ UNCHANGED <<published, overrides, unpaid, touched, editor, call, tab, fetch>>
    BY <1>0, <1>3, DialogsMove DEF Parts
  <2> QED BY <1>0, <1>t, <2>1, ServerStays, PagesStay, TabsStay DEF Parts
<1>4. ASSUME NEW e \in Cms!Editors, NEW op \in Cms!Ops, Cms!Served(e, op) PROVE Parts'
  <2>1. ServerOK' /\ CallsOK' /\ UNCHANGED <<unpaid, touched, editor, dialog, tab, fetch>>
    BY <1>0, <1>4, CallIsServed DEF Parts
  <2> QED BY <1>0, <2>1, PagesStay, TabsStay DEF Parts
<1>5. ASSUME NEW e \in Cms!Editors, NEW op \in Cms!Ops, Cms!Answered(e, op) PROVE Parts'
  <2>1. EditorsOK' /\ CallsOK' /\ UNCHANGED <<published, overrides, unpaid, touched, tab, fetch>>
    BY <1>0, <1>5, CallIsAnswered DEF Parts
  <2> QED BY <1>0, <1>t, <2>1, ServerStays, TabsStay DEF Parts
<1>6. ASSUME NEW o \in Orgs, NEW off \in BOOLEAN, Cms!SetModules(o, off) PROVE Parts'
  <2>1. ServerOK' /\ UNCHANGED <<published, editor, dialog, call, tab, fetch>>
    BY <1>0, <1>6, ModulesAreSet DEF Parts
  <2> QED BY <1>0, <2>1, PagesStay, TabsStay DEF Parts
<1>7. ASSUME NEW t \in Tabs, NEW s \in Slots, TabMoves(t, s) PROVE Parts'
  <2>1. /\ TabsOK' /\ Cms!LatestIsMine' /\ Cms!TabShowsItsOwn'
        /\ UNCHANGED <<published, overrides, unpaid, touched, editor, dialog, call>>
    BY <1>0, <1>7, TabsMove DEF Parts
  <2> QED BY <1>0, <1>t, <2>1, ServerStays, PagesStay DEF Parts
<1>8. CASE UNCHANGED Cms!vars
  <2>1. UNCHANGED <<published, overrides, unpaid, touched, editor, dialog, call, tab, fetch>>
    BY <1>8 DEF Cms!vars
  <2> QED BY <1>0, <1>t, <2>1, ServerStays, PagesStay, TabsStay DEF Parts
<1> QED BY <1>1, <1>2, <1>3, <1>4, <1>5, <1>6, <1>7, <1>8, ContentSteps

LEMMA ContentStarts ==
  ASSUME Cms!ConstantsOK, Cms!Init
  PROVE  Cms!ContentInv
<1> SUFFICES Parts BY ContentInvByParts
<1>1. /\ \A home \in Cms!Sites : Cms!Default(home) \in Cms!DocumentsOf(home)
  BY DEF Cms!Default, Cms!DocumentsOf, Cms!Values
<1>2. ServerOK
  <2>1. published \in [Cms!Sites -> Cms!DocumentsOf("site") \cup Cms!DocumentsOf("shared")]
    BY <1>1 DEF Cms!Init, Cms!Sites
  <2>2. \A s \in Cms!Sites : published[s] \in Cms!DocumentsOf(s)
    BY <1>1 DEF Cms!Init
  <2> QED BY <2>1, <2>2 DEF Cms!Init, ServerOK
<1>3. EditorsOK
  <2>1. \A e \in Cms!Editors : PageOK(e, Cms!Opened(Cms!Home(e)))
    BY HomeIsASite DEF PageOK, Cms!PageOf, Cms!Opened, Cms!ScopesOf, Cms!Sites
  <2>2. \A e \in Cms!Editors : Cms!Opened(Cms!Home(e)) \in Cms!PageOf("site") \cup Cms!PageOf("shared")
    BY <2>1, HomeIsASite DEF PageOK, Cms!Sites
  <2> QED BY <2>1, <2>2 DEF Cms!Init, EditorsOK
<1>4. CallsOK
  <2>1. \A e \in Cms!Editors, op \in Cms!Ops : CallOK(e, op, Cms!NoCall)
    BY NoCallIsOne
  <2>2. Cms!NoCall \in Cms!CallOf("site")
    BY DEF Cms!NoCall, Cms!CallOf
  <2> QED BY <2>1, <2>2 DEF Cms!Init, CallsOK
<1>5. TabsOK /\ Cms!LatestIsMine
  <2>1. tab \in [Tabs -> Cms!Shown]
    BY <1>1 DEF Cms!Init, Cms!Shown, Cms!Sites
  <2>2. fetch \in [Tabs \X Slots -> Cms!Fetch]
    BY NoFetchIsOne DEF Cms!Init, FetchOK
  <2>3. \A r \in Tabs \X Slots : fetch[r] = Cms!NoFetch
    BY DEF Cms!Init
  <2>4. Cms!NoFetch.at = "idle" /\ ~Cms!NoFetch.latest
    BY DEF Cms!NoFetch
  <2> QED BY <2>1, <2>2, <2>3, <2>4 DEF TabsOK, Cms!LatestIsMine
<1>6. Cms!TabShowsItsOwn
  BY DEF Cms!Init, Cms!TabShowsItsOwn
<1> QED BY <1>2, <1>3, <1>4, <1>5, <1>6 DEF Parts

\* Whichever pages and plans, the types and the tabs are right.
THEOREM ContentInvariant ==
  ASSUME Cms!ConstantsOK
  PROVE  Cms!Spec => []Cms!ContentInv
<1>1. Cms!Init => Cms!ContentInv
  BY ContentStarts
<1>2. Cms!ContentInv /\ [Cms!Next]_Cms!vars => Cms!ContentInv'
  BY ContentStep
<1> QED BY <1>1, <1>2, PTL DEF Cms!Spec

-----------------------------------------------------------------------------
(* Modules a plan leaves out                                               *)

LEMMA UnpaidStep ==
  ASSUME Cms!ConstantsOK, Cms!NobodyEditsCopies, Cms!ContentInv, Cms!UnpaidIsOff, [Cms!Next]_Cms!vars
  PROVE  Cms!UnpaidIsOff'
<1> DEFINE Shared == \A e \in Cms!Editors : editor[e].scope \notin Orgs /\ \A op \in Cms!Ops : call[<<e, op>>].scope \notin Orgs
           SwitchedOff == \A o \in unpaid : overrides[o]["modules"] = Cms!Off
<1>0. Parts /\ Shared /\ SwitchedOff /\ None \notin Orgs
  BY ContentInvByParts DEF Cms!UnpaidIsOff, Cms!ConstantsOK
<1>t. /\ editor \in [Cms!Editors -> Cms!PageOf("site") \cup Cms!PageOf("shared")]
      /\ call \in [Cms!Editors \X Cms!Ops -> Cms!CallOf("site") \cup Cms!CallOf("shared")]
      /\ unpaid \subseteq Orgs /\ overrides \in [Orgs -> [Cms!AppFields -> Cms!Values \cup {None}]]
      /\ "modules" \in Cms!AppFields
  BY <1>0 DEF Parts, EditorsOK, CallsOK, ServerOK, Cms!AppFields
<1> SUFFICES Shared' /\ SwitchedOff'
  BY DEF Cms!UnpaidIsOff
<1>1. ASSUME NEW e \in Cms!Editors, Reads(e) PROVE Shared' /\ SwitchedOff'
  <2>1. UNCHANGED <<call, overrides, unpaid>>
    BY <1>1, ReadsLeaveRest
  <2>2. \A d \in Cms!Editors : editor'[d].scope = editor[d].scope \/ editor'[d].scope \in Scopes
    <3>1. CASE Cms!ReadServed(e) \/ Cms!ReadShown(e) \/ Cms!ReadFailed(e) \/ Cms!Retry(e) \/ Cms!Discard(e)
      BY <1>t, <3>1 DEF Cms!ReadServed, Cms!ReadShown, Cms!ReadFailed, Cms!Retry, Cms!Discard, Cms!PageOf
    <3>2. CASE \E scope \in Scopes : Cms!ChangeScope(e, scope)
      BY <1>t, <3>2 DEF Cms!ChangeScope, Cms!PageOf
    <3>3. CASE \E f \in Cms!WebsiteFields \cup Cms!AppFields, v \in Cms!Values \cup {Cms!Bad} :
                 Cms!EditWebsite(e, f, v) \/ Cms!EditPricing(e, f, v) \/ Cms!EditApp(e, f, v)
      BY <1>t, <3>3 DEF Cms!EditWebsite, Cms!EditPricing, Cms!EditApp, Cms!Edit, Cms!PageOf
    <3> QED BY <1>1, <3>1, <3>2, <3>3 DEF Reads
  <2> QED BY <1>0, <2>1, <2>2 DEF Cms!NobodyEditsCopies
<1>2. ASSUME NEW e \in Cms!Editors, Calls(e) PROVE Shared' /\ SwitchedOff'
  <2>1. UNCHANGED <<overrides, unpaid, editor>>
    BY <1>0, <1>2, CallsAreSet DEF Parts
  <2>2. \E op \in Cms!Ops : \E c : call' = [call EXCEPT ![<<e, op>>] = c] /\ c.scope \in {None, editor[e].scope}
    BY <1>2 DEF Calls, Cms!Save, Cms!ConfirmReset, Cms!CallFailed, Cms!NoCall, Cms!Ops
  <2>3. \A d \in Cms!Editors, op \in Cms!Ops : call'[<<d, op>>].scope \in {None, editor[d].scope, call[<<d, op>>].scope}
    BY <1>t, <2>2
  <2> QED BY <1>0, <2>1, <2>3
<1>3. ASSUME NEW e \in Cms!Editors, Cms!OpenReset(e) \/ Cms!CancelReset(e) PROVE Shared' /\ SwitchedOff'
  BY <1>0, <1>3, DialogsMove DEF Parts
<1>4. ASSUME NEW e \in Cms!Editors, NEW op \in Cms!Ops, Cms!Served(e, op) PROVE Shared' /\ SwitchedOff'
  <2>1. UNCHANGED <<unpaid, editor>>
    BY <1>4 DEF Cms!Served
  <2>2. UNCHANGED overrides
    BY <1>0, <1>4 DEF Cms!Served, Cms!Put, Cms!ResetTo
  <2>3. \A d \in Cms!Editors, o \in Cms!Ops : call'[<<d, o>>].scope = call[<<d, o>>].scope
    BY <1>t, <1>4 DEF Cms!Served, Cms!CallOf
  <2> QED BY <1>0, <2>1, <2>2, <2>3
<1>5. ASSUME NEW e \in Cms!Editors, NEW op \in Cms!Ops, Cms!Answered(e, op) PROVE Shared' /\ SwitchedOff'
  <2>1. UNCHANGED <<overrides, unpaid>>
    BY <1>5 DEF Cms!Answered, Cms!server
  <2>2. \A d \in Cms!Editors : editor'[d].scope = editor[d].scope
    BY <1>t, <1>5 DEF Cms!Answered, Cms!ApplyServerContent, Cms!PageOf
  <2>3. \A d \in Cms!Editors, o \in Cms!Ops : call'[<<d, o>>].scope \in {None, call[<<d, o>>].scope}
    BY <1>t, <1>5 DEF Cms!Answered, Cms!NoCall
  <2> QED BY <1>0, <2>1, <2>2, <2>3
<1>6. ASSUME NEW o \in Orgs, NEW off \in BOOLEAN, Cms!SetModules(o, off) PROVE Shared' /\ SwitchedOff'
  <2>1. UNCHANGED <<editor, call>>
    BY <1>6 DEF Cms!SetModules, Cms!pages
  <2>2. SwitchedOff'
    BY <1>0, <1>t, <1>6 DEF Cms!SetModules, Cms!SwitchedOff
  <2> QED BY <1>0, <2>1, <2>2
<1>7. ASSUME NEW t \in Tabs, NEW s \in Slots, TabMoves(t, s) PROVE Shared' /\ SwitchedOff'
  BY <1>0, <1>7, TabsMove DEF Parts
<1>8. CASE UNCHANGED Cms!vars
  BY <1>0, <1>8 DEF Cms!vars
<1> QED BY <1>1, <1>2, <1>3, <1>4, <1>5, <1>6, <1>7, <1>8, ContentSteps

LEMMA UnpaidHolds ==
  ASSUME Cms!ConstantsOK, Cms!NobodyEditsCopies
  PROVE  Cms!Spec => [](Cms!UnpaidIsOff /\ Cms!UnpaidStaysOff)
<1>1. Cms!Init => Cms!UnpaidIsOff
  BY HomeIsASite DEF Cms!Init, Cms!UnpaidIsOff, Cms!Opened, Cms!NoCall, Cms!ConstantsOK, Cms!Sites
<1>2. Cms!ContentInv /\ Cms!UnpaidIsOff /\ [Cms!Next]_Cms!vars => Cms!UnpaidIsOff'
  BY UnpaidStep
<1>3. Cms!UnpaidIsOff => Cms!UnpaidStaysOff
  BY DEF Cms!UnpaidIsOff, Cms!UnpaidStaysOff, Cms!Merged, Cms!AppFields, Cms!ConstantsOK, Cms!Values
<1> QED BY <1>1, <1>2, <1>3, ContentInvariant, PTL DEF Cms!Spec

-----------------------------------------------------------------------------
(* An administrator alone who waits for what he switches to                *)

\* What holds of his page.
OneOf(e) ==
  LET p == editor[e]
      save == call[<<e, "save">>]
      reset == call[<<e, "reset">>]
      stored == Cms!ContentOf(p.scope)
  IN /\ reset.at # "idle" => e \in dialog
     /\ e \in dialog => p.at = "idle" /\ save.at = "idle"
     /\ save.at # "idle" => p.at = "idle" /\ save.scope = p.scope
     /\ reset.at # "idle" => p.at = "idle" /\ reset.scope = p.scope
     /\ p.at # "failed" /\ (p.at = "read" => p.answer = stored)
     /\ p.at = "idle" /\ save.at # "done" /\ reset.at # "done" => p.saved = stored
     /\ save.at = "done" => save.content = stored
     /\ reset.at = "done" => reset.content = stored
     /\ save.at = "sent" /\ save.scope \in Orgs =>
          \A f \in Cms!AppFields : save.content[f] # p.saved[f] => f \in touched[save.scope]

LEMMA OneInvIsOfOne ==
  ASSUME NEW e, Cms!Editors = {e}
  PROVE  /\ Cms!OneInv <=> OneOf(e) /\ Cms!FollowsShared
         /\ Cms!OneInv' <=> OneOf(e)' /\ Cms!FollowsShared'
BY DEF Cms!OneInv, Cms!OneAtATime, Cms!FormIsFromStored, Cms!SaveIsTouched, OneOf, Cms!Ops

LEMMA StoredStays ==
  ASSUME UNCHANGED <<published, overrides>>
  PROVE  \A scope : Cms!ContentOf(scope)' = Cms!ContentOf(scope)
BY DEF Cms!ContentOf, Cms!Merged

LEMMA OneReads ==
  ASSUME Cms!OneWhoWaits, EditorsOK, NEW e, Cms!Editors = {e}, OneOf(e), Reads(e)
  PROVE  OneOf(e)'
<1> DEFINE p == editor[e]
           save == call[<<e, "save">>]
           reset == call[<<e, "reset">>]
<1>0. /\ UNCHANGED <<published, overrides, touched, dialog, call>> /\ ~Loses
      /\ editor \in [{e} -> Cms!PageOf("site") \cup Cms!PageOf("shared")]
  BY ReadsLeaveRest DEF EditorsOK, Cms!OneWhoWaits
<1>s. \A scope : Cms!ContentOf(scope)' = Cms!ContentOf(scope)
  BY <1>0, StoredStays
<1>c. UNCHANGED <<save, reset>>
  BY <1>0
<1>1. CASE Cms!ReadServed(e)
  <2>1. /\ p.at = "sent" /\ p'.at = "read" /\ p'.answer = Cms!ContentOf(p.scope)
        /\ p'.scope = p.scope /\ p'.saved = p.saved
    BY <1>0, <1>1 DEF Cms!ReadServed, Cms!PageOf
  <2> QED BY <1>0, <1>s, <1>c, <2>1 DEF OneOf
<1>2. CASE Cms!ReadShown(e)
  <2>1. p.at = "read" /\ p'.at = "idle" /\ p'.saved = p.answer /\ p'.scope = p.scope
    BY <1>0, <1>2 DEF Cms!ReadShown, Cms!PageOf
  <2> QED BY <1>0, <1>s, <1>c, <2>1 DEF OneOf
<1>3. CASE Cms!ReadFailed(e) \/ Cms!Retry(e)
  BY <1>0, <1>3 DEF Cms!ReadFailed, Cms!Retry, OneOf
<1>4. CASE \E scope \in Scopes : Cms!ChangeScope(e, scope)
  <2>1. e \notin dialog /\ save.at = "idle" /\ p'.at = "sent"
    BY <1>0, <1>4 DEF Cms!ChangeScope, Cms!Unsent, Cms!OneWhoWaits, Cms!PageOf
  <2> QED BY <1>0, <1>c, <2>1 DEF OneOf
<1>5. CASE \/ Cms!Discard(e)
           \/ \E f \in Cms!WebsiteFields \cup Cms!AppFields, v \in Cms!Values \cup {Cms!Bad} :
                Cms!EditWebsite(e, f, v) \/ Cms!EditPricing(e, f, v) \/ Cms!EditApp(e, f, v)
  <2>1. p'.at = p.at /\ p'.saved = p.saved /\ p'.scope = p.scope /\ p'.answer = p.answer
    BY <1>0, <1>5 DEF Cms!Discard, Cms!EditWebsite, Cms!EditPricing, Cms!EditApp, Cms!Edit, Cms!PageOf
  <2> QED BY <1>0, <1>s, <1>c, <2>1 DEF OneOf
<1> QED BY <1>1, <1>2, <1>3, <1>4, <1>5 DEF Reads

LEMMA OneCalls ==
  ASSUME Cms!ConstantsOK, Cms!OneWhoWaits, Parts, NEW e, Cms!Editors = {e}, OneOf(e),
         Calls(e) \/ Cms!OpenReset(e) \/ Cms!CancelReset(e)
  PROVE  OneOf(e)' /\ UNCHANGED overrides /\ \A o \in Orgs : touched[o] \subseteq touched'[o]
<1> DEFINE p == editor[e]
           save == call[<<e, "save">>]
           reset == call[<<e, "reset">>]
<1>0. /\ call \in [{e} \X Cms!Ops -> Cms!CallOf("site") \cup Cms!CallOf("shared")]
      /\ touched \in [Orgs -> SUBSET Cms!AppFields] /\ ~Loses /\ Waits /\ e \notin Pricings
  BY DEF Parts, CallsOK, ServerOK, Cms!OneWhoWaits, Cms!ConstantsOK
<1>u. UNCHANGED <<published, overrides, editor>>
  BY CallsAreSet, DialogsMove DEF Parts
<1>s. UNCHANGED p /\ \A scope : Cms!ContentOf(scope)' = Cms!ContentOf(scope)
  BY <1>u, StoredStays
<1>1. CASE Cms!Save(e)
  <2>1. /\ save' = [at |-> "sent", scope |-> p.scope, content |-> p.draft] /\ UNCHANGED <<reset, dialog>>
        /\ e \notin dialog /\ p.at = "idle" /\ save.at = "idle"
    BY <1>0, <1>1 DEF Cms!Save, Cms!Free, Cms!Unsent, Cms!Ops
  <2>2. /\ \A o \in Orgs : touched[o] \subseteq touched'[o]
        /\ p.scope \in Orgs => \A f \in Cms!AppFields : p.draft[f] # p.saved[f] => f \in touched'[p.scope]
    BY <1>0, <1>1 DEF Cms!Save
  <2> QED BY <1>u, <1>s, <2>1, <2>2 DEF OneOf
<1>2. CASE Cms!ConfirmReset(e)
  <2>1. /\ reset' = [at |-> "sent", scope |-> p.scope, content |-> None] /\ UNCHANGED <<save, dialog, touched>>
        /\ e \in dialog /\ reset.at = "idle"
    BY <1>0, <1>2 DEF Cms!ConfirmReset, Cms!Unsent, Cms!Ops, Cms!server
  <2> QED BY <1>u, <1>s, <2>1 DEF OneOf
<1>3. CASE \E op \in Cms!Ops : Cms!CallFailed(e, op)
  BY <1>0, <1>3 DEF Cms!CallFailed
<1>4. CASE Cms!OpenReset(e)
  <2>1. p.at = "idle" /\ save.at = "idle" /\ reset.at = "idle" /\ UNCHANGED <<save, reset, touched>>
    BY <1>0, <1>4 DEF Cms!OpenReset, Cms!Free, Cms!Unsent, Cms!server
  <2> QED BY <1>u, <1>s, <2>1 DEF OneOf
<1>5. CASE Cms!CancelReset(e)
  <2>1. reset.at = "idle" /\ UNCHANGED <<save, reset, touched>> /\ dialog' \subseteq dialog
    BY <1>0, <1>5 DEF Cms!CancelReset, Cms!Unsent, Cms!server
  <2> QED BY <1>u, <1>s, <2>1 DEF OneOf
<1> QED BY <1>1, <1>2, <1>3, <1>4, <1>5 DEF Calls

LEMMA OneAnswered ==
  ASSUME Parts, NEW e, Cms!Editors = {e}, OneOf(e), NEW op \in Cms!Ops, Cms!Answered(e, op)
  PROVE  OneOf(e)' /\ UNCHANGED <<overrides, touched>>
<1> DEFINE p == editor[e]
           c == call[<<e, op>>]
<1>0. /\ call \in [{e} \X Cms!Ops -> Cms!CallOf("site") \cup Cms!CallOf("shared")]
      /\ editor \in [{e} -> Cms!PageOf("site") \cup Cms!PageOf("shared")]
  BY DEF Parts, CallsOK, EditorsOK
<1>u. UNCHANGED <<published, overrides, touched>>
  BY DEF Cms!Answered, Cms!server
<1>s. \A scope : Cms!ContentOf(scope)' = Cms!ContentOf(scope)
  BY <1>u, StoredStays
<1>1. p'.saved = c.content /\ p'.at = p.at /\ p'.scope = p.scope /\ p'.answer = p.answer
  BY <1>0 DEF Cms!Answered, Cms!ApplyServerContent, Cms!PageOf
<1>2. /\ c.at = "done" /\ Cms!NoCall.at = "idle"
      /\ \A o \in Cms!Ops : call'[<<e, o>>] = IF o = op THEN Cms!NoCall ELSE call[<<e, o>>]
  BY <1>0 DEF Cms!Answered, Cms!NoCall
<1>3. dialog' = IF op = "reset" THEN dialog \ {e} ELSE dialog
  BY DEF Cms!Answered
<1>4. CASE op = "save"
  <2>1. call'[<<e, "save">>].at = "idle" /\ call'[<<e, "reset">>] = call[<<e, "reset">>]
    BY <1>2, <1>4 DEF Cms!Ops
  <2> QED BY <1>u, <1>s, <1>1, <1>2, <1>3, <1>4, <2>1 DEF OneOf
<1>5. CASE op = "reset"
  <2>1. call'[<<e, "reset">>].at = "idle" /\ call'[<<e, "save">>] = call[<<e, "save">>]
    BY <1>2, <1>5 DEF Cms!Ops
  <2> QED BY <1>u, <1>s, <1>1, <1>2, <1>3, <1>5, <2>1 DEF OneOf
<1> QED BY <1>4, <1>5 DEF Cms!Ops

LEMMA OneServed ==
  ASSUME Cms!ConstantsOK, Parts, NEW e, Cms!Editors = {e}, OneOf(e), Cms!FollowsShared,
         NEW op \in Cms!Ops, Cms!Served(e, op)
  PROVE  OneOf(e)' /\ Cms!FollowsShared'
<1> DEFINE p == editor[e]
           c == call[<<e, op>>]
           q == call'[<<e, op>>]
<1>0. /\ call \in [{e} \X Cms!Ops -> Cms!CallOf("site") \cup Cms!CallOf("shared")]
      /\ overrides \in [Orgs -> [Cms!AppFields -> Cms!Values \cup {None}]] /\ c.at = "sent"
  BY DEF Parts, CallsOK, ServerOK, Cms!Served
<1>u. UNCHANGED <<unpaid, touched, editor, dialog>>
  BY DEF Cms!Served
<1>1. c.scope = p.scope /\ p.at = "idle"
  BY <1>0 DEF OneOf, Cms!Ops
<1>2. PICK scope \in {c.scope} :
        /\ IF op = "save" THEN Cms!Put(scope, c.content) ELSE Cms!ResetTo(scope)
        /\ call' = [call EXCEPT ![<<e, op>>].at = "done", ![<<e, op>>].content = Cms!ContentOf(scope)']
  BY DEF Cms!Served
<1>3. scope = p.scope /\ p'.scope = scope
  BY <1>u, <1>1, <1>2
<1>4. /\ q.at = "done" /\ q.content = Cms!ContentOf(scope)' /\ q.scope = p.scope
      /\ \A o \in Cms!Ops : o # op => call'[<<e, o>>] = call[<<e, o>>]
  BY <1>0, <1>1, <1>2 DEF Cms!CallOf
<1>5. OneOf(e)'
  <2>1. Cms!ContentOf(p.scope)' = Cms!ContentOf(scope)'
    BY <1>3
  <2>2. CASE op = "save"
    <3>1. call'[<<e, "save">>] = q /\ call'[<<e, "reset">>] = call[<<e, "reset">>] /\ call[<<e, "reset">>].at = "idle" /\ e \notin dialog
      BY <1>0, <1>4, <2>2 DEF OneOf, Cms!Ops
    <3> QED BY <1>u, <1>1, <1>3, <1>4, <2>1, <3>1 DEF OneOf
  <2>3. CASE op = "reset"
    <3>1. call'[<<e, "reset">>] = q /\ call'[<<e, "save">>] = call[<<e, "save">>] /\ call[<<e, "save">>].at = "idle" /\ e \in dialog
      BY <1>0, <1>4, <2>3 DEF OneOf, Cms!Ops
    <3> QED BY <1>u, <1>1, <1>3, <1>4, <2>1, <3>1 DEF OneOf
  <2> QED BY <2>2, <2>3 DEF Cms!Ops
<1>6. Cms!FollowsShared'
  <2> SUFFICES ASSUME NEW o \in Orgs, NEW f \in Cms!AppFields, overrides'[o][f] # None, o = scope
               PROVE  f \in touched[o]
    <3>1. \A o \in Orgs : o # scope => overrides'[o] = overrides[o]
      BY <1>0, <1>2 DEF Cms!Put, Cms!ResetTo
    <3> QED BY <1>u, <3>1 DEF Cms!FollowsShared
  <2>1. op = "save"
    BY <1>0, <1>2 DEF Cms!ResetTo
  <2>2. c.content[f] # published["shared"][f]
    BY <1>0, <1>2, <2>1 DEF Cms!Put, Cms!Differences
  <2>3. CASE c.content[f] # p.saved[f]
    BY <1>0, <1>2, <2>1, <2>3 DEF OneOf
  <2>4. CASE c.content[f] = p.saved[f]
    <3>1. p.saved = Cms!Merged(o)
      BY <1>0, <1>1, <1>2, <2>1 DEF OneOf, Cms!ContentOf
    <3>2. overrides[o][f] # None
      BY <2>2, <2>4, <3>1 DEF Cms!Merged
    <3> QED BY <3>2 DEF Cms!FollowsShared
  <2> QED BY <2>3, <2>4
<1> QED BY <1>5, <1>6

LEMMA OneStep ==
  ASSUME Cms!ConstantsOK, Cms!OneWhoWaits, Cms!ContentInv, Cms!OneInv, [Cms!Next]_Cms!vars
  PROVE  Cms!OneInv'
<1>1. PICK e : Cms!Editors = {e}
  BY DEF Cms!OneWhoWaits
<1>2. Parts /\ OneOf(e) /\ Cms!FollowsShared /\ touched \in [Orgs -> SUBSET Cms!AppFields]
  BY <1>1, ContentInvByParts, OneInvIsOfOne DEF Parts, ServerOK
<1> SUFFICES OneOf(e)' /\ Cms!FollowsShared'
  BY <1>1, OneInvIsOfOne
<1>3. CASE Reads(e)
  <2>1. UNCHANGED <<overrides, touched>>
    BY <1>1, <1>3, ReadsLeaveRest
  <2> QED BY <1>1, <1>2, <1>3, <2>1, OneReads DEF Parts, Cms!FollowsShared
<1>4. CASE Calls(e) \/ Cms!OpenReset(e) \/ Cms!CancelReset(e)
  BY <1>1, <1>2, <1>4, OneCalls DEF Cms!FollowsShared
<1>5. ASSUME NEW op \in Cms!Ops, Cms!Served(e, op) PROVE OneOf(e)' /\ Cms!FollowsShared'
  BY <1>1, <1>2, <1>5, OneServed
<1>6. ASSUME NEW op \in Cms!Ops, Cms!Answered(e, op) PROVE OneOf(e)' /\ Cms!FollowsShared'
  BY <1>1, <1>2, <1>6, OneAnswered DEF Cms!FollowsShared
<1>7. ASSUME NEW o \in Orgs, NEW off \in BOOLEAN, Cms!SetModules(o, off) PROVE FALSE
  BY <1>7 DEF Cms!SetModules, Cms!OneWhoWaits
<1>8. CASE UNCHANGED <<published, overrides, touched, editor, dialog, call>>
  <2>1. \A scope : Cms!ContentOf(scope)' = Cms!ContentOf(scope)
    BY <1>8, StoredStays
  <2> QED BY <1>2, <1>8, <2>1 DEF OneOf, Cms!FollowsShared
<1>9. ASSUME NEW t \in Tabs, NEW s \in Slots, TabMoves(t, s) PROVE OneOf(e)' /\ Cms!FollowsShared'
  BY <1>2, <1>8, <1>9, TabsMove DEF Parts
<1>10. CASE UNCHANGED Cms!vars
  BY <1>8, <1>10 DEF Cms!vars
<1> QED BY <1>1, <1>3, <1>4, <1>5, <1>6, <1>7, <1>9, <1>10, ContentSteps

\* What an administrator alone who waits sees as saved is what is published.
THEOREM EditorTellsTheTruth ==
  ASSUME Cms!ConstantsOK, Cms!OneWhoWaits
  PROVE  Cms!Spec => [](Cms!FollowsShared /\ Cms!EditorTellsTheTruth)
<1>1. Cms!Init => Cms!OneInv
  <2> SUFFICES ASSUME Cms!Init PROVE Cms!OneInv OBVIOUS
  <2>1. PICK e : Cms!Editors = {e}
    BY DEF Cms!OneWhoWaits
  <2>2. editor[e].at = "sent" /\ dialog = {} /\ \A op \in Cms!Ops : call[<<e, op>>].at = "idle"
    BY <2>1 DEF Cms!Init, Cms!Opened, Cms!NoCall
  <2>3. OneOf(e)
    BY <2>2 DEF OneOf, Cms!Ops
  <2>4. Cms!FollowsShared
    BY DEF Cms!Init, Cms!FollowsShared
  <2> QED BY <2>1, <2>3, <2>4, OneInvIsOfOne
<1>2. Cms!ContentInv /\ Cms!OneInv /\ [Cms!Next]_Cms!vars => Cms!OneInv'
  BY OneStep
<1>3. Cms!OneInv => Cms!FollowsShared /\ Cms!EditorTellsTheTruth
  BY DEF Cms!OneInv, Cms!FormIsFromStored, Cms!EditorTellsTheTruth, Cms!Unsent, Cms!Ops
<1> QED BY <1>1, <1>2, <1>3, ContentInvariant, PTL DEF Cms!Spec

\* An organization's content is its own, at every page and in every tab.
THEOREM ContentAlwaysOwn ==
  ASSUME Cms!ConstantsOK
  PROVE  Cms!Spec => []Cms!ContentIsOwn
<1>1. Cms!Spec => []Cms!TabShowsItsOwn
  <2>1. Cms!ContentInv => Cms!TabShowsItsOwn
    BY DEF Cms!ContentInv
  <2> QED BY <2>1, ContentInvariant, PTL
<1>2. Cms!OneWhoWaits => (Cms!Spec => []Cms!FollowsShared)
  <2>1. CASE Cms!OneWhoWaits
    <3>1. Cms!Spec => [](Cms!FollowsShared /\ Cms!EditorTellsTheTruth)
      BY <2>1, EditorTellsTheTruth
    <3> QED BY <3>1, PTL
  <2> QED BY <2>1
<1>3. Cms!NobodyEditsCopies => (Cms!Spec => []Cms!UnpaidStaysOff)
  <2>1. CASE Cms!NobodyEditsCopies
    <3>1. Cms!Spec => [](Cms!UnpaidIsOff /\ Cms!UnpaidStaysOff)
      BY <2>1, UnpaidHolds
    <3> QED BY <3>1, PTL
  <2> QED BY <2>1
<1>4. CASE Cms!OneWhoWaits /\ Cms!NobodyEditsCopies
  <2>1. Cms!FollowsShared /\ Cms!UnpaidStaysOff /\ Cms!TabShowsItsOwn => Cms!ContentIsOwn
    BY DEF Cms!ContentIsOwn
  <2>2. Cms!Spec => []Cms!FollowsShared /\ []Cms!UnpaidStaysOff
    BY <1>2, <1>3, <1>4
  <2> QED BY <1>1, <2>1, <2>2, PTL
<1>5. CASE Cms!OneWhoWaits /\ ~Cms!NobodyEditsCopies
  <2>1. Cms!FollowsShared /\ Cms!TabShowsItsOwn => Cms!ContentIsOwn
    BY <1>5 DEF Cms!ContentIsOwn
  <2>2. Cms!Spec => []Cms!FollowsShared
    BY <1>2, <1>5
  <2> QED BY <1>1, <2>1, <2>2, PTL
<1>6. CASE ~Cms!OneWhoWaits /\ Cms!NobodyEditsCopies
  <2>1. Cms!UnpaidStaysOff /\ Cms!TabShowsItsOwn => Cms!ContentIsOwn
    BY <1>6 DEF Cms!ContentIsOwn
  <2>2. Cms!Spec => []Cms!UnpaidStaysOff
    BY <1>3, <1>6
  <2> QED BY <1>1, <2>1, <2>2, PTL
<1>7. CASE ~Cms!OneWhoWaits /\ ~Cms!NobodyEditsCopies
  <2>1. Cms!TabShowsItsOwn => Cms!ContentIsOwn
    BY <1>7 DEF Cms!ContentIsOwn
  <2> QED BY <1>1, <2>1, PTL
<1> QED BY <1>4, <1>5, <1>6, <1>7

-----------------------------------------------------------------------------
(* The pages that list documents; dialogs and calls are their own *)

CONSTANTS Page, Rows, Matching, PageSize, Patient
VARIABLES stored, detail

List == INSTANCE Registers

-----------------------------------------------------------------------------
(* What is stored                                                          *)

StoredOK == stored \in [Rows -> {None} \cup List!Row]

(* The counting of the module and that of the theorems about it are one.   *)
LEMMA ListCountsAgree ==
  ASSUME NEW S
  PROVE  List!Cardinality(S) = Cardinality(S) /\ (List!IsFiniteSet(S) <=> IsFiniteSet(S))
<1>1. List!Cardinality(S) = Cardinality(S)
  BY DEF List!Cardinality, Cardinality
<1>2. List!IsFiniteSet(S) <=> IsFiniteSet(S)
  BY DEF List!IsFiniteSet, IsFiniteSet
<1> QED BY <1>1, <1>2

LEMMA RowsAreCounted ==
  ASSUME List!ConstantsOK
  PROVE  /\ IsFiniteSet(Rows) /\ Rows \subseteq Nat \ {0}
         /\ \A S \in SUBSET Rows : IsFiniteSet(S) /\ List!Cardinality(S) = Cardinality(S) /\ Cardinality(S) \in Nat
<1>1. IsFiniteSet(Rows) /\ Rows = 1..Cardinality(Rows)
  BY ListCountsAgree DEF List!ConstantsOK
<1>2. Cardinality(Rows) \in Nat
  BY <1>1, FS_CardinalityType
<1>3. \A S \in SUBSET Rows : IsFiniteSet(S)
  BY <1>1, FS_Subset
<1>4. \A S \in SUBSET Rows : Cardinality(S) \in Nat
  BY <1>3, FS_CardinalityType
<1> QED BY <1>1, <1>2, <1>3, <1>4, ListCountsAgree

(* Each page has its statuses, and Starts are rows.                        *)
LEMMA StartsAreRows ==
  ASSUME List!ConstantsOK
  PROVE  List!Starts \subseteq List!Row
<1>1. 0 \in 0..Total
  BY DEF List!ConstantsOK
<1> QED BY <1>1 DEF List!Starts, List!Row, List!Statuses, List!ConstantsOK

(* A handler that accepts a request leaves rows, and leaves what is gone   *)
(* gone unless a document is entered anew.                                 *)
LEMMA EffectKeepsRows ==
  ASSUME List!ConstantsOK, StoredOK, NEW op \in List!OpsHere, NEW i \in {0} \cup Rows, NEW amount \in 0..Total,
         i = 0 => op = "save", List!Accepted(op, i, amount), List!Effect(op, i, amount)
  PROVE  /\ StoredOK'
         /\ i # 0 => \A j \in Rows : \/ stored'[j] = stored[j]
                                     \/ j = i /\ stored[i] # None /\ (stored[i].status = "inactive" => stored'[i] = None \/ stored'[i].status = "inactive")
<1>1. List!Starts \subseteq List!Row /\ 0 \notin Rows
  BY StartsAreRows, RowsAreCounted
<1>2. CASE i = 0
  <2>1. PICK j \in Rows, r \in List!Starts : stored' = [stored EXCEPT ![j] = r]
    BY <1>2 DEF List!Effect, List!Exists
  <2> QED BY <1>1, <1>2, <2>1 DEF StoredOK
<1>3. CASE i # 0
  <2>1. i \in Rows /\ stored[i] # None /\ stored[i] \in List!Row
    BY <1>3 DEF List!Accepted, StoredOK
  <2>2. \E q \in {None} \cup List!Row : stored' = [stored EXCEPT ![i] = q] /\ (stored[i].status = "inactive" => q = None \/ q.status = "inactive")
    <3>1. CASE op = "save"
      <4>1. PICK r \in List!Starts : stored' = [stored EXCEPT ![i] = IF i # 0 /\ (stored[i].status = "open" \/ Page # "bills") THEN stored[i] ELSE r]
        BY <1>3, <3>1 DEF List!Effect
      <4>2. Page = "bills" => stored[i].status # "inactive"
        BY <2>1 DEF List!Row, List!Statuses
      <4> QED BY <1>1, <1>3, <2>1, <4>1, <4>2
    <3>2. CASE op = "delete"
      <4>1. stored' = [stored EXCEPT ![i] = List!Removed(i)]
        BY <3>2 DEF List!Effect
      <4>2. CASE List!Removed(i) = None
        BY <4>1, <4>2
      <4>3. CASE Page \in {"contacts", "items"} /\ List!Removed(i) = [stored[i] EXCEPT !.status = "inactive"]
        <5> DEFINE q == [stored[i] EXCEPT !.status = "inactive"]
        <5>1. "inactive" \in List!Statuses
          BY <4>3 DEF List!Statuses
        <5>2. q \in List!Row /\ q.status = "inactive"
          BY <2>1, <5>1 DEF List!Row
        <5>3. stored' = [stored EXCEPT ![i] = q]
          BY <4>1, <4>3
        <5> HIDE DEF q
        <5> QED BY <5>2, <5>3
      <4> QED BY <4>2, <4>3 DEF List!Removed
    <3>3. CASE op \in {"open", "void"}
      <4> DEFINE q == [stored[i] EXCEPT !.status = op]
      <4>1. stored' = [stored EXCEPT ![i] = q]
        BY <3>3 DEF List!Effect
      <4>2. Page = "bills"
        BY <3>3 DEF List!OpsHere
      <4>3. op \in List!Statuses /\ "inactive" \notin List!Statuses
        BY <3>3, <4>2 DEF List!Statuses
      <4>4. q \in List!Row /\ stored[i].status # "inactive"
        BY <2>1, <4>3 DEF List!Row
      <4> HIDE DEF q
      <4> QED BY <4>1, <4>4
    <3>4. CASE op \in {"pay", "unpay"}
      <4>1. Page = "bills"
        BY <3>4 DEF List!OpsHere
      <4> DEFINE n == IF op = "pay" THEN stored[i].used + amount ELSE stored[i].used - 1
                 q == [stored[i] EXCEPT !.used = n]
      <4>2. n \in 0..Total
        BY <1>3, <2>1, <3>4, <4>1 DEF List!Accepted, List!Row, List!ConstantsOK
      <4>3. stored' = [stored EXCEPT ![i] = q]
        BY <3>4 DEF List!Effect
      <4> HIDE DEF n
      <4>4. "inactive" \notin List!Statuses
        BY <4>1 DEF List!Statuses
      <4>5. q \in List!Row /\ stored[i].status # "inactive"
        BY <2>1, <4>2, <4>4 DEF List!Row
      <4> HIDE DEF q
      <4> QED BY <4>3, <4>5
    <3> QED BY <3>1, <3>2, <3>3, <3>4 DEF List!OpsHere, List!Ops
  <2> QED BY <1>3, <2>1, <2>2 DEF StoredOK
<1> QED BY <1>2, <1>3

(* What is read are rows as they are stored.                               *)
LEMMA ReadIsRows ==
  ASSUME List!ConstantsOK, StoredOK, List!ViewFits(view)
  PROVE  /\ List!Read.total \in Nat /\ DOMAIN List!Read.rows \subseteq List!Exists
         /\ \A i \in DOMAIN List!Read.rows : List!Read.rows[i] = stored[i] /\ stored[i] \in List!Row
<1> DEFINE of == List!Listed(view.filter, view.debounced)
<1>1. of \subseteq List!Exists /\ List!Exists \subseteq Rows
  BY DEF List!Listed, List!Exists
<1>2. List!Cardinality(of) \in Nat
  BY <1>1, RowsAreCounted
<1>3. \A i \in List!Exists : stored[i] \in List!Row
  BY DEF List!Exists, StoredOK
<1>4. List!OnPage(of, view.number) \subseteq of
  BY DEF List!OnPage
<1>5. List!Read = [rows |-> [i \in List!OnPage(of, view.number) |-> stored[i]], total |-> List!Cardinality(of)]
  BY DEF List!Read
<1> HIDE DEF of
<1> QED BY <1>1, <1>2, <1>3, <1>4, <1>5

-----------------------------------------------------------------------------
(* What the page shows                                                     *)

LEMMA RowsShownAreRows ==
  ASSUME List!ViewFits(view)
  PROVE  /\ List!RowsShown \subseteq Rows
         /\ \A i \in List!RowsShown : List!RowOf(i) \in List!Row
BY DEF List!ViewFits, List!RowsShown, List!RowOf

\* Steps of the view alone.
ViewStep ==
  \/ List!Load \/ List!Search \/ List!Debounce \/ List!TickAll \/ List!TickAllPages
  \/ \E filter \in List!Filters : List!SetFilter(filter)
  \/ \E i \in Rows : List!SetPage(i) \/ List!Tick(i)

LEMMA FreshFits ==
  ASSUME List!ConstantsOK
  PROVE  List!ViewFits(List!Fresh)
BY DEF List!ViewFits, List!Fresh, List!Filters, List!ConstantsOK

LEMMA TurnFits ==
  ASSUME NEW v, List!ViewFits(v)
  PROVE  List!ViewFits(List!Turn(v))
<1>1. List!Kept(v) \in SUBSET Rows
  BY DEF List!Kept, List!ViewFits
<1> QED BY <1>1 DEF List!Turn, List!ViewFits

LEMMA ViewStepFits ==
  ASSUME List!ConstantsOK, StoredOK, List!ViewFits(view), ViewStep
  PROVE  List!ViewFits(view')
<1>1. CASE List!Load
  <2>1. /\ List!Read.total \in Nat /\ DOMAIN List!Read.rows \subseteq Rows
        /\ \A i \in DOMAIN List!Read.rows : List!Read.rows[i] \in List!Row
    BY ReadIsRows DEF List!Exists
  <2> QED BY <1>1, <2>1 DEF List!Load, List!ViewFits
<1>2. CASE List!Search
  <2> DEFINE v == [view EXCEPT !.search = ~@, !.number = 1, !.loading = @ \/ view.number # 1]
  <2>1. List!ViewFits(v)
    BY DEF List!ViewFits
  <2>2. view' = List!Turn(v)
    BY <1>2 DEF List!Search
  <2> HIDE DEF v
  <2> QED BY <2>1, <2>2, TurnFits
<1>3. CASE List!Debounce
  BY <1>3 DEF List!Debounce, List!ViewFits
<1>4. CASE List!TickAll
  <2>1. List!Tickable \subseteq Rows
    BY RowsShownAreRows DEF List!Tickable
  <2> QED BY <1>4, <2>1 DEF List!TickAll, List!ViewFits
<1>5. CASE List!TickAllPages
  BY <1>5, RowsShownAreRows DEF List!TickAllPages, List!ViewFits
<1>6. ASSUME NEW filter \in List!Filters, List!SetFilter(filter)
      PROVE  List!ViewFits(view')
  <2> DEFINE v == [view EXCEPT !.filter = filter, !.number = 1, !.loading = TRUE]
  <2>1. List!ViewFits(v)
    BY DEF List!ViewFits
  <2>2. view' = List!Turn(v)
    BY <1>6 DEF List!SetFilter
  <2> HIDE DEF v
  <2> QED BY <2>1, <2>2, TurnFits
<1>7. ASSUME NEW i \in Rows, List!SetPage(i)
      PROVE  List!ViewFits(view')
  <2> DEFINE v == [view EXCEPT !.number = i, !.loading = TRUE]
  <2>1. List!ViewFits(v)
    BY DEF List!ViewFits
  <2>2. view' = List!Turn(v)
    BY <1>7 DEF List!SetPage
  <2> HIDE DEF v
  <2> QED BY <2>1, <2>2, TurnFits
<1>8. ASSUME NEW i \in Rows, List!Tick(i)
      PROVE  List!ViewFits(view')
  BY <1>8 DEF List!Tick, List!ViewFits
<1> QED BY <1>1, <1>2, <1>3, <1>4, <1>5, <1>6, <1>7, <1>8 DEF ViewStep

LEMMA AfterFits ==
  ASSUME List!ConstantsOK, List!TypeOK
  PROVE  List!ViewFits(List!After(view))
<1>1. List!ViewFits(List!Fresh)
  BY FreshFits
<1>2. call.failed \in SUBSET Rows /\ List!ViewFits(view)
  BY DEF List!TypeOK, List!Call
<1>3. List!ViewFits(List!RefreshAll(view))
  BY <1>2 DEF List!RefreshAll, List!ViewFits
<1>4. /\ List!ViewFits([List!RefreshAll(view) EXCEPT !.ticked = call.failed])
      /\ List!ViewFits([List!RefreshAll(view) EXCEPT !.ticked = {}, !.all = FALSE])
  BY <1>2, <1>3 DEF List!ViewFits
<1> QED BY <1>1, <1>3, <1>4 DEF List!After

-----------------------------------------------------------------------------
(* The types and what a bulk deletion leaves are kept by every step        *)

LEMMA ViewStepKeeps ==
  ASSUME List!ConstantsOK, List!RegisterInv, ViewStep
  PROVE  List!RegisterInv' /\ UNCHANGED <<stored, dialog, detail, call>>
<1>1. List!ViewFits(view')
  BY ViewStepFits DEF List!RegisterInv, List!TypeOK, StoredOK
<1>2. UNCHANGED <<stored, dialog, detail, call>>
  BY DEF ViewStep, List!Load, List!Search, List!Debounce, List!TickAll, List!TickAllPages, List!SetFilter, List!SetPage,
         List!Tick
<1>3. List!TypeOK'
  BY <1>1, <1>2 DEF List!RegisterInv, List!TypeOK
<1>4. List!DoneIsSettled' /\ List!NothingIsLeft'
  BY <1>2 DEF List!RegisterInv, List!DoneIsSettled, List!NothingIsLeft
<1> QED BY <1>2, <1>3, <1>4 DEF List!RegisterInv

\* Steps that open and close dialogs.
DialogStep ==
  \/ List!OpenForm \/ List!OpenBulk \/ List!OpenDeleteAll \/ List!LoadDetail \/ List!Close
  \/ \E i \in Rows : List!OpenDetail(i) \/ \E op \in List!Ops : List!OpenRow(op, i)
  \/ \E op \in List!Ops : List!OpenFromDetail(op)

LEMMA OffersAreHere ==
  ASSUME List!ConstantsOK, NEW r
  PROVE  List!Offers(r) \subseteq List!OpsHere /\ List!DetailOffers(r) \subseteq List!OpsHere
BY DEF List!ConstantsOK, List!Offers, List!DetailOffers, List!OpsHere, List!Ops, List!BillOffers, List!PaymentOffers,
       List!ExpenseOffers, List!ContactOffers, List!ItemOffers

LEMMA ShowFits ==
  ASSUME NEW kind \in List!OpsHere \cup List!Bulk, NEW i \in {0} \cup Rows, NEW r \in {None} \cup List!Row,
         List!Fits(kind, i, r), List!Show(kind, i, r)
  PROVE  /\ dialog' \in List!Dialog /\ List!Fits(dialog'.kind, dialog'.on, dialog'.row)
         /\ UNCHANGED <<stored, view, detail, call>>
BY DEF List!Show, List!Dialog

LEMMA DialogStepFits ==
  ASSUME List!ConstantsOK, List!TypeOK, DialogStep
  PROVE  /\ dialog' \in List!Dialog /\ List!Fits(dialog'.kind, dialog'.on, dialog'.row)
         /\ detail' \in List!Detail /\ (detail'.on = 0 => detail' = List!NoDetail)
         /\ UNCHANGED <<stored, view, call>>
<1>0. 0 \notin Rows /\ None \notin List!Row
  BY RowsAreCounted DEF List!ConstantsOK
<1>1. CASE List!OpenForm
  <2>1. "save" \in List!OpsHere /\ List!Fits("save", 0, None)
    BY DEF List!OpsHere, List!Ops, List!Fits
  <2> QED BY <1>1, <2>1, ShowFits DEF List!OpenForm, List!TypeOK
<1>2. CASE List!OpenBulk
  <2>1. "bulk" \in List!Bulk /\ List!Fits("bulk", 0, None)
    BY DEF List!Bulk, List!Ops, List!Fits
  <2> QED BY <1>2, <2>1, ShowFits DEF List!OpenBulk, List!TypeOK
<1>3. CASE List!OpenDeleteAll
  <2>1. "all" \in List!Bulk /\ List!Fits("all", 0, None)
    BY <1>3 DEF List!OpenDeleteAll, List!Bulk, List!Ops, List!Fits
  <2> QED BY <1>3, <2>1, ShowFits DEF List!OpenDeleteAll, List!TypeOK
<1>4. CASE List!LoadDetail
  BY <1>4 DEF List!LoadDetail, List!TypeOK, List!Detail
<1>5. CASE List!Close
  <2>1. List!NoDialog \in List!Dialog /\ List!Fits("none", 0, None) /\ List!NoDetail \in List!Detail
    BY DEF List!NoDialog, List!Dialog, List!Fits, List!Ops, List!NoDetail, List!Detail
  <2> QED BY <1>5, <2>1 DEF List!Close, List!TypeOK, List!NoDialog
<1>6. ASSUME NEW i \in Rows, List!OpenDetail(i)
      PROVE  detail' \in List!Detail /\ detail'.on # 0 /\ UNCHANGED <<stored, view, dialog, call>>
  <2>1. List!RowOf(i) \in List!Row
    BY <1>6, RowsShownAreRows DEF List!OpenDetail, List!TypeOK
  <2> QED BY <1>0, <1>6, <2>1 DEF List!OpenDetail, List!Detail
<1>7. ASSUME NEW i \in Rows, NEW op \in List!Ops, List!OpenRow(op, i)
      PROVE  /\ dialog' \in List!Dialog /\ List!Fits(dialog'.kind, dialog'.on, dialog'.row)
             /\ UNCHANGED <<stored, view, detail, call>>
  <2>1. List!RowOf(i) \in List!Row
    BY <1>7, RowsShownAreRows DEF List!OpenRow, List!TypeOK
  <2>2. op \in List!OpsHere
    BY <1>7, OffersAreHere DEF List!OpenRow
  <2>3. List!Fits(op, i, List!RowOf(i))
    BY <1>0, <2>1 DEF List!Fits
  <2> QED BY <1>7, <2>1, <2>2, <2>3, ShowFits DEF List!OpenRow
<1>8. ASSUME NEW op \in List!Ops, List!OpenFromDetail(op)
      PROVE  /\ dialog' \in List!Dialog /\ List!Fits(dialog'.kind, dialog'.on, dialog'.row)
             /\ UNCHANGED <<stored, view, detail, call>>
  <2>1. detail.on \in Rows /\ detail.data \in List!Row
    BY <1>8 DEF List!OpenFromDetail, List!TypeOK, List!Detail, List!NoDetail
  <2>2. op \in List!OpsHere
    BY <1>8, OffersAreHere DEF List!OpenFromDetail
  <2>3. List!Fits(op, detail.on, detail.data)
    BY <1>0, <2>1 DEF List!Fits
  <2> QED BY <1>8, <2>1, <2>2, <2>3, ShowFits DEF List!OpenFromDetail
<1>9. /\ dialog \in List!Dialog /\ List!Fits(dialog.kind, dialog.on, dialog.row)
      /\ detail \in List!Detail /\ (detail.on = 0 => detail = List!NoDetail)
  BY DEF List!TypeOK
<1> QED BY <1>1, <1>2, <1>3, <1>4, <1>5, <1>6, <1>7, <1>8, <1>9 DEF DialogStep

LEMMA DialogStepKeeps ==
  ASSUME List!ConstantsOK, List!RegisterInv, DialogStep
  PROVE  List!RegisterInv' /\ UNCHANGED <<stored, view, call>>
<1>1. /\ dialog' \in List!Dialog /\ List!Fits(dialog'.kind, dialog'.on, dialog'.row)
      /\ detail' \in List!Detail /\ (detail'.on = 0 => detail' = List!NoDetail)
      /\ UNCHANGED <<stored, view, call>>
  BY DialogStepFits DEF List!RegisterInv
<1>2. List!TypeOK'
  BY <1>1 DEF List!RegisterInv, List!TypeOK
<1>3. List!DoneIsSettled' /\ List!NothingIsLeft'
  BY <1>1 DEF List!RegisterInv, List!DoneIsSettled, List!NothingIsLeft
<1> QED BY <1>1, <1>2, <1>3 DEF List!RegisterInv

-----------------------------------------------------------------------------
(* Requests                                                                *)

CallFits ==
  /\ call \in List!Call /\ List!Fits(call.op, call.on, call.row)
  /\ (call.step = "sent" => call.op \in IF Page = "contacts" THEN List!Ops \cup List!Bulk ELSE List!Ops)
  /\ (call.step = "bulk" => call.op = "bulk" /\ Page # "contacts")
  /\ call.failed \subseteq call.asked /\ call.todo \subseteq call.asked

\* Of the rows done with, each is settled.
Settles == List!DoneIsSettled /\ List!NothingIsLeft

LEMMA NoCallFits ==
  ASSUME List!ConstantsOK
  PROVE  /\ List!NoCall \in List!Call /\ None \notin List!Ops \cup List!Bulk
BY DEF List!ConstantsOK, List!NoCall, List!Call

LEMMA SendFits ==
  ASSUME List!ConstantsOK, List!TypeOK, dialog.kind \in List!Ops, NEW amount \in 0..Total, List!Send(dialog.kind, amount)
  PROVE  CallFits' /\ Settles' /\ UNCHANGED <<stored, view, dialog, detail>>
<1>1. dialog.kind \in List!OpsHere /\ dialog.kind \notin {"bulk", "all"}
  BY DEF List!TypeOK, List!Dialog, List!Ops, List!Bulk
<1>2. dialog.on \in {0} \cup Rows /\ dialog.row \in {None} \cup List!Row /\ List!Fits(dialog.kind, dialog.on, dialog.row)
  BY DEF List!TypeOK, List!Dialog
<1>3. /\ call' \in List!Call /\ call'.op = dialog.kind /\ call'.on = dialog.on /\ call'.row = dialog.row
      /\ call'.step = "sent" /\ call'.failed = {} /\ call'.todo = {}
  BY <1>1, <1>2, NoCallFits DEF List!Send, List!NoCall, List!Call
<1>4. CallFits'
  BY <1>2, <1>3 DEF CallFits
<1> QED BY <1>1, <1>3, <1>4 DEF List!Send, Settles, List!DoneIsSettled, List!NothingIsLeft

\* What the user asks for.
AskStep == List!Confirm \/ List!ConfirmBulk \/ \E amount \in 1..Total : List!SubmitPayment(amount)

LEMMA AskStepFits ==
  ASSUME List!ConstantsOK, List!TypeOK, AskStep
  PROVE  CallFits' /\ Settles' /\ UNCHANGED <<stored, view, detail>> /\ dialog' \in {dialog, List!NoDialog}
<1>1. CASE List!Confirm
  BY <1>1, SendFits DEF List!Confirm, List!ConstantsOK
<1>2. ASSUME NEW amount \in 1..Total, List!SubmitPayment(amount)
      PROVE  CallFits' /\ Settles' /\ UNCHANGED <<stored, view, dialog, detail>>
  <2>1. dialog.kind = "pay" /\ List!Send(dialog.kind, amount) /\ amount \in 0..Total
    BY <1>2 DEF List!SubmitPayment, List!ConstantsOK
  <2> QED BY <2>1, SendFits DEF List!Ops
<1>3. CASE List!ConfirmBulk
  <2> DEFINE all == dialog.kind = "all" \/ view.all
             count == IF all THEN List!Found ELSE List!Cardinality(view.ticked)
             op == IF all THEN "all" ELSE "bulk"
             step == IF Page = "contacts" THEN "sent" ELSE "bulk"
  <2>1. count \in Nat
    BY RowsAreCounted DEF List!TypeOK, List!ViewFits, List!Found
  <2>2. op \in List!Bulk /\ op \in {"bulk", "all"}
    BY DEF List!TypeOK, List!ViewFits, List!Dialog, List!OpsHere, List!Ops, List!Bulk
  <2>3. call' = [List!NoCall EXCEPT !.op = op, !.told = count, !.asked = view.ticked, !.todo = view.ticked, !.step = step]
    BY <1>3 DEF List!ConfirmBulk
  <2>4. Page # "contacts" => op = "bulk"
    BY <2>2 DEF List!Bulk
  <2>5. step \in {"sent", "bulk"} /\ (step = "sent" <=> Page = "contacts")
    OBVIOUS
  <2>6. view.ticked \in SUBSET Rows
    BY DEF List!TypeOK, List!ViewFits
  <2> HIDE DEF all, count, op, step
  <2>7. call' \in List!Call /\ call'.op = op /\ call'.step = step /\ call'.on = 0 /\ call'.asked = view.ticked
        /\ call'.todo = view.ticked /\ call'.failed = {}
    BY <2>1, <2>2, <2>3, <2>5, <2>6, NoCallFits DEF List!NoCall, List!Call
  <2>8. List!Fits(op, 0, call'.row)
    BY <2>2 DEF List!Fits, List!Ops
  <2>9. CallFits'
    BY <2>2, <2>4, <2>5, <2>7, <2>8 DEF CallFits, List!Ops
  <2>10. Settles'
    BY <2>5, <2>7 DEF Settles, List!DoneIsSettled, List!NothingIsLeft
  <2> QED BY <1>3, <2>9, <2>10 DEF List!ConfirmBulk
<1> QED BY <1>1, <1>2, <1>3, SendFits DEF AskStep, List!Confirm, List!Send, List!ConstantsOK

LEMMA AskStepKeeps ==
  ASSUME List!ConstantsOK, List!RegisterInv, AskStep
  PROVE  List!RegisterInv' /\ UNCHANGED <<stored, view, detail>>
<1>1. CallFits' /\ Settles' /\ UNCHANGED <<stored, view, detail>> /\ dialog' \in {dialog, List!NoDialog}
  BY AskStepFits DEF List!RegisterInv
<1>2. List!NoDialog \in List!Dialog /\ List!Fits(List!NoDialog.kind, List!NoDialog.on, List!NoDialog.row)
  BY DEF List!NoDialog, List!Dialog, List!Fits, List!Ops
<1>3. List!TypeOK'
  BY <1>1, <1>2 DEF List!RegisterInv, List!TypeOK, CallFits
<1> QED BY <1>1, <1>3 DEF List!RegisterInv, Settles

-----------------------------------------------------------------------------
(* What the server and the network do                                      *)

ServerStep ==
  List!Serve \/ List!ServeBulk \/ List!BulkOver \/ List!Lose \/ \E i \in Rows : List!BulkStep(i)

LEMMA ServeFits ==
  ASSUME List!ConstantsOK, List!TypeOK, List!Serve
  PROVE  StoredOK' /\ CallFits' /\ Settles'
<1>1. call.op \in List!Ops /\ call.op \in List!OpsHere /\ call.op \notin List!Bulk /\ call.op \notin {"bulk", "all"}
  BY NoCallFits DEF List!Serve, List!TypeOK, List!Call, List!Ops, List!Bulk
<1>2. call.on \in {0} \cup Rows /\ call.amount \in 0..Total /\ (call.on = 0 => call.op = "save")
  BY <1>1 DEF List!TypeOK, List!Call, List!Fits
<1>3. StoredOK
  BY DEF StoredOK, List!TypeOK
<1>4. StoredOK'
  BY <1>1, <1>2, <1>3, EffectKeepsRows DEF List!Serve, StoredOK
<1>5. List!Accepted(call.op, call.on, call.amount) \in BOOLEAN
  BY <1>1 DEF List!Accepted, List!Ops
<1>6. CallFits'
  BY <1>1, <1>5 DEF List!Serve, List!TypeOK, List!Call, CallFits
<1>7. Settles'
  BY <1>1 DEF List!Serve, List!TypeOK, List!Call, Settles, List!DoneIsSettled, List!NothingIsLeft
<1> QED BY <1>4, <1>6, <1>7

\* What becomes of a row that is deleted: it is gone, or made inactive.
LEMMA RemovedIsSettled ==
  ASSUME StoredOK, NEW i \in Rows, stored[i] # None
  PROVE  List!Removed(i) \in {None} \cup List!Row /\ (List!Removed(i) = None \/ List!Removed(i).status = "inactive")
<1>1. stored[i] \in List!Row
  BY DEF StoredOK
<1>2. Page \in {"contacts", "items"} => "inactive" \in List!Statuses
  BY DEF List!Statuses
<1> QED BY <1>1, <1>2 DEF List!Removed, List!Row

LEMMA ServeBulkFits ==
  ASSUME List!ConstantsOK, List!TypeOK, List!ServeBulk
  PROVE  StoredOK' /\ CallFits' /\ Settles'
<1> DEFINE of == IF call.op = "all" THEN List!AllMatching ELSE call.asked \cap List!Exists
<1>1. StoredOK
  BY DEF StoredOK, List!TypeOK
<1>2. of \subseteq List!Exists /\ List!Exists \subseteq Rows
  BY DEF List!AllMatching, List!Listed, List!Exists
<1>3. /\ stored' = [i \in Rows |-> IF i \in of THEN List!Removed(i) ELSE stored[i]]
      /\ call' = [call EXCEPT !.processed = List!Cardinality(of), !.ok = TRUE, !.step = "done"]
      /\ call.step = "sent" /\ call.op \in {"bulk", "all"}
  BY DEF List!ServeBulk
<1> HIDE DEF of
<1>4. StoredOK'
  BY <1>1, <1>2, <1>3, RemovedIsSettled DEF StoredOK, List!Exists
<1>5. Page = "contacts"
  BY <1>3 DEF List!TypeOK, List!Ops
<1>6. List!Cardinality(of) \in Nat
  BY <1>2, RowsAreCounted
<1>7. CallFits'
  BY <1>3, <1>6 DEF List!TypeOK, List!Call, CallFits
<1> QED BY <1>4, <1>5, <1>7 DEF Settles, List!DoneIsSettled, List!NothingIsLeft

LEMMA DeletedIsSettled ==
  ASSUME StoredOK, NEW i \in Rows, List!Accepted("delete", i, 0), List!Effect("delete", i, 0)
  PROVE  /\ stored' = [stored EXCEPT ![i] = List!Removed(i)] /\ StoredOK'
         /\ stored'[i] = None \/ stored'[i].status = "inactive"
<1>1. stored[i] # None /\ stored' = [stored EXCEPT ![i] = List!Removed(i)]
  BY DEF List!Accepted, List!Effect
<1>2. List!Removed(i) \in {None} \cup List!Row /\ (List!Removed(i) = None \/ List!Removed(i).status = "inactive")
  BY <1>1, RemovedIsSettled
<1> QED BY <1>1, <1>2 DEF StoredOK

LEMMA BulkStepFits ==
  ASSUME List!ConstantsOK, List!RegisterInv, NEW i \in Rows, List!BulkStep(i)
  PROVE  StoredOK' /\ CallFits' /\ Settles'
<1>1. StoredOK /\ List!TypeOK
  BY DEF StoredOK, List!TypeOK, List!RegisterInv
<1>2. call.step = "bulk" /\ call.op = "bulk" /\ Page # "contacts" /\ i \in call.todo /\ i \in call.asked
  BY DEF List!RegisterInv, List!TypeOK, List!BulkStep
<1>3. \A j \in call.asked \ call.todo : j \in call.failed \/ stored[j] = None \/ stored[j].status = "inactive"
  BY <1>2 DEF List!RegisterInv, List!DoneIsSettled
<1>4. \/ stored' = stored /\ call' = List!Failed(i, call)
      \/ /\ List!Accepted("delete", i, 0) /\ List!Effect("delete", i, 0)
         /\ call' = List!Failed(i, call) \/ call' = [call EXCEPT !.todo = @ \ {i}]
  BY DEF List!BulkStep
<1>5. StoredOK'
  BY <1>1, <1>4, DeletedIsSettled DEF StoredOK
<1>6. \A j \in Rows \ {i} : stored'[j] = stored[j]
  BY <1>1, <1>4, DeletedIsSettled DEF StoredOK
<1>7. call'.failed = call.failed \cup {i} \/ stored'[i] = None \/ stored'[i].status = "inactive"
  BY <1>1, <1>4, DeletedIsSettled DEF List!Failed, List!TypeOK, List!Call
<1>8. /\ CallFits' /\ call'.asked = call.asked /\ call'.step = "bulk" /\ call'.todo = call.todo \ {i}
      /\ call.failed \subseteq call'.failed
  <2>1. call \in List!Call /\ List!Fits(call.op, call.on, call.row) /\ call.todo \subseteq call.asked /\ call.failed \subseteq call.asked
    BY <1>1 DEF List!TypeOK
  <2>2. call' = List!Failed(i, call) \/ call' = [call EXCEPT !.todo = @ \ {i}]
    BY <1>4
  <2>3. /\ call' \in List!Call /\ call'.op = call.op /\ call'.on = call.on /\ call'.row = call.row /\ call'.step = call.step
        /\ call'.asked = call.asked /\ call'.todo = call.todo \ {i}
        /\ call'.failed = call.failed \cup {i} \/ call'.failed = call.failed
    <3>1. CASE call' = [call EXCEPT !.todo = @ \ {i}]
      BY <2>1, <3>1 DEF List!Call
    <3>2. CASE call' = List!Failed(i, call)
      BY <2>1, <3>2 DEF List!Failed, List!Call
    <3> QED BY <2>2, <3>1, <3>2
  <2> QED BY <1>2, <2>1, <2>3 DEF CallFits
<1>9. call.asked \subseteq Rows
  BY <1>1 DEF List!TypeOK, List!Call
<1>10. \A j \in call'.asked \ call'.todo : j \in call'.failed \/ stored'[j] = None \/ stored'[j].status = "inactive"
  BY <1>3, <1>6, <1>7, <1>8, <1>9
<1> QED BY <1>5, <1>8, <1>10 DEF Settles, List!DoneIsSettled, List!NothingIsLeft

LEMMA ServerStepKeeps ==
  ASSUME List!ConstantsOK, List!RegisterInv, ServerStep
  PROVE  List!RegisterInv' /\ UNCHANGED <<view, dialog, detail>>
<1>1. UNCHANGED <<view, dialog, detail>>
  BY DEF ServerStep, List!Serve, List!ServeBulk, List!BulkOver, List!Lose, List!BulkStep
<1>2. ASSUME List!BulkOver
      PROVE  StoredOK' /\ CallFits' /\ Settles'
  <2>1. StoredOK' /\ CallFits'
    BY <1>2 DEF List!BulkOver, List!RegisterInv, List!TypeOK, List!Call, StoredOK, CallFits
  <2>2. Settles'
    BY <1>2 DEF List!BulkOver, List!RegisterInv, List!TypeOK, List!Call, Settles, List!DoneIsSettled, List!NothingIsLeft
  <2> QED BY <2>1, <2>2
<1>3. ASSUME List!Lose
      PROVE  StoredOK' /\ CallFits' /\ Settles'
  <2>1. StoredOK' /\ CallFits'
    BY <1>3 DEF List!Lose, List!RegisterInv, List!TypeOK, List!Call, StoredOK, CallFits
  <2>2. Settles'
    BY <1>3 DEF List!Lose, List!RegisterInv, List!TypeOK, List!Call, List!Ops, Settles, List!DoneIsSettled, List!NothingIsLeft
  <2> QED BY <2>1, <2>2
<1>4. StoredOK' /\ CallFits' /\ Settles'
  BY <1>2, <1>3, ServeFits, ServeBulkFits, BulkStepFits DEF ServerStep, List!RegisterInv
<1>5. List!TypeOK'
  BY <1>1, <1>4 DEF List!RegisterInv, List!TypeOK, StoredOK, CallFits
<1> QED BY <1>1, <1>4, <1>5 DEF List!RegisterInv, Settles

LEMMA AnsweredKeeps ==
  ASSUME List!ConstantsOK, List!RegisterInv, List!Answered
  PROVE  List!RegisterInv'
<1>1. List!ViewFits(List!After(view)) /\ List!ViewFits(view)
  BY AfterFits DEF List!RegisterInv, List!TypeOK
<1>2. List!ViewFits(view')
  BY <1>1 DEF List!Answered
<1>3. CallFits' /\ Settles'
  BY NoCallFits DEF List!Answered, List!NoCall, List!Fits, CallFits, Settles, List!DoneIsSettled, List!NothingIsLeft
<1>4. dialog' \in List!Dialog /\ List!Fits(dialog'.kind, dialog'.on, dialog'.row)
  BY DEF List!Answered, List!RegisterInv, List!TypeOK, List!NoDialog, List!Dialog, List!Fits, List!Ops
<1>5. detail' \in List!Detail /\ (detail'.on = 0 => detail' = List!NoDetail)
  BY DEF List!Answered, List!RegisterInv, List!TypeOK, List!NoDetail, List!Detail
<1>6. List!TypeOK'
  BY <1>2, <1>3, <1>4, <1>5 DEF List!Answered, List!RegisterInv, List!TypeOK, CallFits
<1> QED BY <1>3, <1>6 DEF List!RegisterInv, Settles

\* What others do, and the time that passes.
LEMMA ElsewhereKeeps ==
  ASSUME List!ConstantsOK, List!RegisterInv, List!Elsewhere
  PROVE  List!RegisterInv'
<1> DEFINE Settled(r) == r = None \/ r.status = "inactive"
<1>1. StoredOK /\ List!TypeOK
  BY DEF StoredOK, List!TypeOK, List!RegisterInv
<1>2. UNCHANGED <<dialog, detail, call>> /\ view' \in {view, List!Fresh}
  BY DEF List!Elsewhere
<1>3. StoredOK' /\ \A j \in Rows : Settled(stored[j]) => Settled(stored'[j])
  <2>1. CASE \E i \in List!Exists :
               stored' = [stored EXCEPT ![i] = IF Page = "bills" THEN [@ EXCEPT !.late = TRUE] ELSE [@ EXCEPT !.used = 1]]
    <3>1. PICK i \in List!Exists :
               stored' = [stored EXCEPT ![i] = IF Page = "bills" THEN [@ EXCEPT !.late = TRUE] ELSE [@ EXCEPT !.used = 1]]
      BY <2>1
    <3> DEFINE q == IF Page = "bills" THEN [stored[i] EXCEPT !.late = TRUE] ELSE [stored[i] EXCEPT !.used = 1]
    <3>2. i \in Rows /\ stored[i] # None /\ stored[i] \in List!Row
      BY <1>1 DEF List!Exists, StoredOK
    <3>3. 1 \in 0..Total
      BY DEF List!ConstantsOK
    <3>4. q \in List!Row /\ q.status = stored[i].status
      BY <3>2, <3>3 DEF List!Row
    <3>5. stored' = [stored EXCEPT ![i] = q]
      BY <1>1, <3>1, <3>2 DEF StoredOK
    <3> HIDE DEF q
    <3> QED BY <1>1, <3>2, <3>4, <3>5 DEF StoredOK
  <2>2. CASE \E op \in List!OpsHere, i \in List!Exists, amount \in 1..Total :
               List!Accepted(op, i, amount) /\ List!Effect(op, i, amount)
    <3>1. PICK op \in List!OpsHere, i \in List!Exists, amount \in 1..Total :
               List!Accepted(op, i, amount) /\ List!Effect(op, i, amount)
      BY <2>2
    <3>2. i \in Rows /\ i # 0 /\ amount \in 0..Total
      BY RowsAreCounted DEF List!Exists, List!ConstantsOK
    <3>3. /\ StoredOK'
          /\ \A j \in Rows : \/ stored'[j] = stored[j]
                             \/ j = i /\ stored[i] # None
                                /\ (stored[i].status = "inactive" => stored'[i] = None \/ stored'[i].status = "inactive")
      BY <1>1, <3>1, <3>2, EffectKeepsRows
    <3> QED BY <3>3
  <2> QED BY <2>1, <2>2 DEF List!Elsewhere, List!OpsHere
<1>4. List!ViewFits(view')
  BY <1>1, <1>2, FreshFits DEF List!TypeOK
<1>5. List!TypeOK'
  BY <1>1, <1>2, <1>3, <1>4 DEF StoredOK, List!TypeOK
<1>6. call.asked \subseteq Rows
  BY <1>1 DEF List!TypeOK, List!Call
<1>7. List!DoneIsSettled' /\ List!NothingIsLeft'
  BY <1>2, <1>3, <1>6 DEF List!RegisterInv, List!DoneIsSettled, List!NothingIsLeft
<1> QED BY <1>5, <1>7 DEF List!RegisterInv

-----------------------------------------------------------------------------

LEMMA ListSteps ==
  ASSUME List!Next
  PROVE  ViewStep \/ DialogStep \/ AskStep \/ ServerStep \/ List!Answered \/ List!Elsewhere
BY DEF List!Next, ViewStep, DialogStep, AskStep, ServerStep

LEMMA ListStarts ==
  ASSUME List!ConstantsOK, List!Init
  PROVE  List!RegisterInv
<1>1. List!Starts \subseteq List!Row /\ List!ViewFits(List!Fresh)
  BY StartsAreRows, FreshFits
<1>2. /\ List!NoDialog \in List!Dialog /\ List!Fits(List!NoDialog.kind, List!NoDialog.on, List!NoDialog.row)
      /\ List!NoDetail \in List!Detail
  BY DEF List!NoDialog, List!Dialog, List!Fits, List!Ops, List!NoDetail, List!Detail
<1>3. /\ List!NoCall \in List!Call /\ List!Fits(List!NoCall.op, List!NoCall.on, List!NoCall.row)
      /\ List!NoCall.step = "idle" /\ List!NoCall.failed = {} /\ List!NoCall.todo = {}
  BY NoCallFits DEF List!NoCall, List!Fits
<1>4. List!TypeOK
  BY <1>1, <1>2, <1>3 DEF List!Init, List!TypeOK
<1> QED BY <1>3, <1>4 DEF List!Init, List!RegisterInv, List!DoneIsSettled, List!NothingIsLeft

(* A list page's rows, dialogs and requests are what they should be, and   *)
(* of the rows of a bulk deletion those done with are gone or remembered,  *)
(* for any number of rows, whoever else acts and whatever fails.           *)
THEOREM RegisterInvariant ==
  ASSUME List!ConstantsOK
  PROVE  List!Spec => []List!RegisterInv
<1>1. List!Init => List!RegisterInv
  BY ListStarts
<1>2. List!RegisterInv /\ [List!Next]_(List!vars) => List!RegisterInv'
  <2> SUFFICES ASSUME List!RegisterInv, [List!Next]_(List!vars)
               PROVE  List!RegisterInv'
    OBVIOUS
  <2>1. CASE List!Next
    BY <2>1, ListSteps, ViewStepKeeps, DialogStepKeeps, AskStepKeeps, ServerStepKeeps, AnsweredKeeps, ElsewhereKeeps
  <2>2. CASE UNCHANGED List!vars
    BY <2>2 DEF List!vars, List!RegisterInv, List!TypeOK, List!DoneIsSettled, List!NothingIsLeft
  <2> QED BY <2>1, <2>2
<1> QED BY <1>1, <1>2, PTL DEF List!Spec

-----------------------------------------------------------------------------
(* A user alone, where nothing is lost                                     *)

Alone == Patient /\ ~Loses

\* Of the part that is about the list, the part about dialogs and requests, and that about answers.
AnswersFit == List!OffersAccepted /\ List!BulkAsTold

(* What is read depends on the filter, the search sent and the page alone. *)
LEMMA ReadStays ==
  ASSUME UNCHANGED stored
  PROVE  /\ \A f, s : List!Listed(f, s)' = List!Listed(f, s)
         /\ List!Stats' = List!Stats
         /\ view'.filter = view.filter /\ view'.debounced = view.debounced =>
              /\ List!AllMatching' = List!AllMatching
              /\ view'.number = view.number => List!Read' = List!Read
<1>1. \A i \in Rows : stored'[i] = stored[i]
  OBVIOUS
<1>2. List!Exists' = List!Exists
  BY DEF List!Exists
<1>3. List!Listed("draft", FALSE)' = List!Listed("draft", FALSE) /\ List!Listed("all", FALSE)' = List!Listed("all", FALSE)
  BY <1>2 DEF List!Listed, List!Status
<1>4. List!Stats' = List!Stats
  BY <1>2, <1>3 DEF List!Stats, List!Balance
<1>5. \A f, s : List!Listed(f, s)' = List!Listed(f, s)
  BY <1>2 DEF List!Listed, List!Status
<1>6. ASSUME view'.filter = view.filter, view'.debounced = view.debounced
      PROVE  /\ List!AllMatching' = List!AllMatching
             /\ view'.number = view.number => List!Read' = List!Read
  <2>1. List!Listed(view.filter, view.debounced)' = List!Listed(view.filter, view.debounced)
    BY <1>2, <1>6 DEF List!Listed, List!Status
  <2>2. List!AllMatching' = List!AllMatching
    BY <2>1 DEF List!AllMatching
  <2>3. ASSUME view'.number = view.number PROVE List!Read' = List!Read
    BY <2>1, <2>3 DEF List!Read, List!OnPage, List!Position
  <2> QED BY <2>2, <2>3
<1> QED BY <1>4, <1>5, <1>6

(* As long as nothing else than the view changes, dialogs, requests and    *)
(* answers stay what they were.                                            *)
LEMMA AnswersStay ==
  ASSUME List!AloneInv, UNCHANGED <<stored, call>>
  PROVE  AnswersFit' /\ (List!Unchanged' <=> List!Unchanged)
BY DEF List!AloneInv, AnswersFit, List!OffersAccepted, List!BulkAsTold, List!Unchanged

LEMMA TurnReads ==
  ASSUME NEW v, List!ViewFits(v)
  PROVE  /\ List!Turn(v).filter = v.filter /\ List!Turn(v).debounced = v.debounced /\ List!Turn(v).number = v.number
         /\ List!Turn(v).shown = v.shown /\ List!Turn(v).stats = v.stats /\ List!Turn(v).loading = v.loading
BY DEF List!Turn, List!ViewFits

\* What a step of the view does to what was read and to what it was read for.
ReadAgain == view'.loading /\ view'.stats = view.stats
ReadsAsBefore ==
  view'.filter = view.filter /\ view'.debounced = view.debounced /\ view'.number = view.number
ShowsAsBefore == view'.shown = view.shown /\ view'.stats = view.stats /\ view'.loading = view.loading

LEMMA ViewStepReads ==
  ASSUME List!ConstantsOK, List!TypeOK, Alone, ViewStep
  PROVE  \/ List!Idle /\ call.step = "idle" /\ (ReadAgain \/ (ReadsAsBefore /\ ShowsAsBefore))
         \/ view.search # view.debounced /\ ReadAgain
         \/ /\ view.loading /\ ~view'.loading /\ view'.search = view.search /\ ReadsAsBefore
            /\ view'.shown = List!Read /\ view'.stats = IF view.stats = None THEN List!Stats ELSE view.stats
<1>1. List!ViewFits(view)
  BY DEF List!TypeOK
<1>2. CASE List!Load
  BY <1>1, <1>2 DEF List!Load, List!ViewFits, ReadsAsBefore
<1>3. CASE List!Search
  <2> DEFINE v == [view EXCEPT !.search = ~@, !.number = 1, !.loading = @ \/ view.number # 1]
  <2>1. view' = List!Turn(v) /\ List!Idle /\ call.step = "idle"
    BY <1>3 DEF List!Search, List!Free, Alone
  <2>2. List!ViewFits(v)
    BY <1>1 DEF List!ViewFits
  <2>3. /\ v.filter = view.filter /\ v.debounced = view.debounced /\ v.number = 1
        /\ v.loading = (view.loading \/ view.number # 1) /\ v.shown = view.shown /\ v.stats = view.stats
    BY <1>1 DEF List!ViewFits
  <2>4. view.loading \in BOOLEAN
    BY <1>1 DEF List!ViewFits
  <2> HIDE DEF v
  <2> QED BY <2>1, <2>2, <2>3, <2>4, TurnReads DEF ReadAgain, ReadsAsBefore, ShowsAsBefore
<1>4. CASE List!Debounce
  BY <1>1, <1>4 DEF List!Debounce, List!ViewFits, ReadAgain
<1>5. CASE List!TickAll
  BY <1>1, <1>5 DEF List!TickAll, List!ViewFits, List!Free, Alone, ReadsAsBefore, ShowsAsBefore
<1>6. CASE List!TickAllPages
  BY <1>1, <1>6 DEF List!TickAllPages, List!ViewFits, List!Free, Alone, ReadsAsBefore, ShowsAsBefore
<1>7. ASSUME NEW filter \in List!Filters, List!SetFilter(filter)
      PROVE  List!Idle /\ call.step = "idle" /\ ReadAgain
  <2> DEFINE v == [view EXCEPT !.filter = filter, !.number = 1, !.loading = TRUE]
  <2>1. view' = List!Turn(v) /\ List!Idle /\ call.step = "idle"
    BY <1>7 DEF List!SetFilter, List!Free, Alone
  <2>2. List!ViewFits(v) /\ v.loading /\ v.stats = view.stats
    BY <1>1 DEF List!ViewFits
  <2> HIDE DEF v
  <2> QED BY <2>1, <2>2, TurnReads DEF ReadAgain
<1>8. ASSUME NEW i \in Rows, List!SetPage(i)
      PROVE  List!Idle /\ call.step = "idle" /\ ReadAgain
  <2> DEFINE v == [view EXCEPT !.number = i, !.loading = TRUE]
  <2>1. view' = List!Turn(v) /\ List!Idle /\ call.step = "idle"
    BY <1>8 DEF List!SetPage, List!Free, Alone
  <2>2. List!ViewFits(v) /\ v.loading /\ v.stats = view.stats
    BY <1>1 DEF List!ViewFits
  <2> HIDE DEF v
  <2> QED BY <2>1, <2>2, TurnReads DEF ReadAgain
<1>9. ASSUME NEW i \in Rows, List!Tick(i)
      PROVE  List!Idle /\ call.step = "idle" /\ ReadsAsBefore /\ ShowsAsBefore
  BY <1>1, <1>9 DEF List!Tick, List!ViewFits, List!Free, Alone, ReadsAsBefore, ShowsAsBefore
<1> QED BY <1>2, <1>3, <1>4, <1>5, <1>6, <1>7, <1>8, <1>9 DEF ViewStep

LEMMA AloneViewStep ==
  ASSUME List!ConstantsOK, List!RegisterInv, List!AloneInv, Alone, ViewStep
  PROVE  List!AloneInv'
<1>1. UNCHANGED <<stored, dialog, detail, call>> /\ List!TypeOK
  BY ViewStepKeeps DEF List!RegisterInv
<1>2. AnswersFit' /\ (List!Unchanged' <=> List!Unchanged) /\ List!Stats' = List!Stats
  BY <1>1, AnswersStay, ReadStays
<1>3. ReadsAsBefore => List!AllMatching' = List!AllMatching /\ List!Read' = List!Read
  BY <1>1, ReadStays DEF ReadsAsBefore
<1>4. \/ List!Idle /\ call.step = "idle" /\ (ReadAgain \/ (ReadsAsBefore /\ ShowsAsBefore))
      \/ view.search # view.debounced /\ ReadAgain
      \/ /\ view.loading /\ ~view'.loading /\ view'.search = view.search /\ ReadsAsBefore
         /\ view'.shown = List!Read /\ view'.stats = IF view.stats = None THEN List!Stats ELSE view.stats
  BY <1>1, ViewStepReads
<1>5. List!ListIsStored'
  BY <1>2, <1>3, <1>4 DEF List!AloneInv, List!ListIsStored, ReadAgain, ShowsAsBefore
<1>6. List!DialogIsStored' /\ List!CallIsAsked'
  BY <1>1, <1>2 DEF List!AloneInv, List!DialogIsStored, List!CallIsAsked
<1>7. List!CountIsRight'
  <2>1. CASE List!Idle /\ call.step = "idle"
    <3>1. dialog.kind \notin List!Bulk
      BY <2>1 DEF List!Idle, List!NoDialog, List!Bulk
    <3> QED BY <1>1, <2>1, <3>1 DEF List!AloneInv, List!CountIsRight
  <2>2. CASE view.search # view.debounced
    <3>1. call.step = "sent" /\ call.op = "all" => call.op \in List!Bulk
      BY <1>1 DEF List!TypeOK, List!Ops
    <3> QED BY <1>1, <2>2, <3>1 DEF List!AloneInv, List!CountIsRight, List!Settled
  <2>3. CASE view.loading /\ ~view'.loading /\ view'.search = view.search /\ ReadsAsBefore
    BY <1>1, <1>3, <2>3 DEF List!AloneInv, List!CountIsRight, List!Settled, ReadsAsBefore
  <2> QED BY <1>4, <2>1, <2>2, <2>3
<1> QED BY <1>2, <1>5, <1>6, <1>7 DEF List!AloneInv, AnswersFit

\* Of a user alone, nothing is under way when he opens or closes a dialog.
LEMMA AloneDialogStep ==
  ASSUME List!ConstantsOK, List!RegisterInv, List!AloneInv, Alone, DialogStep
  PROVE  List!AloneInv'
<1>1. UNCHANGED <<stored, view, call>> /\ List!TypeOK
  BY DialogStepKeeps DEF List!RegisterInv
<1>2. AnswersFit' /\ (List!Unchanged' <=> List!Unchanged)
  BY <1>1, AnswersStay
<1>3. List!Stats' = List!Stats /\ List!AllMatching' = List!AllMatching /\ List!Read' = List!Read
  BY <1>1, ReadStays
<1>4. List!ListIsStored'
  BY <1>1, <1>2, <1>3 DEF List!AloneInv, List!ListIsStored
<1>5. \/ call.step = "idle"
      \/ dialog' = dialog /\ detail # List!NoDetail /\ detail' # List!NoDetail
  BY DEF DialogStep, List!OpenForm, List!OpenBulk, List!OpenDeleteAll, List!Close, List!OpenDetail, List!OpenRow,
         List!OpenFromDetail, List!Show, List!Free, List!LoadDetail, List!NoDetail, Alone, List!TypeOK, List!Detail
<1>6. List!CallIsAsked'
  BY <1>1, <1>5 DEF List!AloneInv, List!CallIsAsked
<1>7. \/ dialog' = dialog \/ dialog' = List!NoDialog
      \/ List!Settled /\ call.step = "idle"
  BY DEF DialogStep, List!OpenForm, List!OpenBulk, List!OpenDeleteAll, List!Close, List!OpenDetail, List!OpenRow,
         List!OpenFromDetail, List!Show, List!Free, List!LoadDetail, Alone
<1>8. List!CountIsRight'
  BY <1>1, <1>3, <1>7 DEF List!AloneInv, List!CountIsRight, List!NoDialog, List!Bulk, List!Settled
<1>9. List!DialogIsStored'
  <2> SUFFICES ASSUME List!Unchanged, dialog'.kind \in List!Ops, dialog'.on # 0, detail' = List!NoDetail
               PROVE  dialog'.row = stored[dialog'.on] /\ dialog'.kind \in List!Offers(dialog'.row)
    BY <1>1, <1>2 DEF List!DialogIsStored, List!Offers, List!BillOffers, List!CanEditBill, List!IsPayable, List!Status, List!Deletable
  <2>1. ASSUME NEW i \in Rows, NEW op \in List!Ops, List!OpenRow(op, i)
        PROVE  dialog'.row = stored[dialog'.on] /\ dialog'.kind \in List!Offers(dialog'.row)
    <3>1. List!Settled /\ i \in List!RowsShown /\ op \in List!Offers(List!RowOf(i))
          /\ dialog' = [kind |-> op, on |-> i, row |-> List!RowOf(i)]
      BY <2>1 DEF List!OpenRow, List!Show, Alone
    <3>2. view.shown = List!Read
      BY <3>1 DEF List!AloneInv, List!ListIsStored, List!Settled
    <3>3. List!RowOf(i) = stored[i]
      BY <1>1, <3>1, <3>2, ReadIsRows DEF List!RowOf, List!RowsShown, List!TypeOK, StoredOK
    <3> QED BY <3>1, <3>3
  <2>2. CASE \E op \in List!Ops : List!OpenFromDetail(op)
    BY <1>1, <2>2 DEF List!OpenFromDetail, List!Show, List!TypeOK, List!NoDetail
  <2>3. CASE List!OpenForm \/ List!OpenBulk \/ List!OpenDeleteAll
    BY <2>3 DEF List!OpenForm, List!OpenBulk, List!OpenDeleteAll, List!Show
  <2>4. CASE List!Close
    BY <2>4 DEF List!Close, List!NoDialog, List!Ops
  <2>5. CASE List!LoadDetail \/ \E i \in Rows : List!OpenDetail(i)
    <3>1. 0 \notin Rows
      BY RowsAreCounted
    <3> QED BY <2>5, <3>1 DEF List!LoadDetail, List!OpenDetail, List!NoDetail, List!TypeOK, List!Detail
  <2> QED BY <2>1, <2>2, <2>3, <2>4, <2>5 DEF DialogStep
<1> QED BY <1>2, <1>4, <1>6, <1>8, <1>9 DEF List!AloneInv, AnswersFit

LEMMA AloneAskStep ==
  ASSUME List!ConstantsOK, List!RegisterInv, List!AloneInv, Alone, AskStep
  PROVE  List!AloneInv'
<1>1. UNCHANGED <<stored, view, detail>> /\ List!TypeOK
  BY AskStepKeeps DEF List!RegisterInv
<1>2. List!Stats' = List!Stats /\ List!AllMatching' = List!AllMatching /\ List!Read' = List!Read
  BY <1>1, ReadStays
<1>3. ASSUME NEW amount, dialog.kind \in List!Ops, List!Send(dialog.kind, amount),
             dialog.kind = "pay" => amount \in 1..Total - dialog.row.used
      PROVE  List!AloneInv'
  <2>1. /\ call.step = "idle" /\ UNCHANGED dialog
        /\ call'.op = dialog.kind /\ call'.on = dialog.on /\ call'.row = dialog.row /\ call'.amount = amount
        /\ call'.over = (detail # List!NoDetail) /\ call'.step = "sent"
    BY <1>3 DEF List!Send, List!NoCall
  <2>2. dialog.kind \notin {"bulk", "all"} /\ dialog.kind \notin List!Bulk
    BY <1>3 DEF List!Ops, List!Bulk
  <2>3. List!Unchanged /\ List!Unchanged'
    BY <2>1 DEF List!Unchanged
  <2>4. List!ListIsStored' /\ List!DialogIsStored'
    BY <1>1, <1>2, <2>1, <2>3 DEF List!AloneInv, List!ListIsStored, List!DialogIsStored
  <2>5. List!CallIsAsked' /\ List!CountIsRight'
    BY <1>1, <1>3, <2>1, <2>2 DEF List!CallIsAsked, List!CountIsRight
  <2>6. AnswersFit'
    BY <2>1 DEF AnswersFit, List!OffersAccepted, List!BulkAsTold
  <2> QED BY <2>4, <2>5, <2>6 DEF List!AloneInv, AnswersFit
<1>4. CASE List!ConfirmBulk
  <2> DEFINE all == dialog.kind = "all" \/ view.all
             count == IF all THEN List!Found ELSE List!Cardinality(view.ticked)
             op == IF all THEN "all" ELSE "bulk"
  <2>1. dialog.kind \in List!Bulk /\ List!Settled
    BY <1>1, <1>4 DEF List!ConfirmBulk, List!TypeOK, List!Dialog, List!OpsHere, List!Ops, List!AloneInv, List!CountIsRight
  <2>2. /\ call.step = "idle" /\ dialog' = List!NoDialog
        /\ call'.op = op /\ call'.told = count /\ call'.asked = view.ticked
        /\ call'.step \in {"sent", "bulk"}
    BY <1>4 DEF List!ConfirmBulk, List!NoCall
  <2>3. op = "all" => count = List!Cardinality(List!AllMatching)
    BY <2>1, <2>2 DEF List!AloneInv, List!ListIsStored, List!Unchanged, List!Settled, List!Found, List!Read, List!AllMatching
  <2>4. op = "bulk" => count = List!Cardinality(view.ticked)
    OBVIOUS
  <2>5. op \in List!Bulk /\ op \notin List!Ops
    BY <1>1, <2>1 DEF List!TypeOK, List!ViewFits, List!Bulk, List!Ops
  <2> HIDE DEF all, count, op
  <2>6. List!ListIsStored' /\ List!DialogIsStored'
    BY <1>1, <1>2, <2>2 DEF List!AloneInv, List!ListIsStored, List!DialogIsStored, List!Unchanged, List!NoDialog, List!Ops
  <2>7. List!CallIsAsked'
    BY <2>2, <2>5 DEF List!CallIsAsked
  <2>8. List!Cardinality(call'.asked) = List!Cardinality(view.ticked)
    BY <2>2
  <2>9. List!CountIsRight'
    BY <1>1, <1>2, <2>1, <2>2, <2>3, <2>4, <2>8 DEF List!CountIsRight, List!NoDialog, List!Bulk, List!Settled
  <2>10. AnswersFit'
    BY <2>2 DEF AnswersFit, List!OffersAccepted, List!BulkAsTold
  <2> QED BY <2>6, <2>7, <2>9, <2>10 DEF List!AloneInv, AnswersFit
<1>5. CASE List!Confirm
  BY <1>3, <1>5 DEF List!Confirm
<1>6. ASSUME NEW amount \in 1..Total, List!SubmitPayment(amount)
      PROVE  List!AloneInv'
  BY <1>3, <1>6 DEF List!SubmitPayment, List!Ops
<1> QED BY <1>4, <1>5, <1>6 DEF AskStep

\* What the list offers of a row is accepted of it, but for voiding what has payments.
LEMMA OfferedIsAccepted ==
  ASSUME List!ConstantsOK, StoredOK, NEW i \in Rows, stored[i] # None, NEW op \in List!Offers(stored[i]), NEW amount,
         op = "pay" => amount \in 1..Total - stored[i].used, ~List!Accepted(op, i, amount)
  PROVE  op = "void" /\ stored[i].used > 0
<1>1. stored[i] \in List!Row /\ i # 0
  BY RowsAreCounted DEF StoredOK
<1>2. Page = "bills"
  BY <1>1 DEF List!Accepted
<1>3. op \in List!BillOffers(stored[i])
  BY <1>2 DEF List!Offers
<1>4. stored[i].used \in 0..Total
  BY <1>1 DEF List!Row
<1>5. CASE op = "save"
  BY <1>1, <1>2, <1>3, <1>5 DEF List!Accepted, List!BillOffers, List!CanEditBill, List!Status
<1>6. CASE op = "pay"
  <2>1. List!IsPayable(stored[i])
    BY <1>3, <1>6 DEF List!BillOffers
  <2>2. stored[i].status = "open"
    BY <1>1, <1>2, <2>1 DEF List!IsPayable, List!Status, List!Row, List!Statuses
  <2>3. amount \in 1..Total - stored[i].used
    BY <1>6
  <2> QED BY <1>2, <1>6, <2>2, <2>3 DEF List!Accepted
<1>7. CASE op = "open"
  BY <1>1, <1>2, <1>3, <1>7 DEF List!Accepted, List!BillOffers
<1>8. CASE op = "delete"
  BY <1>1, <1>2, <1>3, <1>8 DEF List!Accepted, List!BillOffers, List!Deletable
<1>9. CASE op = "void"
  BY <1>1, <1>2, <1>3, <1>4, <1>9 DEF List!Accepted, List!BillOffers, List!ConstantsOK
<1> QED BY <1>3, <1>5, <1>6, <1>7, <1>8, <1>9 DEF List!BillOffers

LEMMA AloneServe ==
  ASSUME List!ConstantsOK, List!RegisterInv, List!AloneInv, Alone, List!Serve
  PROVE  List!AloneInv'
<1>1. StoredOK /\ List!TypeOK
  BY DEF StoredOK, List!TypeOK, List!RegisterInv
<1>2. /\ call.step = "sent" /\ call.op \in List!Ops /\ call.op \notin List!Bulk /\ call.op \notin {"bulk", "all"}
      /\ UNCHANGED <<view, dialog, detail>>
  BY DEF List!Serve, List!Ops, List!Bulk
<1> DEFINE ok == List!Accepted(call.op, call.on, call.amount)
<1>3. /\ call' = [call EXCEPT !.ok = ok, !.step = "done"]
      /\ ~ok => UNCHANGED stored
  BY DEF List!Serve
<1>4. /\ call'.op = call.op /\ call'.on = call.on /\ call'.row = call.row /\ call'.amount = call.amount
      /\ call'.over = call.over /\ call'.step = "done" /\ (call'.ok <=> ok)
  BY <1>1, <1>3 DEF List!TypeOK, List!Call
<1>5. call.op = dialog.kind /\ call.on = dialog.on /\ call.row = dialog.row /\ (call.over <=> detail # List!NoDetail)
      /\ (call.op = "pay" => call.amount \in 1..Total - call.row.used)
  BY <1>2 DEF List!AloneInv, List!CallIsAsked
<1>6. ~ok => call.over \/ (call.op = "void" /\ call.row.used > 0)
  <2> SUFFICES ASSUME ~ok, ~call.over
               PROVE  call.op = "void" /\ call.row.used > 0
    OBVIOUS
  <2>1. CASE call.on = 0
    <3>1. call.op = "save"
      BY <1>1, <1>2, <2>1 DEF List!TypeOK, List!Fits
    <3> QED BY <2>1, <3>1 DEF List!Accepted
  <2>2. CASE call.on # 0
    <3>1. call.on \in Rows /\ call.row # None
      BY <1>1, <1>2, <2>2 DEF List!TypeOK, List!Call, List!Fits
    <3>2. call.row = stored[call.on] /\ call.op \in List!Offers(call.row)
      BY <1>2, <1>5, <2>2 DEF List!AloneInv, List!DialogIsStored, List!Unchanged
    <3> QED BY <1>1, <1>5, <3>1, <3>2, OfferedIsAccepted
  <2> QED BY <2>1, <2>2
<1> HIDE DEF ok
<1>7. AnswersFit'
  BY <1>2, <1>4, <1>6 DEF AnswersFit, List!OffersAccepted, List!BulkAsTold
<1>8. ~ok => List!Stats' = List!Stats /\ List!Read' = List!Read
  BY <1>2, <1>3, ReadStays
<1>9. List!Unchanged' <=> ~ok
  BY <1>4 DEF List!Unchanged
<1>10. List!Unchanged
  BY <1>2 DEF List!Unchanged
<1>11. List!ListIsStored'
  BY <1>2, <1>8, <1>9, <1>10 DEF List!AloneInv, List!ListIsStored
<1>12. List!DialogIsStored'
  BY <1>2, <1>3, <1>9, <1>10 DEF List!AloneInv, List!DialogIsStored
<1>13. List!CallIsAsked'
  BY <1>2, <1>4, <1>5 DEF List!CallIsAsked
<1>14. dialog.kind \notin List!Bulk
  BY <1>2, <1>5
<1>15. List!CountIsRight'
  BY <1>2, <1>4, <1>14 DEF List!CountIsRight
<1> QED BY <1>7, <1>11, <1>12, <1>13, <1>15 DEF List!AloneInv, AnswersFit

LEMMA AloneServeBulk ==
  ASSUME List!ConstantsOK, List!RegisterInv, List!AloneInv, Alone, List!ServeBulk
  PROVE  List!AloneInv'
<1> DEFINE of == IF call.op = "all" THEN List!AllMatching ELSE call.asked \cap List!Exists
           gone == {i \in call.asked : stored'[i] = None}
<1>1. StoredOK /\ List!TypeOK
  BY DEF StoredOK, List!TypeOK, List!RegisterInv
<1>2. /\ call.step = "sent" /\ call.op \in {"bulk", "all"} /\ UNCHANGED <<view, dialog, detail>>
      /\ stored' = [i \in Rows |-> IF i \in of THEN List!Removed(i) ELSE stored[i]]
      /\ call' = [call EXCEPT !.processed = List!Cardinality(of), !.ok = TRUE, !.step = "done"]
  BY DEF List!ServeBulk
<1>3. call.op \in List!Bulk /\ call.op \notin List!Ops
  BY <1>1, <1>2 DEF List!TypeOK, List!Ops
<1>4. /\ call'.op = call.op /\ call'.asked = call.asked /\ call'.told = call.told /\ call'.step = "done" /\ call'.ok = TRUE
      /\ call'.processed = List!Cardinality(of)
  BY <1>1, <1>2 DEF List!TypeOK, List!Call
<1>5. dialog = List!NoDialog
  BY <1>2, <1>3 DEF List!AloneInv, List!CallIsAsked
<1>6. call.op = "all" => List!Cardinality(of) = call.told
  BY <1>2 DEF List!AloneInv, List!CountIsRight
<1>7. ASSUME call.op = "bulk"
      PROVE  List!Cardinality(of) <= call.told /\ call.told - List!Cardinality(of) <= List!Cardinality(gone)
  <2>1. call.asked \in SUBSET Rows /\ call.told = List!Cardinality(call.asked) /\ of = call.asked \cap List!Exists
    BY <1>1, <1>7 DEF List!TypeOK, List!Call, List!AloneInv, List!CountIsRight
  <2>2. call.asked \ List!Exists \subseteq gone /\ gone \subseteq Rows
    BY <1>2, <2>1 DEF List!Exists
  <2> HIDE DEF of, gone
  <2>3. /\ IsFiniteSet(call.asked) /\ IsFiniteSet(gone)
        /\ List!Cardinality(call.asked) = Cardinality(call.asked) /\ Cardinality(call.asked) \in Nat
        /\ List!Cardinality(of) = Cardinality(of) /\ Cardinality(of) \in Nat
        /\ List!Cardinality(gone) = Cardinality(gone) /\ Cardinality(gone) \in Nat
        /\ Cardinality(call.asked \ List!Exists) \in Nat
    BY <2>1, <2>2, RowsAreCounted DEF List!Exists
  <2>4. Cardinality(call.asked \ List!Exists) = Cardinality(call.asked) - Cardinality(of)
    BY <2>1, <2>3, FS_Difference
  <2>5. Cardinality(call.asked \ List!Exists) <= Cardinality(gone)
    BY <2>2, <2>3, FS_Subset
  <2> QED BY <2>1, <2>3, <2>4, <2>5
<1> HIDE DEF of
<1>8. AnswersFit'
  BY <1>2, <1>4, <1>6, <1>7 DEF AnswersFit, List!OffersAccepted, List!BulkAsTold
<1>9. ~List!Unchanged'
  BY <1>4 DEF List!Unchanged
<1>10. List!ListIsStored' /\ List!DialogIsStored'
  BY <1>9 DEF List!ListIsStored, List!DialogIsStored
<1>11. List!CallIsAsked'
  BY <1>2, <1>3, <1>4, <1>5 DEF List!CallIsAsked
<1>12. List!CountIsRight'
  BY <1>2, <1>4, <1>5 DEF List!AloneInv, List!CountIsRight, List!NoDialog, List!Bulk
<1> QED BY <1>8, <1>10, <1>11, <1>12 DEF List!AloneInv, AnswersFit

LEMMA AloneServerStep ==
  ASSUME List!ConstantsOK, List!RegisterInv, List!AloneInv, Alone, ServerStep
  PROVE  List!AloneInv'
<1>1. StoredOK /\ List!TypeOK
  BY DEF StoredOK, List!TypeOK, List!RegisterInv
<1>2. ~List!Lose
  BY DEF Alone, List!Lose
<1>3. ASSUME List!BulkOver \/ \E i \in Rows : List!BulkStep(i)
      PROVE  List!AloneInv'
  <2>1. call.step = "bulk" /\ call.op = "bulk" /\ Page # "contacts" /\ UNCHANGED <<view, dialog, detail>>
    BY <1>1, <1>3 DEF List!BulkOver, List!BulkStep, List!TypeOK
  <2>2. /\ call'.op = call.op /\ call'.asked = call.asked /\ call'.told = call.told
        /\ call'.step = "bulk" \/ (call'.step = "done" /\ call'.ok)
    <3>1. CASE List!BulkOver
      BY <1>1, <3>1 DEF List!BulkOver, List!TypeOK, List!Call
    <3>2. ASSUME NEW i \in Rows, List!BulkStep(i)
          PROVE  call'.op = call.op /\ call'.asked = call.asked /\ call'.told = call.told /\ call'.step = "bulk"
      <4>1. call' = List!Failed(i, call) \/ call' = [call EXCEPT !.todo = @ \ {i}]
        BY <3>2 DEF List!BulkStep
      <4> QED BY <1>1, <2>1, <4>1 DEF List!Failed, List!TypeOK, List!Call
    <3> QED BY <1>3, <3>1, <3>2
  <2>3. dialog = List!NoDialog /\ "bulk" \in List!Bulk /\ "bulk" \notin List!Ops
    BY <2>1 DEF List!AloneInv, List!CallIsAsked, List!Bulk, List!Ops
  <2>4. List!ListIsStored' /\ List!DialogIsStored'
    BY <2>2 DEF List!ListIsStored, List!DialogIsStored, List!Unchanged
  <2>5. List!CallIsAsked'
    BY <2>1, <2>2, <2>3 DEF List!CallIsAsked
  <2>6. List!CountIsRight'
    BY <2>1, <2>2, <2>3 DEF List!AloneInv, List!CountIsRight, List!NoDialog, List!Bulk
  <2>7. AnswersFit'
    BY <2>1, <2>2 DEF AnswersFit, List!OffersAccepted, List!BulkAsTold
  <2> QED BY <2>4, <2>5, <2>6, <2>7 DEF List!AloneInv, AnswersFit
<1> QED BY <1>2, <1>3, AloneServe, AloneServeBulk DEF ServerStep

LEMMA AloneAnswered ==
  ASSUME List!ConstantsOK, List!RegisterInv, List!AloneInv, Alone, List!Answered
  PROVE  List!AloneInv'
<1>1. List!TypeOK
  BY DEF List!RegisterInv
<1>2. /\ call.step = "done" /\ UNCHANGED stored
      /\ call'.op = None /\ call'.step = "idle"
      /\ None \notin List!Ops \cup List!Bulk /\ "bulk" \in List!Bulk
  BY NoCallFits DEF List!Answered, List!NoCall, List!Bulk
<1>3. AnswersFit' /\ List!CallIsAsked'
  BY <1>2 DEF AnswersFit, List!OffersAccepted, List!BulkAsTold, List!CallIsAsked
<1>4. dialog.kind \notin List!Bulk
  BY <1>2 DEF List!AloneInv, List!CountIsRight
<1>5. CASE call.ok
  <2>1. view' = List!After(view)
        /\ dialog' = IF dialog.kind = call.op THEN List!NoDialog ELSE dialog
    BY <1>5 DEF List!Answered
  <2>2. List!After(view).loading /\ List!After(view).stats = None
    BY <1>1 DEF List!After, List!Fresh, List!RefreshAll, List!TypeOK, List!ViewFits
  <2>3. dialog' = List!NoDialog
    BY <1>2, <2>1 DEF List!AloneInv, List!CallIsAsked
  <2>4. List!ListIsStored' /\ List!DialogIsStored'
    BY <2>1, <2>2, <2>3 DEF List!ListIsStored, List!DialogIsStored, List!NoDialog, List!Ops
  <2>5. List!CountIsRight'
    BY <1>2, <2>3 DEF List!CountIsRight, List!NoDialog, List!Bulk
  <2> QED BY <1>3, <2>4, <2>5 DEF List!AloneInv, AnswersFit
<1>6. CASE ~call.ok
  <2>1. UNCHANGED <<view, dialog, detail>>
    BY <1>6 DEF List!Answered
  <2>2. List!Unchanged
    BY <1>2, <1>6 DEF List!Unchanged
  <2>3. List!Stats' = List!Stats /\ List!Read' = List!Read
    BY <1>2, <2>1, ReadStays
  <2>4. List!ListIsStored' /\ List!DialogIsStored'
    BY <1>2, <2>1, <2>2, <2>3 DEF List!AloneInv, List!ListIsStored, List!DialogIsStored
  <2>5. List!CountIsRight'
    BY <1>2, <1>4, <2>1 DEF List!CountIsRight
  <2> QED BY <1>3, <2>4, <2>5 DEF List!AloneInv, AnswersFit
<1> QED BY <1>5, <1>6

LEMMA AloneElsewhere ==
  ASSUME List!ConstantsOK, List!RegisterInv, List!AloneInv, Alone, List!Elsewhere
  PROVE  List!AloneInv'
<1>1. List!Idle /\ call.step = "idle" /\ view' = List!Fresh /\ UNCHANGED <<dialog, detail, call>>
  BY DEF Alone, List!Elsewhere
<1>2. List!ListIsStored'
  BY <1>1 DEF List!ListIsStored, List!Fresh
<1>3. List!DialogIsStored' /\ List!CallIsAsked'
  BY <1>1 DEF List!Idle, List!NoDialog, List!Ops, List!DialogIsStored, List!CallIsAsked
<1>4. List!CountIsRight'
  BY <1>1 DEF List!AloneInv, List!CountIsRight, List!Idle, List!NoDialog, List!Bulk
<1>5. AnswersFit'
  BY <1>1 DEF AnswersFit, List!OffersAccepted, List!BulkAsTold
<1> QED BY <1>2, <1>3, <1>4, <1>5 DEF List!AloneInv, AnswersFit

LEMMA AloneStarts ==
  ASSUME List!ConstantsOK, List!Init
  PROVE  List!AloneInv
<1>1. None \notin List!Ops \cup List!Bulk /\ "bulk" \in List!Bulk
  BY NoCallFits DEF List!Bulk
<1>2. List!ListIsStored
  BY DEF List!Init, List!ListIsStored, List!Fresh
<1>3. List!DialogIsStored /\ List!CallIsAsked
  BY DEF List!Init, List!NoDialog, List!NoCall, List!Ops, List!DialogIsStored, List!CallIsAsked
<1>4. List!CountIsRight
  BY <1>1 DEF List!Init, List!CountIsRight, List!NoDialog, List!NoCall, List!Bulk
<1>5. AnswersFit
  BY DEF List!Init, List!NoCall, AnswersFit, List!OffersAccepted, List!BulkAsTold
<1> QED BY <1>2, <1>3, <1>4, <1>5 DEF List!AloneInv, AnswersFit

(* As long as nobody else acts and nothing is lost, the list shows what is *)
(* stored or is being read again, a dialog over it is about a row as       *)
(* stored, and a confirmation counts what there is.                        *)
LEMMA AloneInvariant ==
  ASSUME List!ConstantsOK, Alone
  PROVE  List!Spec => []List!AloneInv
<1>1. List!Init => List!AloneInv
  BY AloneStarts
<1>2. List!RegisterInv /\ List!AloneInv /\ [List!Next]_(List!vars) => List!AloneInv'
  <2> SUFFICES ASSUME List!RegisterInv, List!AloneInv, [List!Next]_(List!vars)
               PROVE  List!AloneInv'
    OBVIOUS
  <2>1. CASE List!Next
    BY <2>1, ListSteps, AloneViewStep, AloneDialogStep, AloneAskStep, AloneServerStep, AloneAnswered, AloneElsewhere
  <2>2. CASE UNCHANGED List!vars
    <3>1. UNCHANGED <<stored, view, dialog, detail, call>>
      BY <2>2 DEF List!vars
    <3>2. AnswersFit' /\ (List!Unchanged' <=> List!Unchanged)
          /\ List!Stats' = List!Stats /\ List!AllMatching' = List!AllMatching /\ List!Read' = List!Read
      BY <3>1, AnswersStay, ReadStays
    <3>3. List!ListIsStored' /\ List!DialogIsStored' /\ List!CallIsAsked' /\ List!CountIsRight'
      BY <3>1, <3>2
      DEF List!AloneInv, List!ListIsStored, List!DialogIsStored, List!CallIsAsked, List!CountIsRight, List!Settled
    <3> QED BY <3>2, <3>3 DEF List!AloneInv, AnswersFit
  <2> QED BY <2>1, <2>2
<1>3. List!Spec => []List!RegisterInv
  BY RegisterInvariant
<1> QED BY <1>1, <1>2, <1>3, PTL DEF List!Spec

(* A user alone who waits for a list page sees the rows and the figures as *)
(* they are stored, whatever he has filtered, searched, turned, saved,     *)
(* deleted and closed before.                                              *)
THEOREM ListPagesConverge ==
  ASSUME List!ConstantsOK
  PROVE  List!Spec => []List!PagesConverge
<1>1. CASE Alone
  <2>1. List!AloneInv => List!PagesConverge
    BY DEF List!AloneInv, List!ListIsStored, List!PagesConverge, List!Unchanged, List!Settled
  <2> QED BY <1>1, <2>1, AloneInvariant, PTL
<1>2. CASE ~Alone
  <2>1. List!PagesConverge
    BY <1>2 DEF Alone, List!PagesConverge
  <2> QED BY <2>1, PTL
<1> QED BY <1>1, <1>2

(* What a list page offers is accepted, but for voiding a bill with        *)
(* payments and what is opened over a detail not read again; as many       *)
(* contacts are deleted as the confirmation names; and whatever fails and  *)
(* whoever else acts, each row of a bulk deletion is gone or kept ticked.  *)
THEOREM ListPagesActAsShown ==
  ASSUME List!ConstantsOK
  PROVE  List!Spec => []List!RegisterActsAsShown
<1>1. List!RegisterInv => List!BulkSettles
  BY DEF List!RegisterInv, List!DoneIsSettled, List!NothingIsLeft, List!BulkSettles
<1>2. CASE Alone
  <2>1. List!RegisterInv /\ List!AloneInv => List!RegisterActsAsShown
    BY <1>1 DEF List!AloneInv, List!RegisterActsAsShown
  <2> QED BY <1>2, <2>1, AloneInvariant, RegisterInvariant, PTL
<1>3. CASE ~Alone
  <2>1. List!RegisterInv => List!RegisterActsAsShown
    BY <1>1, <1>3 DEF Alone, List!RegisterActsAsShown, List!OffersAccepted, List!BulkAsTold
  <2> QED BY <2>1, RegisterInvariant, PTL
<1> QED BY <1>2, <1>3

-----------------------------------------------------------------------------
(* Choosing modules.  The loops of ModulePicker are recursive functions    *)
(* that call themselves last: such a function exists whether its loop ends *)
(* or not, as what it yields is what the turns from an argument end with.  *)

CONSTANTS Modules
VARIABLES requires, plan, pending, picked

Pick == INSTANCE ModulePicker

\* The arguments that a loop goes through from x.
Turns(D, Done, next, x) ==
  {y \in D : \A S \in SUBSET D :
     x \in S /\ (\A z \in S \ Done : next[z] \in S) => y \in S}

LEMMA TurnsGoOn ==
  ASSUME NEW D, NEW Done, NEW next \in [D -> D], NEW x \in D, x \notin Done
  PROVE  Turns(D, Done, next, x) = {x} \cup Turns(D, Done, next, next[x])
<1> DEFINE Here == Turns(D, Done, next, x)
           There == Turns(D, Done, next, next[x])
<1>1. x \in Here /\ There \subseteq Here
  BY DEF Turns
<1>2. ASSUME NEW y \in Here PROVE y \in {x} \cup There
  <2> DEFINE S == {x} \cup There
  <2>1. S \in SUBSET D /\ x \in S
    BY DEF Turns
  <2>2. next[x] \in There
    BY DEF Turns
  <2>3. ASSUME NEW z \in There \ Done PROVE next[z] \in There
    BY DEF Turns
  <2>4. \A z \in S \ Done : next[z] \in S
    BY <2>2, <2>3
  <2> HIDE DEF S
  <2>5. y \in S
    BY <1>2, <2>1, <2>4 DEF Turns
  <2> QED BY <2>5 DEF S
<1> QED BY <1>1, <1>2

LEMMA TurnsEnd ==
  ASSUME NEW D, NEW Done, NEW next \in [D -> D], NEW x \in D, x \in Done
  PROVE  Turns(D, Done, next, x) = {x}
<1>1. x \in Turns(D, Done, next, x)
  BY DEF Turns
<1>2. {x} \in SUBSET D /\ x \in {x} /\ \A z \in {x} \ Done : next[z] \in {x}
  OBVIOUS
<1>3. ASSUME NEW y \in Turns(D, Done, next, x) PROVE y \in {x}
  BY <1>2 DEF Turns
<1> QED BY <1>1, <1>3

\* A function that yields out where the loop is done, and else what it yields next.
IsLoop(D, Done, next, out, g) ==
  g = [x \in D |-> IF x \in Done THEN out[x] ELSE g[next[x]]]

LEMMA LoopsExist ==
  ASSUME NEW D, NEW Done, NEW next \in [D -> D], NEW out
  PROVE  \E g : IsLoop(D, Done, next, out, g)
<1> DEFINE Yields(x) == {out[y] : y \in Turns(D, Done, next, x) \cap Done}
           g == [x \in D |-> CHOOSE o : o \in Yields(x)]
<1>1. ASSUME NEW x \in D, x \in Done PROVE g[x] = out[x]
  <2>1. Yields(x) = {out[x]}
    BY <1>1, TurnsEnd
  <2> QED BY <2>1
<1>2. ASSUME NEW x \in D, x \notin Done PROVE g[x] = g[next[x]]
  <2>1. Yields(x) = Yields(next[x])
    BY <1>2, TurnsGoOn
  <2>2. next[x] \in D
    OBVIOUS
  <2> HIDE DEF Yields
  <2> QED BY <2>1, <2>2
<1>3. g = [x \in D |-> g[x]]
  OBVIOUS
<1> HIDE DEF g
<1>4. IsLoop(D, Done, next, out, g)
  BY <1>1, <1>2, <1>3 DEF IsLoop
<1> QED BY <1>4

\* What is needed.
Needs == requires \in [Modules -> SUBSET Modules]

LEMMA TurnIsALoop ==
  ASSUME Needs, NEW at \in Pick!Loop, at.stack # {}
  PROVE  Pick!Turn(at) \in Pick!Loop
BY DEF Needs, Pick!Turn, Pick!Loop

LEMMA GrowGoesOn ==
  ASSUME Needs
  PROVE  Pick!Grow = [at \in Pick!Loop |->
                        IF at.stack = {} THEN at.chosen ELSE Pick!Grow[Pick!Turn(at)]]
<1> DEFINE Done == {at \in Pick!Loop : at.stack = {}}
           next == [at \in Pick!Loop |-> IF at.stack = {} THEN at ELSE Pick!Turn(at)]
           out == [at \in Pick!Loop |-> at.chosen]
           Is(g) == g = [at \in Pick!Loop |->
                           IF at.stack = {} THEN at.chosen ELSE g[Pick!Turn(at)]]
<1>1. next \in [Pick!Loop -> Pick!Loop]
  BY TurnIsALoop
<1>2. PICK g : IsLoop(Pick!Loop, Done, next, out, g)
  <2> HIDE DEF Done, next, out
  <2> QED BY <1>1, LoopsExist
<1>3. Is(g)
  <2>1. \A x \in Pick!Loop : (x \in Done <=> x.stack = {}) /\ out[x] = x.chosen
    OBVIOUS
  <2>2. \A x \in Pick!Loop : x.stack # {} => next[x] = Pick!Turn(x)
    OBVIOUS
  <2> HIDE DEF Done, next, out
  <2> QED BY <1>2, <2>1, <2>2 DEF IsLoop
<1>4. Pick!Grow = CHOOSE h : Is(h)
  BY DEF Pick!Grow
<1> HIDE DEF Is
<1>5. Is(Pick!Grow)
  BY <1>3, <1>4
<1> QED BY <1>5 DEF Is

LEMMA MoreIsARound ==
  ASSUME Needs, NEW at \in Pick!Rounds
  PROVE  [at EXCEPT !.removed = @ \cup Pick!More(at)] \in Pick!Rounds
BY DEF Pick!Rounds, Pick!More

LEMMA DropGoesOn ==
  ASSUME Needs
  PROVE  Pick!Drop = [at \in Pick!Rounds |->
                        IF Pick!More(at) = {} THEN at.removed
                        ELSE Pick!Drop[[at EXCEPT !.removed = @ \cup Pick!More(at)]]]
<1> DEFINE Done == {at \in Pick!Rounds : Pick!More(at) = {}}
           next == [at \in Pick!Rounds |-> [at EXCEPT !.removed = @ \cup Pick!More(at)]]
           out == [at \in Pick!Rounds |-> at.removed]
           Is(g) == g = [at \in Pick!Rounds |->
                           IF Pick!More(at) = {} THEN at.removed
                           ELSE g[[at EXCEPT !.removed = @ \cup Pick!More(at)]]]
<1>1. next \in [Pick!Rounds -> Pick!Rounds]
  BY MoreIsARound
<1>2. PICK g : IsLoop(Pick!Rounds, Done, next, out, g)
  <2> HIDE DEF Done, next, out
  <2> QED BY <1>1, LoopsExist
<1>3. Is(g)
  <2>1. \A x \in Pick!Rounds : (x \in Done <=> Pick!More(x) = {}) /\ out[x] = x.removed
    OBVIOUS
  <2>2. \A x \in Pick!Rounds : next[x] = [x EXCEPT !.removed = @ \cup Pick!More(x)]
    OBVIOUS
  <2> HIDE DEF Done, next, out
  <2> QED BY <1>2, <2>1, <2>2 DEF IsLoop
<1>4. Pick!Drop = CHOOSE h : Is(h)
  BY DEF Pick!Drop
<1> HIDE DEF Is
<1>5. Is(Pick!Drop)
  BY <1>3, <1>4
<1> QED BY <1>5 DEF Is

\* What resolveModules yields: what it is given and what that needs, no more.
Grown(stack, chosen) ==
  LET g == Pick!Grow[[stack |-> stack, chosen |-> chosen]]
  IN  /\ stack \cup chosen \subseteq g /\ g \subseteq Modules
      /\ \A s \in SUBSET Modules : Pick!Closed(s) /\ stack \cup chosen \subseteq s => g \subseteq s
      /\ (\A m \in chosen : requires[m] \subseteq stack \cup chosen) => Pick!Closed(g)

LEMMA GrownWhenEmpty ==
  ASSUME Needs, NEW chosen \in SUBSET Modules
  PROVE  Grown({}, chosen)
<1> DEFINE at == [stack |-> {}, chosen |-> chosen]
<1>1. at \in Pick!Loop /\ at.stack = {} /\ at.chosen = chosen
  BY DEF Pick!Loop
<1>2. Pick!Grow[at] = chosen
  <2> HIDE DEF at
  <2> QED BY <1>1, GrowGoesOn
<1> QED BY <1>2 DEF Grown, Pick!Closed

LEMMA GrownWhenChosen ==
  ASSUME Needs, NEW stack \in SUBSET Modules, NEW chosen \in SUBSET Modules, stack # {},
         (CHOOSE m \in stack : TRUE) \in chosen,
         Grown(stack \ {CHOOSE m \in stack : TRUE}, chosen)
  PROVE  Grown(stack, chosen)
<1> DEFINE at == [stack |-> stack, chosen |-> chosen]
           key == CHOOSE m \in stack : TRUE
<1>1. at \in Pick!Loop /\ at.stack # {}
  BY DEF Pick!Loop
<1>2. Pick!Turn(at) = [stack |-> stack \ {key}, chosen |-> chosen]
  BY DEF Pick!Turn
<1>3. Pick!Grow[at] = Pick!Grow[Pick!Turn(at)]
  <2> HIDE DEF at
  <2> QED BY <1>1, GrowGoesOn
<1>4. Pick!Grow[at] = Pick!Grow[[stack |-> stack \ {key}, chosen |-> chosen]]
  BY <1>2, <1>3
<1>5. (stack \ {key}) \cup chosen = stack \cup chosen
  OBVIOUS
<1> HIDE DEF key
<1> QED BY <1>4, <1>5 DEF Grown, key

LEMMA GrownWhenNew ==
  ASSUME Needs, NEW stack \in SUBSET Modules, NEW chosen \in SUBSET Modules,
         NEW key \in stack, key = CHOOSE m \in stack : TRUE, key \notin chosen,
         Grown((stack \ {key}) \cup requires[key], chosen \cup {key})
  PROVE  Grown(stack, chosen)
<1> DEFINE at == [stack |-> stack, chosen |-> chosen]
           rest == (stack \ {key}) \cup requires[key]
<1>1. at \in Pick!Loop /\ at.stack # {}
  BY DEF Pick!Loop
<1>2. Pick!Turn(at) = [stack |-> rest, chosen |-> chosen \cup {key}]
  BY DEF Pick!Turn
<1>3. Pick!Grow[at] = Pick!Grow[Pick!Turn(at)]
  <2> HIDE DEF at
  <2> QED BY <1>1, GrowGoesOn
<1>4. Pick!Grow[at] = Pick!Grow[[stack |-> rest, chosen |-> chosen \cup {key}]]
  BY <1>2, <1>3
<1> DEFINE g == Pick!Grow[at]
<1>5. /\ rest \cup chosen \cup {key} \subseteq g /\ g \subseteq Modules
      /\ \A s \in SUBSET Modules :
           Pick!Closed(s) /\ rest \cup chosen \cup {key} \subseteq s => g \subseteq s
      /\ (\A m \in chosen \cup {key} : requires[m] \subseteq rest \cup chosen \cup {key}) => Pick!Closed(g)
  <2>1. rest \cup (chosen \cup {key}) = rest \cup chosen \cup {key}
    OBVIOUS
  <2> HIDE DEF rest, at
  <2> QED BY <1>4, <2>1 DEF Grown, rest
<1> HIDE DEF g
<1>6. stack \cup chosen \subseteq g
  BY <1>5
<1>7. ASSUME NEW s \in SUBSET Modules, Pick!Closed(s), stack \cup chosen \subseteq s
      PROVE  g \subseteq s
  <2>1. requires[key] \subseteq s
    BY <1>7 DEF Pick!Closed
  <2> QED BY <1>5, <1>7, <2>1
<1>8. ASSUME \A m \in chosen : requires[m] \subseteq stack \cup chosen
      PROVE  Pick!Closed(g)
  <2>1. \A m \in chosen \cup {key} : requires[m] \subseteq rest \cup chosen \cup {key}
    BY <1>8
  <2> QED BY <1>5, <2>1
<1> QED BY <1>5, <1>6, <1>7, <1>8 DEF Grown, g

LEMMA GrowIsExact ==
  ASSUME Pick!ConstantsOK, Needs,
         NEW stack \in SUBSET Modules, NEW chosen \in SUBSET Modules
  PROVE  Grown(stack, chosen)
<1> DEFINE Good == {T \in SUBSET Modules : \A S \in SUBSET Modules : Grown(S, Modules \ T)}
<1>0. IsFiniteSet(Modules)
  BY DEF Pick!ConstantsOK, Pick!IsFiniteSet, IsFiniteSet
<1>1. ASSUME NEW T \in SUBSET Modules, \A U \in SUBSET T : U # T => U \in Good
      PROVE  T \in Good
  <2> DEFINE done == Modules \ T
             Fine == {S \in SUBSET Modules : Grown(S, done)}
  <2>1. ASSUME NEW S \in SUBSET Modules, \A U \in SUBSET S : U # S => U \in Fine
        PROVE  S \in Fine
    <3> DEFINE key == CHOOSE m \in S : TRUE
    <3>1. CASE S = {}
      BY <3>1, GrownWhenEmpty
    <3>2. CASE S # {} /\ key \in done
      <4>1. key \in S
        BY <3>2
      <4>2. Grown(S \ {key}, done)
        BY <2>1, <4>1
      <4> HIDE DEF done
      <4>3. done \in SUBSET Modules
        BY DEF done
      <4> QED BY <3>2, <4>2, <4>3, GrownWhenChosen
    <3>3. CASE S # {} /\ key \notin done
      <4>1. key \in S /\ key \in T
        BY <3>3
      <4> HIDE DEF key
      <4>2. T \ {key} \in Good
        BY <1>1, <4>1
      <4>3. Modules \ (T \ {key}) = done \cup {key}
        BY <4>1
      <4>4. (S \ {key}) \cup requires[key] \in SUBSET Modules
        BY <4>1 DEF Needs
      <4>5. Grown((S \ {key}) \cup requires[key], done \cup {key})
        BY <4>2, <4>3, <4>4
      <4>6. done \in SUBSET Modules
        OBVIOUS
      <4>7. key = CHOOSE m \in S : TRUE
        BY DEF key
      <4> HIDE DEF done
      <4>8. Grown(S, done)
        BY <3>3, <4>1, <4>5, <4>6, <4>7, GrownWhenNew
      <4> QED BY <4>8
    <3> QED BY <3>1, <3>2, <3>3
  <2>2. SUBSET Modules \subseteq Fine
    <3> HIDE DEF Fine
    <3> QED BY <1>0, <2>1, SubsetInduction
  <2> QED BY <2>2
<1>2. SUBSET Modules \subseteq Good
  <2> HIDE DEF Good
  <2> QED BY <1>0, <1>1, SubsetInduction
<1>3. Modules \ chosen \in Good /\ Modules \ (Modules \ chosen) = chosen
  BY <1>2
<1> QED BY <1>3

\* What dependentsOf goes through: what is removed and what needs that, no more.
Dropped(remaining, removed) ==
  LET d == Pick!Drop[[remaining |-> remaining, removed |-> removed]]
  IN  /\ removed \subseteq d /\ d \subseteq removed \cup remaining
      /\ \A s \in SUBSET remaining : Pick!Closed(s) /\ s \cap removed = {} => s \cap d = {}
      /\ \A m \in remaining \ d : requires[m] \cap d = {}

LEMMA DroppedWhenNoMore ==
  ASSUME Needs, NEW remaining \in SUBSET Modules, NEW removed \in SUBSET Modules,
         Pick!More([remaining |-> remaining, removed |-> removed]) = {}
  PROVE  Dropped(remaining, removed)
<1> DEFINE at == [remaining |-> remaining, removed |-> removed]
<1>1. at \in Pick!Rounds /\ at.removed = removed
  BY DEF Pick!Rounds
<1>2. Pick!Drop[at] = removed
  <2> HIDE DEF at
  <2>1. Pick!More(at) = {}
    BY DEF at
  <2> QED BY <1>1, <2>1, DropGoesOn
<1>3. \A m \in remaining \ removed : requires[m] \cap removed = {}
  BY DEF Pick!More
<1> QED BY <1>2, <1>3 DEF Dropped

LEMMA DroppedWhenMore ==
  ASSUME Needs, NEW remaining \in SUBSET Modules, NEW removed \in SUBSET Modules,
         NEW more, more = Pick!More([remaining |-> remaining, removed |-> removed]), more # {},
         Dropped(remaining, removed \cup more)
  PROVE  Dropped(remaining, removed)
<1> DEFINE at == [remaining |-> remaining, removed |-> removed]
           next == [remaining |-> remaining, removed |-> removed \cup more]
<1>1. at \in Pick!Rounds
  BY DEF Pick!Rounds
<1>2. [at EXCEPT !.removed = @ \cup more] = next
  OBVIOUS
<1>3. Pick!Drop[at] = Pick!Drop[next]
  <2> HIDE DEF at, next
  <2>1. Pick!More(at) = more
    BY DEF at
  <2> QED BY <1>1, <1>2, <2>1, DropGoesOn
<1>4. more = {m \in remaining \ removed : requires[m] \cap removed # {}}
  BY DEF Pick!More
<1> DEFINE d == Pick!Drop[at]
<1>5. /\ removed \cup more \subseteq d /\ d \subseteq removed \cup more \cup remaining
      /\ \A s \in SUBSET remaining :
           Pick!Closed(s) /\ s \cap (removed \cup more) = {} => s \cap d = {}
      /\ \A m \in remaining \ d : requires[m] \cap d = {}
  <2> HIDE DEF at
  <2> QED BY <1>3 DEF Dropped
<1> HIDE DEF d
<1>6. ASSUME NEW s \in SUBSET remaining, Pick!Closed(s), s \cap removed = {}
      PROVE  s \cap d = {}
  <2>1. ASSUME NEW m \in s \cap more PROVE FALSE
    <3>1. requires[m] \cap removed # {} /\ requires[m] \subseteq s
      BY <1>4, <1>6 DEF Pick!Closed
    <3> QED BY <1>6, <3>1
  <2>2. s \cap (removed \cup more) = {}
    BY <1>6, <2>1
  <2> QED BY <1>5, <1>6, <2>2
<1>7. removed \subseteq d /\ d \subseteq removed \cup remaining
  BY <1>4, <1>5
<1> QED BY <1>5, <1>6, <1>7 DEF Dropped, d

LEMMA DropIsExact ==
  ASSUME Pick!ConstantsOK, Needs,
         NEW remaining \in SUBSET Modules, NEW removed \in SUBSET Modules
  PROVE  Dropped(remaining, removed)
<1> DEFINE Good == {T \in SUBSET Modules : Dropped(remaining, Modules \ T)}
<1>0. IsFiniteSet(Modules)
  BY DEF Pick!ConstantsOK, Pick!IsFiniteSet, IsFiniteSet
<1>1. ASSUME NEW T \in SUBSET Modules, \A U \in SUBSET T : U # T => U \in Good
      PROVE  T \in Good
  <2> DEFINE gone == Modules \ T
             more == Pick!More([remaining |-> remaining, removed |-> gone])
  <2>1. CASE more = {}
    BY <2>1, DroppedWhenNoMore
  <2>2. CASE more # {}
    <3>1. more \subseteq T
      BY DEF Pick!More
    <3> HIDE DEF more
    <3>2. T \ more \in Good
      BY <1>1, <2>2, <3>1
    <3>3. Modules \ (T \ more) = gone \cup more
      BY <3>1
    <3>4. Dropped(remaining, gone \cup more)
      BY <3>2, <3>3
    <3>5. gone \in SUBSET Modules
      OBVIOUS
    <3> HIDE DEF gone
    <3>6. Dropped(remaining, gone)
      BY <2>2, <3>4, <3>5, DroppedWhenMore DEF more
    <3> QED BY <3>6 DEF gone
  <2> QED BY <2>1, <2>2
<1>2. SUBSET Modules \subseteq Good
  <2> HIDE DEF Good
  <2> QED BY <1>0, <1>1, SubsetInduction
<1>3. Modules \ removed \in Good /\ Modules \ (Modules \ removed) = removed
  BY <1>2
<1> QED BY <1>3

-----------------------------------------------------------------------------
(* The steps of the builder *)

PickInv == Pick!TypeOK /\ Pick!PickedIsClosed

LEMMA ResolvedIsExact ==
  ASSUME Pick!ConstantsOK, Needs, NEW s \in SUBSET Modules
  PROVE  LET r == Pick!resolveModules(s)
         IN  /\ s \subseteq r /\ r \in SUBSET Modules /\ Pick!Closed(r)
             /\ \A t \in SUBSET Modules : Pick!Closed(t) /\ s \subseteq t => r \subseteq t
<1>1. Grown(s, {})
  BY GrowIsExact
<1> QED BY <1>1 DEF Grown, Pick!resolveModules

LEMMA DependentsAreExact ==
  ASSUME Pick!ConstantsOK, Needs, NEW s \in SUBSET Modules, NEW key \in s, Pick!Closed(s)
  PROVE  LET kept == s \ ({key} \cup Pick!Dependents(key, s))
         IN  /\ Pick!Closed(kept)
             /\ \A t \in SUBSET s : Pick!Closed(t) /\ key \notin t => t \subseteq kept
<1> DEFINE d == Pick!Drop[[remaining |-> s, removed |-> {key}]]
<1>1. /\ {key} \subseteq d
      /\ \A t \in SUBSET s : Pick!Closed(t) /\ t \cap {key} = {} => t \cap d = {}
      /\ \A m \in s \ d : requires[m] \cap d = {}
  <2>1. Dropped(s, {key})
    BY DropIsExact
  <2> QED BY <2>1 DEF Dropped
<1>2. Pick!Dependents(key, s) = d \ {key}
  BY DEF Pick!Dependents, Pick!dependentsOf
<1> HIDE DEF d
<1>3. s \ ({key} \cup Pick!Dependents(key, s)) = s \ d
  BY <1>1, <1>2
<1>4. Pick!Closed(s \ d)
  BY <1>1 DEF Pick!Closed
<1> QED BY <1>1, <1>3, <1>4

LEMMA TicksStayMinimal ==
  ASSUME Pick!ConstantsOK, PickInv
  PROVE  Pick!TicksAreMinimal
<1>1. Needs /\ picked \in SUBSET Modules /\ Pick!Closed(picked)
  BY DEF PickInv, Pick!TypeOK, Pick!PickedIsClosed, Needs
<1>2. ASSUME NEW key \in Modules, NEW s \in SUBSET Modules,
             Pick!Closed(s), picked \cup {key} \subseteq s
      PROVE  Pick!resolveModules(picked \cup {key}) \subseteq s
  BY <1>1, <1>2, ResolvedIsExact
<1>3. ASSUME NEW key \in picked, NEW s \in SUBSET picked, Pick!Closed(s), key \notin s
      PROVE  s \subseteq picked \ ({key} \cup Pick!Dependents(key, picked))
  BY <1>1, <1>3, DependentsAreExact
<1> QED BY <1>2, <1>3 DEF Pick!TicksAreMinimal

LEMMA StartIsOfModules ==
  ASSUME Pick!TypeOK
  PROVE  Pick!startModules \in SUBSET Modules
BY DEF Pick!TypeOK, Pick!startModules

LEMMA PickInitIsClosed ==
  ASSUME Pick!ConstantsOK, Pick!Init
  PROVE  PickInv
<1>1. Needs /\ Pick!startModules \in SUBSET Modules
  BY DEF Pick!Init, Pick!startModules, Needs
<1>2. picked \in SUBSET Modules /\ Pick!Closed(picked)
  BY <1>1, ResolvedIsExact DEF Pick!Init
<1> QED BY <1>2 DEF Pick!Init, PickInv, Pick!TypeOK, Pick!PickedIsClosed

\* The builder follows what it hears, the catalog staying as it is.
LEMMA FollowKeeps ==
  ASSUME Pick!ConstantsOK, PickInv, Pick!Follow, requires' = requires,
         plan' \in {None} \cup SUBSET Modules, pending' \in {None} \cup SUBSET Modules
  PROVE  picked' \in SUBSET Modules /\ Pick!Closed(picked')
<1>1. Needs /\ picked \in SUBSET Modules /\ Pick!Closed(picked)
  BY DEF PickInv, Pick!TypeOK, Pick!PickedIsClosed, Needs
<1>2. PICK next \in {Pick!startModules'} :
        picked' = IF ~touched' /\ next # Pick!startModules
                  THEN Pick!resolveModules(next) ELSE picked
  BY DEF Pick!Follow
<1>3. next \in SUBSET Modules
  BY DEF Pick!startModules
<1> QED BY <1>1, <1>2, <1>3, ResolvedIsExact

LEMMA PickStepKeeps ==
  ASSUME Pick!ConstantsOK, PickInv, [Pick!Next]_Pick!vars
  PROVE  PickInv'
<1>1. /\ Needs /\ picked \in SUBSET Modules /\ Pick!Closed(picked)
      /\ plan \in {None} \cup SUBSET Modules /\ pending \in {None} \cup SUBSET Modules
      /\ pending # None => Pick!Closed(pending)
      /\ touched \in BOOLEAN
  BY DEF PickInv, Pick!TypeOK, Pick!PickedIsClosed, Needs
<1> DEFINE Keeps ==
      /\ requires' = requires /\ touched' \in BOOLEAN
      /\ plan' \in {None} \cup SUBSET Modules /\ pending' \in {None} \cup SUBSET Modules
      /\ pending' # None => Pick!Closed(pending')
      /\ picked' \in SUBSET Modules /\ Pick!Closed(picked')
<1>2. ASSUME NEW key \in Modules, Pick!Tick(key) PROVE Keeps
  <2>1. picked \cup {key} \in SUBSET Modules
    BY <1>1
  <2> QED BY <1>1, <1>2, <2>1, ResolvedIsExact DEF Pick!Tick
<1>3. ASSUME NEW key \in Modules, Pick!Untick(key) PROVE Keeps
  BY <1>1, <1>3, DependentsAreExact DEF Pick!Untick
<1>4. ASSUME NEW all \in {Modules, {}}, Pick!SelectAllOrNone(all) PROVE Keeps
  BY <1>1, <1>4 DEF Pick!SelectAllOrNone, Pick!Closed, Needs
<1>5. ASSUME Pick!Send PROVE Keeps
  <2>1. /\ requires' = requires /\ touched' \in BOOLEAN /\ plan' = plan
        /\ pending' = Pick!resolveModules(picked) /\ Pick!Follow
    BY <1>5 DEF Pick!Send
  <2>2. pending' \in SUBSET Modules /\ Pick!Closed(pending')
    BY <1>1, <2>1, ResolvedIsExact
  <2> QED BY <1>1, <2>1, <2>2, FollowKeeps
<1>6. ASSUME Pick!CancelRequest PROVE Keeps
  <2>1. /\ requires' = requires /\ touched' \in BOOLEAN /\ plan' = plan
        /\ pending' = None /\ Pick!Follow
    BY <1>6 DEF Pick!CancelRequest
  <2> QED BY <1>1, <2>1, FollowKeeps
<1>7. ASSUME Pick!Rejected PROVE Keeps
  <2>1. /\ requires' = requires /\ touched' = touched /\ plan' = plan
        /\ pending' = None /\ Pick!Follow
    BY <1>7 DEF Pick!Rejected
  <2> QED BY <1>1, <2>1, FollowKeeps
<1>8. ASSUME NEW modules \in SUBSET Modules, Pick!Accepted(modules) PROVE Keeps
  <2>1. /\ requires' = requires /\ touched' = touched /\ plan' = Pick!resolveModules(modules)
        /\ pending' = None /\ Pick!Follow
    BY <1>8 DEF Pick!Accepted
  <2>2. plan' \in SUBSET Modules
    BY <1>1, <2>1, ResolvedIsExact
  <2> QED BY <1>1, <2>1, <2>2, FollowKeeps
<1>9. ASSUME UNCHANGED Pick!vars PROVE Keeps
  BY <1>1, <1>9 DEF Pick!vars
<1>10. Keeps
  BY <1>2, <1>3, <1>4, <1>5, <1>6, <1>7, <1>8, <1>9 DEF Pick!Next
<1>11. Pick!TypeOK'
  BY <1>1, <1>10 DEF Pick!TypeOK, Needs
<1>12. Pick!PickedIsClosed'
  BY <1>10 DEF Pick!PickedIsClosed, Pick!Closed
<1> QED BY <1>11, <1>12 DEF PickInv

(* Whatever the catalog, its cycles included, and whatever is ticked,      *)
(* unticked, sent and decided: the modules picked and those asked for need *)
(* none that is left out; ticking adds only what is needed and unticking   *)
(* takes only what needs what goes (modulePricing.ts: resolveModules,      *)
(* dependentsOf).                                                          *)
THEOREM PickIsAlwaysExact ==
  ASSUME Pick!ConstantsOK
  PROVE  Pick!Spec => []Pick!PickIsExact
<1>1. Pick!Init => PickInv
  BY PickInitIsClosed
<1>2. PickInv /\ [Pick!Next]_Pick!vars => PickInv'
  BY PickStepKeeps
<1>3. PickInv => Pick!PickIsExact
  BY TicksStayMinimal DEF PickInv, Pick!PickIsExact
<1> QED BY <1>1, <1>2, <1>3, PTL DEF Pick!Spec
=============================================================================
