-------------------------- MODULE ExternalPayments --------------------------
(***************************************************************************)
(* Payments from outside platforms: delivered, perhaps twice, they wait    *)
(* for a YES or NO by a link sent by email, and a YES books them.  A       *)
(* request reads first and writes later.  A YES claims its row with its    *)
(* first write and holds the lock until it commits: on SQLite that of the  *)
(* database, on PostgreSQL that of the row.  Every payment is of one unit. *)
(***************************************************************************)
EXTENDS Integers, FiniteSets, Functions

CONSTANTS
  Payments,           \* rows of external_payments
  References,         \* a platform and its reference (UTR) of a transaction
  Invoices, Total,    \* invoices, all of one total
  Requests,           \* under way at once
  MaxTokens,          \* bounds how often an email is sent again
  SingleWriter,       \* whether one transaction writes at a time (SQLite)
  OneByOne,           \* whether deliveries of one transaction do not overlap
  None

VARIABLES
  ext,                \* the rows
  receipts,           \* customer payments booked from each row
  invoice,
  links,              \* the links in the emails sent
  request,
  told                \* history: what result pages have said of each row

vars == <<ext, receipts, invoice, links, request, told>>

Open == {"pending_confirmation", "approved"}
Idle == [op |-> None, step |-> "idle", pay |-> None, ref |-> None, invoice |-> None]
Known == {p \in Payments : ext[p] # None}

Row == [ref : References, invoice : Invoices \cup {None}, token : 1..MaxTokens, window : {"open", "over"},
        status : {"pending_confirmation", "approved", "rejected", "reversed"}]
Requested ==
  [op : {None, "deliver", "resend", "yes", "no"}, step : {"idle", "read", "claimed"},
   pay : Payments \cup {None}, ref : References \cup {None}, invoice : Invoices \cup {None}]

ASSUME ConstantsAssumption ==
  /\ None \notin Row \cup Invoices \cup {"deliver", "resend", "yes", "no"}
  /\ IsFiniteSet(Payments) /\ Total \in Nat
  /\ MaxTokens \in Nat \ {0} /\ SingleWriter \in BOOLEAN /\ OneByOne \in BOOLEAN

TypeOK ==
  /\ ext \in [Payments -> {None} \cup Row]
  /\ receipts \in [Payments -> Nat]
  /\ invoice \in [Invoices -> [status : {"sent", "void", "deleted"}, paid : 0..Total, desk : 0..Total]]
  /\ links \subseteq Payments \X (1..MaxTokens)
  /\ request \in [Requests -> Requested]
  /\ told \in [Payments -> SUBSET {"approved", "rejected"}]

-----------------------------------------------------------------------------
(* Locks, and what is decided on                                           *)

Claimed(r) == request[r].step = "claimed"
Writes(r, p) == \A q \in Requests \ {r} : Claimed(q) => ~SingleWriter /\ request[q].pay # p
Quiet == SingleWriter => \A q \in Requests : ~Claimed(q)

Exists(i) == i # None => invoice[i].status # "deleted"
\* The invoice still takes the payment (its conditional UPDATE).
Fits(i) == i # None => invoice[i].status = "sent" /\ invoice[i].paid < Total

Recorded(ref, statuses) == {p \in Known : ext[p].ref = ref /\ ext[p].status \in statuses}
Ends(r) == request' = [request EXCEPT ![r] = Idle]
Mailed(p, token) == links' = links \/ links' = links \cup {<<p, token>>}

-----------------------------------------------------------------------------
(* Intake                                                                  *)

Deliver(r, ref, i) ==
  /\ request[r] = Idle
  /\ OneByOne => \A q \in Requests : request[q].op = "deliver" => request[q].ref # ref
  /\ Fits(i) /\ Recorded(ref, Open) = {}
  /\ request' = [request EXCEPT ![r] = [op |-> "deliver", step |-> "read", pay |-> None, ref |-> ref, invoice |-> i]]
  /\ UNCHANGED <<ext, receipts, invoice, links, told>>

\* The row refers to its invoice, which has to be there.
Receive(r, p) ==
  /\ request[r].op = "deliver" /\ ext[p] = None
  /\ Writes(r, p) /\ Exists(request[r].invoice)
  /\ ext' = [ext EXCEPT ![p] = [ref |-> request[r].ref, invoice |-> request[r].invoice, token |-> 1,
                                window |-> "open", status |-> "pending_confirmation"]]
  /\ Mailed(p, 1) /\ Ends(r)
  /\ UNCHANGED <<receipts, invoice, told>>

\* CONFIRM_TOKEN_TTL has passed.
Expire(p) ==
  /\ ext[p] # None
  /\ ext' = [ext EXCEPT ![p].window = "over"]
  /\ UNCHANGED <<receipts, invoice, links, request, told>>

Answerable(p) == p \in Known /\ ext[p].status = "pending_confirmation" /\ ext[p].window = "open"
Start(r, op, p) ==
  /\ request[r] = Idle /\ Answerable(p)
  /\ request' = [request EXCEPT ![r] = [op |-> op, step |-> "read", pay |-> p, ref |-> None, invoice |-> ext[p].invoice]]
  /\ UNCHANGED <<ext, receipts, invoice, links, told>>

Resend(r, p) == ext[p] # None /\ ext[p].token < MaxTokens /\ Start(r, "resend", p)
Renew(r) ==
  LET p == request[r].pay
  IN /\ request[r].op = "resend" /\ Writes(r, p) /\ ext[p].token < MaxTokens
     /\ ext' = [ext EXCEPT ![p].token = @ + 1]
     /\ Mailed(p, ext'[p].token) /\ Ends(r)
     /\ UNCHANGED <<receipts, invoice, told>>

-----------------------------------------------------------------------------
(* The answer                                                              *)

Follow(r, p, decision) == <<p, ext[p].token>> \in links /\ Start(r, decision, p)

(* Faulty variant: the status is not looked at again. *)
AnyStatus(p) == ext[p].status \in Open \cup {"rejected", "reversed"}
Pending(p) == ext[p].status = "pending_confirmation"

\* A row that is decided, or whose transaction is recorded, is let go.
Claim(r) ==
  LET p == request[r].pay
  IN /\ request[r].op = "yes" /\ request[r].step = "read" /\ Writes(r, p)
     /\ request' = [request EXCEPT ![r] =
          IF Pending(p) /\ Recorded(ext[p].ref, {"approved"}) \subseteq {p} THEN [request[r] EXCEPT !.step = "claimed"] ELSE Idle]
     /\ UNCHANGED <<ext, receipts, invoice, links, told>>

Pays(i, n) == IF i = None THEN invoice ELSE [invoice EXCEPT ![i].paid = @ + n]

\* The invoice is the one that was read.
Book(r) ==
  LET p == request[r].pay
      i == request[r].invoice
  IN /\ Claimed(r) /\ Fits(i)
     /\ invoice' = Pays(i, 1)
     /\ receipts' = [receipts EXCEPT ![p] = @ + 1]
     /\ ext' = [ext EXCEPT ![p].status = "approved"]
     /\ told' = [told EXCEPT ![p] = @ \cup {"approved"}]
     /\ Ends(r) /\ UNCHANGED links

\* A request is refused or fails, and is rolled back.
Abort(r) ==
  /\ request[r] # Idle
  /\ Ends(r) /\ UNCHANGED <<ext, receipts, invoice, links, told>>

Rejectable(p) == ext[p].status = "pending_confirmation"
Reject(r) ==
  LET p == request[r].pay
  IN /\ request[r].op = "no" /\ Writes(r, p) /\ Ends(r)
     /\ IF Rejectable(p)
        THEN /\ ext' = [ext EXCEPT ![p].status = "rejected"]
             /\ told' = [told EXCEPT ![p] = @ \cup {"rejected"}]
        ELSE UNCHANGED <<ext, told>>
     /\ UNCHANGED <<receipts, invoice, links>>

-----------------------------------------------------------------------------
(* In the application                                                      *)

Unlinked(p) == [ext EXCEPT ![p].status = "reversed"]
DeletePayment(p) ==
  /\ Quiet /\ receipts[p] > 0
  /\ receipts' = [receipts EXCEPT ![p] = @ - 1]
  /\ ext' = Unlinked(p)
  /\ invoice' = Pays(ext[p].invoice, -1)
  /\ UNCHANGED <<links, request, told>>

PayAtDesk(i) ==
  /\ Quiet /\ Fits(i)
  /\ invoice' = [invoice EXCEPT ![i].paid = @ + 1, ![i].desk = @ + 1]
  /\ UNCHANGED <<ext, receipts, links, request, told>>

Void(i) ==
  /\ Quiet /\ invoice[i].status = "sent" /\ invoice[i].paid = 0
  /\ invoice' = [invoice EXCEPT ![i].status = "void"]
  /\ UNCHANGED <<ext, receipts, links, request, told>>

DeleteInvoice(i) ==
  LET linked == {p \in Known : ext[p].invoice = i}
  IN /\ Quiet /\ \A p \in linked : Writes(None, p)
     /\ invoice[i].status # "deleted" /\ invoice[i].paid = 0
     /\ invoice' = [invoice EXCEPT ![i].status = "deleted"]
     /\ ext' = [p \in Payments |-> IF p \in linked THEN [ext[p] EXCEPT !.invoice = None] ELSE ext[p]]
     /\ UNCHANGED <<receipts, links, request, told>>

-----------------------------------------------------------------------------

Init ==
  /\ ext = [p \in Payments |-> None]
  /\ receipts = [p \in Payments |-> 0]
  /\ invoice = [i \in Invoices |-> [status |-> "sent", paid |-> 0, desk |-> 0]]
  /\ links = {}
  /\ request = [r \in Requests |-> Idle]
  /\ told = [p \in Payments |-> {}]

Next ==
  \/ \E r \in Requests :
       \/ \E ref \in References, i \in Invoices \cup {None} : Deliver(r, ref, i)
       \/ \E p \in Payments : Receive(r, p) \/ Resend(r, p)
       \/ \E p \in Payments, decision \in {"yes", "no"} : ext[p] # None /\ Follow(r, p, decision)
       \/ Renew(r) \/ Claim(r) \/ Book(r) \/ Abort(r) \/ Reject(r)
  \/ \E p \in Payments : Expire(p) \/ DeletePayment(p)
  \/ \E i \in Invoices : PayAtDesk(i) \/ Void(i) \/ DeleteInvoice(i)

Spec == Init /\ [][Next]_vars

-----------------------------------------------------------------------------
(* Properties                                                              *)

Booked(p) == p \in Known /\ receipts[p] > 0

(* A transaction is in the books once at most, though it was delivered     *)
(* twice, its link followed twice, or an earlier receipt deleted           *)
(* (payments.py: process_approved_external_payment).                       *)
RecordedOnce ==
  /\ \A p \in Payments : receipts[p] <= 1
  /\ \A p, q \in Payments : Booked(p) /\ Booked(q) /\ ext[p].ref = ext[q].ref => p = q

(* A payment is decided once: no page says it was rejected when it is or   *)
(* will be in the books (payments.py: confirm_external_payment_from_email, *)
(* "atomic, so it cannot race an approval").                               *)
DecidedOnce ==
  \A p \in Payments : "rejected" \in told[p] => "approved" \notin told[p] /\ receipts[p] = 0

(* An external payment is approved exactly while its receipt is in the     *)
(* books, so that its reference can be recorded again when it is not       *)
(* (payments.py: delete_customer_payment).                                 *)
ApprovedIsBooked == \A p \in Known : ext[p].status = "approved" <=> receipts[p] > 0

(* What an invoice shows as paid is what was received for it, at the desk  *)
(* or from outside, and no more than its total                             *)
(* (payments.py: _apply_invoice_payment, _remove_invoice_payment).         *)
PaidFits ==
  \A i \in Invoices :
    /\ invoice[i].paid = invoice[i].desk + SumFunctionOnSet(receipts, {p \in Known : ext[p].invoice = i})
    /\ invoice[i].paid <= Total

(* All of this at once.                                                    *)
ExternalPaymentsOnce == RecordedOnce /\ DecidedOnce /\ ApprovedIsBooked /\ PaidFits

-----------------------------------------------------------------------------
(* Why: the inductive invariant                                            *)

\* A request has what its operation works on.
WellAddressed ==
  \A r \in Requests :
    /\ request[r].op = "deliver" => request[r].ref \in References
    /\ request[r].op \in {"resend", "yes", "no"} => request[r].pay \in Known
    /\ Claimed(r) => request[r].op = "yes"

\* What is claimed is pending, and claimed once.
ClaimsHold ==
  \A r \in Requests : Claimed(r) =>
    /\ Pending(request[r].pay)
    /\ \A q \in Requests \ {r} : Claimed(q) => ~SingleWriter /\ request[q].pay # request[r].pay

Approved(p) == p \in Known /\ ext[p].status = "approved"
BookedWhenApproved ==
  \A p \in Payments : receipts[p] = IF Approved(p) THEN 1 ELSE 0

ApprovedOnce ==
  \A p, q \in Payments : Approved(p) /\ Approved(q) /\ ext[p].ref = ext[q].ref => p = q

\* What is claimed was delivered in a transaction that is not recorded.
ClaimsFresh ==
  \A r \in Requests : Claimed(r) =>
    \A p \in Payments : Approved(p) => ext[p].ref # ext[request[r].pay].ref

IsOpen(p) == p \in Known /\ ext[p].status \in Open
OneOpen ==
  OneByOne =>
    /\ \A p, q \in Payments : IsOpen(p) /\ IsOpen(q) /\ ext[p].ref = ext[q].ref => p = q
    /\ \A r \in Requests : request[r].op = "deliver" =>
         /\ \A p \in Payments : IsOpen(p) => ext[p].ref # request[r].ref
         /\ \A q \in Requests \ {r} : request[q].op = "deliver" => request[q].ref # request[r].ref

\* What a page said still holds.
ToldTruth ==
  \A p \in Payments :
    /\ "rejected" \in told[p] => p \in Known /\ ext[p].status = "rejected"
    /\ "approved" \in told[p] => p \in Known /\ ext[p].status \in {"approved", "reversed"}

\* A YES pays the invoice of its row, unless that was deleted.
SameInvoice ==
  \A r \in Requests : request[r].op = "yes" =>
    LET i == request[r].invoice
    IN i = ext[request[r].pay].invoice \/ (i # None /\ invoice[i].status = "deleted")

BookingInv ==
  /\ TypeOK /\ WellAddressed /\ ClaimsHold /\ BookedWhenApproved /\ ApprovedOnce
  /\ ClaimsFresh /\ OneOpen /\ ToldTruth /\ SameInvoice /\ PaidFits
=============================================================================
