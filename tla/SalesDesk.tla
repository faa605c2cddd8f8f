------------------------------ MODULE SalesDesk ------------------------------
(***************************************************************************)
(* The sales pages of one tab: the invoice list with its ticks, bulk       *)
(* deletion and dialogs, an invoice, its form, the payments received and   *)
(* the totals walked page by page. The server's handlers are atomic here   *)
(* (Receivables interleaves them); other people call them at any time.     *)
(***************************************************************************)
EXTENDS Naturals, Sequences, SequencesExt, FiniteSets

CONSTANTS
  N,                 \* invoices there is room for
  P,                 \* payments there is room for
  Total,             \* what each invoice is for
  PageSize,          \* rows to a page
  MaxTotalsPages,    \* pages the totals are walked for
  Pages,             \* pages the user visits
  Clicks,            \* requests the user makes
  Others,            \* requests other people make
  LeavesBusy,        \* whether the user leaves a page that waits for an answer
  None

VARIABLES
  stored,            \* invoices
  pays,              \* customer payments
  page,              \* the page the tab shows
  filter,            \* its status tab
  number,            \* its page number
  rows,              \* what it lists, with the read under way
  picked,            \* ticked invoices
  dialog,            \* the dialog or form open, then its request
  bulk,              \* the bulk deletion
  totals,            \* the totals of the payments received
  walk               \* the read of all of them under way

vars == <<stored, pays, page, filter, number, rows, picked, dialog, bulk, totals, walk>>
server == <<stored, pays>>

Ids == 1..N
InvoiceRow == [status : {"draft", "sent", "void"}, paid : 0..Total]
PaymentRow == [invoice : 0..N, amount : 1..Total]
Kinds == {"send", "void", "delete", "pay", "unpay", "create", "update"}
Filters == {"all", "draft", "unpaid", "paid"}

Closed == [at |-> "idle", kind |-> None, id |-> 0, amount |-> 0, status |-> None, ok |-> FALSE]
NoBulk == [on |-> FALSE, here |-> FALSE, todo |-> {}, failed |-> {}]
Unread == [read |-> FALSE, got |-> <<>>, total |-> 0, of |-> {}]
NoTotals == [received |-> 0, unapplied |-> 0, count |-> 0, truncated |-> FALSE, known |-> FALSE]
NoWalk == [on |-> FALSE, page |-> 1, received |-> 0, unapplied |-> 0, count |-> 0]

-----------------------------------------------------------------------------
(* The server                                                              *)

(* Faulty variant: a payment recorded meanwhile is not looked for. *)
UnpaidOrNot(i) == stored[i] # None
Unpaid(i) == stored[i] # None /\ stored[i].paid = 0
Due(i) == Total - stored[i].paid
Posted(i) == stored[i].status = "sent"

Newest(S) == [k \in 1..Cardinality(S) |-> CHOOSE i \in S : Cardinality({j \in S : j > i}) = k - 1]
OnFile == {k \in 1..P : pays[k] # None}
Received(S) == SumFunctionOnSet([k \in S |-> pays[k].amount], S)
Unapplied(S) == {k \in S : pays[k].invoice = 0}

Fresh(S, top) == {k \in 1..top : S[k] = None /\ \A j \in k..top : S[j] = None}
Next1(S, top) == CHOOSE k \in Fresh(S, top) : \A j \in Fresh(S, top) : k <= j

Allowed(kind, id, amount) ==
  CASE kind = "send" -> stored[id] # None /\ stored[id].status = "draft"
    [] kind = "void" -> Unpaid(id) /\ stored[id].status # "void"
    [] kind = "delete" -> Unpaid(id)
    [] kind = "update" -> Unpaid(id) /\ stored[id].status # "void"
    [] kind = "create" -> TRUE
    [] kind = "pay" -> id # 0 => (stored[id] # None /\ Posted(id) /\ amount <= Due(id))
    [] kind = "unpay" -> pays[id] # None

Room(kind) ==
  /\ kind = "create" => Fresh(stored, N) # {}
  /\ kind = "pay" => Fresh(pays, P) # {}

\* What one request changes; a payment's invoice follows it.
Does(kind, id, amount, status) ==
  /\ stored' =
       CASE kind = "send" -> [stored EXCEPT ![id].status = "sent"]
         [] kind = "void" -> [stored EXCEPT ![id].status = "void"]
         [] kind = "delete" -> [stored EXCEPT ![id] = None]
         [] kind = "update" -> [stored EXCEPT ![id].status = IF @ = "sent" THEN "sent" ELSE status]
         [] kind = "create" -> [stored EXCEPT ![Next1(stored, N)] = [status |-> status, paid |-> 0]]
         [] kind = "pay" -> IF id = 0 THEN stored ELSE [stored EXCEPT ![id].paid = @ + amount]
         [] kind = "unpay" -> IF pays[id].invoice = 0 THEN stored
                              ELSE [stored EXCEPT ![pays[id].invoice].paid = @ - pays[id].amount]
  /\ pays' =
       CASE kind = "pay" -> [pays EXCEPT ![Next1(pays, P)] = [invoice |-> id, amount |-> amount]]
         [] kind = "unpay" -> [pays EXCEPT ![id] = None]
         [] OTHER -> pays

Matches(i, f) ==
  /\ stored[i] # None
  /\ f = "draft" => stored[i].status = "draft"
  /\ f = "unpaid" => Posted(i) /\ stored[i].paid < Total
  /\ f = "paid" => Posted(i) /\ stored[i].paid = Total

Smaller(m, n) == IF m < n THEN m ELSE n
Slice(s, n) == SubSeq(s, (n - 1) * PageSize + 1, Smaller(n * PageSize, Len(s)))

\* What the list, the invoice page and the payments page read.
Listing == Newest({i \in Ids : Matches(i, filter)})
PaymentList == Newest(OnFile)
WithRow(s, of) == [k \in 1..Len(s) |-> [id |-> s[k], row |-> of[s[k]]]]
Read ==
  CASE page = "list" ->
         [read |-> TRUE, got |-> WithRow(Slice(Listing, number), stored), total |-> Len(Listing), of |-> {}]
    [] page = "received" ->
         [read |-> TRUE, got |-> WithRow(Slice(PaymentList, number), pays), total |-> Len(PaymentList), of |-> {}]
    [] OTHER ->
         [read |-> TRUE, got |-> IF stored[number] = None THEN <<>> ELSE WithRow(<<number>>, stored), total |-> 0,
          of |-> {k \in 1..P : pays[k] # None /\ pays[k].invoice = number}]

-----------------------------------------------------------------------------
ConstantsOK ==
  /\ N \in Nat \ {0} /\ P \in Nat /\ Total \in Nat /\ PageSize \in Nat \ {0} /\ MaxTotalsPages \in Nat \ {0}
  /\ "view" \in Pages /\ Others \subseteq Kinds
  /\ None \notin InvoiceRow \cup PaymentRow \cup Kinds

TypeOK ==
  /\ stored \in [Ids -> InvoiceRow \cup {None}] /\ pays \in [1..P -> PaymentRow \cup {None}]
  /\ page \in Pages /\ filter \in Filters /\ number \in 1..N + P
  /\ rows \in [at : {"idle", "sent", "read"}, shown : {rows.shown}, answer : {rows.answer}]
  /\ picked \subseteq Ids
  /\ dialog \in [at : {"idle", "open", "sent", "done"}, kind : Kinds \cup {None}, id : 0..N + P, amount : 0..Total,
                 status : {"draft", "sent", None}, ok : BOOLEAN]
  /\ bulk \in [on : BOOLEAN, here : BOOLEAN, todo : SUBSET Ids, failed : SUBSET Ids]
  /\ walk.page \in 1..MaxTotalsPages

Fetch == rows' = [rows EXCEPT !.at = "sent"]
AskTotals(p) ==
  walk' = [NoWalk EXCEPT !.on = p = "received"]

Init ==
  /\ stored = [i \in Ids |-> None] /\ pays = [k \in 1..P |-> None]
  /\ page \in Pages \cap {"list"} /\ filter = "all" /\ number = 1
  /\ rows = [at |-> "sent", shown |-> Unread, answer |-> Unread]
  /\ picked = {} /\ dialog = Closed /\ bulk = NoBulk
  /\ totals = NoTotals /\ walk = NoWalk

-----------------------------------------------------------------------------
(* Reading                                                                 *)

Loading == rows.at # "idle"
Shown == IF Loading THEN <<>> ELSE rows.shown.got
ShownRow(i) == \E k \in DOMAIN Shown : Shown[k].id = i
RowOf(i) == Shown[CHOOSE k \in DOMAIN Shown : Shown[k].id = i].row
Busy == dialog.at \in {"sent", "done"} \/ bulk.on

RowsRead ==
  /\ rows.at = "sent"
  /\ rows' = [rows EXCEPT !.at = "read", !.answer = Read]
  /\ UNCHANGED <<stored, pays, page, filter, number, picked, dialog, bulk, totals, walk>>

RowsShown ==
  /\ rows.at = "read"
  /\ rows' = [at |-> "idle", shown |-> rows.answer, answer |-> Unread]
  /\ UNCHANGED <<stored, pays, page, filter, number, picked, dialog, bulk, totals, walk>>

SeenAll(count, got) == count >= Len(PaymentList) \/ got = <<>>

\* loadRangeTotals: one page after another, until as many were seen as the last page said there are.
TotalsPage ==
  /\ walk.on
  /\ LET got == Slice(PaymentList, walk.page)
         in == [received |-> walk.received + Received(ToSet(got)),
                unapplied |-> walk.unapplied + Received(Unapplied(ToSet(got))),
                count |-> walk.count + Len(got)]
         done == SeenAll(in.count, got)
     IN IF done \/ walk.page = MaxTotalsPages
        THEN /\ totals' = [received |-> in.received, unapplied |-> in.unapplied, known |-> TRUE, truncated |-> ~done,
                           count |-> Len(PaymentList)]
             /\ walk' = NoWalk
        ELSE walk' = [on |-> TRUE, page |-> walk.page + 1, received |-> in.received, unapplied |-> in.unapplied,
                      count |-> in.count] /\ UNCHANGED totals
  /\ UNCHANGED <<stored, pays, page, filter, number, rows, picked, dialog, bulk>>

\* Leaving a page forgets all it held; a bulk deletion under way goes on without it.
Visit(p, n) ==
  /\ <<page, number>> # <<p, n>> /\ (Busy => LeavesBusy) /\ dialog.at # "open"
  /\ page' = p /\ number' = n /\ filter' = "all"
  /\ rows' = [at |-> "sent", shown |-> Unread, answer |-> Unread]
  /\ picked' = {} /\ dialog' = Closed /\ bulk' = [bulk EXCEPT !.here = FALSE]
  /\ totals' = NoTotals /\ AskTotals(p)
  /\ UNCHANGED <<stored, pays>>

OpenInvoice(i) == page = "list" /\ "view" \in Pages /\ ShownRow(i) /\ Visit("view", i)
OpenPage(p) == p \in {"list", "received"} /\ p # page /\ Visit(p, 1)

SetFilter(f) ==
  /\ page = "list" /\ filter # f /\ dialog.at = "idle"
  /\ filter' = f /\ number' = 1 /\ Fetch
  /\ UNCHANGED <<stored, pays, page, picked, dialog, bulk, totals, walk>>

\* The pager is drawn under rows only.
SetPage(n) ==
  /\ page \in {"list", "received"} /\ Shown # <<>> /\ n # number /\ dialog.at = "idle"
  /\ (n - 1) * PageSize < rows.shown.total
  /\ number' = n /\ Fetch
  /\ UNCHANGED <<stored, pays, page, filter, picked, dialog, bulk, totals, walk>>

-----------------------------------------------------------------------------
(* Ticks and the bulk deletion                                             *)

Deletable == {i \in Ids : ShownRow(i) /\ RowOf(i).paid = 0}
AllSelected == Deletable # {} /\ Cardinality(picked) = Cardinality(Deletable)

Tick(i) ==
  /\ page = "list" /\ i \in Deletable /\ dialog.at = "idle"
  /\ picked' = IF i \in picked THEN picked \ {i} ELSE picked \cup {i}
  /\ UNCHANGED <<stored, pays, page, filter, number, rows, dialog, bulk, totals, walk>>

SelectAll ==
  /\ page = "list" /\ Deletable # {} /\ dialog.at = "idle"
  /\ picked' = IF AllSelected THEN {} ELSE Deletable
  /\ UNCHANGED <<stored, pays, page, filter, number, rows, dialog, bulk, totals, walk>>

ConfirmBulkDelete ==
  /\ page = "list" /\ picked # {} /\ Shown # <<>> /\ dialog.at = "idle" /\ ~bulk.on /\ "delete" \in Clicks
  /\ bulk' = [on |-> TRUE, here |-> TRUE, todo |-> picked, failed |-> {}]
  /\ UNCHANGED <<stored, pays, page, filter, number, rows, picked, dialog, totals, walk>>

BulkDelete(i) ==
  /\ bulk.on /\ i \in bulk.todo
  /\ IF Allowed("delete", i, 0)
     THEN Does("delete", i, 0, None) /\ bulk' = [bulk EXCEPT !.todo = @ \ {i}]
     ELSE bulk' = [bulk EXCEPT !.todo = @ \ {i}, !.failed = @ \cup {i}] /\ UNCHANGED server
  /\ UNCHANGED <<page, filter, number, rows, picked, dialog, totals, walk>>

\* What could not be deleted stays ticked, whatever was ticked meanwhile.
BulkDone ==
  /\ bulk.on /\ bulk.todo = {}
  /\ bulk' = NoBulk
  /\ IF bulk.here THEN picked' = bulk.failed /\ Fetch ELSE UNCHANGED <<picked, rows>>
  /\ UNCHANGED <<stored, pays, page, filter, number, dialog, totals, walk>>

-----------------------------------------------------------------------------
(* Dialogs and forms                                                       *)

CanEdit(r) == r.status = "draft" \/ (r.status = "sent" /\ r.paid = 0)
CanTakePayment(r) == r.status = "sent" /\ r.paid < Total
CanPayHere(r) == r.status # "void" /\ r.paid < Total

Offered(kind, id) ==
  IF kind = "unpay"
  THEN id \in 1..P /\ IF page = "received" THEN ShownRow(id) ELSE page = "view" /\ ~Loading /\ id \in rows.shown.of
  ELSE /\ page \in {"list", "view"} /\ id \in Ids /\ ShownRow(id)
       /\ kind = "send" => RowOf(id).status = "draft"
       /\ kind = "void" => RowOf(id).status # "void"
       /\ kind = "delete" => page = "list" /\ RowOf(id).paid = 0
       /\ kind = "update" => CanEdit(RowOf(id))

Open(kind, id, amount, status) ==
  /\ kind \in Clicks /\ dialog.at = "idle"
  /\ dialog' = [at |-> "open", kind |-> kind, id |-> id, amount |-> amount, status |-> status, ok |-> FALSE]
  /\ UNCHANGED <<stored, pays, page, filter, number, rows, picked, bulk, totals, walk>>

OpenDialog(kind, id) == kind \in {"send", "void", "delete", "unpay"} /\ Offered(kind, id) /\ Open(kind, id, 0, None)

\* A payment is at most the balance shown: the page's, or the one the dialog reads for a customer's invoices.
OpenPayment(id, amount) ==
  /\ CASE page = "received" -> id # 0 => Matches(id, "unpaid") /\ amount <= Due(id)
       [] page = "list" -> id # 0 /\ ShownRow(id) /\ CanTakePayment(RowOf(id)) /\ amount <= Total - RowOf(id).paid
       [] OTHER -> id # 0 /\ ShownRow(id) /\ CanPayHere(RowOf(id)) /\ amount <= Total - RowOf(id).paid
  /\ Open("pay", id, amount, None)

\* A form saves as a draft or as sent; one opened on a sent invoice only as sent.
OpenForm(id, status) ==
  IF id = 0 THEN page = "list" /\ Open("create", 0, 0, status)
  ELSE Offered("update", id) /\ (RowOf(id).status = "sent" => status = "sent") /\ Open("update", id, 0, status)

\* Leaving a form reads the page it was opened from anew.
Forms == {"create", "update"}
CancelDialog ==
  /\ dialog.at = "open"
  /\ dialog' = Closed
  /\ IF dialog.kind \in Forms THEN Fetch /\ picked' = {} ELSE UNCHANGED <<rows, picked>>
  /\ UNCHANGED <<stored, pays, page, filter, number, bulk, totals, walk>>

Confirm ==
  /\ dialog.at = "open"
  /\ dialog' = [dialog EXCEPT !.at = "sent"]
  /\ UNCHANGED <<stored, pays, page, filter, number, rows, picked, bulk, totals, walk>>

Served ==
  /\ dialog.at = "sent" /\ Room(dialog.kind)
  /\ LET ok == Allowed(dialog.kind, dialog.id, dialog.amount) IN
     /\ dialog' = [dialog EXCEPT !.at = "done", !.ok = ok, !.id = IF dialog.kind = "create" THEN Next1(stored, N) ELSE @]
     /\ IF ok THEN Does(dialog.kind, dialog.id, dialog.amount, dialog.status) ELSE UNCHANGED server
  /\ UNCHANGED <<page, filter, number, rows, picked, bulk, totals, walk>>

(* Faulty variant: only the totals are asked for again. *)
RefreshTotals == UNCHANGED rows /\ IF page = "received" THEN AskTotals(page) ELSE UNCHANGED walk
Refresh ==
  /\ Fetch
  /\ IF page = "received" THEN AskTotals(page) ELSE UNCHANGED walk

\* A refusal is shown in the dialog; a saved form goes to its invoice.
Done ==
  /\ dialog.at = "done"
  /\ \/ ~dialog.ok /\ dialog' = [dialog EXCEPT !.at = "open"] /\ UNCHANGED <<page, filter, number, rows, picked, walk>>
     \/ /\ dialog.ok /\ dialog.kind \notin Forms
        /\ dialog' = Closed /\ Refresh
        /\ UNCHANGED <<page, filter, number, picked>>
     \/ /\ dialog.ok /\ dialog.kind \in Forms
        /\ page' = "view" /\ number' = dialog.id /\ filter' = "all" /\ picked' = {} /\ dialog' = Closed /\ Fetch
        /\ UNCHANGED walk
  /\ UNCHANGED <<stored, pays, bulk, totals>>

Elsewhere(kind, id, amount, status) ==
  /\ Room(kind)
  /\ kind = "unpay" => id \in 1..P
  /\ kind = "pay" => id \in 0..N
  /\ kind \in {"send", "void", "delete", "update"} => id \in Ids
  /\ Allowed(kind, id, amount) /\ Does(kind, id, amount, status)
  /\ UNCHANGED <<page, filter, number, rows, picked, dialog, bulk, totals, walk>>

-----------------------------------------------------------------------------
Next ==
  \/ RowsRead \/ RowsShown \/ TotalsPage
  \/ \E i \in Ids : OpenInvoice(i) \/ Tick(i) \/ BulkDelete(i)
  \/ \E p \in Pages : OpenPage(p)
  \/ \E f \in Filters : SetFilter(f)
  \/ \E n \in 1..N + P : SetPage(n)
  \/ SelectAll \/ ConfirmBulkDelete \/ BulkDone
  \/ \E kind \in Kinds, id \in 1..N + P : OpenDialog(kind, id)
  \/ \E id \in 0..N, amount \in 1..Total : OpenPayment(id, amount)
  \/ \E id \in 0..N, status \in {"draft", "sent"} : OpenForm(id, status)
  \/ CancelDialog \/ Confirm \/ Served \/ Done
  \/ \E kind \in Others, id \in 0..N + P, amount \in 1..Total, status \in {"draft", "sent"} : Elsewhere(kind, id, amount, status)

Spec == Init /\ [][Next]_vars

-----------------------------------------------------------------------------
(* Properties                                                              *)

AtRest == rows.at = "idle" /\ ~walk.on /\ ~Busy /\ dialog.at = "idle"

\* With nobody else at work, a page that waits for nothing shows what is stored
\* (docs/ARCHITECTURE.md:77: pages reload after a mutation, so nothing can drift from the server).
DeskConverges == AtRest => rows.shown = Read

\* With nobody else at work, the totals are those of the payments stored, or say that they stop short.
TotalsRight ==
  totals.truncated \/ /\ totals.count = Cardinality(OnFile)
                      /\ totals.received = Received(OnFile)
                      /\ totals.unapplied = Received(Unapplied(OnFile))
TotalsExact == AtRest /\ page = "received" => TotalsRight

\* The pages show what is stored, rows and totals.
PagesConverge == DeskConverges /\ TotalsExact

\* Whoever pays, deletes or voids meanwhile, an invoice is paid what its payments come to; only one that
\* was sent is paid at all, and one that has payments stays (invoices.py:638, 659; payments.py:72).
PaidIsReceived ==
  \A i \in Ids : stored[i] # None =>
    stored[i].paid = SumFunctionOnSet([k \in 1..P |-> IF pays[k] # None /\ pays[k].invoice = i THEN pays[k].amount ELSE 0], 1..P)
DraftsAreUnpaid == \A i \in Ids : stored[i] # None /\ stored[i].status # "sent" => stored[i].paid = 0
PaidStays == \A k \in 1..P : pays[k] # None /\ pays[k].invoice # 0 => stored[pays[k].invoice] # None
\* What a dialog asks for is of the kind it is for.
DialogFits ==
  /\ dialog.at # "idle" => dialog.kind # None
  /\ dialog.kind \in {"send", "void", "delete", "update"} => dialog.id \in Ids
  /\ dialog.kind = "pay" => dialog.id \in 0..N /\ dialog.amount \in 1..Total
  /\ dialog.kind = "unpay" => dialog.id \in 1..P
  /\ dialog.kind \in Forms => dialog.status \in {"draft", "sent"}
  /\ dialog.kind = "create" /\ dialog.at = "done" => dialog.id \in Ids
DeskInv == TypeOK /\ PaidIsReceived /\ DraftsAreUnpaid /\ PaidStays /\ DialogFits

\* Why pages converge: what is shown is stored, or was done just now and reads the page again.
DeskIsFresh ==
  \/ bulk.on /\ bulk.here
  \/ dialog.at = "done" /\ dialog.ok
  \/ rows.at = "sent"
  \/ rows.at = "read" /\ rows.answer = Read
  \/ rows.at = "idle" /\ rows.shown = Read
\* Why totals are exact: as far as it went, a walk added up the payments of the pages before, or the totals
\* are right, or what was done just now starts another walk.
Before(n) == {PaymentList[i] : i \in 1..(n - 1) * PageSize \cap DOMAIN PaymentList}
WalkIsRight ==
  /\ walk.received = Received(Before(walk.page))
  /\ walk.unapplied = Received(Unapplied(Before(walk.page)))
  /\ walk.count = Smaller((walk.page - 1) * PageSize, Len(PaymentList))
TotalsAreFresh ==
  page = "received" =>
    \/ dialog.at = "done" /\ dialog.ok
    \/ walk.on /\ WalkIsRight
    \/ ~walk.on /\ TotalsRight
AloneInv == Others = {} /\ ~LeavesBusy => (bulk.on => bulk.here) /\ DeskIsFresh /\ TotalsAreFresh
=============================================================================
