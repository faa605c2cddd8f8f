------------------------------- MODULE MCBooks -------------------------------
(***************************************************************************)
(* Receivables, its documents kept to one request at a time, on two small  *)
(* instances: one invoice with payments in parts; two invoices that        *)
(* compete for the stock.                                                  *)
(***************************************************************************)
EXTENDS ReceivablesInvariant, FiniteSets, TLC

VARIABLE instance

\* What an instance has of the invoices, the payments and the forms there are.
Invoiced == {i \in Invoices : invoices[i] # NoInvoice}
Recorded == {p \in Payments : payments[p] # NoPayment}
Fits(amount, units) == IF instance = "documents" THEN units <= 1 ELSE amount = 1 /\ units >= 1
Within ==
  /\ Cardinality(IF instance = "documents" THEN Invoiced ELSE Recorded) <= 1
  /\ \A i \in Invoices : \A l \in lines[i] : Fits(l.amount, l.units)
  /\ \A w \in Workers : requests[w].op = "update_invoice" =>
       Fits(requests[w].form.amount, requests[w].form.units)
  /\ instance = "stock" => \E i \in Invoices : edits[i] <= 1   \* one of them is edited

MCInit == Init /\ instance \in {"documents", "stock"}
MCNext == Next /\ UNCHANGED instance /\ Within'
MCSpec == MCInit /\ [][MCNext]_<<vars, instance>>

Symmetry == Permutations(Payments) \cup Permutations(Workers) \cup Permutations(Invoices)
=============================================================================
