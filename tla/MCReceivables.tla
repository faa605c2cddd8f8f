--------------------------- MODULE MCReceivables ---------------------------
(* Receivables on small instances. *)
EXTENDS ReceivablesInvariant, TLC

Symmetry == Permutations(Payments) \cup Permutations(Workers) \cup Permutations(Invoices)

=============================================================================
