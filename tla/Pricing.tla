------------------------------ MODULE Pricing -------------------------------
(***************************************************************************)
(* How an invoice or a bill is priced while it is written: the form's      *)
(* lines and document discount, and the discount's shares and the taxes    *)
(* the server works out of them.  Amounts are in paise.                    *)
(***************************************************************************)
EXTENDS Integers, Sequences, FiniteSetsExt, Functions

CONSTANTS
  MaxLines,
  Amounts,            \* of a line: its quantity times its rate, rounded
  Rates               \* of tax, in hundredths of a percent

ConstantsOK == MaxLines \in Nat \ {0} /\ Amounts \subseteq Nat /\ Rates \subseteq Nat

VARIABLES lines, discount

vars == <<lines, discount>>

Line == [amount : Amounts, rate : Rates]
Subtotal == SumFunction([k \in DOMAIN lines |-> lines[k].amount])

TypeOK == lines \in UNION {[1..n -> Line] : n \in 1..MaxLines} /\ discount \in Nat

-----------------------------------------------------------------------------
(* The server's arithmetic                                                 *)

\* n / d, with halves rounded up.
Money(n, d) == (2 * n + d) \div (2 * d)
Least(a, b) == IF a < b THEN a ELSE b

Accepted == discount <= Subtotal
Valued == {k \in DOMAIN lines : lines[k].amount > 0}
LastValued == Max(Valued)

Proportion(k) == Money(discount * lines[k].amount, Subtotal)

\* No line has more off than it is worth.
Capped(k, share) == Least(share, lines[k].amount)

(* Faulty variant: every line gets its proportion. *)
ShareAlike(k) == IF discount = 0 \/ k \notin Valued THEN 0 ELSE Capped(k, Proportion(k))
\* The last line that has a value takes the rest, which may be negative.
Rest == discount - SumFunction([k \in Valued \ {LastValued} |-> Capped(k, Proportion(k))])
Share(k) ==
  IF discount = 0 \/ k \notin Valued THEN 0
  ELSE Capped(k, IF k = LastValued THEN Rest ELSE Proportion(k))

Billed(k) == lines[k].amount - Share(k)
Whole == 100 * 100      \* a rate of all the amount
Tax(k) == Money(Billed(k) * lines[k].rate, Whole)
TaxTotal == SumFunction([k \in DOMAIN lines |-> Tax(k)])

-----------------------------------------------------------------------------
(* The form                                                                *)

Init == lines \in [{1} -> Line] /\ discount = 0

AddLine ==
  /\ Len(lines) < MaxLines
  /\ \E line \in Line : lines' = Append(lines, line)
  /\ UNCHANGED discount

UpdateLine ==
  /\ \E k \in DOMAIN lines, line \in Line : lines' = [lines EXCEPT ![k] = line]
  /\ UNCHANGED discount

RemoveLine ==
  /\ Len(lines) > 1
  /\ \E k \in DOMAIN lines : lines' = [j \in 1..(Len(lines) - 1) |-> lines[IF j < k THEN j ELSE j + 1]]
  /\ UNCHANGED discount

SetDiscount ==
  /\ discount' \in 0..Subtotal
  /\ UNCHANGED lines

Next == AddLine \/ UpdateLine \/ RemoveLine \/ SetDiscount

Spec == Init /\ [][Next]_vars

-----------------------------------------------------------------------------
(* Properties                                                              *)

(* No line gets more off than it is worth, and the shares come to the      *)
(* discount, short of it by what rounding may cost at most when the last   *)
(* line is not worth the rest (documents.py: compute_lines).               *)
SharesFit ==
  Accepted /\ Valued # {} =>
    LET short == discount - SumFunction([k \in DOMAIN lines |-> Share(k)])
    IN /\ \A k \in DOMAIN lines : Share(k) <= lines[k].amount
       /\ short >= 0 /\ 2 * short < Cardinality(Valued)
       /\ short > 0 => Billed(LastValued) = 0

(* Tax is charged on the discounted amount: it is what each line's rate    *)
(* comes to on its proportion of it, but for the rounding of shares and of *)
(* taxes (documents.py: compute_lines).                                    *)
TaxFollowsDiscount ==
  Accepted /\ Valued # {} =>
    LET exact == (Subtotal - discount) * SumFunction([k \in DOMAIN lines |-> lines[k].rate * lines[k].amount])
        others == Valued \ {LastValued}
        slack == Whole * Cardinality(Valued)
                   + SumFunction([k \in others |-> lines[k].rate + lines[LastValued].rate])
        off == Whole * TaxTotal * Subtotal - exact
    IN 2 * off <= Subtotal * slack /\ -2 * off <= Subtotal * slack

(* The discount is given once, and lowers the tax by its part.             *)
DiscountIsShared == SharesFit /\ TaxFollowsDiscount
=============================================================================
