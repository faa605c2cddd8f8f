----------------------------- MODULE OpenItems -----------------------------
(***************************************************************************)
(* What the books promise of receivables: every item is owed an amount,    *)
(* part of which is settled.  What is owed is stated, restated or          *)
(* withdrawn only while nothing is settled, and no more is settled than is *)
(* owed.                                                                   *)
(***************************************************************************)
EXTENDS Integers

CONSTANTS Items, Amounts

VARIABLE item   \* for each item, the amounts billed (0: nothing owed) and settled

Init == item = [i \in Items |-> [billed |-> 0, settled |-> 0]]

State(i, amount) ==
  /\ item[i].settled = 0
  /\ item' = [item EXCEPT ![i].billed = amount]

Settle(i) ==
  \E amount \in 1 .. (item[i].billed - item[i].settled) :
    item' = [item EXCEPT ![i].settled = @ + amount]

Unsettle(i) ==
  \E amount \in 1 .. item[i].settled :
    item' = [item EXCEPT ![i].settled = @ - amount]

Next ==
  \E i \in Items :
    \/ \E amount \in Amounts \cup {0} : State(i, amount)
    \/ Settle(i)
    \/ Unsettle(i)

Spec == Init /\ [][Next]_item

=============================================================================
