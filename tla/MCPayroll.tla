------------------------------ MODULE MCPayroll ------------------------------
(***************************************************************************)
(* Instances of Payroll: requests that overlap, with answers that get lost *)
(* (the constants themselves); one at a time, of two administrators; one   *)
(* administrator with the cash drawer.                                     *)
(***************************************************************************)
EXTENDS Payroll

CONSTANTS e1, p1, p2, a1, a2, w1

VARIABLE scenario

Two == INSTANCE Payroll WITH Accounts <- {"bank"}, Gross <- 1, Cash <- 0, Runs <- {1},
  Admins <- {a1, a2}, Kinds <- {"create", "approve", "pay", "delete"}, Workers <- {w1}, Waits <- TRUE, Loses <- FALSE
Lone == INSTANCE Payroll WITH Periods <- {p1, p2}, Runs <- {1, 2},
  Kinds <- {"create", "approve", "pay", "delete"}, Workers <- {w1}, Waits <- TRUE, Loses <- FALSE

MCInit ==
  \/ scenario = "race" /\ Init
  \/ scenario = "two" /\ Two!Init
  \/ scenario = "lone" /\ Lone!Init

MCNext ==
  /\ UNCHANGED scenario
  /\ \/ scenario = "race" /\ Next
     \/ scenario = "two" /\ Two!Next
     \/ scenario = "lone" /\ Lone!Next

MCSpec == MCInit /\ [][MCNext]_<<vars, scenario>>

-----------------------------------------------------------------------------
\* Types, and what keeps payments right, hold in every scenario (Payroll!PayrollInv); one
\* administrator's list shows what is stored (Payroll!PayRunsConverge, and ListInv, that makes it so).
StatesOK ==
  /\ scenario = "race" => PayrollInv
  /\ scenario = "two" => Two!PayrollInv
  /\ scenario = "lone" => Lone!PayrollInv /\ Lone!PayRunsConverge /\ Lone!ListInv
=============================================================================
