------------------------------ MODULE MCWaiting ------------------------------
(***************************************************************************)
(* What waits, and ends: requests that take document numbers, calls that   *)
(* wait for a refresh of the session, a tab an organization's state has    *)
(* locked.  They share no state: a run explores one of them while the      *)
(* others stay as they started, and only the one explored is fair.         *)
(***************************************************************************)
EXTENDS Numbering

CONSTANTS t1, u1, n1, n2, n3, n4, a1, s1, AllModules

VARIABLES scenario,
  tokens, resets, jar, tab, calls, refreshing, signing, signedIn,
  org, day, row, view, refetch, call, orgTab, check, ask, work

session == <<tokens, resets, jar, tab, calls, refreshing, signing, signedIn>>
console == <<org, day, row, view, refetch, call, orgTab, check, ask, work>>
all == <<scenario, vars, session, console>>

\* An expense, and a gateway payment booked with its fee
\* (razorpay_posting.book_customer_payment and book_gateway_fee).
RecordExpense == <<"expense", "journal">>
BookGatewayPayment == <<"payment", "journal", "expense", "journal">>
GatewayPlans == {RecordExpense, BookGatewayPayment}

\* A tab that signs in and opens workspaces, and whose answers get lost.
Tab == INSTANCE Sessions WITH Tabs <- {t1}, Calls <- {}, Users <- {u1}, Tenants <- {u1}, Opened <- {u1},
         Tokens <- {n1, n2, n3, n4}, Loses <- TRUE, MaxResets <- 0

\* An organization whose trial ends and is extended, with its tab and a console.
Trial == INSTANCE OrgConsole WITH Admins <- {a1}, Tenants <- {t1}, Plans <- {}, Decisions <- {"approve", "extend"},
           Workers <- 1, Slots <- {s1}, MaxDay <- 1, tab <- orgTab

\* The others rest: a tab that shows the sign-in page, an organization whose tab knows it.
TabRests ==
  /\ tokens = [n \in {n1, n2, n3, n4} |-> None] /\ resets = [u \in {u1} |-> 0] /\ jar = None /\ signedIn = FALSE
  /\ tab = [t \in {t1} |-> Tab!Page(None, None, None, FALSE)]
  /\ calls = [t \in {t1} |-> [c \in Tab!Slots |-> Tab!Idle]]
  /\ refreshing = [t \in {t1} |-> Tab!Quiet] /\ signing = [t \in {t1} |-> Tab!NotSigning]
TrialRests ==
  /\ org = Trial!CreatedHere /\ day = 0
  /\ row = [a \in {a1} |-> [shown |-> org, at |-> "idle", seen |-> None]] /\ view = [a \in {a1} |-> None]
  /\ refetch = [s \in {a1} \X {s1} |-> Trial!Idle] /\ call = [a \in {a1} |-> Trial!Quiet]
  /\ orgTab = [t \in {t1} |-> [known |-> org, locked |-> FALSE, forced |-> FALSE]]
  /\ check = [s \in {t1} \X {s1} |-> Trial!NoCheck]
  /\ ask = [t \in {t1} |-> Trial!Unsent] /\ work = [t \in {t1} |-> "idle"]

MCInit ==
  /\ Init
  /\ \/ scenario = "numbers" /\ TabRests /\ TrialRests
     \/ scenario = "tab" /\ Tab!Init /\ TrialRests
     \/ scenario = "trial" /\ TabRests /\ Trial!Init

MCNext ==
  \/ scenario = "numbers" /\ Next /\ UNCHANGED <<scenario, session, console>>
  \/ scenario = "tab" /\ Tab!Next /\ UNCHANGED <<scenario, vars, console>>
  \/ scenario = "trial" /\ Trial!Next /\ UNCHANGED <<scenario, vars, session>>

\* While one rests, no action its fairness is about is enabled.
MCSpec == MCInit /\ [][MCNext]_all /\ Fairness /\ Tab!Fairness /\ Trial!Fairness

-----------------------------------------------------------------------------
\* No call is held for ever, no page restores for ever (Sessions!CallsSettle), and a tab whose
\* organization may work again is let in (OrgConsole!EventuallyUnlocked).
WaitsEnd ==
  /\ scenario = "tab" => Tab!CallsSettle
  /\ scenario = "trial" => Trial!EventuallyUnlocked
=============================================================================
