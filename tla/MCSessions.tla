----------------------------- MODULE MCSessions -----------------------------
(***************************************************************************)
(* Instances of Sessions.  A run explores one of them: a tab of its own    *)
(* (the constants themselves), two tabs of a browser, a workspace whose    *)
(* answers get lost, which has its own variables.                          *)
(***************************************************************************)
EXTENDS Sessions, TLC

CONSTANTS t1, t2, t3, n1

VARIABLES scenario, rows, ended, cookie, page, requests, renewing, entering, entered

own == <<rows, ended, cookie, page, requests, renewing, entering, entered>>
all == <<scenario, vars, own>>

Race == INSTANCE Sessions WITH Tabs <- {t1, t2}, Calls <- {}, MaxResets <- 0

Workspace == INSTANCE Sessions WITH
  tokens <- rows, resets <- ended, jar <- cookie, tab <- page, calls <- requests,
  refreshing <- renewing, signing <- entering, signedIn <- entered,
  Tabs <- {t3}, Tenants <- {}, Opened <- Users, Tokens <- {n1}, Loses <- TRUE, MaxResets <- 0

MCInit ==
  /\ Workspace!Init
  /\ \/ scenario \in {"lone", "workspace"} /\ Init
     \/ scenario = "race" /\ Race!Init

MCNext ==
  \/ scenario = "lone" /\ Next /\ UNCHANGED <<scenario, own>>
  \/ scenario = "race" /\ Race!Next /\ UNCHANGED <<scenario, own>>
  \/ scenario = "workspace" /\ Workspace!Next /\ UNCHANGED <<scenario, vars>>

MCSpec == MCInit /\ [][MCNext]_all

\* The two tabs are interchangeable.
Symmetry == Permutations({t1, t2})

-----------------------------------------------------------------------------
\* What requests carry exists; where nothing is lost races are harmless, and a tab of its own
\* shows a user it knows (Sessions!LoneInv, the invariant the proofs rest on).
StatesOK ==
  /\ scenario = "lone" => LoneInv
  /\ scenario = "race" => Race!LoneInv
  /\ scenario = "workspace" => Workspace!LoneInv
=============================================================================
