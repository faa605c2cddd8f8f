----------------------------- MODULE MCAccounts -----------------------------
(***************************************************************************)
(* Instances of SignUp and People: how accounts come to be, and who        *)
(* changes, moves and removes them.                                        *)
(***************************************************************************)
EXTENDS SignUp, TLC

CONSTANTS f1, f2, f3, d1, k1, k2, l1, l2

VARIABLES
  scenario,
  people, employees, plan, lock, view, dialog, call, links

all == <<scenario, codes, users, orgs, resets, failures, page, request, people, employees, plan, lock,
           view, dialog, call, links>>

\* Two sign-up pages with one email; a sign-up page and a forgotten-password dialog, together and each
\* alone.
\* The scenario "alone" is that of the constants themselves: a sign-up page by itself, with three codes.
Twice == INSTANCE SignUp WITH Codes <- {k1, k2}, SignUpPages <- {f1, f2}, MaxFailures <- 1
Both == INSTANCE SignUp WITH Codes <- {k1, k2}, ForgotDialogs <- {d1}
Dialog == INSTANCE SignUp WITH SignUpPages <- {}, ForgotDialogs <- {d1}

\* The users page of an organization, with payroll, of its admin panel and of the console, the
\* platform's administrators and panel logins, each with one open; all pages at once; links.
Tenant == INSTANCE People WITH Page <- "tenant", People <- {1, 2}, Employees <- {1}, Modules <- {}, Me <- 1,
            Others <- {"payroll"}, Tabs <- {}, Room <- 2, Records <- TRUE
Panel == INSTANCE People WITH Page <- "panel", People <- {1, 2}, Employees <- {}, Modules <- {1}, Me <- None,
            Others <- {}, Tabs <- {}, Room <- 2, Records <- FALSE
Platform == INSTANCE People WITH
            Page <- "console", People <- {1, 2}, Employees <- {}, Modules <- {}, Me <- None,
            Others <- {}, Tabs <- {}, Room <- 2, Records <- FALSE
Drawer == INSTANCE People WITH Page <- "drawer", People <- {1, 2}, Employees <- {}, Modules <- {}, Me <- None,
            Others <- {}, Tabs <- {}, Room <- 2, Records <- TRUE
SuperAdmins == INSTANCE People WITH
            Page <- "admins", People <- {1, 2, 3}, Employees <- {}, Modules <- {}, Me <- 1,
            Others <- {"admins"}, Tabs <- {}, Room <- 3, Records <- FALSE
PanelLogins == INSTANCE People WITH
            Page <- "logins", People <- {1, 2}, Employees <- {}, Modules <- {}, Me <- None,
            Others <- {}, Tabs <- {}, Room <- 2, Records <- FALSE
Team == INSTANCE People WITH Page <- "closed", People <- {1, 2, 3}, Employees <- {}, Modules <- {}, Me <- None,
            Others <- {"tenant", "panel", "console"}, Tabs <- {}, Room <- 3, Records <- TRUE
Invites == INSTANCE People WITH Page <- "closed", People <- {1, 2}, Employees <- {}, Modules <- {}, Me <- None,
            Others <- {"panel"}, Tabs <- {l1, l2}, Room <- 0, Records <- FALSE

ASSUME AccountsAssumption ==
  /\ Tenant!ConstantsOK
  /\ Panel!ConstantsOK
  /\ Platform!ConstantsOK
  /\ Drawer!ConstantsOK
  /\ SuperAdmins!ConstantsOK
  /\ PanelLogins!ConstantsOK
  /\ Team!ConstantsOK
  /\ Invites!ConstantsOK

\* The variables a component does not have.
OnlyEntry ==
  /\ people = None /\ employees = None /\ plan = None /\ lock = None /\ view = None
  /\ dialog = None /\ call = None /\ links = None
OnlyAccounts ==
  /\ codes = [c \in Codes |-> None] /\ users = {} /\ orgs = {} /\ resets = {}
  /\ failures = None /\ page = <<>> /\ request = None
RestEntry == <<people, employees, plan, lock, view, dialog, call, links>>
RestAccounts == <<codes, users, orgs, resets, failures, page, request>>

MCInit ==
  \/ scenario = "alone" /\ Init /\ OnlyEntry
  \/ scenario = "twice" /\ Twice!Init /\ OnlyEntry
  \/ scenario = "both" /\ Both!Init /\ OnlyEntry
  \/ scenario = "dialog" /\ Dialog!Init /\ OnlyEntry
  \/ scenario = "tenant" /\ Tenant!Init /\ OnlyAccounts
  \/ scenario = "panel" /\ Panel!Init /\ OnlyAccounts
  \/ scenario = "platform" /\ Platform!Init /\ OnlyAccounts
  \/ scenario = "drawer" /\ Drawer!Init /\ OnlyAccounts
  \/ scenario = "admins" /\ SuperAdmins!Init /\ OnlyAccounts
  \/ scenario = "logins" /\ PanelLogins!Init /\ OnlyAccounts
  \/ scenario = "team" /\ Team!Init /\ OnlyAccounts
  \/ scenario = "invites" /\ Invites!Init /\ OnlyAccounts

MCNext ==
  /\ UNCHANGED scenario
  /\ \/ scenario = "alone" /\ Next /\ UNCHANGED RestEntry
     \/ scenario = "twice" /\ Twice!Next /\ UNCHANGED RestEntry
     \/ scenario = "both" /\ Both!Next /\ UNCHANGED RestEntry
     \/ scenario = "dialog" /\ Dialog!Next /\ UNCHANGED RestEntry
     \/ scenario = "tenant" /\ Tenant!Next /\ UNCHANGED RestAccounts
     \/ scenario = "panel" /\ Panel!Next /\ UNCHANGED RestAccounts
     \/ scenario = "platform" /\ Platform!Next /\ UNCHANGED RestAccounts
     \/ scenario = "drawer" /\ Drawer!Next /\ UNCHANGED RestAccounts
     \/ scenario = "admins" /\ SuperAdmins!Next /\ UNCHANGED RestAccounts
     \/ scenario = "logins" /\ PanelLogins!Next /\ UNCHANGED RestAccounts
     \/ scenario = "team" /\ Team!Next /\ UNCHANGED RestAccounts
     \/ scenario = "invites" /\ Invites!Next /\ UNCHANGED RestAccounts

MCSpec == MCInit /\ [][MCNext]_all

Symmetry == Permutations({f1, f2})

-----------------------------------------------------------------------------
\* What keeps codes, and what sign-ups and senders have read of them, right holds in every scenario
\* (SignUp); accounts, dialogs and requests keep their types (People).
StatesOK ==
  /\ scenario = "alone" => SignUpInv /\ SendersSawPending
  /\ scenario = "twice" => Twice!SignUpInv
  /\ scenario = "both" => Both!SignUpInv
  /\ scenario = "dialog" => Dialog!SignUpInv /\ Dialog!SendersSawPending
  /\ scenario = "tenant" => Tenant!PeopleInv /\ Tenant!LoneInv
  /\ scenario = "panel" => Panel!PeopleInv /\ Panel!LoneInv
  /\ scenario = "platform" => Platform!PeopleInv /\ Platform!LoneInv
  /\ scenario = "drawer" => Drawer!PeopleInv /\ Drawer!LoneInv
  /\ scenario = "admins" => SuperAdmins!PeopleInv
  /\ scenario = "logins" => PanelLogins!PeopleInv /\ PanelLogins!LoneInv
  /\ scenario = "team" => Team!PeopleInv
  /\ scenario = "invites" => Invites!PeopleInv

\* An active administrator remains, whoever changes, moves or deletes accounts from where (People).
LastAdminStays ==
  /\ scenario = "panel" => Panel!LastAdminStays
  /\ scenario = "platform" => Platform!LastAdminStays
  /\ scenario = "drawer" => Drawer!LastAdminStays
  /\ scenario = "admins" => SuperAdmins!LastAdminStays
  /\ scenario = "team" => Team!LastAdminStays
  /\ scenario = "invites" => Invites!LastAdminStays

\* A form offers what is accepted and changes what was touched in it, lists show accounts as stored
\* once nothing is under way, whoever was dismissed cannot sign in, and an invitation sets the password
\* of the one who accepted it (People).
AccountsAsDecided ==
  /\ scenario = "tenant" => Tenant!AccountsAsDecided
  /\ scenario = "panel" => Panel!AccountsAsDecided
  /\ scenario = "platform" => Platform!AccountsAsDecided
  /\ scenario = "drawer" => Drawer!AccountsAsDecided
  /\ scenario = "admins" => SuperAdmins!AccountsAsDecided
  /\ scenario = "logins" => PanelLogins!AccountsAsDecided
  /\ scenario = "team" => Team!AccountsAsDecided
  /\ scenario = "invites" => Invites!AccountsAsDecided

=============================================================================
