----------------------------- MODULE MCConsole ------------------------------
(***************************************************************************)
(* Instances of OrgConsole, Content, Registers and ModulePicker: the       *)
(* platform's pages and an organization's lists; and ExternalPayments.     *)
(***************************************************************************)
EXTENDS ExternalPayments, TLC

CONSTANTS a1, a2, a3, t1, s1, p1, o1, o2, s2, i1, AllModules

VARIABLES
  scenario,
  org, day, row, view, refetch, call, tab, check, ask, work, published, overrides,
  unpaid, touched, editor, dialog, fetch, stored, detail, requires, plan, pending,
  picked

all == <<scenario, org, day, row, view, refetch, call, tab, check, ask, work, published, overrides,
           unpaid, touched, editor, dialog, fetch, stored, detail, requires, plan, pending,
           picked, ext, receipts, invoice, links, request, told>>

\* Two administrators, one request handled at a time; an administrator alone; one with the
\* organization's tab.
Serial == INSTANCE OrgConsole WITH Admins <- {a1, a2}, Tenants <- {}, Plans <- {},
            Decisions <- {"suspend", "unsuspend", "archive", "restore"}, Workers <- 1, Slots <- {s1},
            MaxDay <- 0
Lone == INSTANCE OrgConsole WITH Admins <- {a3}, Tenants <- {}, Plans <- {p1},
            Decisions <- {"approve", "reject", "suspend", "unsuspend", "archive", "restore", "delete", "accept", "cancelPlan"},
            Workers <- 1, Slots <- {s1}, MaxDay <- 0
Asked == INSTANCE OrgConsole WITH Admins <- {a3}, Tenants <- {t1}, Plans <- {p1},
            Decisions <- {"approve", "accept", "decline"}, Workers <- 1, Slots <- {s1}, MaxDay <- 0

\* The site's two editors, with calls that fail; an administrator alone with an organization's content;
\* the shared content while plans change; tabs whose users sign in and out.
Site == INSTANCE Content WITH
            Orgs <- {}, Websites <- {s1}, Pricings <- {}, Apps <- {}, Scopes <- {}, Tabs <- {},
            Slots <- {}, Plans <- FALSE, Waits <- FALSE, Loses <- TRUE
Prices == INSTANCE Content WITH
            Orgs <- {}, Websites <- {}, Pricings <- {s2}, Apps <- {}, Scopes <- {}, Tabs <- {},
            Slots <- {}, Plans <- FALSE, Waits <- FALSE, Loses <- TRUE
Own == INSTANCE Content WITH
            Orgs <- {o1}, Websites <- {}, Pricings <- {}, Apps <- {a3}, Scopes <- {"shared", o1},
            Tabs <- {}, Slots <- {}, Plans <- FALSE, Waits <- TRUE, Loses <- FALSE
Paid == INSTANCE Content WITH Orgs <- {o1}, Websites <- {}, Pricings <- {}, Apps <- {a3}, Scopes <- {"shared"},
            Tabs <- {}, Slots <- {}, Plans <- TRUE, Waits <- FALSE, Loses <- TRUE
SignedIn == INSTANCE Content WITH
            Orgs <- {o1, o2}, Websites <- {}, Pricings <- {}, Apps <- {}, Scopes <- {}, Tabs <- {t1},
            Slots <- {s1, s2}, Plans <- FALSE, Waits <- FALSE, Loses <- TRUE

\* Someone alone who waits for the page, on bills paid in parts and on two bills, on contacts and
\* items; one who does not wait, among others, with calls that fail.
Bills == INSTANCE Registers WITH
            Page <- "bills", Rows <- {1}, Matching <- {1}, Total <- 2, PageSize <- 1, Patient <- TRUE,
            Loses <- FALSE
TwoBills == INSTANCE Registers WITH
            Page <- "bills", Rows <- {1, 2}, Matching <- {1}, Total <- 1, PageSize <- 1,
            Patient <- TRUE, Loses <- FALSE
Made == INSTANCE Registers WITH Page <- "made", Rows <- {1, 2}, Matching <- {1}, Total <- 1, PageSize <- 1,
            Patient <- TRUE, Loses <- FALSE
Contacts == INSTANCE Registers WITH
            Page <- "contacts", Rows <- {1, 2, 3}, Matching <- {1, 2}, Total <- 1, PageSize <- 1,
            Patient <- TRUE, Loses <- FALSE
Items == INSTANCE Registers WITH Page <- "items", Rows <- {1, 2}, Matching <- {1}, Total <- 1, PageSize <- 1,
            Patient <- TRUE, Loses <- FALSE
Expenses == INSTANCE Registers WITH
            Page <- "expenses", Rows <- {1, 2}, Matching <- {1}, Total <- 1, PageSize <- 1,
            Patient <- FALSE, Loses <- TRUE

\* Every catalog of three modules.
Picker == INSTANCE ModulePicker WITH Modules <- {"customers", "invoices", "payments"}

\* Payments delivered from outside: on SQLite; two transactions on PostgreSQL, with answers that
\* overlap; links sent again, by one request at a time.
\* The scenario "sqlite" is that of the constants themselves: deliveries of one transaction that overlap, one writer at a time.
RowLocks == INSTANCE ExternalPayments WITH
            References <- {"utr", "other"}, SingleWriter <- FALSE, OneByOne <- TRUE
Emails == INSTANCE ExternalPayments WITH
            Requests <- {1}, MaxTokens <- 2, SingleWriter <- FALSE, OneByOne <- TRUE

\* The variables a component does not have.
OnlyConsole ==
  /\ published = None /\ overrides = None /\ unpaid = None /\ touched = None /\ editor = None
  /\ dialog = None /\ fetch = None /\ stored = None /\ detail = None /\ requires = None
  /\ plan = None /\ pending = None /\ picked = None /\ ext = [p \in Payments |-> None]
  /\ receipts = [p \in Payments |-> 0]
  /\ invoice = [i \in Invoices |-> [status |-> "sent", paid |-> 0, desk |-> 0]] /\ links = None
  /\ request = None /\ told = [p \in Payments |-> {}]
OnlyContent ==
  /\ org = None /\ day = None /\ row = None /\ view = None /\ refetch = None /\ check = None
  /\ ask = None /\ work = None /\ stored = None /\ detail = None /\ requires = None
  /\ plan = None /\ pending = None /\ picked = None /\ ext = [p \in Payments |-> None]
  /\ receipts = [p \in Payments |-> 0]
  /\ invoice = [i \in Invoices |-> [status |-> "sent", paid |-> 0, desk |-> 0]] /\ links = None
  /\ request = None /\ told = [p \in Payments |-> {}]
OnlyRegister ==
  /\ org = None /\ day = None /\ row = None /\ refetch = None /\ tab = None /\ check = None
  /\ ask = None /\ work = None /\ published = None /\ overrides = None /\ unpaid = None
  /\ touched = None /\ editor = None /\ fetch = None /\ requires = None /\ plan = None
  /\ pending = None /\ picked = None /\ ext = [p \in Payments |-> None]
  /\ receipts = [p \in Payments |-> 0]
  /\ invoice = [i \in Invoices |-> [status |-> "sent", paid |-> 0, desk |-> 0]] /\ links = None
  /\ request = None /\ told = [p \in Payments |-> {}]
OnlyPicker ==
  /\ org = None /\ day = None /\ row = None /\ view = None /\ refetch = None /\ call = None
  /\ tab = None /\ check = None /\ ask = None /\ work = None /\ published = None
  /\ overrides = None /\ unpaid = None /\ editor = None /\ dialog = None /\ fetch = None
  /\ stored = None /\ detail = None /\ ext = [p \in Payments |-> None]
  /\ receipts = [p \in Payments |-> 0]
  /\ invoice = [i \in Invoices |-> [status |-> "sent", paid |-> 0, desk |-> 0]] /\ links = None
  /\ request = None /\ told = [p \in Payments |-> {}]
OnlyOutside ==
  /\ org = None /\ day = None /\ row = None /\ view = None /\ refetch = None /\ call = None
  /\ tab = None /\ check = None /\ ask = None /\ work = None /\ published = None
  /\ overrides = None /\ unpaid = None /\ touched = None /\ editor = None /\ dialog = None
  /\ fetch = None /\ stored = None /\ detail = None /\ requires = None /\ plan = None
  /\ pending = None /\ picked = None
RestConsole == <<published, overrides, unpaid, touched, editor, dialog, fetch, stored, detail,
                 requires, plan, pending, picked, ext, receipts, invoice, links, request, told>>
RestContent == <<org, day, row, view, refetch, check, ask, work, stored, detail, requires, plan,
                 pending, picked, ext, receipts, invoice, links, request, told>>
RestRegister == <<org, day, row, refetch, tab, check, ask, work, published, overrides, unpaid, touched,
                  editor, fetch, requires, plan, pending, picked, ext, receipts, invoice, links,
                  request, told>>
RestPicker == <<org, day, row, view, refetch, call, tab, check, ask, work, published, overrides,
                unpaid, editor, dialog, fetch, stored, detail, ext, receipts, invoice, links,
                request, told>>
RestOutside == <<org, day, row, view, refetch, call, tab, check, ask, work, published, overrides,
                 unpaid, touched, editor, dialog, fetch, stored, detail, requires, plan, pending,
                 picked>>

MCInit ==
  \/ scenario = "serial" /\ Serial!Init /\ OnlyConsole
  \/ scenario = "lone" /\ Lone!Init /\ OnlyConsole
  \/ scenario = "requests" /\ Asked!Init /\ OnlyConsole
  \/ scenario = "site" /\ Site!Init /\ OnlyContent
  \/ scenario = "prices" /\ Prices!Init /\ OnlyContent
  \/ scenario = "own" /\ Own!Init /\ OnlyContent
  \/ scenario = "paid" /\ Paid!Init /\ OnlyContent
  \/ scenario = "tabs" /\ SignedIn!Init /\ OnlyContent
  \/ scenario = "bills" /\ Bills!Init /\ OnlyRegister
  \/ scenario = "two bills" /\ TwoBills!Init /\ OnlyRegister
  \/ scenario = "made" /\ Made!Init /\ OnlyRegister
  \/ scenario = "contacts" /\ Contacts!Init /\ OnlyRegister
  \/ scenario = "items" /\ Items!Init /\ OnlyRegister
  \/ scenario = "expenses" /\ Expenses!Init /\ OnlyRegister
  \/ scenario = "picker" /\ Picker!Init /\ OnlyPicker
  \/ scenario = "sqlite" /\ Init /\ OnlyOutside
  \/ scenario = "postgres" /\ RowLocks!Init /\ OnlyOutside
  \/ scenario = "emails" /\ Emails!Init /\ OnlyOutside

MCNext ==
  /\ UNCHANGED scenario
  /\ \/ scenario = "serial" /\ Serial!Next /\ UNCHANGED RestConsole
     \/ scenario = "lone" /\ Lone!Next /\ UNCHANGED RestConsole
     \/ scenario = "requests" /\ Asked!Next /\ UNCHANGED RestConsole
     \/ scenario = "site" /\ Site!Next /\ UNCHANGED RestContent
     \/ scenario = "prices" /\ Prices!Next /\ UNCHANGED RestContent
     \/ scenario = "own" /\ Own!Next /\ UNCHANGED RestContent
     \/ scenario = "paid" /\ Paid!Next /\ UNCHANGED RestContent
     \/ scenario = "tabs" /\ SignedIn!Next /\ UNCHANGED RestContent
     \/ scenario = "bills" /\ Bills!Next /\ UNCHANGED RestRegister
     \/ scenario = "two bills" /\ TwoBills!Next /\ UNCHANGED RestRegister
     \/ scenario = "made" /\ Made!Next /\ UNCHANGED RestRegister
     \/ scenario = "contacts" /\ Contacts!Next /\ UNCHANGED RestRegister
     \/ scenario = "items" /\ Items!Next /\ UNCHANGED RestRegister
     \/ scenario = "expenses" /\ Expenses!Next /\ UNCHANGED RestRegister
     \/ scenario = "picker" /\ Picker!Next /\ UNCHANGED RestPicker
     \/ scenario = "sqlite" /\ Next /\ UNCHANGED RestOutside
     \/ scenario = "postgres" /\ RowLocks!Next /\ UNCHANGED RestOutside
     \/ scenario = "emails" /\ Emails!Next /\ UNCHANGED RestOutside

MCSpec == MCInit /\ [][MCNext]_all

Symmetry == Permutations({a1, a2})

-----------------------------------------------------------------------------
\* What keeps organizations, content and payments from outside right holds in every scenario of theirs:
\* types, that what is decided is there, what calls and forms carry (OrgConsole, Content,
\* ExternalPayments); what a list page shows and its dialogs are about (Registers); and the types of
\* the builder (ModulePicker).
StatesOK ==
  /\ scenario = "serial" => Serial!ConstantsOK /\ Serial!OrgInv /\ Serial!SerialInv
  /\ scenario = "lone" => Lone!ConstantsOK /\ Lone!OrgInv /\ Lone!SerialInv /\ Lone!LoneInv
  /\ scenario = "requests" => Asked!ConstantsOK /\ Asked!OrgInv /\ Asked!SerialInv
  /\ scenario = "site" => Site!ConstantsOK /\ Site!ContentInv
  /\ scenario = "prices" => Prices!ConstantsOK /\ Prices!ContentInv
  /\ scenario = "own" => Own!ConstantsOK /\ Own!ContentInv /\ Own!OneInv
  /\ scenario = "paid" => Paid!ConstantsOK /\ Paid!ContentInv /\ Paid!UnpaidIsOff
  /\ scenario = "tabs" => SignedIn!ConstantsOK /\ SignedIn!ContentInv
  /\ scenario = "bills" => Bills!ConstantsOK /\ Bills!RegisterInv /\ Bills!AloneInv
  /\ scenario = "two bills" => TwoBills!ConstantsOK /\ TwoBills!RegisterInv /\ TwoBills!AloneInv
  /\ scenario = "made" => Made!ConstantsOK /\ Made!RegisterInv /\ Made!AloneInv
  /\ scenario = "contacts" => Contacts!ConstantsOK /\ Contacts!RegisterInv /\ Contacts!AloneInv
  /\ scenario = "items" => Items!ConstantsOK /\ Items!RegisterInv /\ Items!AloneInv
  /\ scenario = "expenses" => Expenses!ConstantsOK /\ Expenses!RegisterInv
  /\ scenario = "picker" => Picker!ConstantsOK /\ Picker!TypeOK
  /\ scenario = "sqlite" => BookingInv
  /\ scenario = "postgres" => RowLocks!BookingInv
  /\ scenario = "emails" => Emails!BookingInv

\* An archived organization is locked out, and its plan, its status and its modules agree, whatever
\* administrators decide from stale copies (OrgConsole).
OrganizationHolds ==
  /\ scenario = "serial" => Serial!OrganizationHolds
  /\ scenario = "lone" => Lone!OrganizationHolds
  /\ scenario = "requests" => Asked!OrganizationHolds

\* An organization keeps of its own what was set for it and what it did not pay for stays off; a tab
\* shows no other organization's content (Content).
ContentIsOwn ==
  /\ scenario = "site" => Site!ContentIsOwn
  /\ scenario = "prices" => Prices!ContentIsOwn
  /\ scenario = "own" => Own!ContentIsOwn
  /\ scenario = "paid" => Paid!ContentIsOwn
  /\ scenario = "tabs" => SignedIn!ContentIsOwn

\* To one person who waits for answers, the console's list, the editors and the lists of documents show
\* what is stored once nothing is under way (OrgConsole, Content, Registers).
PagesConverge ==
  /\ scenario = "lone" => Lone!ListConverges
  /\ scenario = "own" => Own!EditorTellsTheTruth
  /\ scenario = "bills" => Bills!PagesConverge
  /\ scenario = "two bills" => TwoBills!PagesConverge
  /\ scenario = "made" => Made!PagesConverge
  /\ scenario = "contacts" => Contacts!PagesConverge
  /\ scenario = "items" => Items!PagesConverge

\* What the list of bills offers is accepted; a bulk deletion deletes what its dialog said, and what it
\* could not delete stays ticked (Registers).
RegisterActsAsShown ==
  /\ scenario = "bills" => Bills!RegisterActsAsShown
  /\ scenario = "two bills" => TwoBills!RegisterActsAsShown
  /\ scenario = "made" => Made!RegisterActsAsShown
  /\ scenario = "contacts" => Contacts!RegisterActsAsShown
  /\ scenario = "items" => Items!RegisterActsAsShown
  /\ scenario = "expenses" => Expenses!RegisterActsAsShown

\* What is picked needs nothing that is not, and ticks change no more than they must (ModulePicker).
PickIsExact == scenario = "picker" => Picker!PickIsExact
=============================================================================
