------------------------------- MODULE MCDesk -------------------------------
(***************************************************************************)
(* Instances of SalesDesk, TimeBilling, Gateway and Pricing: what an       *)
(* organization's users do, and payments that reach it by the gateway.     *)
(***************************************************************************)
EXTENDS Gateway

CONSTANTS a1, e1, e2, i1, i2, p1

VARIABLES
  scenario,
  stored, pays, page, filter, number, picked, dialog, bulk, totals, walk, project, entry,
  call, lines, discount

all == <<scenario, stored, pays, page, filter, number, rows, picked, dialog, bulk, totals, walk,
           project, entry, invoice, call, gate, hooks, seen, record, books, rule, checkout,
           sync, refunding, view, human, lines, discount>>

\* One person who waits for what he asked for, with two invoices and with two payments; one among
\* others, who does not.
Solo == INSTANCE SalesDesk WITH
            N <- 2, P <- 1, Total <- 1, PageSize <- 1, MaxTotalsPages <- 2, Pages <- {"list", "view"},
            Clicks <- {"delete", "pay", "unpay", "create"}, Others <- {}, LeavesBusy <- FALSE
Received == INSTANCE SalesDesk WITH N <- 1, P <- 2, Total <- 1, PageSize <- 1, MaxTotalsPages <- 2,
            Pages <- {"list", "view", "received"}, Clicks <- {"delete", "pay", "unpay", "create"},
            Others <- {}, LeavesBusy <- FALSE
Crowd == INSTANCE SalesDesk WITH N <- 1, P <- 1, Total <- 1, PageSize <- 1, MaxTotalsPages <- 1,
            Pages <- {"list", "view", "received"},
            Clicks <- {"send", "void", "delete", "pay", "unpay", "create", "update"},
            Others <- {"void", "delete", "pay"}, LeavesBusy <- TRUE

\* A user among others; a user alone.
TimeOthers == INSTANCE TimeBilling WITH
            Projects <- {p1}, Entries <- {e1}, Invoices <- {i1}, MaxHours <- 2, Users <- {a1},
            Alone <- FALSE
TimeLone == INSTANCE TimeBilling WITH
            Projects <- {p1}, Entries <- {e1, e2}, Invoices <- {i1, i2}, MaxHours <- 1, Users <- {a1},
            Alone <- TRUE

\* A checkout among webhooks, syncs and staff; payments and refunds of the gateway's own; rules; one
\* person at the pages of payments, and at those of refunds.
Checkout == INSTANCE Gateway WITH
            Page <- "closed", Payments <- {1}, Invoices <- {1}, Refunds <- {1}, Amount <- 2,
            Total <- 2, Categories <- {"income"}, Others <- {"checkout", "hooks", "sync", "staff"}
\* The scenario "links" is that of the constants themselves: events and refunds at the gateway, and syncs.
Rules == INSTANCE Gateway WITH Page <- "closed", Payments <- {1}, Invoices <- {1}, Refunds <- {1}, Amount <- 2,
            Total <- 2, Categories <- {"income", "fee"}, Others <- {"links", "sync", "staff", "rules"}
Review == INSTANCE Gateway WITH
            Page <- "payments", Payments <- {1}, Invoices <- {1, 2}, Refunds <- {}, Amount <- 2,
            Total <- 2, Categories <- {"income"}, Others <- {}
Hub == INSTANCE Gateway WITH Page <- "hub", Payments <- {1, 2}, Invoices <- {}, Refunds <- {1, 2}, Amount <- 2,
            Total <- 2, Categories <- {"income"}, Others <- {}

\* Five lines of one rate; four lines of two.
ManyLines == INSTANCE Pricing WITH MaxLines <- 5, Amounts <- {1, 3}, Rates <- {2800}
TwoRates == INSTANCE Pricing WITH MaxLines <- 4, Amounts <- {0, 1, 3}, Rates <- {0, 2800}

\* The variables a component does not have.
OnlyDesk ==
  /\ project = None /\ entry = None /\ invoice = None /\ call = None /\ gate = None
  /\ hooks = None /\ seen = None /\ record = [p \in Payments |-> None]
  /\ books = [p \in Payments |-> 0] /\ rule = None /\ checkout = None /\ sync = NoSync
  /\ refunding = None /\ view = None
  /\ human = [p \in Payments |-> [category |-> None, recon |-> FALSE]] /\ lines = None
  /\ discount = None
OnlyTime ==
  /\ stored = None /\ pays = None /\ filter = None /\ number = None /\ rows = None
  /\ picked = None /\ dialog = None /\ bulk = None /\ totals = None /\ walk = None
  /\ gate = None /\ hooks = None /\ seen = None /\ record = [p \in Payments |-> None]
  /\ books = [p \in Payments |-> 0] /\ rule = None /\ checkout = None /\ sync = NoSync
  /\ refunding = None /\ view = None
  /\ human = [p \in Payments |-> [category |-> None, recon |-> FALSE]] /\ lines = None
  /\ discount = None
OnlyOnline ==
  /\ stored = None /\ pays = None /\ page = None /\ filter = None /\ number = None
  /\ picked = None /\ dialog = None /\ bulk = None /\ totals = None /\ walk = None
  /\ project = None /\ entry = None /\ call = None /\ lines = None /\ discount = None
OnlyForm ==
  /\ stored = None /\ pays = None /\ page = None /\ filter = None /\ number = None
  /\ rows = None /\ picked = None /\ dialog = None /\ bulk = None /\ totals = None
  /\ walk = None /\ project = None /\ entry = None /\ invoice = None /\ call = None
  /\ gate = None /\ hooks = None /\ seen = None /\ record = [p \in Payments |-> None]
  /\ books = [p \in Payments |-> 0] /\ rule = None /\ checkout = None /\ sync = NoSync
  /\ refunding = None /\ view = None
  /\ human = [p \in Payments |-> [category |-> None, recon |-> FALSE]]
RestDesk == <<project, entry, invoice, call, gate, hooks, seen, record, books, rule, checkout,
              sync, refunding, view, human, lines, discount>>
RestTime == <<stored, pays, filter, number, rows, picked, dialog, bulk, totals, walk, gate, hooks,
              seen, record, books, rule, checkout, sync, refunding, view, human, lines, discount>>
RestOnline == <<stored, pays, page, filter, number, picked, dialog, bulk, totals, walk, project,
                entry, call, lines, discount>>
RestForm == <<stored, pays, page, filter, number, rows, picked, dialog, bulk, totals, walk,
              project, entry, invoice, call, gate, hooks, seen, record, books, rule, checkout,
              sync, refunding, view, human>>

MCInit ==
  \/ scenario = "lone" /\ Solo!Init /\ OnlyDesk
  \/ scenario = "received" /\ Received!Init /\ OnlyDesk
  \/ scenario = "others" /\ Crowd!Init /\ OnlyDesk
  \/ scenario = "time others" /\ TimeOthers!Init /\ OnlyTime
  \/ scenario = "time lone" /\ TimeLone!Init /\ OnlyTime
  \/ scenario = "checkout" /\ Checkout!Init /\ OnlyOnline
  \/ scenario = "links" /\ Init /\ OnlyOnline
  \/ scenario = "rules" /\ Rules!Init /\ OnlyOnline
  \/ scenario = "review" /\ Review!Init /\ OnlyOnline
  \/ scenario = "hub" /\ Hub!Init /\ OnlyOnline
  \/ scenario = "many lines" /\ ManyLines!Init /\ OnlyForm
  \/ scenario = "two rates" /\ TwoRates!Init /\ OnlyForm

MCNext ==
  /\ UNCHANGED scenario
  /\ \/ scenario = "lone" /\ Solo!Next /\ UNCHANGED RestDesk
     \/ scenario = "received" /\ Received!Next /\ UNCHANGED RestDesk
     \/ scenario = "others" /\ Crowd!Next /\ UNCHANGED RestDesk
     \/ scenario = "time others" /\ TimeOthers!Next /\ UNCHANGED RestTime
     \/ scenario = "time lone" /\ TimeLone!Next /\ UNCHANGED RestTime
     \/ scenario = "checkout" /\ Checkout!Next /\ UNCHANGED RestOnline
     \/ scenario = "links" /\ Next /\ UNCHANGED RestOnline
     \/ scenario = "rules" /\ Rules!Next /\ UNCHANGED RestOnline
     \/ scenario = "review" /\ Review!Next /\ UNCHANGED RestOnline
     \/ scenario = "hub" /\ Hub!Next /\ UNCHANGED RestOnline
     \/ scenario = "many lines" /\ ManyLines!Next /\ UNCHANGED RestForm
     \/ scenario = "two rates" /\ TwoRates!Next /\ UNCHANGED RestForm

MCSpec == MCInit /\ [][MCNext]_all

-----------------------------------------------------------------------------
\* Documents, requests and what the pages hold keep their types (TypeOK of each module), and what keeps
\* billed hours, gateway payments and syncs right holds in every scenario of theirs (TimeBilling,
\* Gateway).
StatesOK ==
  /\ scenario = "others" => Crowd!ConstantsOK /\ Crowd!DeskInv
  /\ scenario = "lone" => Solo!ConstantsOK /\ Solo!DeskInv /\ Solo!AloneInv
  /\ scenario = "received" => Received!ConstantsOK /\ Received!DeskInv /\ Received!AloneInv
  /\ scenario = "many lines" => ManyLines!ConstantsOK /\ ManyLines!TypeOK
  /\ scenario = "two rates" => TwoRates!ConstantsOK /\ TwoRates!TypeOK
  /\ scenario = "time others" => TimeOthers!ConstantsOK /\ TimeOthers!TimeInv
  /\ scenario = "time lone" => TimeLone!ConstantsOK /\ TimeLone!TimeInv /\ TimeLone!AloneInv
  /\ scenario = "checkout" => Checkout!SyncInv
  /\ scenario = "links" => SyncInv
  /\ scenario = "rules" => Rules!SyncInv
  /\ scenario = "review" => Review!SyncInv /\ Review!LoneInv
  /\ scenario = "hub" => Hub!SyncInv /\ Hub!LoneInv

\* To one person who waits for answers, the sales pages with their totals, the time tracking page and
\* the gateway's pages show what is stored once nothing is under way (SalesDesk, TimeBilling, Gateway).
PagesConverge ==
  /\ scenario = "lone" => Solo!PagesConverge
  /\ scenario = "received" => Received!PagesConverge
  /\ scenario = "time lone" => TimeLone!PagesConverge
  /\ scenario = "review" => Review!GatewayConverges
  /\ scenario = "hub" => Hub!GatewayConverges

\* An hour is billed by one invoice, and as the form showed it (TimeBilling).
HoursBilledOnce ==
  /\ scenario = "time others" => TimeOthers!HoursBilledOnce
  /\ scenario = "time lone" => TimeLone!HoursBilledOnce

\* The shares of a discount come to it, and tax is charged on the discounted amount (Pricing).
DiscountIsShared ==
  /\ scenario = "many lines" => ManyLines!DiscountIsShared
  /\ scenario = "two rates" => TwoRates!DiscountIsShared

=============================================================================
