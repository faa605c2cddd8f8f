----------------------------- MODULE OrgConsole -----------------------------
(***************************************************************************)
(* One organization in the platform console: its approval, suspension,     *)
(* archive and plan, decided by administrators from lists and drawers that *)
(* show a copy of it, and the lock its own users' tab puts up when a       *)
(* request is refused for want of a plan.                                  *)
(***************************************************************************)
EXTENDS Naturals, FiniteSets

CONSTANTS
  Admins,            \* platform administrators, one console each
  Tenants,           \* tabs of the organization's administrator
  Plans,             \* module selections with a billing cycle
  Decisions,         \* the decisions this instance takes
  Workers,           \* requests the server handles at the same time
  Slots,             \* answers a tab may be waiting for beside its decision
  MaxDay,            \* days that pass
  AllModules, None

VARIABLES
  org,               \* the organization's row, with its row of modules
  day,
  row,               \* the console list's copy, with its reload under way
  view,              \* the drawer's copy
  refetch,           \* drawer copies read again after a plan decision
  call,              \* a dialog of the console, then its request
  tab,               \* what the organization's tab knows, and its forced lock
  check,             \* subscription reads the tab waits for
  ask,               \* its plan request
  work               \* any other request of it

vars == <<org, day, row, view, refetch, call, tab, check, ask, work>>
console == <<row, view, refetch, call>>
tenant == <<tab, check, ask, work>>

-----------------------------------------------------------------------------
(* The organization                                                        *)

Approvals == {"approve", "reject"}
PlanDecisions == {"accept", "decline", "extend"}
Lifecycle == {"suspend", "unsuspend", "archive", "restore", "delete"}
AllDecisions == Approvals \cup PlanDecisions \cup Lifecycle \cup {"cancelPlan"}

Days == 0..MaxDay + 1
Rows == [approval : {"pending", "approved", "rejected"}, suspended : BOOLEAN, archived : BOOLEAN,
         status : {"trial", "active"}, ends : Days \cup {None}, plan : Plans \cup {None},
         wanted : Plans \cup {None}, modules : Plans \cup {AllModules}]
Copies == Rows \cup {None}
Quiet == [at |-> "idle", op |-> None, plan |-> None, seen |-> None]
Unsent == [at |-> "idle", op |-> None, plan |-> None, seen |-> None, locked |-> FALSE]
Idle == [at |-> "idle", seen |-> None]
NoCheck == [at |-> "idle", seen |-> None, locked |-> FALSE, clears |-> FALSE, fresh |-> FALSE]

ListRow == [shown : Copies, at : {"idle", "sent", "read"}, seen : Copies]
Refetch == [at : {"idle", "sent", "read"}, seen : Copies]
Call == [at : {"idle", "open", "sent", "read", "done"}, op : AllDecisions \cup {None}, plan : Plans \cup {None}, seen : Copies]
Tab == [known : Copies, locked : BOOLEAN, forced : BOOLEAN]
Check == [at : {"idle", "sent", "read"}, seen : Copies, locked : BOOLEAN, clears : BOOLEAN, fresh : BOOLEAN]
Ask == [at : {"idle", "sent", "read", "done"}, op : {"request", "withdraw", None}, plan : Plans \cup {None},
        seen : Copies, locked : BOOLEAN]

TypeOK ==
  /\ org \in Copies /\ day \in 0..MaxDay
  /\ row \in [Admins -> ListRow] /\ view \in [Admins -> Copies]
  /\ refetch \in [Admins \X Slots -> Refetch] /\ call \in [Admins -> Call]
  /\ tab \in [Tenants -> Tab] /\ check \in [Tenants \X Slots -> Check]
  /\ ask \in [Tenants -> Ask] /\ work \in [Tenants -> {"idle", "sent", "refused"}]

SignedUp == [approval |-> "pending", suspended |-> FALSE, archived |-> FALSE, status |-> "trial", ends |-> None,
             plan |-> None, wanted |-> None, modules |-> AllModules]
CreatedHere == [SignedUp EXCEPT !.approval = "approved", !.ends = 1]

Expired(o) == o.status = "trial" /\ o.ends # None /\ o.ends <= day
MaySignIn(o) == o # None /\ ~o.suspended /\ o.approval = "approved"

StartTrial(o) == IF o.status = "active" \/ o.ends # None THEN o ELSE [o EXCEPT !.ends = day + 1]
ExtendTrial(o) ==
  LET from == IF o.ends # None /\ o.ends > day THEN o.ends ELSE day
  IN [o EXCEPT !.ends = IF from > MaxDay THEN from ELSE from + 1]
(* Faulty variant: the modules stay switched off when the plan ends. *)
CancelPlanOnly(o) ==
  [o EXCEPT !.status = "trial", !.ends = IF @ = None \/ @ > day THEN day ELSE @, !.plan = None]
CancelPlan(o) ==
  [o EXCEPT !.status = "trial", !.ends = IF @ = None \/ @ > day THEN day ELSE @, !.plan = None, !.modules = AllModules]
CancelRequest(o) == [o EXCEPT !.wanted = None]
(* Faulty variant: what is switched on is the request as it stands by then. *)
ApplyPending(o, p) == [o EXCEPT !.plan = o.wanted, !.modules = o.wanted, !.status = "active"]
ApplyPlan(o, p) == [o EXCEPT !.plan = p, !.modules = p, !.status = "active"]

Decide(o, op, p) ==
  CASE op = "approve" -> StartTrial([o EXCEPT !.approval = "approved"])
    [] op = "reject" -> [o EXCEPT !.approval = "rejected"]
    [] op = "suspend" -> [o EXCEPT !.suspended = TRUE]
    [] op = "unsuspend" -> [o EXCEPT !.suspended = FALSE]
    [] op = "archive" -> [o EXCEPT !.archived = TRUE, !.suspended = TRUE]
    [] op = "restore" -> [o EXCEPT !.archived = FALSE, !.suspended = FALSE]
    [] op = "accept" -> CancelRequest(ApplyPlan(o, p))
    [] op \in {"decline", "withdraw"} -> CancelRequest(o)
    [] op = "extend" -> ExtendTrial(o)
    [] op = "cancelPlan" -> CancelPlan(o)
    [] op = "request" -> [o EXCEPT !.wanted = p]


Refused(o, op) ==
  \/ o = None
  \/ op = "unsuspend" /\ o.archived
  \/ op \in {"decline", "withdraw"} /\ o.wanted = None
  \/ op = "extend" /\ o.approval # "approved"
  \/ op = "cancelPlan" /\ o.status # "active"
  \/ op \in {"request", "withdraw"} /\ ~MaySignIn(o)

\* Only the columns a handler changed are written, over whatever the row holds by then.
Flush(seen, new, now) == [c \in DOMAIN now |-> IF new[c] # seen[c] THEN new[c] ELSE now[c]]

Handled == {a \in Admins : call[a].at = "read"} \cup {t \in Tenants : ask[t].at = "read"}
Free(w) == Cardinality(Handled) < Workers

Init ==
  /\ org \in {SignedUp, CreatedHere} /\ day = 0
  /\ row = [a \in Admins |-> [shown |-> org, at |-> "idle", seen |-> None]]
  /\ view = [a \in Admins |-> None]
  /\ refetch = [s \in Admins \X Slots |-> Idle]
  /\ call = [a \in Admins |-> Quiet]
  /\ tab = [t \in Tenants |-> [known |-> None, locked |-> FALSE, forced |-> FALSE]]
  /\ check = [s \in Tenants \X Slots |-> NoCheck]
  /\ ask = [t \in Tenants |-> Unsent]
  /\ work = [t \in Tenants |-> "idle"]

-----------------------------------------------------------------------------
(* The console                                                             *)

Manageable(o) == o.approval = "approved" /\ ~o.archived

OfferedInDrawer(o) ==
  (IF o.approval # "approved" THEN {"approve"} ELSE {})
  \cup (IF o.approval = "pending" THEN {"reject"} ELSE {})
  \cup (IF ~Manageable(o) THEN {} ELSE {"accept", "extend"} \cup (IF o.wanted = None THEN {} ELSE {"decline"}))
  \cup {"delete"} \cup (IF o.archived THEN {"restore"} ELSE {"archive", IF o.suspended THEN "unsuspend" ELSE "suspend"})
  \cup {"cancelPlan"}

OfferedInList(o) ==
  OfferedInDrawer(o) \cap (Approvals \cup {"archive", "restore", "delete"}
                           \cup (IF o.wanted # None THEN {"accept", "decline"} ELSE {}))

Offered(a) ==
  IF view[a] # None THEN OfferedInDrawer(view[a])
  ELSE IF row[a].shown # None THEN OfferedInList(row[a].shown) ELSE {}

OpenDrawer(a) ==
  /\ view[a] = None /\ row[a].shown # None /\ org # None /\ call[a].at = "idle"
  /\ view' = [view EXCEPT ![a] = org]
  /\ UNCHANGED <<org, day, row, refetch, call>> /\ UNCHANGED tenant

CloseDrawer(a) ==
  /\ view[a] # None
  /\ view' = [view EXCEPT ![a] = None]
  /\ refetch' = [s \in Admins \X Slots |-> IF s[1] = a THEN Idle ELSE refetch[s]]
  /\ call' = IF call[a].at = "open" THEN [call EXCEPT ![a] = Quiet] ELSE call
  /\ UNCHANGED <<org, day, row>> /\ UNCHANGED tenant

\* Unsuspending and ending a plan ask for no confirmation.
OpenDialog(a, op, p) ==
  /\ call[a].at = "idle" /\ op \in Offered(a) \cap Decisions
  /\ (p # None) = (op = "accept")
  /\ call' = [call EXCEPT ![a] = [at |-> IF op \in {"unsuspend", "cancelPlan"} THEN "sent" ELSE "open",
                                  op |-> op, plan |-> p, seen |-> None]]
  /\ UNCHANGED <<org, day, row, view, refetch>> /\ UNCHANGED tenant

CancelDialog(a) ==
  /\ call[a].at = "open"
  /\ call' = [call EXCEPT ![a] = Quiet]
  /\ UNCHANGED <<org, day, row, view, refetch>> /\ UNCHANGED tenant

Confirm(a) ==
  /\ call[a].at = "open"
  /\ call' = [call EXCEPT ![a].at = "sent"]
  /\ UNCHANGED <<org, day, row, view, refetch>> /\ UNCHANGED tenant

ServerReads(a) ==
  /\ call[a].at = "sent" /\ Free(a)
  /\ call' = [call EXCEPT ![a].at = IF Refused(org, call[a].op) THEN "done" ELSE "read",
                          ![a].seen = IF Refused(org, call[a].op) THEN None ELSE org]
  /\ UNCHANGED <<org, day, row, view, refetch>> /\ UNCHANGED tenant

\* The answer is the row read back; an organization deleted meanwhile makes it an error.
ServerWrites(a) ==
  /\ call[a].at = "read"
  /\ LET c == call[a] IN
     org' = IF org = None \/ c.op = "delete" THEN None ELSE Flush(c.seen, Decide(c.seen, c.op, c.plan), org)
  /\ call' = [call EXCEPT ![a].at = "done", ![a].seen = IF call[a].op = "delete" THEN @ ELSE org']
  /\ UNCHANGED <<day, row, view, refetch>> /\ UNCHANGED tenant

Reload(a) == row' = [row EXCEPT ![a].at = "sent", ![a].seen = None]

\* A refused decision leaves its dialog open with the error.
DecisionFails(a) ==
  /\ call[a].at = "done" /\ call[a].seen = None
  /\ call' = [call EXCEPT ![a] = IF @.op \in {"unsuspend", "cancelPlan"} \/ (view[a] = None /\ row[a].shown = None)
                                 THEN Quiet ELSE [@ EXCEPT !.at = "open"]]
  /\ UNCHANGED <<org, day, row, view, refetch>> /\ UNCHANGED tenant

\* Every decision but a plan's answers with the organization the drawer shows next.
DecisionShown(a) ==
  /\ call[a].at = "done" /\ call[a].seen # None /\ call[a].op \notin PlanDecisions
  /\ view' = [view EXCEPT ![a] = IF @ = None \/ call[a].op = "delete" THEN None ELSE call[a].seen]
  /\ refetch' = IF call[a].op = "delete"
                THEN [s \in Admins \X Slots |-> IF s[1] = a THEN Idle ELSE refetch[s]] ELSE refetch
  /\ call' = [call EXCEPT ![a] = Quiet] /\ Reload(a)
  /\ UNCHANGED <<org, day>> /\ UNCHANGED tenant

\* A plan decision has the drawer read again, with nothing to abort the read.
PlanDecisionShown(a, s) ==
  /\ call[a].at = "done" /\ call[a].seen # None /\ call[a].op \in PlanDecisions
  /\ refetch[<<a, s>>].at = "idle"
  /\ refetch' = IF view[a] = None THEN refetch ELSE [refetch EXCEPT ![<<a, s>>].at = "sent"]
  /\ call' = [call EXCEPT ![a] = Quiet] /\ Reload(a)
  /\ UNCHANGED <<org, day, view>> /\ UNCHANGED tenant

RefetchRead(a, s) ==
  /\ refetch[<<a, s>>].at = "sent"
  /\ refetch' = [refetch EXCEPT ![<<a, s>>] = [at |-> "read", seen |-> org]]
  /\ UNCHANGED <<org, day, row, view, call>> /\ UNCHANGED tenant

RefetchDone(a, s) ==
  /\ refetch[<<a, s>>].at = "read"
  /\ view' = [view EXCEPT ![a] = IF refetch[<<a, s>>].seen = None THEN @ ELSE refetch[<<a, s>>].seen]
  /\ refetch' = [refetch EXCEPT ![<<a, s>>] = Idle]
  /\ UNCHANGED <<org, day, row, call>> /\ UNCHANGED tenant

ListRead(a) ==
  /\ row[a].at = "sent"
  /\ row' = [row EXCEPT ![a].at = "read", ![a].seen = org]
  /\ UNCHANGED <<org, day, view, refetch, call>> /\ UNCHANGED tenant

ListDone(a) ==
  /\ row[a].at = "read"
  /\ row' = [row EXCEPT ![a] = [shown |-> @.seen, at |-> "idle", seen |-> None]]
  /\ UNCHANGED <<org, day, view, refetch, call>> /\ UNCHANGED tenant

-----------------------------------------------------------------------------
(* The organization's tab                                                  *)

Locked(t) == tab[t].forced \/ tab[t].locked
LiftsLock(o, locked) == ~locked /\ (o.status = "active" \/ (o.ends # None /\ o.ends > day))

StartCheck(t, s, clears) ==
  /\ check[<<t, s>>].at = "idle"
  /\ check' = [check EXCEPT ![<<t, s>>] = [at |-> "sent", seen |-> None, locked |-> FALSE, clears |-> clears, fresh |-> TRUE]]

Load(t, s) ==
  /\ tab[t].known = None /\ StartCheck(t, s, TRUE)
  /\ UNCHANGED <<org, day, tab, ask, work>> /\ UNCHANGED console

(* Faulty variant: polling refreshes what is shown and never clears the lock. *)
PollShows(t, s) ==
  /\ Locked(t) /\ StartCheck(t, s, FALSE)
  /\ UNCHANGED <<org, day, tab, ask, work>> /\ UNCHANGED console
Poll(t, s) ==
  /\ Locked(t) /\ StartCheck(t, s, TRUE)
  /\ UNCHANGED <<org, day, tab, ask, work>> /\ UNCHANGED console

CheckRead(t, s) ==
  /\ check[<<t, s>>].at = "sent"
  /\ check' = IF MaySignIn(org)
              THEN [check EXCEPT ![<<t, s>>].at = "read", ![<<t, s>>].seen = org, ![<<t, s>>].locked = Expired(org)]
              ELSE [check EXCEPT ![<<t, s>>] = NoCheck]
  /\ UNCHANGED <<org, day, tab, ask, work>> /\ UNCHANGED console

CheckDone(t, s) ==
  /\ check[<<t, s>>].at = "read"
  /\ LET c == check[<<t, s>>] IN
     tab' = [tab EXCEPT ![t] = [known |-> c.seen, locked |-> c.locked,
       forced |-> @.forced /\ ~(c.clears /\ c.fresh /\ LiftsLock(c.seen, c.locked))]]
  /\ check' = [check EXCEPT ![<<t, s>>] = NoCheck]
  /\ UNCHANGED <<org, day, ask, work>> /\ UNCHANGED console

Work(t) ==
  /\ work[t] = "idle" /\ tab[t].known # None /\ ~Locked(t)
  /\ work' = [work EXCEPT ![t] = "sent"]
  /\ UNCHANGED <<org, day, tab, check, ask>> /\ UNCHANGED console

WorkAnswered(t) ==
  /\ work[t] = "sent"
  /\ work' = [work EXCEPT ![t] = IF MaySignIn(org) /\ Expired(org) THEN "refused" ELSE "idle"]
  /\ UNCHANGED <<org, day, tab, check, ask>> /\ UNCHANGED console

\* A 402 locks the tab, and no check already in flight may unlock it.
SubscriptionRequired(t, s) ==
  /\ work[t] = "refused" /\ check[<<t, s>>].at = "idle"
  /\ work' = [work EXCEPT ![t] = "idle"]
  /\ tab' = [tab EXCEPT ![t].forced = TRUE, ![t].locked = tab[t].known # None]
  /\ check' = [r \in Tenants \X Slots |->
       IF r = <<t, s>> THEN [NoCheck EXCEPT !.at = "sent", !.fresh = TRUE]
       ELSE IF r[1] = t THEN [check[r] EXCEPT !.fresh = FALSE] ELSE check[r]]
  /\ UNCHANGED <<org, day, ask>> /\ UNCHANGED console

SendRequest(t, p) ==
  /\ ask[t].at = "idle" /\ tab[t].known # None
  /\ tab[t].known.wanted # p /\ (tab[t].known.plan = p => tab[t].known.wanted # None)
  /\ ask' = [ask EXCEPT ![t] = [Unsent EXCEPT !.at = "sent", !.op = "request", !.plan = p]]
  /\ UNCHANGED <<org, day, tab, check, work>> /\ UNCHANGED console

WithdrawRequest(t) ==
  /\ ask[t].at = "idle" /\ tab[t].known # None /\ tab[t].known.wanted # None
  /\ ask' = [ask EXCEPT ![t] = [Unsent EXCEPT !.at = "sent", !.op = "withdraw"]]
  /\ UNCHANGED <<org, day, tab, check, work>> /\ UNCHANGED console

AskRead(t) ==
  /\ ask[t].at = "sent" /\ Free(t)
  /\ ask' = IF Refused(org, ask[t].op) THEN [ask EXCEPT ![t] = Unsent]
            ELSE [ask EXCEPT ![t].at = "read", ![t].seen = org]
  /\ UNCHANGED <<org, day, tab, check, work>> /\ UNCHANGED console

AskWrite(t) ==
  /\ ask[t].at = "read"
  /\ org' = IF org = None THEN None ELSE Flush(ask[t].seen, Decide(ask[t].seen, ask[t].op, ask[t].plan), org)
  /\ ask' = IF org = None THEN [ask EXCEPT ![t] = Unsent]
            ELSE [ask EXCEPT ![t].at = "done", ![t].seen = org', ![t].locked = Expired(org')]
  /\ UNCHANGED <<day, tab, check, work>> /\ UNCHANGED console

AskDone(t) ==
  /\ ask[t].at = "done"
  /\ tab' = [tab EXCEPT ![t] = [known |-> ask[t].seen, locked |-> ask[t].locked,
       forced |-> @.forced /\ ~LiftsLock(ask[t].seen, ask[t].locked)]]
  /\ ask' = [ask EXCEPT ![t] = Unsent]
  /\ UNCHANGED <<org, day, check, work>> /\ UNCHANGED console

-----------------------------------------------------------------------------
DayPasses == day < MaxDay /\ day' = day + 1 /\ UNCHANGED org /\ UNCHANGED console /\ UNCHANGED tenant

People ==
  \/ \E a \in Admins : OpenDrawer(a) \/ CloseDrawer(a) \/ CancelDialog(a) \/ Confirm(a)
  \/ \E a \in Admins, op \in Decisions, p \in Plans \cup {None} : OpenDialog(a, op, p)
  \/ \E t \in Tenants : Work(t) \/ WithdrawRequest(t)
  \/ \E t \in Tenants, p \in Plans : SendRequest(t, p)
  \/ DayPasses

Console ==
  \/ \E a \in Admins : ServerReads(a) \/ ServerWrites(a) \/ DecisionFails(a) \/ DecisionShown(a) \/ ListRead(a) \/ ListDone(a)
  \/ \E a \in Admins, s \in Slots : PlanDecisionShown(a, s) \/ RefetchRead(a, s) \/ RefetchDone(a, s)

TabMoves(t) ==
  \/ WorkAnswered(t) \/ AskRead(t) \/ AskWrite(t) \/ AskDone(t)
  \/ \E s \in Slots : SubscriptionRequired(t, s)

Next ==
  \/ People \/ Console
  \/ \E t \in Tenants : TabMoves(t)
  \/ \E t \in Tenants, s \in Slots : Load(t, s) \/ Poll(t, s) \/ CheckRead(t, s) \/ CheckDone(t, s)

Spec == Init /\ [][Next]_vars

\* The server answers, answers are handled, and a locked tab polls; people need do nothing.
Fairness ==
  /\ WF_vars(Console)
  /\ \A t \in Tenants : WF_vars(TabMoves(t))
  /\ \A t \in Tenants, s \in Slots :
       WF_vars(Load(t, s) \/ Poll(t, s)) /\ WF_vars(CheckRead(t, s)) /\ WF_vars(CheckDone(t, s))

FairSpec == Spec /\ Fairness

-----------------------------------------------------------------------------
(* Properties                                                              *)

\* An archived organization is suspended, which is what locks its users out (routers/platform_admin.py:1238).
ArchivedIsLocked == org # None /\ org.archived => org.suspended

\* The plan, its status and the modules switched on change together: a trial has every
\* module and a plan exactly its own (services/subscription.py:169, 200).
PlanMatchesModules ==
  org # None => /\ (org.status = "active") = (org.plan # None)
                /\ org.modules = IF org.plan = None THEN AllModules ELSE org.plan

\* With one administrator and nobody else at work, the list shows what is stored once nothing
\* is in flight (OrganizationsPage: every decision reloads it).
AtRest(a) == call[a].at = "idle" /\ row[a].at = "idle" /\ \A s \in Slots : refetch[<<a, s>>].at = "idle"
ListConverges == \A a \in Admins : AtRest(a) => row[a].shown = org

\* An organization whose plan or trial keeps running gets its tab unlocked, whatever was
\* refused before and however late the answers are (SubscriptionContext.tsx:122).
EventuallyUnlocked ==
  \A t \in Tenants : <>[](MaySignIn(org) /\ ~Expired(org)) => <>[](~Locked(t))

-----------------------------------------------------------------------------
\* What an organization is, whoever decides, as long as requests are handled one at a time.
OrganizationHolds == ArchivedIsLocked /\ PlanMatchesModules

\* A decision carries what it needs, and one that was let through read a row that allows it.
DecisionsCarry ==
  /\ \A a \in Admins :
       /\ call[a].at # "idle" => call[a].op \in AllDecisions /\ (call[a].op = "accept" => call[a].plan \in Plans)
       /\ call[a].at = "read" => call[a].seen # None /\ ~Refused(call[a].seen, call[a].op)
  /\ \A t \in Tenants :
       /\ ask[t].at # "idle" => ask[t].op # None /\ (ask[t].op = "request" => ask[t].plan \in Plans)
       /\ ask[t].at = "read" => ask[t].seen # None

\* One request is handled at a time, and it has read the row as it is.
OneIsHandled ==
  /\ \A a, b \in Admins : call[a].at = "read" /\ call[b].at = "read" => a = b
  /\ \A t, r \in Tenants : ask[t].at = "read" /\ ask[r].at = "read" => t = r
  /\ \A a \in Admins, t \in Tenants : call[a].at # "read" \/ ask[t].at # "read"
SeenIsStored ==
  /\ \A a \in Admins : call[a].at = "read" => call[a].seen = org
  /\ \A t \in Tenants : ask[t].at = "read" => ask[t].seen = org

\* The list shows what is stored or is about to be read again.
ListIsFresh ==
  \A a \in Admins :
    \/ row[a].at = "sent" \/ (call[a].at = "done" /\ call[a].seen # None)
    \/ (IF row[a].at = "read" THEN row[a].seen ELSE row[a].shown) = org

OrgInv == TypeOK /\ DecisionsCarry
SerialInv == OneIsHandled /\ SeenIsStored /\ OrganizationHolds
LoneInv == SeenIsStored /\ ListIsFresh

\* Of the constants: those who send requests can be counted, and None is none of the rest.
ConstantsOK ==
  /\ IsFiniteSet(Admins) /\ IsFiniteSet(Tenants)
  /\ MaxDay \in Nat /\ Workers \in Nat \ {0} /\ Decisions \subseteq AllDecisions
  /\ None \notin Rows \cup AllDecisions \cup Plans \cup {"request", "withdraw"}
=============================================================================
