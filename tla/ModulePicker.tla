---------------------------- MODULE ModulePicker ----------------------------
(***************************************************************************)
(* Choosing the modules of a plan.  A module needs others; ticking one     *)
(* adds what it needs, unticking one removes what needs it.  The builder   *)
(* follows the organization's plan until its user makes a choice.          *)
(***************************************************************************)
EXTENDS FiniteSets

CONSTANTS Modules, None

ConstantsOK == IsFiniteSet(Modules) /\ \A s \in SUBSET Modules : None # s

VARIABLES
  requires,     \* the catalog: what each module needs; cycles are not ruled out
  plan,         \* the organization's plan and its waiting request
  pending,
  picked,       \* the modules ticked in the builder
  touched       \* whether its user made a choice

vars == <<requires, plan, pending, picked, touched>>

-----------------------------------------------------------------------------
\* The loop that adds what is needed: the keys still to look at, and those chosen.
Loop == [stack : SUBSET Modules, chosen : SUBSET Modules]
Turn(at) ==
  LET key == CHOOSE m \in at.stack : TRUE
  IN IF key \in at.chosen THEN [at EXCEPT !.stack = @ \ {key}]
     ELSE [stack |-> (at.stack \ {key}) \cup requires[key], chosen |-> at.chosen \cup {key}]
Grow[at \in Loop] == IF at.stack = {} THEN at.chosen ELSE Grow[Turn(at)]
resolveModules(selected) == Grow[[stack |-> selected, chosen |-> {}]]

\* The loop that removes what needs what was removed.
Rounds == [remaining : SUBSET Modules, removed : SUBSET Modules]
More(at) == {m \in at.remaining \ at.removed : requires[m] \cap at.removed # {}}
Drop[at \in Rounds] == IF More(at) = {} THEN at.removed ELSE Drop[[at EXCEPT !.removed = @ \cup More(at)]]
dependentsOf(key, selected) == Drop[[remaining |-> selected, removed |-> {key}]] \ {key}

(* Faulty variant: only what needs the module itself goes with it. *)
DirectDependents(key, selected) == {m \in selected \ {key} : key \in requires[m]}
Dependents(key, selected) == dependentsOf(key, selected)

\* The request is what "Update request" edits, else the plan, else a starter set.
startModules == IF pending # None THEN pending ELSE IF plan # None THEN plan ELSE {}
Follow ==
  \E next \in {startModules'} :
    picked' = IF ~touched' /\ next # startModules THEN resolveModules(next) ELSE picked

-----------------------------------------------------------------------------
Tick(key) ==
  /\ key \notin picked
  /\ picked' = resolveModules(picked \cup {key}) /\ touched' = TRUE
  /\ UNCHANGED <<requires, plan, pending>>

Untick(key) ==
  /\ key \in picked
  /\ picked' = picked \ ({key} \cup Dependents(key, picked)) /\ touched' = TRUE
  /\ UNCHANGED <<requires, plan, pending>>

SelectAllOrNone(all) ==
  /\ picked # all
  /\ picked' = all /\ touched' = TRUE
  /\ UNCHANGED <<requires, plan, pending>>

Send ==
  /\ picked # {} /\ resolveModules(picked) # (IF pending # None THEN pending ELSE plan)
  /\ pending' = resolveModules(picked) /\ touched' = FALSE
  /\ UNCHANGED <<requires, plan>>
  /\ Follow

CancelRequest ==
  /\ pending # None
  /\ pending' = None /\ touched' = FALSE
  /\ UNCHANGED <<requires, plan>>
  /\ Follow

\* The console accepts what was asked for or decides on another plan, or rejects; the builder hears of it.
Accepted(modules) ==
  /\ modules # {}
  /\ plan' = resolveModules(modules) /\ pending' = None
  /\ UNCHANGED <<requires, touched>>
  /\ Follow

Rejected ==
  /\ pending # None
  /\ pending' = None
  /\ UNCHANGED <<requires, plan, touched>>
  /\ Follow

-----------------------------------------------------------------------------
\* A plan may have been agreed under an older catalog.
Init ==
  /\ requires \in {r \in [Modules -> SUBSET Modules] : \A m \in Modules : m \notin r[m]}
  /\ plan \in {None} \cup (SUBSET Modules \ {{}}) /\ pending = None
  /\ picked = resolveModules(startModules) /\ touched = FALSE

Next ==
  \/ \E key \in Modules : Tick(key) \/ Untick(key)
  \/ \E all \in {Modules, {}} : SelectAllOrNone(all)
  \/ Send \/ CancelRequest \/ Rejected
  \/ \E modules \in SUBSET Modules : Accepted(modules)

Spec == Init /\ [][Next]_vars

-----------------------------------------------------------------------------
TypeOK ==
  /\ requires \in [Modules -> SUBSET Modules]
  /\ plan \in {None} \cup SUBSET Modules /\ pending \in {None} \cup SUBSET Modules
  /\ picked \in SUBSET Modules /\ touched \in BOOLEAN

Closed(s) == \A m \in s : requires[m] \subseteq s

(* Whatever is ticked and unticked, and whatever the builder follows, the  *)
(* modules picked need no module that is not, and so does a request.       *)
PickedIsClosed == Closed(picked) /\ (pending # None => Closed(pending))

(* Ticking adds no more than what is needed and unticking removes no more, *)
(* whatever the catalog (modulePricing.ts: resolveModules, dependentsOf).  *)
TicksAreMinimal ==
  /\ \A key \in Modules, s \in SUBSET Modules :
       Closed(s) /\ picked \cup {key} \subseteq s => resolveModules(picked \cup {key}) \subseteq s
  /\ \A key \in picked, s \in SUBSET picked :
       Closed(s) /\ key \notin s => s \subseteq picked \ ({key} \cup Dependents(key, picked))

(* The builder neither misses what a choice brings nor takes more than it. *)
PickIsExact == PickedIsClosed /\ TicksAreMinimal
=============================================================================
