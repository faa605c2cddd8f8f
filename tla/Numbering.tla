----------------------------- MODULE Numbering -----------------------------
(***************************************************************************)
(* Document numbers: backend/services/numbering.py on PostgreSQL.          *)
(*                                                                         *)
(* A request takes the numbers of its documents one after another inside   *)
(* its transaction.  The counter of a kind is a row of document_sequences; *)
(* whoever updates or inserts it holds it until the transaction ends, and  *)
(* the others see the last committed value and wait to write.  SQLite's    *)
(* one write lock allows a subset of these behaviours.                     *)
(***************************************************************************)
EXTENDS Integers, Sequences

CONSTANTS
  Workers,     \* threads that serve requests
  Kinds,       \* kinds of documents
  Plans,       \* the kinds, in order, that a request takes a number of
  None,        \* nobody
  MaxIssued    \* bound: numbers of a kind after which no request starts

ASSUME ConstantsAssumption ==
  /\ None \notin Workers
  /\ Plans \subseteq Seq(Kinds) \ {<< >>}
  /\ MaxIssued \in Nat

VARIABLES
  next,      \* committed next_number of each kind, 0 while there is no row
  holder,    \* the request with an uncommitted write of the row, or None
  draft,     \* the value it wrote
  pc,        \* what each request does next
  plan,      \* the kinds it still has to take a number of
  numbers,   \* the numbers it has taken, by kind
  issued     \* the numbers of the committed documents, by kind, in order

vars == <<next, holder, draft, pc, plan, numbers, issued>>

----------------------------------------------------------------------------
Kind(w) == Head(plan[w])

(* What a statement of w sees of a counter: its own write or the last commit. *)
Visible(w, k) == IF holder[k] = w THEN draft[k] ELSE next[k]

Nothing == [k \in Kinds |-> << >>]

Init ==
  /\ next = [k \in Kinds |-> 0]
  /\ holder = [k \in Kinds |-> None]
  /\ draft = [k \in Kinds |-> 0]
  /\ pc = [w \in Workers |-> "idle"]
  /\ plan = [w \in Workers |-> << >>]
  /\ numbers = [w \in Workers |-> Nothing]
  /\ issued = Nothing

Begin(w) ==
  /\ pc[w] = "idle"
  /\ \A k \in Kinds : Len(issued[k]) < MaxIssued
  /\ \E p \in Plans : plan' = [plan EXCEPT ![w] = p]
  /\ pc' = [pc EXCEPT ![w] = "increment"]
  /\ UNCHANGED <<next, holder, draft, numbers, issued>>

Write(w, k, value) ==
  /\ holder' = [holder EXCEPT ![k] = w]
  /\ draft' = [draft EXCEPT ![k] = value]

(* Faulty variant of Increment: the counter is read and written back with no
   lock held between the two. *)
IncrementUnlocked(w) ==
  /\ pc[w] \in {"increment", "increment_again"}
  /\ IF Visible(w, Kind(w)) = 0
       THEN pc' = [pc EXCEPT ![w] = "insert"] /\ UNCHANGED <<holder, draft>>
       ELSE pc' = [pc EXCEPT ![w] = "read"]
            /\ Write(w, Kind(w), Visible(w, Kind(w)) + 1)
  /\ UNCHANGED <<next, plan, numbers, issued>>

(* _increment: an UPDATE of the row.  It matches nothing when no row is
   visible, and waits while another request holds the row. *)
Increment(w) ==
  LET k == Kind(w)
  IN /\ pc[w] \in {"increment", "increment_again"}
     /\ IF Visible(w, k) = 0
          THEN /\ pc' = [pc EXCEPT ![w] =
                    IF @ = "increment" THEN "insert" ELSE "read"]
               /\ UNCHANGED <<holder, draft>>
          ELSE /\ holder[k] \in {None, w}
               /\ Write(w, k, Visible(w, k) + 1)
               /\ pc' = [pc EXCEPT ![w] = "read"]
     /\ UNCHANGED <<next, plan, numbers, issued>>

(* Faulty variant of Insert: the clash is taken for the end of it, and the
   number is read without a second increment. *)
InsertOnly(w) ==
  /\ pc[w] = "insert" /\ holder[Kind(w)] = None
  /\ IF next[Kind(w)] > 0 THEN UNCHANGED <<holder, draft>> ELSE Write(w, Kind(w), 2)
  /\ pc' = [pc EXCEPT ![w] = "read"]
  /\ UNCHANGED <<next, plan, numbers, issued>>

(* The INSERT inside the savepoint.  It waits for a row another request has
   written and not committed; a clash with a committed row only undoes the
   savepoint. *)
Insert(w) ==
  LET k == Kind(w)
  IN /\ pc[w] = "insert"
     /\ holder[k] = None
     /\ IF next[k] > 0 THEN UNCHANGED <<holder, draft>> ELSE Write(w, k, 1)
     /\ pc' = [pc EXCEPT ![w] = "increment_again"]
     /\ UNCHANGED <<next, plan, numbers, issued>>

(* The SELECT that reads the number back; .one() fails when there is no row. *)
Read(w) ==
  LET k == Kind(w)
  IN /\ pc[w] = "read"
     /\ Visible(w, k) > 0
     /\ numbers' = [numbers EXCEPT ![w][k] = Append(@, Visible(w, k) - 1)]
     /\ plan' = [plan EXCEPT ![w] = Tail(@)]
     /\ pc' = [pc EXCEPT ![w] = IF Tail(plan[w]) = << >> THEN "commit" ELSE "increment"]
     /\ UNCHANGED <<next, holder, draft, issued>>

(* The end of a transaction releases the rows it wrote. *)
End(w) ==
  /\ holder' = [k \in Kinds |-> IF holder[k] = w THEN None ELSE holder[k]]
  /\ pc' = [pc EXCEPT ![w] = "idle"]
  /\ plan' = [plan EXCEPT ![w] = << >>]
  /\ numbers' = [numbers EXCEPT ![w] = Nothing]
  /\ UNCHANGED draft

Commit(w) ==
  /\ pc[w] = "commit"
  /\ next' = [k \in Kinds |-> Visible(w, k)]
  /\ issued' = [k \in Kinds |-> issued[k] \o numbers[w][k]]
  /\ End(w)

(* Faulty variant of Rollback: the counter is bumped in a transaction of its
   own, and the number of a request that fails is left out. *)
RollbackKeepsCounter(w) ==
  /\ pc[w] # "idle"
  /\ next' = [k \in Kinds |-> Visible(w, k)]
  /\ End(w)
  /\ UNCHANGED issued

(* A request that is refused, fails or is lost. *)
Rollback(w) ==
  /\ pc[w] # "idle"
  /\ End(w)
  /\ UNCHANGED <<next, issued>>

----------------------------------------------------------------------------
(* Waiting *)

Waits(w) ==
  /\ \/ pc[w] \in {"increment", "increment_again"} /\ Visible(w, Kind(w)) > 0
     \/ pc[w] = "insert"
  /\ holder[Kind(w)] \notin {None, w}

Blocker(w) == holder[Kind(w)]

(* w is on a cycle of requests that wait for each other. *)
Deadlocked(w) ==
  \E S \in SUBSET Workers :
    /\ w \in S
    /\ \A v \in S : Waits(v) /\ Blocker(v) \in S
    /\ \A v \in S : \E u \in S : Blocker(u) = v

(* Faulty variant of DeadlockVictim: nobody notices a deadlock. *)
NoVictim(w) == Deadlocked(w) /\ FALSE /\ UNCHANGED vars

(* The database notices a deadlock and rolls one of the requests back. *)
DeadlockVictim(w) == Deadlocked(w) /\ Rollback(w)

Next ==
  \E w \in Workers :
    \/ Begin(w) \/ Increment(w) \/ Insert(w) \/ Read(w) \/ Commit(w)
    \/ Rollback(w) \/ DeadlockVictim(w)

Spec == Init /\ [][Next]_vars

(* Handlers run to their end, the database grants a row to its waiters in
   turn, and it resolves deadlocks.  Nothing makes a request fail. *)
Fairness ==
  /\ \A w \in Workers :
       /\ SF_vars(Increment(w))
       /\ SF_vars(Insert(w))
       /\ WF_vars(Read(w))
       /\ WF_vars(Commit(w))
  /\ WF_vars(\E w \in Workers : DeadlockVictim(w))

FairSpec == Spec /\ Fairness

----------------------------------------------------------------------------
(* Properties *)

TypeOK ==
  /\ next \in [Kinds -> Nat]
  /\ holder \in [Kinds -> Workers \cup {None}]
  /\ draft \in [Kinds -> Nat]
  /\ pc \in [Workers -> {"idle", "increment", "insert", "increment_again", "read",
                         "commit"}]
  /\ plan \in [Workers -> Seq(Kinds)]
  /\ numbers \in [Workers -> [Kinds -> Seq(Nat)]]
  /\ issued \in [Kinds -> Seq(Nat)]

(* The documents of a kind are numbered 1, 2, 3... in the order they were
   committed: no number twice, none left out by a request that failed
   (next_number). *)
GaplessInOrder ==
  \A k \in Kinds : \A j \in DOMAIN issued[k] : issued[k][j] = j

(* The docstring of _increment: two concurrent callers never observe the same
   number. *)
NeverSameNumber ==
  \A v, w \in Workers : v # w =>
    \A k \in Kinds : \A i \in DOMAIN numbers[v][k] : \A j \in DOMAIN numbers[w][k] :
      numbers[v][k][i] # numbers[w][k][j]

(* Parts of the inductive invariant. *)

(* A request at a counter has one to take. *)
HasKind(w) ==
  pc[w] \in {"increment", "insert", "increment_again", "read"} => plan[w] # << >>

(* Whichever way the race for a first number goes, the second increment finds
   the row, and the number is read under the lock. *)
RowIsThere(w) ==
  /\ pc[w] = "increment_again" => Visible(w, Kind(w)) > 0
  /\ pc[w] = "read" => holder[Kind(w)] = w

(* The committed counter is one past the documents there are. *)
CounterFollows(k) ==
  IF next[k] = 0 THEN issued[k] = << >> ELSE next[k] = Len(issued[k]) + 1

(* A request that does not hold a counter has none of its numbers. *)
OnlyHolderHasNumbers(w, k) == holder[k] # w => numbers[w][k] = << >>

(* The numbers a request has taken follow the committed ones, and the value it
   wrote follows them, one ahead while a number is still to be read. *)
DraftFollows(w, k) ==
  holder[k] = w =>
    /\ \A j \in DOMAIN numbers[w][k] : numbers[w][k][j] = Len(issued[k]) + j
    /\ draft[k] = Len(issued[k]) + Len(numbers[w][k])
                  + (IF pc[w] = "read" /\ Kind(w) = k THEN 2 ELSE 1)

(* Between any two steps, however requests interleave, wait and fail, the
   counter, what a request has taken of it and the numbers in use agree
   (next_number). *)
NumberingInv ==
  /\ TypeOK
  /\ GaplessInOrder
  /\ \A w \in Workers : HasKind(w) /\ RowIsThere(w)
  /\ \A k \in Kinds : CounterFollows(k)
  /\ \A w \in Workers, k \in Kinds : OnlyHolderHasNumbers(w, k) /\ DraftFollows(w, k)

(* Every request ends, the ones that wait for each other included. *)
EveryRequestEnds ==
  \A w \in Workers : pc[w] # "idle" ~> pc[w] = "idle"

=============================================================================
