--------------------------- MODULE NumberingProofs ---------------------------
(* Numbering is gapless, for any number of requests, kinds and plans. *)
EXTENDS Numbering, SequenceTheorems, TLAPS

(* A request at a counter takes a number of one of the kinds. *)
LEMMA KindInKinds ==
  ASSUME NumberingInv, NEW w \in Workers,
         pc[w] \in {"increment", "insert", "increment_again", "read"}
  PROVE  Kind(w) \in Kinds /\ Tail(plan[w]) \in Seq(Kinds) /\ plan[w] # << >>
<1>1. plan[w] \in Seq(Kinds) /\ plan[w] # << >>
  BY DEF NumberingInv, TypeOK, HasKind
<1> QED
  BY <1>1, HeadTailProperties DEF Kind

(* What a request sees of a counter is a number. *)
LEMMA VisibleIsNat ==
  ASSUME TypeOK, NEW w \in Workers, NEW k \in Kinds
  PROVE  Visible(w, k) \in Nat
BY DEF TypeOK, Visible

(* The invariant holds at first: there are no counters and no documents. *)
LEMMA InvInit ==
  ASSUME Init PROVE NumberingInv
<1>1. TypeOK
  BY ConstantsAssumption, EmptySeq DEF Init, TypeOK, Nothing
<1>2. GaplessInOrder
  BY DEF Init, GaplessInOrder, Nothing
<1>3. \A w \in Workers : HasKind(w) /\ RowIsThere(w)
  BY DEF Init, HasKind, RowIsThere
<1>4. \A k \in Kinds : CounterFollows(k)
  BY DEF Init, CounterFollows, Nothing
<1>5. \A w \in Workers, k \in Kinds : OnlyHolderHasNumbers(w, k) /\ DraftFollows(w, k)
  BY ConstantsAssumption DEF Init, OnlyHolderHasNumbers, DraftFollows, Nothing
<1> QED
  BY <1>1, <1>2, <1>3, <1>4, <1>5 DEF NumberingInv

(* A new request has taken nothing yet. *)
LEMMA BeginPreserves ==
  ASSUME NumberingInv, NEW w \in Workers, Begin(w) PROVE NumberingInv'
<1> USE DEF NumberingInv
<1>1. PICK p \in Plans : plan' = [plan EXCEPT ![w] = p]
  BY DEF Begin
<1>2. p \in Seq(Kinds) /\ p # << >>
  BY <1>1, ConstantsAssumption
<1>3. TypeOK'
  BY <1>1, <1>2 DEF Begin, TypeOK
<1>4. GaplessInOrder'
  BY DEF Begin, GaplessInOrder
<1>5. ASSUME NEW v \in Workers PROVE HasKind(v)' /\ RowIsThere(v)'
  BY <1>1, <1>2 DEF Begin, TypeOK, HasKind, RowIsThere, Visible, Kind
<1>6. ASSUME NEW k \in Kinds PROVE CounterFollows(k)'
  BY DEF Begin, CounterFollows
<1>7. ASSUME NEW v \in Workers, NEW k \in Kinds
      PROVE  OnlyHolderHasNumbers(v, k)' /\ DraftFollows(v, k)'
  <2>1. OnlyHolderHasNumbers(v, k) /\ DraftFollows(v, k)
    OBVIOUS
  <2>2. UNCHANGED <<next, holder, draft, numbers, issued>>
    BY DEF Begin
  <2>3. CASE v # w
    <3>1. pc'[v] = pc[v] /\ Kind(v)' = Kind(v)
      BY <1>1, <2>3 DEF Begin, TypeOK, Kind
    <3> QED
      BY <2>1, <2>2, <3>1 DEF OnlyHolderHasNumbers, DraftFollows
  <2>4. CASE v = w
    <3>1. pc[v] # "read" /\ pc'[v] # "read"
      BY <2>4 DEF Begin, TypeOK
    <3> QED
      BY <2>1, <2>2, <3>1 DEF OnlyHolderHasNumbers, DraftFollows
  <2> QED
    BY <2>3, <2>4
<1> QED
  BY <1>3, <1>4, <1>5, <1>6, <1>7

(* An increment writes one past what its request sees, and takes the lock. *)
LEMMA IncrementPreserves ==
  ASSUME NumberingInv, NEW w \in Workers, Increment(w) PROVE NumberingInv'
<1> DEFINE k == Kind(w)
<1> USE DEF NumberingInv
<1>1. k \in Kinds
  BY KindInKinds DEF Increment
<1>2. CASE Visible(w, k) = 0
  <2>1. /\ pc[w] = "increment"
        /\ pc' = [pc EXCEPT ![w] = "insert"]
    BY <1>2 DEF Increment, RowIsThere, TypeOK
  <2>2. UNCHANGED <<next, holder, draft, plan, numbers, issued>>
    BY <1>2 DEF Increment
  <2>3. TypeOK'
    BY <2>1, <2>2 DEF TypeOK
  <2>4. GaplessInOrder'
    BY <2>2 DEF GaplessInOrder
  <2>5. ASSUME NEW v \in Workers PROVE HasKind(v)' /\ RowIsThere(v)'
    BY <2>1, <2>2 DEF TypeOK, HasKind, RowIsThere, Visible, Kind
  <2>6. ASSUME NEW l \in Kinds PROVE CounterFollows(l)'
    BY <2>2 DEF CounterFollows
  <2>7. ASSUME NEW v \in Workers, NEW l \in Kinds
        PROVE  OnlyHolderHasNumbers(v, l)' /\ DraftFollows(v, l)'
    BY <2>1, <2>2 DEF TypeOK, OnlyHolderHasNumbers, DraftFollows, Kind
  <2> QED
    BY <2>3, <2>4, <2>5, <2>6, <2>7
<1>3. CASE Visible(w, k) # 0
  <2>1. /\ pc[w] \in {"increment", "increment_again"}
        /\ holder[k] \in {None, w}
        /\ holder' = [holder EXCEPT ![k] = w]
        /\ draft' = [draft EXCEPT ![k] = Visible(w, k) + 1]
        /\ pc' = [pc EXCEPT ![w] = "read"]
        /\ UNCHANGED <<next, plan, numbers, issued>>
    BY <1>3 DEF Increment, Write
  <2>2. Visible(w, k) \in Nat
    BY <1>1, VisibleIsNat
  <2>3. TypeOK'
    BY <1>1, <2>1, <2>2 DEF TypeOK
  <2>4. GaplessInOrder'
    BY <2>1 DEF GaplessInOrder
  <2>5. ASSUME NEW v \in Workers PROVE HasKind(v)' /\ RowIsThere(v)'
    <3>1. CASE v = w
      BY <3>1, <1>1, <2>1 DEF TypeOK, HasKind, RowIsThere, Kind
    <3>2. CASE v # w
      BY <3>2, <1>1, <2>1, KindInKinds, ConstantsAssumption
      DEF TypeOK, HasKind, RowIsThere, Visible, Kind
    <3> QED
      BY <3>1, <3>2
  <2>6. ASSUME NEW l \in Kinds PROVE CounterFollows(l)'
    BY <2>1 DEF CounterFollows
  <2>7. ASSUME NEW v \in Workers, NEW l \in Kinds
        PROVE  OnlyHolderHasNumbers(v, l)' /\ DraftFollows(v, l)'
    <3>8. OnlyHolderHasNumbers(v, l) /\ DraftFollows(v, l) /\ Kind(v)' = Kind(v)
      BY <2>1 DEF Kind
    <3>9. holder'[l] = (IF l = k THEN w ELSE holder[l]) /\ None # v
      BY <1>1, <2>1, ConstantsAssumption DEF TypeOK
    <3>1. CASE l # k
      <4>1. draft'[l] = draft[l] /\ (v # w => pc'[v] = pc[v]) /\ Kind(w) # l
        BY <3>1, <1>1, <2>1 DEF TypeOK
      <4> HIDE DEF k
      <4> QED
        BY <3>1, <3>8, <3>9, <4>1, <2>1 DEF OnlyHolderHasNumbers, DraftFollows
    <3>2. CASE l = k /\ v # w
      <4> HIDE DEF k
      <4> QED
        BY <3>2, <3>8, <3>9, <2>1 DEF OnlyHolderHasNumbers, DraftFollows
    <3>3. CASE l = k /\ v = w
      <4>1. OnlyHolderHasNumbers(v, l)'
        BY <3>3, <1>1, <2>1 DEF TypeOK, OnlyHolderHasNumbers
      <4>2. Visible(w, k) = Len(issued[k]) + Len(numbers[w][k]) + 1
        <5>1. issued[k] \in Seq(Nat) /\ numbers[w][k] \in Seq(Nat)
          BY <1>1 DEF TypeOK
        <5>2. /\ CounterFollows(k) /\ OnlyHolderHasNumbers(w, k) /\ DraftFollows(w, k)
              /\ None # w
          BY <1>1, ConstantsAssumption
        <5>3. CASE holder[k] = w
          BY <5>1, <5>3, <5>2, <2>1 DEF DraftFollows, Visible
        <5>4. CASE holder[k] = None
          <6>1. Len(numbers[w][k]) = 0 /\ Visible(w, k) = next[k]
            BY <5>4, <5>2 DEF OnlyHolderHasNumbers, Visible
          <6> QED
            BY <5>1, <5>2, <6>1, <1>3 DEF CounterFollows
        <5> QED
          BY <2>1, <5>3, <5>4
      <4>3. \A j \in DOMAIN numbers[w][k] : numbers[w][k][j] = Len(issued[k]) + j
        <5>1. OnlyHolderHasNumbers(w, k) /\ DraftFollows(w, k)
          BY <1>1
        <5>2. CASE holder[k] = w
          BY <5>1, <5>2 DEF DraftFollows
        <5>3. CASE holder[k] # w
          BY <5>1, <5>3 DEF OnlyHolderHasNumbers
        <5> QED
          BY <5>2, <5>3
      <4>4. DraftFollows(v, l)'
        <5>1. pc'[w] = "read" /\ draft'[k] = Visible(w, k) + 1 /\ Kind(w)' = k
          BY <1>1, <2>1 DEF TypeOK, Kind
        <5>2. Len(issued[k]) \in Nat /\ Len(numbers[w][k]) \in Nat
          BY <1>1 DEF TypeOK
        <5> QED
          BY <3>3, <4>2, <4>3, <5>1, <5>2, <2>1 DEF DraftFollows
      <4> QED
        BY <4>1, <4>4
    <3> QED
      BY <3>1, <3>2, <3>3
  <2> QED
    BY <2>3, <2>4, <2>5, <2>6, <2>7
<1> QED
  BY <1>2, <1>3

(* The insert of a first row writes 1, where nothing was issued yet. *)
LEMMA InsertPreserves ==
  ASSUME NumberingInv, NEW w \in Workers, Insert(w) PROVE NumberingInv'
<1>1. TypeOK /\ GaplessInOrder
  BY DEF NumberingInv
<1>2. PICK k \in Kinds :
      /\ k = Kind(w)
      /\ pc[w] = "insert" /\ holder[k] = None
      /\ pc' = [pc EXCEPT ![w] = "increment_again"]
      /\ UNCHANGED <<next, plan, numbers, issued>>
  BY KindInKinds DEF Insert
<1>3. \/ next[k] > 0 /\ UNCHANGED <<holder, draft>>
      \/ /\ next[k] = 0
         /\ holder' = [holder EXCEPT ![k] = w]
         /\ draft' = [draft EXCEPT ![k] = 1]
  BY <1>1, <1>2 DEF Insert, Write, TypeOK
<1>4. TypeOK'
  <2>1. holder' \in [Kinds -> Workers \cup {None}]
    BY <1>1, <1>3 DEF TypeOK
  <2>2. draft' \in [Kinds -> Nat]
    BY <1>1, <1>3 DEF TypeOK
  <2>3. pc' \in [Workers -> {"idle", "increment", "insert", "increment_again", "read",
                             "commit"}]
    BY <1>1, <1>2 DEF TypeOK
  <2> QED
    BY <1>1, <1>2, <2>1, <2>2, <2>3 DEF TypeOK
<1>5. GaplessInOrder'
  BY <1>1, <1>2 DEF GaplessInOrder
<1>6. ASSUME NEW v \in Workers PROVE HasKind(v)' /\ RowIsThere(v)'
  <2>1. Kind(v)' = Kind(v) /\ None # v /\ HasKind(v) /\ RowIsThere(v)
    BY <1>2, ConstantsAssumption DEF Kind, NumberingInv
  <2>2. HasKind(v)'
    BY <1>1, <1>2, <2>1 DEF TypeOK, HasKind
  <2>3. CASE v = w
    <3>1. pc'[v] = "increment_again"
      BY <1>1, <1>2, <2>3 DEF TypeOK
    <3>2. Visible(v, k)' > 0
      BY <1>1, <1>2, <1>3, <2>1, <2>3 DEF TypeOK, Visible
    <3> QED
      BY <1>2, <2>1, <2>2, <2>3, <3>1, <3>2 DEF RowIsThere, Visible
  <2>4. CASE v # w
    <3>1. pc'[v] = pc[v]
      BY <1>1, <1>2, <2>4 DEF TypeOK
    <3>2. pc[v] \in {"increment_again", "read"} => Kind(v) \in Kinds
      BY KindInKinds
    <3>3. \A l \in Kinds : Visible(v, l) > 0 => Visible(v, l)' > 0
      BY <1>1, <1>2, <1>3, <2>1, <2>4 DEF TypeOK, Visible
    <3>4. pc[v] = "increment_again" => Visible(v, Kind(v))' > 0
      <4>1. Visible(v, Kind(v))' = (IF holder'[Kind(v)'] = v THEN draft'[Kind(v)']
                                    ELSE next'[Kind(v)'])
        BY DEF Visible
      <4> QED
        BY <2>1, <3>2, <3>3, <4>1 DEF RowIsThere, Visible
    <3>5. pc[v] = "read" => holder'[Kind(v)] = v
      BY <1>1, <1>2, <1>3, <2>1, <3>2 DEF RowIsThere, TypeOK
    <3>6. pc'[v] = "increment_again" => Visible(v, Kind(v))' > 0
      BY <3>1, <3>4
    <3>7. pc'[v] = "read" => holder'[Kind(v)'] = v
      BY <2>1, <3>1, <3>5
    <3> QED
      BY <2>2, <3>6, <3>7 DEF RowIsThere, Visible
  <2> QED
    BY <2>2, <2>3, <2>4
<1>7. ASSUME NEW l \in Kinds PROVE CounterFollows(l)'
  BY <1>2 DEF CounterFollows, NumberingInv
<1>8. ASSUME NEW v \in Workers, NEW l \in Kinds
      PROVE  OnlyHolderHasNumbers(v, l)' /\ DraftFollows(v, l)'
  <2>1. /\ OnlyHolderHasNumbers(v, l) /\ DraftFollows(v, l) /\ CounterFollows(l)
        /\ Kind(v)' = Kind(v) /\ None # v
    BY <1>2, ConstantsAssumption DEF Kind, NumberingInv
  <2>2. (pc'[v] = "read") <=> (pc[v] = "read")
    BY <1>1, <1>2 DEF TypeOK
  <2>3. CASE holder'[l] = holder[l] /\ draft'[l] = draft[l]
    BY <1>2, <2>1, <2>2, <2>3 DEF OnlyHolderHasNumbers, DraftFollows
  <2>4. CASE l = k /\ holder'[k] = w /\ draft'[k] = 1 /\ next[k] = 0
    <3>1. issued[l] = << >> /\ numbers[v][l] = << >>
      BY <1>2, <2>1, <2>4 DEF CounterFollows, OnlyHolderHasNumbers
    <3>2. OnlyHolderHasNumbers(v, l)'
      BY <1>2, <3>1 DEF OnlyHolderHasNumbers
    <3>3. v = w => pc[v] # "read"
      BY <1>2
    <3> QED
      BY <1>2, <2>2, <2>4, <3>1, <3>2, <3>3 DEF DraftFollows
  <2> QED
    BY <1>1, <1>2, <1>3, <2>3, <2>4 DEF TypeOK
<1> QED
  BY <1>4, <1>5, <1>6, <1>7, <1>8 DEF NumberingInv

(* The number read back is the next one after those the request has. *)
LEMMA ReadPreserves ==
  ASSUME NumberingInv, NEW w \in Workers, Read(w) PROVE NumberingInv'
<1>1. TypeOK /\ GaplessInOrder
  BY DEF NumberingInv
<1>2. PICK k \in Kinds :
      /\ k = Kind(w) /\ Tail(plan[w]) \in Seq(Kinds)
      /\ pc[w] = "read" /\ holder[k] = w
      /\ plan' = [plan EXCEPT ![w] = Tail(@)]
      /\ pc' = [pc EXCEPT ![w] =
           IF Tail(plan[w]) = << >> THEN "commit" ELSE "increment"]
      /\ UNCHANGED <<next, holder, draft, issued>>
  BY KindInKinds DEF Read, RowIsThere, NumberingInv
<1>3. /\ issued[k] \in Seq(Nat) /\ numbers[w] \in [Kinds -> Seq(Nat)]
      /\ numbers[w][k] \in Seq(Nat)
  BY <1>1 DEF TypeOK
<1> DEFINE number == Visible(w, k) - 1
<1>4. PICK m \in Nat, n \in Nat :
      /\ m = Len(issued[k]) /\ n = Len(numbers[w][k])
      /\ DOMAIN numbers[w][k] = 1 .. n
  <2>1. Len(issued[k]) \in Nat
    BY <1>3, LenProperties
  <2>2. Len(numbers[w][k]) \in Nat /\ DOMAIN numbers[w][k] = 1 .. Len(numbers[w][k])
    BY <1>3, LenProperties
  <2> QED
    BY <2>1, <2>2, Zenon
<1>5. /\ draft[k] = m + n + 2 /\ number = m + n + 1
      /\ \A j \in 1 .. n : numbers[w][k][j] = m + j
  <2>1. DraftFollows(w, k) /\ Visible(w, k) = draft[k]
    BY <1>2 DEF NumberingInv, Visible
  <2>2. draft[k] = m + n + 2
    BY <1>2, <1>4, <2>1 DEF DraftFollows
  <2>3. \A j \in 1 .. n : numbers[w][k][j] = m + j
    BY <1>2, <1>4, <2>1 DEF DraftFollows
  <2> QED
    BY <2>1, <2>2, <2>3
<1>6. numbers' = [numbers EXCEPT ![w][k] = Append(@, number)]
  BY <1>2 DEF Read
<1> HIDE DEF number
<1>7. number \in Nat /\ Append(numbers[w][k], number) \in Seq(Nat)
  <2>1. number \in Nat
    BY <1>5
  <2> QED
    BY <1>3, <2>1, AppendProperties
<1>8. /\ \A v \in Workers : v # w => numbers'[v] = numbers[v]
      /\ numbers'[w] = [numbers[w] EXCEPT ![k] = Append(numbers[w][k], number)]
  <2>1. numbers \in [Workers -> [Kinds -> Seq(Nat)]]
    BY <1>1 DEF TypeOK
  <2>2. numbers'[w] = [numbers[w] EXCEPT ![k] = Append(numbers[w][k], number)]
    BY <1>6, <2>1
  <2>3. \A v \in Workers : v # w => numbers'[v] = numbers[v]
    BY <1>6, <2>1
  <2> QED
    BY <2>2, <2>3
<1>9. TypeOK'
  <2>1. numbers'[w] \in [Kinds -> Seq(Nat)]
    BY <1>3, <1>7, <1>8
  <2>2. numbers' \in [Workers -> [Kinds -> Seq(Nat)]]
    BY <1>1, <1>6, <2>1 DEF TypeOK
  <2>3. plan' \in [Workers -> Seq(Kinds)]
    BY <1>1, <1>2 DEF TypeOK
  <2> QED
    BY <1>1, <1>2, <2>2, <2>3 DEF TypeOK
<1>10. GaplessInOrder'
  BY <1>1, <1>2 DEF GaplessInOrder
<1>11. ASSUME NEW v \in Workers PROVE HasKind(v)' /\ RowIsThere(v)'
  <2>1. HasKind(v) /\ RowIsThere(v)
    BY DEF NumberingInv
  <2> QED
    BY <1>1, <1>2, <2>1 DEF TypeOK, HasKind, RowIsThere, Visible, Kind
<1>12. ASSUME NEW l \in Kinds PROVE CounterFollows(l)'
  BY <1>2 DEF CounterFollows, NumberingInv
<1>13. ASSUME NEW v \in Workers, NEW l \in Kinds
       PROVE  OnlyHolderHasNumbers(v, l)' /\ DraftFollows(v, l)'
  <2>1. OnlyHolderHasNumbers(v, l) /\ DraftFollows(v, l)
    BY DEF NumberingInv
  <2>2. CASE v # w
    <3>1. Kind(v)' = Kind(v) /\ pc'[v] = pc[v] /\ numbers'[v] = numbers[v]
      BY <1>1, <1>2, <1>8, <2>2 DEF TypeOK, Kind
    <3> QED
      BY <1>2, <2>1, <3>1 DEF OnlyHolderHasNumbers, DraftFollows
  <2>3. CASE v = w /\ l # k
    <3>1. pc'[v] # "read" /\ numbers'[v][l] = numbers[v][l] /\ Kind(v) # l
      BY <1>1, <1>2, <1>3, <1>8, <2>3 DEF TypeOK
    <3> QED
      BY <1>2, <2>1, <3>1 DEF OnlyHolderHasNumbers, DraftFollows
  <2>4. CASE v = w /\ l = k
    <3>1. pc'[v] # "read"
      BY <1>1, <1>2, <2>4 DEF TypeOK
    <3>2. numbers'[v][l] = Append(numbers[w][k], number)
      BY <1>3, <1>8, <2>4
    <3>3. /\ Len(numbers'[v][l]) = n + 1
          /\ DOMAIN numbers'[v][l] = 1 .. n + 1
          /\ \A j \in 1 .. n : numbers'[v][l][j] = numbers[w][k][j]
          /\ numbers'[v][l][n + 1] = number
      BY <1>3, <1>4, <1>7, <3>2, AppendProperties
    <3>4. \A j \in DOMAIN numbers'[v][l] : numbers'[v][l][j] = m + j
      <4>1. SUFFICES ASSUME NEW j \in 1 .. n + 1
                     PROVE  numbers'[v][l][j] = m + j
        BY <3>3
      <4>2. CASE j = n + 1
        BY <1>5, <3>3, <4>2
      <4>3. CASE j # n + 1
        <5>1. j \in 1 .. n
          BY <4>3
        <5> QED
          BY <1>5, <3>3, <5>1
      <4> QED
        BY <4>2, <4>3
    <3>5. Len(issued'[l]) = m /\ holder'[l] = w /\ draft'[l] = m + n + 2
      BY <1>2, <1>4, <1>5, <2>4
    <3>6. draft'[l] = Len(issued'[l]) + Len(numbers'[v][l]) + 1
      <4>1. m + n + 2 = m + (n + 1) + 1
        OBVIOUS
      <4> QED
        BY <3>3, <3>5, <4>1, Zenon
    <3> QED
      BY <1>4, <2>4, <3>1, <3>4, <3>5, <3>6 DEF OnlyHolderHasNumbers, DraftFollows
  <2> QED
    BY <2>2, <2>3, <2>4
<1> QED
  BY <1>9, <1>10, <1>11, <1>12, <1>13 DEF NumberingInv

(* A transaction that ends has nothing left, whatever its end does to the
   committed state. *)
LEMMA EndReleases ==
  ASSUME TypeOK, NEW w \in Workers, End(w)
  PROVE  /\ holder' \in [Kinds -> Workers \cup {None}] /\ draft' = draft
         /\ pc' \in [Workers -> {"idle", "increment", "insert", "increment_again",
                                 "read", "commit"}]
         /\ plan' \in [Workers -> Seq(Kinds)]
         /\ numbers' \in [Workers -> [Kinds -> Seq(Nat)]]
         /\ pc'[w] = "idle"
         /\ \A k \in Kinds : holder'[k] # w /\ numbers'[w][k] = << >>
         /\ \A v \in Workers : v # w =>
              /\ pc'[v] = pc[v] /\ plan'[v] = plan[v] /\ numbers'[v] = numbers[v]
              /\ Kind(v)' = Kind(v)
              /\ \A k \in Kinds : holder'[k] = v <=> holder[k] = v
<1>1. Nothing \in [Kinds -> Seq(Nat)] /\ \A k \in Kinds : Nothing[k] = << >>
  BY EmptySeq DEF Nothing
<1>2. /\ holder' = [k \in Kinds |-> IF holder[k] = w THEN None ELSE holder[k]]
      /\ pc' = [pc EXCEPT ![w] = "idle"]
      /\ plan' = [plan EXCEPT ![w] = << >>]
      /\ numbers' = [numbers EXCEPT ![w] = Nothing]
      /\ draft' = draft
  BY DEF End
<1>3. None # w /\ \A v \in Workers : None # v
  BY ConstantsAssumption
<1>4. holder' \in [Kinds -> Workers \cup {None}]
  BY <1>2 DEF TypeOK
<1>5. pc' \in [Workers -> {"idle", "increment", "insert", "increment_again",
                           "read", "commit"}] /\ pc'[w] = "idle"
  BY <1>2 DEF TypeOK
<1>6. plan' \in [Workers -> Seq(Kinds)]
  BY <1>2, EmptySeq DEF TypeOK
<1>7. numbers' \in [Workers -> [Kinds -> Seq(Nat)]]
  BY <1>1, <1>2 DEF TypeOK
<1>8. \A k \in Kinds : holder'[k] # w /\ numbers'[w][k] = << >>
  BY <1>1, <1>2, <1>3 DEF TypeOK
<1>9. ASSUME NEW v \in Workers, v # w
      PROVE  /\ pc'[v] = pc[v] /\ plan'[v] = plan[v] /\ numbers'[v] = numbers[v]
             /\ Kind(v)' = Kind(v)
             /\ \A k \in Kinds : holder'[k] = v <=> holder[k] = v
  <2>1. pc'[v] = pc[v] /\ plan'[v] = plan[v] /\ numbers'[v] = numbers[v]
    BY <1>2, <1>9 DEF TypeOK
  <2>2. \A k \in Kinds : holder'[k] = v <=> holder[k] = v
    BY <1>2, <1>3, <1>9 DEF TypeOK
  <2> QED
    BY <2>1, <2>2 DEF Kind
<1> QED
  BY <1>2, <1>4, <1>5, <1>6, <1>7, <1>8, <1>9

(* A request that fails leaves the counters and the documents as they were. *)
LEMMA RollbackPreserves ==
  ASSUME NumberingInv, NEW w \in Workers, Rollback(w) PROVE NumberingInv'
<1>1. TypeOK /\ GaplessInOrder /\ End(w) /\ UNCHANGED <<next, issued>>
  BY DEF NumberingInv, Rollback
<1>2. draft' = draft /\ pc'[w] = "idle"
  BY <1>1, EndReleases
<1>3. TypeOK'
  BY <1>1, EndReleases DEF TypeOK
<1>4. GaplessInOrder'
  BY <1>1 DEF GaplessInOrder
<1>5. ASSUME NEW v \in Workers PROVE HasKind(v)' /\ RowIsThere(v)'
  <2>1. CASE v = w
    BY <1>2, <2>1 DEF HasKind, RowIsThere
  <2>2. CASE v # w
    <3>1. HasKind(v) /\ RowIsThere(v)
      BY DEF NumberingInv
    <3>2. /\ pc'[v] = pc[v] /\ plan'[v] = plan[v] /\ Kind(v)' = Kind(v)
          /\ \A k \in Kinds : holder'[k] = v <=> holder[k] = v
      BY <1>1, <2>2, EndReleases
    <3>3. pc[v] \in {"increment_again", "read"} => Kind(v) \in Kinds
      BY KindInKinds
    <3> QED
      BY <1>1, <1>2, <3>1, <3>2, <3>3 DEF HasKind, RowIsThere, Visible
  <2> QED
    BY <2>1, <2>2
<1>6. ASSUME NEW k \in Kinds PROVE CounterFollows(k)'
  BY <1>1 DEF CounterFollows, NumberingInv
<1>7. ASSUME NEW v \in Workers, NEW k \in Kinds
      PROVE  OnlyHolderHasNumbers(v, k)' /\ DraftFollows(v, k)'
  <2>1. CASE v = w
    <3>1. holder'[k] # w /\ numbers'[w][k] = << >>
      BY <1>1, EndReleases
    <3> QED
      BY <2>1, <3>1 DEF OnlyHolderHasNumbers, DraftFollows
  <2>2. CASE v # w
    <3>1. OnlyHolderHasNumbers(v, k) /\ DraftFollows(v, k)
      BY DEF NumberingInv
    <3>2. /\ pc'[v] = pc[v] /\ numbers'[v] = numbers[v] /\ Kind(v)' = Kind(v)
          /\ holder'[k] = v <=> holder[k] = v
      BY <1>1, <2>2, EndReleases
    <3> QED
      BY <1>1, <1>2, <3>1, <3>2 DEF OnlyHolderHasNumbers, DraftFollows
  <2> QED
    BY <2>1, <2>2
<1> QED
  BY <1>3, <1>4, <1>5, <1>6, <1>7 DEF NumberingInv

(* The numbers of a request that commits run on from the committed ones, and
   the counter ends one past them; the others hold other counters. *)
LEMMA CommitExtends ==
  ASSUME NumberingInv, NEW w \in Workers, Commit(w), NEW k \in Kinds
  PROVE  /\ next'[k] \in Nat /\ issued'[k] \in Seq(Nat)
         /\ \A j \in DOMAIN issued'[k] : issued'[k][j] = j
         /\ CounterFollows(k)'
         /\ next[k] > 0 => next'[k] > 0
         /\ holder[k] # w => next'[k] = next[k] /\ issued'[k] = issued[k]
<1>1. /\ issued[k] \in Seq(Nat) /\ numbers[w][k] \in Seq(Nat)
      /\ next[k] \in Nat /\ draft[k] \in Nat
  BY DEF NumberingInv, TypeOK
<1>2. /\ CounterFollows(k) /\ OnlyHolderHasNumbers(w, k) /\ DraftFollows(w, k)
      /\ \A j \in DOMAIN issued[k] : issued[k][j] = j
  BY DEF NumberingInv, GaplessInOrder
<1>3. /\ pc[w] = "commit"
      /\ next'[k] = (IF holder[k] = w THEN draft[k] ELSE next[k])
      /\ issued'[k] = issued[k] \o numbers[w][k]
  BY DEF Commit, Visible
<1>4. CASE holder[k] # w
  <2>1. numbers[w][k] = << >>
    BY <1>2, <1>4 DEF OnlyHolderHasNumbers
  <2>2. issued'[k] = issued[k] /\ next'[k] = next[k]
    BY <1>1, <1>3, <1>4, <2>1, ConcatEmptySeq
  <2> QED
    BY <1>1, <1>2, <1>4, <2>2 DEF CounterFollows
<1>5. CASE holder[k] = w
  <2>1. PICK m \in Nat, n \in Nat :
        /\ m = Len(issued[k]) /\ n = Len(numbers[w][k])
        /\ DOMAIN issued[k] = 1 .. m /\ DOMAIN numbers[w][k] = 1 .. n
    <3>1. Len(issued[k]) \in Nat /\ DOMAIN issued[k] = 1 .. Len(issued[k])
      BY <1>1, LenProperties
    <3>2. Len(numbers[w][k]) \in Nat /\ DOMAIN numbers[w][k] = 1 .. Len(numbers[w][k])
      BY <1>1, LenProperties
    <3> QED
      BY <3>1, <3>2, Zenon
  <2>2. next'[k] = m + n + 1 /\ \A j \in 1 .. n : numbers[w][k][j] = m + j
    BY <1>2, <1>3, <1>5, <2>1 DEF DraftFollows
  <2>3. /\ issued'[k] \in Seq(Nat) /\ Len(issued'[k]) = m + n
        /\ DOMAIN issued'[k] = 1 .. m + n
        /\ \A j \in 1 .. m + n :
             issued'[k][j] = (IF j <= m THEN issued[k][j] ELSE numbers[w][k][j - m])
    <3>1. issued[k] \o numbers[w][k] \in Seq(Nat)
      BY <1>1, ConcatProperties
    <3>2. Len(issued[k] \o numbers[w][k]) = m + n
      BY <1>1, <2>1, ConcatProperties
    <3>3. \A j \in 1 .. m + n :
            (issued[k] \o numbers[w][k])[j] =
              (IF j <= m THEN issued[k][j] ELSE numbers[w][k][j - m])
      BY <1>1, <2>1, ConcatProperties
    <3>4. DOMAIN (issued[k] \o numbers[w][k]) = 1 .. m + n
      BY <3>1, <3>2, LenProperties
    <3> QED
      BY <1>3, <3>1, <3>2, <3>3, <3>4
  <2>4. ASSUME NEW j \in 1 .. m + n PROVE issued'[k][j] = j
    <3>1. issued'[k][j] = (IF j <= m THEN issued[k][j] ELSE numbers[w][k][j - m])
      BY <2>3
    <3>2. CASE j <= m
      <4>1. j \in 1 .. m
        BY <3>2
      <4>2. issued[k][j] = j
        BY <1>2, <2>1, <4>1
      <4> QED
        BY <3>1, <3>2, <4>2
    <3>3. CASE ~ (j <= m)
      <4>1. j - m \in 1 .. n /\ m + (j - m) = j
        BY <3>3
      <4>2. numbers[w][k][j - m] = m + (j - m)
        BY <2>2, <4>1
      <4> QED
        BY <3>1, <3>3, <4>1, <4>2
    <3> QED
      BY <3>2, <3>3
  <2>5. next'[k] \in Nat /\ next'[k] > 0
    BY <2>2
  <2>6. CounterFollows(k)'
    BY <2>2, <2>3, <2>5 DEF CounterFollows
  <2> QED
    BY <1>5, <2>3, <2>4, <2>5, <2>6
<1> QED
  BY <1>4, <1>5

(* A commit issues the numbers of the request and releases its counters. *)
LEMMA CommitPreserves ==
  ASSUME NumberingInv, NEW w \in Workers, Commit(w) PROVE NumberingInv'
<1>1. TypeOK /\ End(w)
  BY DEF NumberingInv, Commit
<1>2. draft' = draft /\ pc'[w] = "idle"
  BY <1>1, EndReleases
<1>3. TypeOK'
  <2>1. next' \in [Kinds -> Nat]
    BY <1>1, VisibleIsNat DEF Commit
  <2>2. issued' \in [Kinds -> Seq(Nat)]
    <3>1. issued' = [k \in Kinds |-> issued[k] \o numbers[w][k]]
      BY DEF Commit
    <3>2. \A k \in Kinds : issued'[k] \in Seq(Nat)
      BY CommitExtends
    <3> QED
      BY <3>1, <3>2
  <2> QED
    BY <1>1, <2>1, <2>2, EndReleases DEF TypeOK
<1>4. GaplessInOrder'
  BY CommitExtends DEF GaplessInOrder
<1>5. ASSUME NEW v \in Workers PROVE HasKind(v)' /\ RowIsThere(v)'
  <2>1. CASE v = w
    BY <1>2, <2>1 DEF HasKind, RowIsThere
  <2>2. CASE v # w
    <3>1. HasKind(v) /\ RowIsThere(v)
      BY DEF NumberingInv
    <3>2. /\ pc'[v] = pc[v] /\ plan'[v] = plan[v] /\ Kind(v)' = Kind(v)
          /\ \A k \in Kinds : holder'[k] = v <=> holder[k] = v
      BY <1>1, <2>2, EndReleases
    <3>3. pc[v] \in {"increment_again", "read"} => Kind(v) \in Kinds
      BY KindInKinds
    <3>4. \A k \in Kinds : next[k] > 0 => next'[k] > 0
      BY CommitExtends
    <3> QED
      BY <1>2, <3>1, <3>2, <3>3, <3>4 DEF HasKind, RowIsThere, Visible
  <2> QED
    BY <2>1, <2>2
<1>6. ASSUME NEW k \in Kinds PROVE CounterFollows(k)'
  BY CommitExtends
<1>7. ASSUME NEW v \in Workers, NEW k \in Kinds
      PROVE  OnlyHolderHasNumbers(v, k)' /\ DraftFollows(v, k)'
  <2>1. CASE v = w
    <3>1. holder'[k] # w /\ numbers'[w][k] = << >>
      BY <1>1, EndReleases
    <3> QED
      BY <2>1, <3>1 DEF OnlyHolderHasNumbers, DraftFollows
  <2>2. CASE v # w
    <3>1. OnlyHolderHasNumbers(v, k) /\ DraftFollows(v, k)
      BY DEF NumberingInv
    <3>2. /\ pc'[v] = pc[v] /\ numbers'[v] = numbers[v] /\ Kind(v)' = Kind(v)
          /\ holder'[k] = v <=> holder[k] = v
      BY <1>1, <2>2, EndReleases
    <3>3. holder[k] = v => issued'[k] = issued[k]
      BY <2>2, CommitExtends
    <3> QED
      BY <1>2, <3>1, <3>2, <3>3 DEF OnlyHolderHasNumbers, DraftFollows
  <2> QED
    BY <2>1, <2>2
<1> QED
  BY <1>3, <1>4, <1>5, <1>6, <1>7 DEF NumberingInv

(* Between any two steps the counters, what requests have taken of them and
   the numbers in use agree, for any requests, kinds and plans (next_number). *)
THEOREM NumberingInvariant == Spec => []NumberingInv
<1>1. NumberingInv /\ [Next]_vars => NumberingInv'
  <2> SUFFICES ASSUME NumberingInv, [Next]_vars PROVE NumberingInv'
    OBVIOUS
  <2>1. CASE UNCHANGED vars
    <3>1. UNCHANGED <<next, holder, draft, pc, plan, numbers, issued>>
      BY <2>1 DEF vars
    <3>2. TypeOK'
      BY <3>1 DEF NumberingInv, TypeOK
    <3>3. GaplessInOrder'
      BY <3>1 DEF NumberingInv, GaplessInOrder
    <3>4. \A w \in Workers : HasKind(w)' /\ RowIsThere(w)'
      BY <3>1 DEF NumberingInv, HasKind, RowIsThere, Visible, Kind
    <3>5. \A k \in Kinds : CounterFollows(k)'
      BY <3>1 DEF NumberingInv, CounterFollows
    <3>6. \A w \in Workers, k \in Kinds :
            OnlyHolderHasNumbers(w, k)' /\ DraftFollows(w, k)'
      BY <3>1 DEF NumberingInv, OnlyHolderHasNumbers, DraftFollows, Kind
    <3> QED
      BY <3>2, <3>3, <3>4, <3>5, <3>6 DEF NumberingInv
  <2>2. ASSUME NEW w \in Workers, Begin(w) PROVE NumberingInv'
    BY <2>2, BeginPreserves
  <2>3. ASSUME NEW w \in Workers, Increment(w) PROVE NumberingInv'
    BY <2>3, IncrementPreserves
  <2>4. ASSUME NEW w \in Workers, Insert(w) PROVE NumberingInv'
    BY <2>4, InsertPreserves
  <2>5. ASSUME NEW w \in Workers, Read(w) PROVE NumberingInv'
    BY <2>5, ReadPreserves
  <2>6. ASSUME NEW w \in Workers, Commit(w) PROVE NumberingInv'
    BY <2>6, CommitPreserves
  <2>7. ASSUME NEW w \in Workers, Rollback(w) \/ DeadlockVictim(w) PROVE NumberingInv'
    BY <2>7, RollbackPreserves DEF DeadlockVictim
  <2> QED
    BY <2>1, <2>2, <2>3, <2>4, <2>5, <2>6, <2>7 DEF Next
<1> QED
  BY <1>1, InvInit, PTL DEF Spec

(* The committed documents of a kind are numbered 1, 2, 3... without a gap or
   a duplicate, however many requests race, wait or fail (next_number). *)
THEOREM NumbersAreGapless == Spec => []GaplessInOrder
<1>1. NumberingInv => GaplessInOrder
  BY DEF NumberingInv
<1> QED
  BY <1>1, NumberingInvariant, PTL

(* Two requests under way never have the same number (_increment). *)
THEOREM NumbersAreUnique == Spec => []NeverSameNumber
<1>1. NumberingInv => NeverSameNumber
  <2> SUFFICES ASSUME NumberingInv, NEW v \in Workers, NEW w \in Workers, v # w,
                      NEW k \in Kinds, NEW i \in DOMAIN numbers[v][k],
                      NEW j \in DOMAIN numbers[w][k]
               PROVE  numbers[v][k][i] # numbers[w][k][j]
    BY DEF NeverSameNumber
  <2>1. OnlyHolderHasNumbers(v, k) /\ OnlyHolderHasNumbers(w, k)
    BY DEF NumberingInv
  <2>2. holder[k] = v /\ holder[k] = w
    BY <2>1 DEF OnlyHolderHasNumbers
  <2> QED
    BY <2>2
<1> QED
  BY <1>1, NumberingInvariant, PTL

=============================================================================
