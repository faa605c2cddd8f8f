--------------------------- MODULE PayrollProofs ----------------------------
(***************************************************************************)
(* Payroll, for every value of the constants: whatever requests overlap    *)
(* and whatever answers are lost, the salaries of a paid pay run left an   *)
(* account once and came to its payslips, the drawer is not overdrawn by   *)
(* them, and one request at a time a run that was paid stays on record. An *)
(* administrator alone who waits for his calls sees what is stored.        *)
(***************************************************************************)
EXTENDS Payroll, Sums

----------------------------------------------------------------------------
(* What the operators do                                                   *)

(* A request that moves to a step keeps what it was sent with. *)
LEMMA StepMoves ==
  ASSUME TypeOK, NEW w \in Workers, work[w] # None, NEW step \in Steps, Step(w, step)
  PROVE  /\ work' \in [Workers -> Requests \cup {None}]
         /\ \A v \in Workers \ {w} : work'[v] = work[v]
         /\ work'[w].kind = work[w].kind /\ work'[w].run = work[w].run /\ work'[w].step = step
         /\ work'[w].net = work[w].net /\ work'[w].period = work[w].period
<1> DEFINE moved == [work[w] EXCEPT !.step = step]
<1>1. work[w] \in Requests /\ work \in [Workers -> Requests \cup {None}]
  BY DEF TypeOK
<1>2. /\ moved \in Requests /\ moved.kind = work[w].kind /\ moved.run = work[w].run
      /\ moved.step = step /\ moved.net = work[w].net /\ moved.period = work[w].period
  BY <1>1 DEF Requests
<1>3. work' = [work EXCEPT ![w] = moved]
  BY DEF Step
<1> HIDE DEF moved
<1> QED BY <1>1, <1>2, <1>3

(* A pay run whose status changes keeps its payslips. *)
LEMMA StatusChanges ==
  ASSUME TypeOK, NEW r \in Runs, payRun[r] # None, NEW status \in Statuses \cup {"deleted"},
         payRun' = [payRun EXCEPT ![r].status = status]
  PROVE  /\ payRun' \in [Runs -> PayRuns \cup {None}]
         /\ \A q \in Runs \ {r} : payRun'[q] = payRun[q]
         /\ payRun'[r] \in PayRuns /\ payRun'[r] # None
         /\ payRun'[r].status = status /\ payRun'[r].net = payRun[r].net
<1> DEFINE row == [payRun[r] EXCEPT !.status = status]
<1>1. payRun[r] \in PayRuns /\ payRun \in [Runs -> PayRuns \cup {None}]
  BY DEF TypeOK
<1>2. row \in PayRuns /\ row.status = status /\ row.net = payRun[r].net
  BY <1>1 DEF PayRuns
<1>3. payRun' = [payRun EXCEPT ![r] = row]
  OBVIOUS
<1> HIDE DEF row
<1> QED BY <1>1, <1>2, <1>3, ConstantsAssumption

(* What the payslips of a run come to. *)
LEMMA TotalNetIsNat ==
  ASSUME TypeOK, NEW r \in Runs, payRun[r] # None
  PROVE  TotalNet(r) \in Nat
<1> DEFINE net == payRun[r].net
<1>1. payRun[r] \in PayRuns
  BY DEF TypeOK
<1>2. net \in Nets
  BY <1>1 DEF PayRuns
<1>3. PICK S \in SUBSET Employees : net \in [S -> 0..Gross]
  BY <1>2 DEF Nets
<1> HIDE DEF net
<1>4. IsFiniteSet(DOMAIN net) /\ \A e \in DOMAIN net : net[e] \in Nat
  BY <1>3, FS_Subset, ConstantsAssumption
<1>5. SumFunctionOnSet(net, DOMAIN net) \in Nat
  BY <1>4, SumIsNat
<1> QED BY <1>5 DEF TotalNet, net

(* The drawer holds an integer. *)
LEMMA DrawerIsInt ==
  ASSUME TypeOK
  PROVE  Drawer \in Int
<1> DEFINE cash == [r \in DOMAIN paid |-> paid[r].cash]
<1>1. DOMAIN paid = Runs /\ \A r \in Runs : cash[r] \in Int
  BY DEF TypeOK
<1> HIDE DEF cash
<1>2. SumFunctionOnSet(cash, Runs) \in Int
  BY <1>1, ConstantsAssumption, SumIsInt
<1>3. Drawer = Cash - SumFunctionOnSet(cash, Runs)
  BY <1>1 DEF Drawer, cash
<1> QED BY <1>2, <1>3, ConstantsAssumption

(* A withdrawal takes out of the drawer what it adds to the cash paid. *)
LEMMA DrawerPays ==
  ASSUME TypeOK, NEW r \in Runs, NEW row \in [times : Nat, amount : Nat, cash : Nat],
         paid' = [paid EXCEPT ![r] = row]
  PROVE  Drawer' = Drawer - (row.cash - paid[r].cash)
<1> DEFINE f == [q \in DOMAIN paid |-> paid[q].cash]
           g == [q \in DOMAIN paid' |-> paid'[q].cash]
<1>0. IsFiniteSet(Runs) /\ Cash \in Int
  BY ConstantsAssumption
<1>1. paid \in [Runs -> [times : Nat, amount : Nat, cash : Nat]] /\ DOMAIN paid = Runs
  BY DEF TypeOK
<1>2. DOMAIN paid' = Runs /\ paid'[r] = row /\ \A q \in Runs \ {r} : paid'[q] = paid[q]
  BY <1>1
<1>3. /\ \A q \in Runs : f[q] = paid[q].cash /\ g[q] = paid'[q].cash
      /\ \A q \in Runs : paid[q].cash \in Int
  BY <1>1, <1>2
<1>4. row.cash \in Int
  OBVIOUS
<1>5. Drawer = Cash - SumFunctionOnSet(f, Runs) /\ Drawer' = Cash - SumFunctionOnSet(g, Runs)
  BY <1>1, <1>2 DEF Drawer
<1> HIDE DEF f, g
<1>6. \A q \in Runs : f[q] \in Int /\ g[q] \in Int
  BY <1>2, <1>3, <1>4
<1>7. \A q \in Runs \ {r} : f[q] = g[q]
  BY <1>2, <1>3
<1>8. SumFunctionOnSet(g, Runs) = SumFunctionOnSet(f, Runs) + (g[r] - f[r])
  BY <1>6, <1>7, <1>0, SumChanges
<1>9. SumFunctionOnSet(f, Runs) \in Int
  BY <1>6, <1>0, SumIsInt
<1>10. f[r] = paid[r].cash /\ g[r] = row.cash
  BY <1>2, <1>3
<1>11. f[r] \in Int /\ g[r] \in Int /\ Cash \in Int
  BY <1>6, <1>0
<1>12. Drawer' = Drawer - (g[r] - f[r])
  BY <1>5, <1>8, <1>9, <1>11
<1> QED BY <1>10, <1>12

----------------------------------------------------------------------------
(* What a step leaves alone                                                *)

(* The parts of the invariant over a step, pay runs and withdrawals being
   as they were, and no request having come to a step that matters. *)
SamePosts ==
  \A v \in Workers : At(v, "pay", "post")' => At(v, "pay", "post") /\ work'[v].run = work[v].run
SameDeletions ==
  \A v \in Workers : At(v, "delete", "write")' => At(v, "delete", "write") /\ work'[v].run = work[v].run
LEMMA BooksUnchanged ==
  ASSUME TypeOK, TypeOK', UNCHANGED <<payRun, paid>>, SalariesLeaveOnce, UnusedIsUnpaid
  PROVE  SalariesLeaveOnce' /\ UnusedIsUnpaid'
<1>1. DOMAIN work = Workers /\ DOMAIN work' = Workers
  BY DEF TypeOK
<1>2. PaidOnce'
  BY DEF SalariesLeaveOnce, PaidOnce, Stored, TotalNet
<1>3. DrawerCovers'
  BY DEF SalariesLeaveOnce, DrawerCovers, Drawer
<1>4. OneAtATime' => PaidStays'
  BY <1>1 DEF SalariesLeaveOnce, OneAtATime, PaidStays
<1>5. UnusedIsUnpaid'
  BY DEF UnusedIsUnpaid
<1> QED BY <1>2, <1>3, <1>4, <1>5 DEF SalariesLeaveOnce

LEMMA PostsKept ==
  ASSUME TypeOK, TypeOK', UNCHANGED payRun, SamePosts, ClaimsHold
  PROVE  ClaimsHold'
<1>1. DOMAIN work = Workers /\ DOMAIN work' = Workers
  BY DEF TypeOK
<1>2. SUFFICES ASSUME NEW w \in Workers, At(w, "pay", "post")'
               PROVE  /\ Claimable(work[w].run)'
                      /\ \A v \in Workers : At(v, "pay", "post")' /\ work'[v].run = work'[w].run => v = w
  BY <1>1 DEF ClaimsHold
<1>3. At(w, "pay", "post") /\ work'[w].run = work[w].run
  BY <1>2 DEF SamePosts
<1>4. Claimable(work[w].run)
  BY <1>1, <1>3 DEF ClaimsHold
<1>5. Claimable(work[w].run)'
  BY <1>3, <1>4 DEF Claimable, Stored
<1>6. ASSUME NEW v \in Workers, At(v, "pay", "post")', work'[v].run = work'[w].run
      PROVE  v = w
  <2>1. At(v, "pay", "post") /\ work'[v].run = work[v].run
    BY <1>6 DEF SamePosts
  <2> QED BY <1>1, <1>3, <1>6, <2>1 DEF ClaimsHold
<1> QED BY <1>5, <1>6

LEMMA DeletionsKept ==
  ASSUME TypeOK, TypeOK', UNCHANGED payRun, SameDeletions, DeletionsHold
  PROVE  DeletionsHold'
<1>1. DOMAIN work = Workers /\ DOMAIN work' = Workers
  BY DEF TypeOK
<1>2. SUFFICES ASSUME NEW w \in Workers, At(w, "delete", "write")'
               PROVE  /\ work'[w].run \in DOMAIN payRun' /\ payRun'[work'[w].run] # None
                      /\ OneAtATime' => Deletable(work[w].run)'
  BY <1>1 DEF DeletionsHold
<1>3. At(w, "delete", "write") /\ work'[w].run = work[w].run
  BY <1>2 DEF SameDeletions
<1>4. /\ work[w].run \in DOMAIN payRun /\ payRun[work[w].run] # None
      /\ OneAtATime => Deletable(work[w].run)
  BY <1>1, <1>3 DEF DeletionsHold
<1>5. OneAtATime' => OneAtATime
  BY <1>1 DEF OneAtATime
<1>6. Deletable(work[w].run) => Deletable(work[w].run)'
  BY <1>3 DEF Deletable, Stored
<1> QED BY <1>3, <1>4, <1>5, <1>6

(* A step that neither books nor comes to what matters keeps them all. *)
LEMMA QuietStep ==
  ASSUME PayrollInv, TypeOK', UNCHANGED <<payRun, paid>>, SamePosts, SameDeletions, CreationsHold'
  PROVE  PayrollInv'
BY BooksUnchanged, PostsKept, DeletionsKept DEF PayrollInv

(* So does one that only moves a request, to none of the steps that matter. *)
LEMMA QuietMove ==
  ASSUME PayrollInv, NEW w \in Workers, work[w] # None, NEW step \in Steps, Step(w, step),
         UNCHANGED <<server, page>>,
         <<work[w].kind, step>> \notin {<<"pay", "post">>, <<"delete", "write">>, <<"create", "write">>}
  PROVE  PayrollInv'
<1>1. TypeOK
  BY DEF PayrollInv
<1>2. TypeOK'
  BY <1>1, StepMoves DEF TypeOK, server, people
<1>3. UNCHANGED <<payRun, paid>>
  BY DEF server
<1>4. \A v \in Workers \ {w} : work'[v] = work[v]
  BY <1>1, StepMoves
<1>5. work'[w].kind = work[w].kind /\ work'[w].step = step
  BY <1>1, StepMoves
<1>6. SamePosts /\ SameDeletions
  BY <1>4, <1>5 DEF SamePosts, SameDeletions, At
<1>7. CreationsHold'
  <2>1. DOMAIN work = Workers /\ DOMAIN work' = Workers
    BY <1>1, <1>2 DEF TypeOK
  <2>2. work'[w].period = work[w].period
    BY <1>1, StepMoves
  <2> QED BY <1>4, <1>5, <2>1, <2>2 DEF PayrollInv, CreationsHold
<1> QED BY <1>2, <1>3, <1>6, <1>7, QuietStep

(* So does one on a page, that sends, drops or leaves behind a request. *)
LEMMA QuietPage ==
  ASSUME PayrollInv, UNCHANGED server,
         page' \in [Admins -> [rows : {None} \cup [Runs -> Statuses \cup {None}], dialog : Dialogs]],
         work' \in [Workers -> Requests \cup {None}],
         \A v \in Workers :
           \/ work'[v] = None
           \/ work'[v].step = "read" /\ (work'[v].kind = "create" => work'[v].period \in Periods)
           \/ /\ work[v] # None /\ work'[v].kind = work[v].kind /\ work'[v].step = work[v].step
              /\ work'[v].run = work[v].run /\ work'[v].net = work[v].net /\ work'[v].period = work[v].period
  PROVE  PayrollInv'
<1>1. TypeOK'
  BY DEF PayrollInv, TypeOK, server, people
<1>2. SamePosts /\ SameDeletions
  BY DEF SamePosts, SameDeletions, At
<1>3. UNCHANGED <<payRun, paid>>
  BY DEF server
<1>4. CreationsHold'
  <2>1. DOMAIN work = Workers /\ DOMAIN work' = Workers
    BY <1>1 DEF PayrollInv, TypeOK
  <2> QED BY <2>1 DEF PayrollInv, CreationsHold
<1> QED BY <1>1, <1>2, <1>3, <1>4, QuietStep

----------------------------------------------------------------------------
(* The server's steps                                                      *)

(* What a request at a step is. *)
LEMMA Requested ==
  ASSUME TypeOK, NEW w \in Workers, work[w] # None
  PROVE  work[w] \in Requests /\ DOMAIN work = Workers
BY DEF TypeOK

(* A payslip comes to no more than the salary. *)
LEMMA NetPayIsBounded ==
  ASSUME NEW e, NEW period, NEW typed, NetPay(e, period, typed) >= 0
  PROVE  NetPay(e, period, typed) \in 0..Gross
<1>1. LossOfPay(e, period, typed) \in {0, 1}
  BY DEF LossOfPay
<1> QED BY <1>1, ConstantsAssumption DEF NetPay

LEMMA CreateReadPreserves ==
  ASSUME PayrollInv, NEW w \in Workers, CreateRead(w)
  PROVE  PayrollInv'
<1> DEFINE r == work[w]
           period == r.period
           active == {e \in Employees : employee[e] = "active"}
           net == [e \in active |-> NetPay(e, period, r.typed)]
           refused == \/ \E q \in Stored : payRun[q].period = period
                      \/ active = {}
                      \/ \E e \in active : NetPay(e, period, r.typed) < 0
<1>1. TypeOK /\ r # None /\ r.kind = "create" /\ r.step = "read"
  BY DEF PayrollInv, CreateRead, At
<1>2. r \in Requests /\ DOMAIN work = Workers /\ work \in [Workers -> Requests \cup {None}]
  BY <1>1 DEF TypeOK
<1>3. CASE refused
  <2>1. Step(w, "refused") /\ UNCHANGED <<server, page>>
    BY <1>3 DEF CreateRead
  <2>2. "refused" \in Steps
    BY DEF Steps
  <2> HIDE DEF refused
  <2> QED BY <1>1, <2>1, <2>2, QuietMove
<1>4. CASE ~refused
  <2> DEFINE asked == Request(r.by, "create", r.run, "write", r.from, period, r.typed, r.account, net)
  <2>1. work' = [work EXCEPT ![w] = asked] /\ UNCHANGED <<server, page>>
    BY <1>4 DEF CreateRead
  <2>2. period \in Periods
    BY <1>1, <1>2 DEF PayrollInv, CreationsHold
  <2>3. net \in Nets
    <3>1. ASSUME NEW e \in active PROVE NetPay(e, period, r.typed) \in 0..Gross
      <4>1. ~(NetPay(e, period, r.typed) < 0)
        BY <1>4
      <4>2. NetPay(e, period, r.typed) \in Int
        <5>1. LossOfPay(e, period, r.typed) \in {0, 1}
          BY DEF LossOfPay
        <5> QED BY <5>1, ConstantsAssumption DEF NetPay
      <4>3. NetPay(e, period, r.typed) >= 0
        <5> HIDE DEF period, r
        <5> QED BY <4>1, <4>2
      <4> QED BY <4>3, NetPayIsBounded
    <3>2. active \in SUBSET Employees
      OBVIOUS
    <3> HIDE DEF active, period, r
    <3>3. net \in [active -> 0..Gross]
      BY <3>1
    <3> HIDE DEF net
    <3> QED BY <3>2, <3>3 DEF Nets
  <2>4. /\ asked \in Requests /\ asked.kind = "create" /\ asked.step = "write"
        /\ asked.period = period /\ asked.net = net
    <3> HIDE DEF net
    <3> QED BY <1>1, <1>2, <2>2, <2>3 DEF Requests, Request, Steps
  <2> HIDE DEF asked, net, active, refused
  <2>5. work'[w] = asked /\ \A v \in Workers \ {w} : work'[v] = work[v]
    BY <1>2, <2>1
  <2>6. TypeOK'
    BY <1>1, <2>1, <2>4 DEF TypeOK, server, people
  <2>7. SamePosts /\ SameDeletions
    BY <2>4, <2>5 DEF SamePosts, SameDeletions, At
  <2>8. CreationsHold'
    <3>1. DOMAIN work' = Workers
      BY <2>6 DEF TypeOK
    <3> QED BY <1>2, <2>2, <2>3, <2>4, <2>5, <3>1 DEF PayrollInv, CreationsHold
  <2>9. UNCHANGED <<payRun, paid>>
    BY <2>1 DEF server
  <2> QED BY <2>6, <2>7, <2>8, <2>9, QuietStep
<1> QED BY <1>3, <1>4

(* A request that looks at a pay run, or is refused. *)
LEMMA ReadsPreserve ==
  ASSUME PayrollInv, NEW w \in Workers, PayRead(w)
  PROVE  PayrollInv'
<1>1. work[w] # None /\ work[w].kind = "pay"
  BY DEF PayRead, At
<1>2. PICK step \in {"claim", "refused"} : Step(w, step) /\ UNCHANGED <<server, page>>
  BY DEF PayRead
<1>3. step \in Steps /\ step \notin {"post", "write"}
  BY DEF Steps
<1> QED BY <1>1, <1>2, <1>3, QuietMove

(* A claim is of a run that is approved, and no one else holds. *)
LEMMA PayClaimPreserves ==
  ASSUME PayrollInv, NEW w \in Workers, PayClaim(w)
  PROVE  PayrollInv'
<1>1. TypeOK /\ work[w] # None /\ work[w].kind = "pay" /\ ~Held(work[w].run) /\ UNCHANGED <<server, page>>
  BY DEF PayrollInv, PayClaim, At
<1>2. CASE ~Claimable(work[w].run)
  <2>1. Step(w, "refused") /\ "refused" \in Steps
    BY <1>2 DEF PayClaim, Steps
  <2> QED BY <1>1, <2>1, QuietMove
<1>3. CASE Claimable(work[w].run)
  <2>1. Step(w, "post") /\ "post" \in Steps
    BY <1>3 DEF PayClaim, Steps
  <2>2. /\ \A v \in Workers \ {w} : work'[v] = work[v]
        /\ work'[w].kind = "pay" /\ work'[w].step = "post" /\ work'[w].run = work[w].run
    BY <1>1, <2>1, StepMoves
  <2>3. TypeOK'
    BY <1>1, <2>1, StepMoves DEF TypeOK, server, people
  <2>4. UNCHANGED <<payRun, paid>>
    BY <1>1 DEF server
  <2>5. DOMAIN work = Workers /\ DOMAIN work' = Workers
    BY <1>1, <2>3 DEF TypeOK
  <2>6. ClaimsHold'
    <3>1. SUFFICES ASSUME NEW v \in Workers, At(v, "pay", "post")'
                   PROVE  /\ Claimable(work[v].run)'
                          /\ \A u \in Workers : At(u, "pay", "post")' /\ work'[u].run = work'[v].run => u = v
      BY <2>5 DEF ClaimsHold
    <3>2. \A u \in Workers \ {w} : At(u, "pay", "post")' => At(u, "pay", "post") /\ work'[u].run # work'[w].run
      BY <1>1, <2>2 DEF At, Held
    <3>3. CASE v = w
      <4>1. Claimable(work[v].run)'
        BY <1>3, <2>2, <2>4, <3>3 DEF Claimable, Stored
      <4> QED BY <3>2, <3>3, <4>1
    <3>4. CASE v # w
      <4>1. At(v, "pay", "post") /\ work'[v].run # work'[w].run /\ work'[v] = work[v]
        BY <2>2, <3>1, <3>2, <3>4
      <4>2. Claimable(work[v].run)
        BY <2>5, <4>1 DEF PayrollInv, ClaimsHold
      <4>3. Claimable(work[v].run)'
        BY <2>4, <4>1, <4>2 DEF Claimable, Stored
      <4>4. ASSUME NEW u \in Workers, At(u, "pay", "post")', work'[u].run = work'[v].run PROVE u = v
        <5>1. u # w
          BY <4>1, <4>4
        <5>2. At(u, "pay", "post") /\ work'[u] = work[u]
          BY <2>2, <3>2, <4>4, <5>1
        <5> QED BY <2>5, <4>1, <4>4, <5>2 DEF PayrollInv, ClaimsHold
      <4> QED BY <4>3, <4>4
    <3> QED BY <3>3, <3>4
  <2>7. SameDeletions
    BY <2>2 DEF SameDeletions, At
  <2>8. DeletionsHold' /\ SalariesLeaveOnce' /\ UnusedIsUnpaid'
    BY <1>1, <2>3, <2>4, <2>7, DeletionsKept, BooksUnchanged DEF PayrollInv
  <2>9. CreationsHold'
    BY <2>2, <2>5 DEF PayrollInv, CreationsHold
  <2> QED BY <2>3, <2>6, <2>8, <2>9 DEF PayrollInv
<1> QED BY <1>2, <1>3

(* What is about to be deleted was not paid when it was read. *)
LEMMA DeleteReadPreserves ==
  ASSUME PayrollInv, NEW w \in Workers, DeleteRead(w)
  PROVE  PayrollInv'
<1>1. TypeOK /\ work[w] # None /\ work[w].kind = "delete" /\ UNCHANGED <<server, page>>
  BY DEF PayrollInv, DeleteRead, At
<1>2. CASE ~Deletable(work[w].run)
  <2>1. Step(w, "refused") /\ "refused" \in Steps
    BY <1>2 DEF DeleteRead, Steps
  <2> QED BY <1>1, <2>1, QuietMove
<1>3. CASE Deletable(work[w].run)
  <2>1. Step(w, "write") /\ "write" \in Steps
    BY <1>3 DEF DeleteRead, Steps
  <2>2. /\ \A v \in Workers \ {w} : work'[v] = work[v]
        /\ work'[w].kind = "delete" /\ work'[w].step = "write" /\ work'[w].run = work[w].run
    BY <1>1, <2>1, StepMoves
  <2>3. TypeOK'
    BY <1>1, <2>1, StepMoves DEF TypeOK, server, people
  <2>4. UNCHANGED <<payRun, paid>>
    BY <1>1 DEF server
  <2>5. DOMAIN work = Workers /\ DOMAIN work' = Workers
    BY <1>1, <2>3 DEF TypeOK
  <2>6. SamePosts
    BY <2>2 DEF SamePosts, At
  <2>7. ClaimsHold' /\ SalariesLeaveOnce' /\ UnusedIsUnpaid'
    BY <1>1, <2>3, <2>4, <2>6, PostsKept, BooksUnchanged DEF PayrollInv
  <2>8. DeletionsHold'
    <3>1. SUFFICES ASSUME NEW v \in Workers, At(v, "delete", "write")'
                   PROVE  /\ work'[v].run \in DOMAIN payRun' /\ payRun'[work'[v].run] # None
                          /\ OneAtATime' => Deletable(work[v].run)'
      BY <2>5 DEF DeletionsHold
    <3>2. CASE v = w
      <4>1. Deletable(work[v].run)'
        BY <1>3, <2>2, <2>4, <3>2 DEF Deletable, Stored
      <4> QED BY <4>1 DEF Deletable, Stored
    <3>3. CASE v # w
      <4>1. At(v, "delete", "write") /\ work'[v] = work[v]
        BY <2>2, <3>1, <3>3 DEF At
      <4>2. ~OneAtATime'
        BY <2>5, <3>3 DEF OneAtATime
      <4> QED BY <2>4, <2>5, <4>1, <4>2 DEF PayrollInv, DeletionsHold
    <3> QED BY <3>2, <3>3
  <2>9. CreationsHold'
    BY <2>2, <2>5 DEF PayrollInv, CreationsHold
  <2> QED BY <2>3, <2>7, <2>8, <2>9 DEF PayrollInv
<1> QED BY <1>2, <1>3

(* A step that writes one pay run, which no other request holds, and ends
   its request, leaves the other requests what they rely on. *)
LEMMA OthersRely ==
  ASSUME PayrollInv, TypeOK', NEW w \in Workers, NEW r \in Runs,
         work[w] # None, work'[w].kind = work[w].kind, work'[w].period = work[w].period,
         work'[w].step = "done", \A v \in Workers \ {w} : work'[v] = work[v],
         payRun'[r] # None, \A q \in Runs \ {r} : payRun'[q] = payRun[q],
         \A v \in Workers \ {w} : At(v, "pay", "post") => work[v].run # r
  PROVE  ClaimsHold' /\ DeletionsHold' /\ CreationsHold'
<1>1. /\ DOMAIN work = Workers /\ DOMAIN work' = Workers
      /\ DOMAIN payRun = Runs /\ DOMAIN payRun' = Runs
  BY DEF PayrollInv, TypeOK
<1>2. ASSUME NEW v \in Workers, NEW kind, NEW step, step # "done", At(v, kind, step)'
      PROVE  v # w /\ At(v, kind, step) /\ work'[v] = work[v]
  <2>1. v # w
    BY <1>2 DEF At
  <2> QED BY <1>2, <2>1 DEF At
<1>3. ClaimsHold'
  <2>1. SUFFICES ASSUME NEW v \in Workers, At(v, "pay", "post")'
                 PROVE  /\ Claimable(work[v].run)'
                        /\ \A u \in Workers : At(u, "pay", "post")' /\ work'[u].run = work'[v].run => u = v
    BY <1>1 DEF ClaimsHold
  <2>2. v # w /\ At(v, "pay", "post") /\ work'[v] = work[v]
    BY <1>2, <2>1
  <2>3. work[v].run # r /\ Claimable(work[v].run)
    BY <1>1, <2>2 DEF PayrollInv, ClaimsHold
  <2>4. Claimable(work[v].run)'
    BY <1>1, <2>2, <2>3 DEF Claimable, Stored
  <2>5. ASSUME NEW u \in Workers, At(u, "pay", "post")', work'[u].run = work'[v].run PROVE u = v
    <3>1. At(u, "pay", "post") /\ work'[u] = work[u]
      BY <1>2, <2>5
    <3> QED BY <1>1, <2>2, <2>5, <3>1 DEF PayrollInv, ClaimsHold
  <2> QED BY <2>4, <2>5
<1>4. DeletionsHold'
  <2>1. SUFFICES ASSUME NEW v \in Workers, At(v, "delete", "write")'
                 PROVE  /\ work'[v].run \in DOMAIN payRun' /\ payRun'[work'[v].run] # None
                        /\ OneAtATime' => Deletable(work[v].run)'
    BY <1>1 DEF DeletionsHold
  <2>2. v # w /\ At(v, "delete", "write") /\ work'[v] = work[v]
    BY <1>2, <2>1
  <2>3. work[v].run \in Runs /\ payRun[work[v].run] # None
    BY <1>1, <2>2 DEF PayrollInv, DeletionsHold
  <2>4. ~OneAtATime'
    BY <1>1, <2>2 DEF OneAtATime
  <2> QED BY <1>1, <2>2, <2>3, <2>4
<1>5. CreationsHold'
  <2>1. SUFFICES ASSUME NEW v \in Workers, work'[v] # None, work'[v].kind = "create"
                 PROVE  work'[v].period \in Periods /\ (work'[v].step = "write" => work'[v].net \in Nets)
    BY <1>1 DEF CreationsHold
  <2>2. CASE v # w
    BY <1>1, <2>1, <2>2 DEF PayrollInv, CreationsHold
  <2>3. CASE v = w
    BY <1>1, <2>1, <2>3 DEF PayrollInv, CreationsHold
  <2> QED BY <2>2, <2>3
<1> QED BY <1>3, <1>4, <1>5

(* The pay run that is created has an id nothing was paid under. *)
LEMMA CreateWritePreserves ==
  ASSUME PayrollInv, NEW w \in Workers, CreateWrite(w)
  PROVE  PayrollInv'
<1> DEFINE period == work[w].period
           refused == \/ \E q \in Stored : payRun[q].period = period
                      \/ \E e \in DOMAIN work[w].net : employee[e] = "absent"
<1>1. TypeOK /\ work[w] # None /\ work[w].kind = "create" /\ work[w].step = "write" /\ UNCHANGED <<people, paid, page>>
  BY DEF PayrollInv, CreateWrite, At
<1>2. CASE refused /\ Step(w, "refused") /\ UNCHANGED payRun
  <2>1. "refused" \in Steps /\ UNCHANGED <<server, page>>
    BY <1>1, <1>2 DEF Steps, server, people
  <2> QED BY <1>1, <1>2, <2>1, QuietMove
<1>3. CASE /\ Step(w, "done")
           /\ \E r \in Unused :
                payRun' = [payRun EXCEPT ![r] = [period |-> period, status |-> "draft", net |-> work[w].net]]
  <2> DEFINE row == [period |-> period, status |-> "draft", net |-> work[w].net]
  <2>1. PICK r \in Unused : payRun' = [payRun EXCEPT ![r] = row]
    BY <1>3
  <2>2. DOMAIN work = Workers /\ payRun \in [Runs -> PayRuns \cup {None}] /\ r \in Runs /\ payRun[r] = None
    BY <1>1 DEF TypeOK, Unused
  <2>3. period \in Periods /\ work[w].net \in Nets
    BY <1>1, <2>2 DEF PayrollInv, CreationsHold
  <2>4. row \in PayRuns /\ row.status = "draft"
    BY <2>3 DEF PayRuns, Statuses
  <2> HIDE DEF row
  <2>5. row # None
    BY <2>4, ConstantsAssumption
  <2>6. /\ payRun' \in [Runs -> PayRuns \cup {None}] /\ payRun'[r] = row
        /\ \A q \in Runs \ {r} : payRun'[q] = payRun[q]
    BY <2>1, <2>2, <2>4
  <2>7. "done" \in Steps /\ Step(w, "done")
    BY <1>3 DEF Steps
  <2>8. /\ work' \in [Workers -> Requests \cup {None}] /\ work'[w].step = "done"
        /\ work'[w].kind = work[w].kind /\ work'[w].period = work[w].period
        /\ \A v \in Workers \ {w} : work'[v] = work[v]
    BY <1>1, <2>7, StepMoves
  <2>9. TypeOK'
    BY <1>1, <2>6, <2>8 DEF TypeOK, people
  <2>10. \A v \in Workers \ {w} : At(v, "pay", "post") => work[v].run # r
    BY <2>2 DEF PayrollInv, ClaimsHold, Claimable, Stored
  <2>11. ClaimsHold' /\ DeletionsHold' /\ CreationsHold'
    BY <1>1, <2>2, <2>5, <2>6, <2>8, <2>9, <2>10, OthersRely
  <2>12. paid[r] = Nothing /\ UNCHANGED paid
    BY <1>1, <2>2 DEF PayrollInv, UnusedIsUnpaid, TypeOK
  <2>13. DOMAIN payRun = Runs /\ DOMAIN payRun' = Runs /\ DOMAIN work' = Workers /\ DOMAIN paid = Runs
    BY <1>1, <2>6, <2>9 DEF TypeOK
  <2>14. PaidOnce'
    <3>1. SUFFICES ASSUME NEW q \in Stored'
                   PROVE  paid'[q] = [times |-> IF payRun'[q].status = "paid" THEN 1 ELSE 0,
                                      amount |-> IF payRun'[q].status = "paid" THEN TotalNet(q)' ELSE 0,
                                      cash |-> paid'[q].cash]
      BY DEF PaidOnce
    <3>2. CASE q = r
      BY <2>4, <2>6, <2>12, <3>2 DEF Nothing
    <3>3. CASE q # r
      <4>1. q \in Stored /\ payRun'[q] = payRun[q]
        BY <2>6, <2>13, <3>1, <3>3 DEF Stored
      <4>2. TotalNet(q)' = TotalNet(q)
        BY <4>1 DEF TotalNet
      <4> QED BY <2>12, <4>1, <4>2 DEF PayrollInv, SalariesLeaveOnce, PaidOnce
    <3> QED BY <3>2, <3>3
  <2>15. DrawerCovers'
    BY <2>12 DEF PayrollInv, SalariesLeaveOnce, DrawerCovers, Drawer
  <2>16. OneAtATime' => PaidStays'
    <3>1. OneAtATime' => PaidStays
      BY <2>2, <2>13 DEF PayrollInv, SalariesLeaveOnce, OneAtATime
    <3>2. ~(paid'[r].times > 0)
      BY <2>12 DEF Nothing
    <3> QED BY <2>6, <2>12, <2>13, <3>1, <3>2 DEF PaidStays
  <2>17. UnusedIsUnpaid'
    BY <2>5, <2>6, <2>12, <2>13 DEF PayrollInv, UnusedIsUnpaid
  <2> QED BY <2>9, <2>11, <2>14, <2>15, <2>16, <2>17 DEF PayrollInv, SalariesLeaveOnce
<1>4. \/ refused /\ Step(w, "refused") /\ UNCHANGED payRun
      \/ Step(w, "done") /\ \E r \in Unused :
           payRun' = [payRun EXCEPT ![r] = [period |-> period, status |-> "draft", net |-> work[w].net]]
  BY Zenon DEF CreateWrite
<1> QED BY <1>2, <1>3, <1>4

(* Approving or deleting a run that is not paid: an invariant about what was
   paid holds on, the other requests allowing for it. *)
LEMMA StatusStepPreserves ==
  ASSUME PayrollInv, NEW w \in Workers, work[w] # None, work[w].run \in Runs, payRun[work[w].run] # None,
         ~Held(work[w].run), Step(w, "done"), NEW status \in {"approved", "deleted"},
         payRun' = [payRun EXCEPT ![work[w].run].status = status], UNCHANGED <<people, paid, page>>,
         status = "approved" => Deletable(work[w].run),
         OneAtATime => Deletable(work[w].run)
  PROVE  PayrollInv'
<1> DEFINE r == work[w].run
<1>1. TypeOK
  BY DEF PayrollInv
<1>2. "done" \in Steps /\ status \in Statuses \cup {"deleted"}
  BY DEF Steps, Statuses
<1>3. /\ payRun' \in [Runs -> PayRuns \cup {None}] /\ payRun'[r] # None
      /\ payRun'[r].status = status /\ payRun'[r].net = payRun[r].net
      /\ \A q \in Runs \ {r} : payRun'[q] = payRun[q]
  BY <1>1, <1>2, StatusChanges
<1>4. /\ work' \in [Workers -> Requests \cup {None}] /\ work'[w].step = "done"
      /\ work'[w].kind = work[w].kind /\ work'[w].period = work[w].period
      /\ \A v \in Workers \ {w} : work'[v] = work[v]
  BY <1>1, <1>2, StepMoves
<1> HIDE DEF r
<1>5. TypeOK'
  BY <1>1, <1>3, <1>4 DEF TypeOK, people
<1>6. \A v \in Workers \ {w} : At(v, "pay", "post") => work[v].run # r
  BY DEF Held, r
<1>7. ClaimsHold' /\ DeletionsHold' /\ CreationsHold'
  BY <1>3, <1>4, <1>5, <1>6, OthersRely DEF r
<1>8. /\ DOMAIN payRun = Runs /\ DOMAIN payRun' = Runs /\ DOMAIN paid = Runs /\ UNCHANGED paid
      /\ DOMAIN work = Workers /\ DOMAIN work' = Workers /\ r \in Runs
  BY <1>1, <1>5 DEF TypeOK, r
<1>9. ASSUME Deletable(r) PROVE paid[r].times = 0 /\ paid[r].amount = 0
  <2>1. r \in Stored /\ payRun[r].status # "paid"
    BY <1>9 DEF Deletable
  <2>2. paid[r] = [times |-> 0, amount |-> 0, cash |-> paid[r].cash]
    BY <2>1 DEF PayrollInv, SalariesLeaveOnce, PaidOnce
  <2> QED BY <2>2
<1>10. PaidOnce'
  <2>1. SUFFICES ASSUME NEW q \in Stored'
                 PROVE  paid'[q] = [times |-> IF payRun'[q].status = "paid" THEN 1 ELSE 0,
                                    amount |-> IF payRun'[q].status = "paid" THEN TotalNet(q)' ELSE 0,
                                    cash |-> paid'[q].cash]
    BY DEF PaidOnce
  <2>2. CASE q = r
    <3>1. status = "approved"
      BY <1>3, <2>1, <2>2 DEF Stored
    <3>2. r \in Stored /\ payRun[r].status # "paid"
      BY <3>1 DEF Deletable, r
    <3>3. paid[r] = [times |-> 0, amount |-> 0, cash |-> paid[r].cash]
      BY <3>2 DEF PayrollInv, SalariesLeaveOnce, PaidOnce
    <3> QED BY <1>3, <1>8, <2>2, <3>1, <3>3
  <2>3. CASE q # r
    <3>1. q \in Stored /\ payRun'[q] = payRun[q]
      BY <1>3, <1>8, <2>1, <2>3 DEF Stored
    <3>2. TotalNet(q)' = TotalNet(q)
      BY <3>1 DEF TotalNet
    <3> QED BY <1>8, <3>1, <3>2 DEF PayrollInv, SalariesLeaveOnce, PaidOnce
  <2> QED BY <2>2, <2>3
<1>11. DrawerCovers'
  BY <1>8 DEF PayrollInv, SalariesLeaveOnce, DrawerCovers, Drawer
<1>12. OneAtATime' => PaidStays'
  <2>1. SUFFICES ASSUME OneAtATime' PROVE PaidStays'
    OBVIOUS
  <2>2. PaidStays /\ Deletable(r)
    BY <1>8, <2>1 DEF PayrollInv, SalariesLeaveOnce, OneAtATime, r
  <2>3. ~(paid[r].times > 0)
    BY <1>9, <2>2
  <2> QED BY <1>3, <1>8, <2>2, <2>3 DEF PaidStays
<1>13. UnusedIsUnpaid'
  BY <1>3, <1>8 DEF PayrollInv, UnusedIsUnpaid
<1> QED BY <1>5, <1>7, <1>10, <1>11, <1>12, <1>13 DEF PayrollInv, SalariesLeaveOnce

LEMMA ApprovePreserves ==
  ASSUME PayrollInv, NEW w \in Workers, Approve(w)
  PROVE  PayrollInv'
<1> DEFINE r == work[w].run
<1>1. TypeOK /\ work[w] # None /\ work[w].kind = "approve" /\ ~Held(r) /\ UNCHANGED <<people, paid, page>>
  BY DEF PayrollInv, Approve, At
<1>2. CASE r \in Stored /\ payRun[r].status = "draft"
  <2>1. payRun' = [payRun EXCEPT ![r].status = "approved"] /\ Step(w, "done")
    BY <1>2 DEF Approve
  <2>2. r \in Runs /\ payRun[r] # None /\ Deletable(r)
    BY <1>1, <1>2 DEF Stored, Deletable, TypeOK
  <2> QED BY <1>1, <2>1, <2>2, StatusStepPreserves
<1>3. CASE ~(r \in Stored /\ payRun[r].status = "draft")
  <2>1. Step(w, "refused") /\ UNCHANGED <<server, page>> /\ "refused" \in Steps
    BY <1>1, <1>3 DEF Approve, server, people, Steps
  <2> QED BY <1>1, <2>1, QuietMove
<1> QED BY <1>2, <1>3

LEMMA DeleteWritePreserves ==
  ASSUME PayrollInv, NEW w \in Workers, DeleteWrite(w)
  PROVE  PayrollInv'
<1> DEFINE r == work[w].run
<1>1. TypeOK /\ At(w, "delete", "write") /\ ~Held(r) /\ UNCHANGED <<people, paid, page>>
  BY DEF PayrollInv, DeleteWrite
<1>2. payRun' = [payRun EXCEPT ![r].status = "deleted"] /\ Step(w, "done") /\ work[w] # None
  BY <1>1 DEF DeleteWrite, At
<1>3. r \in Runs /\ payRun[r] # None /\ (OneAtATime => Deletable(r))
  BY <1>1 DEF PayrollInv, DeletionsHold, TypeOK
<1> QED BY <1>1, <1>2, <1>3, StatusStepPreserves

(* What is posted for a run that was claimed, and not paid before. *)
LEMMA PayPostPreserves ==
  ASSUME PayrollInv, NEW w \in Workers, PayPost(w)
  PROVE  PayrollInv'
<1> DEFINE r == work[w].run
           account == work[w].account
           total == TotalNet(r)
           drawn == IF account = "cash" THEN total ELSE 0
           row == [times |-> paid[r].times + 1, amount |-> paid[r].amount + total, cash |-> paid[r].cash + drawn]
<1>1. TypeOK /\ At(w, "pay", "post") /\ work[w] # None /\ UNCHANGED <<people, page>>
  BY DEF PayrollInv, PayPost, At
<1>2. /\ DOMAIN work = Workers /\ DOMAIN payRun = Runs /\ DOMAIN paid = Runs
      /\ paid \in [Runs -> [times : Nat, amount : Nat, cash : Nat]]
  BY <1>1 DEF TypeOK
<1>3. r \in Stored /\ payRun[r].status = "approved"
  BY <1>1, <1>2 DEF PayrollInv, ClaimsHold, Claimable
<1>4. \A v \in Workers \ {w} : At(v, "pay", "post") => work[v].run # r
  BY <1>1, <1>2 DEF PayrollInv, ClaimsHold
<1>5. r \in Runs /\ payRun[r] # None
  BY <1>2, <1>3 DEF Stored
<1>6. CASE ~Covers(account, total)
  <2>1. Step(w, "refused") /\ "refused" \in Steps /\ UNCHANGED <<server, page>>
    BY <1>1, <1>6 DEF PayPost, server, people, Steps
  <2> QED BY <1>1, <2>1, QuietMove
<1>7. CASE Covers(account, total)
  <2>1. /\ payRun' = [payRun EXCEPT ![r].status = "paid"] /\ Step(w, "done")
        /\ paid' = [paid EXCEPT ![r] = row]
    BY <1>7 DEF PayPost
  <2>2. "done" \in Steps /\ "paid" \in Statuses \cup {"deleted"}
    BY DEF Steps, Statuses
  <2>3. /\ payRun' \in [Runs -> PayRuns \cup {None}] /\ payRun'[r] # None
        /\ payRun'[r].status = "paid" /\ payRun'[r].net = payRun[r].net
        /\ \A q \in Runs \ {r} : payRun'[q] = payRun[q]
    BY <1>1, <1>5, <2>1, <2>2, StatusChanges
  <2>4. /\ work' \in [Workers -> Requests \cup {None}] /\ work'[w].step = "done"
        /\ work'[w].kind = work[w].kind /\ work'[w].period = work[w].period
        /\ \A v \in Workers \ {w} : work'[v] = work[v]
    BY <1>1, <2>1, <2>2, StepMoves
  <2>5. total \in Nat /\ drawn \in Nat
    <3>1. total \in Nat
      BY <1>1, <1>5, TotalNetIsNat
    <3> HIDE DEF total
    <3> QED BY <3>1
  <2>6. /\ row \in [times : Nat, amount : Nat, cash : Nat] /\ row.cash = paid[r].cash + drawn
        /\ row.times = paid[r].times + 1 /\ row.amount = paid[r].amount + total
    <3>1. paid[r].times \in Nat /\ paid[r].amount \in Nat /\ paid[r].cash \in Nat
      BY <1>2, <1>5
    <3> HIDE DEF total, drawn, r
    <3> QED BY <2>5, <3>1
  <2>7. paid[r].times = 0 /\ paid[r].amount = 0
    <3> HIDE DEF r
    <3>1. paid[r] = [times |-> 0, amount |-> 0, cash |-> paid[r].cash]
      BY <1>3 DEF PayrollInv, SalariesLeaveOnce, PaidOnce
    <3> QED BY <3>1
  <2>8. SumFunctionOnSet(payRun'[r].net, DOMAIN payRun'[r].net) = total
    BY <2>3 DEF TotalNet
  <2>9. Drawer >= drawn
    <3>1. Drawer \in Int /\ Drawer >= 0
      BY <1>1, DrawerIsInt DEF PayrollInv, SalariesLeaveOnce, DrawerCovers
    <3>2. account # "cash" \/ Drawer >= total
      BY <1>7 DEF Covers
    <3> HIDE DEF total, account
    <3> QED BY <3>1, <3>2, <2>5
  <2> HIDE DEF row, total, drawn, account, r
  <2>10. paid' \in [Runs -> [times : Nat, amount : Nat, cash : Nat]] /\ paid'[r] = row
         /\ \A q \in Runs \ {r} : paid'[q] = paid[q]
    BY <1>2, <1>5, <2>1, <2>6
  <2>11. TypeOK'
    BY <1>1, <2>3, <2>4, <2>10 DEF TypeOK, people
  <2>12. ClaimsHold' /\ DeletionsHold' /\ CreationsHold'
    BY <1>1, <1>4, <1>5, <2>3, <2>4, <2>11, OthersRely
  <2>13. DOMAIN payRun' = Runs /\ DOMAIN paid' = Runs /\ DOMAIN work' = Workers
    BY <2>11 DEF TypeOK
  <2>14. PaidOnce'
    <3>1. SUFFICES ASSUME NEW q \in Stored'
                   PROVE  paid'[q] = [times |-> IF payRun'[q].status = "paid" THEN 1 ELSE 0,
                                      amount |-> IF payRun'[q].status = "paid" THEN TotalNet(q)' ELSE 0,
                                      cash |-> paid'[q].cash]
      BY DEF PaidOnce
    <3>2. CASE q = r
      <4>1. paid'[r] = [times |-> 1, amount |-> total, cash |-> paid'[r].cash]
        BY <2>5, <2>6, <2>7, <2>10
      <4>2. TotalNet(q)' = total
        BY <2>8, <3>2 DEF TotalNet
      <4> QED BY <2>3, <3>2, <4>1, <4>2
    <3>3. CASE q # r
      <4>1. q \in Stored /\ payRun'[q] = payRun[q] /\ paid'[q] = paid[q]
        BY <1>2, <2>3, <2>10, <2>13, <3>1, <3>3 DEF Stored
      <4>2. TotalNet(q)' = TotalNet(q)
        BY <4>1 DEF TotalNet
      <4> QED BY <4>1, <4>2 DEF PayrollInv, SalariesLeaveOnce, PaidOnce
    <3> QED BY <3>2, <3>3
  <2>15. DrawerCovers'
    <3>1. Drawer' = Drawer - (row.cash - paid[r].cash)
      BY <1>1, <1>5, <2>1, <2>6, DrawerPays
    <3>2. row.cash - paid[r].cash = drawn
      BY <1>2, <1>5, <2>5, <2>6
    <3>3. Drawer \in Int
      BY <1>1, DrawerIsInt
    <3> QED BY <2>5, <2>9, <3>1, <3>2, <3>3 DEF DrawerCovers
  <2>16. OneAtATime' => PaidStays'
    <3>1. OneAtATime' => PaidStays
      BY <1>2, <2>13 DEF PayrollInv, SalariesLeaveOnce, OneAtATime
    <3> QED BY <1>2, <2>3, <2>10, <2>13, <3>1 DEF PaidStays
  <2>17. UnusedIsUnpaid'
    BY <1>2, <2>3, <2>10, <2>13 DEF PayrollInv, UnusedIsUnpaid
  <2> QED BY <2>11, <2>12, <2>14, <2>15, <2>16, <2>17 DEF PayrollInv, SalariesLeaveOnce
<1> QED BY <1>6, <1>7

----------------------------------------------------------------------------
(* Employees, and the pages                                                *)

(* Employees come and go and take leave: pay runs and requests stay. *)
LEMMA PeoplePreserve ==
  ASSUME PayrollInv, UNCHANGED <<payRun, paid, work, page>>,
         employee' \in [Employees -> {"absent", "active", "inactive"}], leave' \subseteq Employees \X Periods
  PROVE  PayrollInv'
<1>1. TypeOK'
  BY DEF PayrollInv, TypeOK
<1>2. SamePosts /\ SameDeletions
  BY DEF SamePosts, SameDeletions, At
<1>3. CreationsHold'
  BY DEF PayrollInv, CreationsHold
<1> QED BY <1>1, <1>2, <1>3, QuietStep

LEMMA EmployPreserves ==
  ASSUME PayrollInv, NEW e \in Employees, Employ(e) \/ Dismiss(e) \/ \E p \in Periods : RecordOrRemoveLeave(e, p)
  PROVE  PayrollInv'
<1>1. employee \in [Employees -> {"absent", "active", "inactive"}] /\ leave \subseteq Employees \X Periods
  BY DEF PayrollInv, TypeOK
<1>2. UNCHANGED <<payRun, paid, work, page>>
  BY DEF Employ, Dismiss, RecordOrRemoveLeave
<1>3. employee' \in [Employees -> {"absent", "active", "inactive"}]
  BY <1>1 DEF Employ, Dismiss, RecordOrRemoveLeave
<1>4. leave' \subseteq Employees \X Periods
  <2>1. CASE Employ(e)
    BY <1>1, <2>1 DEF Employ
  <2>2. CASE Dismiss(e)
    <3>1. leave' = leave \/ leave' = {l \in leave : l[1] # e}
      BY <2>2 DEF Dismiss
    <3> QED BY <1>1, <3>1
  <2>3. CASE \E p \in Periods : RecordOrRemoveLeave(e, p)
    <3>1. PICK p \in Periods : leave' = leave \ {<<e, p>>} \/ leave' = leave \cup {<<e, p>>}
      BY <2>3 DEF RecordOrRemoveLeave
    <3> QED BY <1>1, <3>1
  <2> QED BY <2>1, <2>2, <2>3
<1> QED BY <1>2, <1>3, <1>4, PeoplePreserve

(* A page that loads, or opens or closes a dialog, or both. *)
LEMMA PageIsTyped ==
  ASSUME TypeOK, NEW a \in Admins,
         NEW rows \in {None} \cup [Runs -> Statuses \cup {None}], NEW dialog \in Dialogs,
         \/ page' = [page EXCEPT ![a] = [rows |-> rows, dialog |-> dialog]]
         \/ page' = [page EXCEPT ![a].rows = rows]
         \/ page' = [page EXCEPT ![a].dialog = dialog]
  PROVE  page' \in [Admins -> [rows : {None} \cup [Runs -> Statuses \cup {None}], dialog : Dialogs]]
<1> DEFINE Pages == [rows : {None} \cup [Runs -> Statuses \cup {None}], dialog : Dialogs]
           shown == [page[a] EXCEPT !.rows = rows]
           asked == [page[a] EXCEPT !.dialog = dialog]
           both == [rows |-> rows, dialog |-> dialog]
<1>1. page[a] \in Pages /\ page \in [Admins -> Pages]
  BY DEF TypeOK
<1>2. shown \in Pages /\ asked \in Pages /\ both \in Pages
  BY <1>1
<1>3. \/ page' = [page EXCEPT ![a] = both]
      \/ page' = [page EXCEPT ![a] = shown]
      \/ page' = [page EXCEPT ![a] = asked]
  OBVIOUS
<1>4. page' \in [Admins -> Pages]
  <2> HIDE DEF shown, asked, both, Pages
  <2> QED BY <1>1, <1>2, <1>3
<1> QED BY <1>4

(* What a page shows is typed, and so is what it is given to show. *)
LEMMA PageHolds ==
  ASSUME TypeOK, NEW a \in Admins
  PROVE  /\ page[a].rows \in {None} \cup [Runs -> Statuses \cup {None}]
         /\ page[a].dialog \in Dialogs /\ NoDialog \in Dialogs
         /\ Listed \in [Runs -> Statuses \cup {None}]
<1>1. NoDialog \in Dialogs
  BY DEF NoDialog, Dialogs
<1>2. page[a] \in [rows : {None} \cup [Runs -> Statuses \cup {None}], dialog : Dialogs]
  BY DEF TypeOK
<1>3. Listed \in [Runs -> Statuses \cup {None}]
  <2> SUFFICES ASSUME NEW r \in Runs, r \in Stored PROVE payRun[r].status \in Statuses
    BY DEF Listed
  <2>1. payRun[r] \in PayRuns /\ payRun[r].status # "deleted"
    BY DEF Stored, TypeOK
  <2> QED BY <2>1 DEF PayRuns
<1> QED BY <1>1, <1>2, <1>3

(* What is left behind keeps all but where its answer goes. *)
LEMMA LeavingKeeps ==
  ASSUME TypeOK, NEW a, NEW from, NEW to \in {"page", "form", "closed", "gone"}, work' = Leaving(a, from, to)
  PROVE  /\ work' \in [Workers -> Requests \cup {None}]
         /\ \A v \in Workers :
              \/ work'[v] = None
              \/ /\ work[v] # None /\ work'[v].kind = work[v].kind /\ work'[v].step = work[v].step
                 /\ work'[v].run = work[v].run /\ work'[v].net = work[v].net /\ work'[v].period = work[v].period
<1>1. ASSUME NEW v \in Workers
      PROVE  /\ work'[v] \in Requests \cup {None}
             /\ \/ work'[v] = None
                \/ /\ work[v] # None /\ work'[v].kind = work[v].kind /\ work'[v].step = work[v].step
                   /\ work'[v].run = work[v].run /\ work'[v].net = work[v].net /\ work'[v].period = work[v].period
  <2> DEFINE left == [work[v] EXCEPT !.from = to]
  <2>1. work[v] \in Requests \cup {None} /\ (v \in Mine(a) => work[v] # None)
    BY DEF TypeOK, Mine
  <2>2. work[v] \in Requests =>
          /\ left \in Requests /\ left.kind = work[v].kind /\ left.step = work[v].step
          /\ left.run = work[v].run /\ left.net = work[v].net /\ left.period = work[v].period
    BY DEF Requests
  <2>3. work'[v] = IF v \in Mine(a) /\ work[v].from \in from THEN left ELSE work[v]
    BY DEF Leaving
  <2> HIDE DEF left
  <2> QED BY <2>1, <2>2, <2>3
<1>2. work' = [v \in Workers |-> work'[v]]
  BY DEF Leaving
<1> QED BY <1>1, <1>2

LEMMA LoadPreserves ==
  ASSUME PayrollInv, NEW a \in Admins, Load(a)
  PROVE  PayrollInv'
<1>1. TypeOK /\ UNCHANGED <<server, work>> /\ page' = [page EXCEPT ![a].rows = Listed]
  BY DEF PayrollInv, Load
<1>2. page[a].dialog \in Dialogs /\ Listed \in [Runs -> Statuses \cup {None}]
  BY <1>1, PageHolds
<1>3. page' \in [Admins -> [rows : {None} \cup [Runs -> Statuses \cup {None}], dialog : Dialogs]]
  BY <1>1, <1>2, PageIsTyped
<1>4. work' \in [Workers -> Requests \cup {None}] /\ UNCHANGED work
  BY <1>1 DEF TypeOK
<1> QED BY <1>1, <1>3, <1>4, QuietPage

LEMMA SwitchTabPreserves ==
  ASSUME PayrollInv, NEW a \in Admins, SwitchTab(a)
  PROVE  PayrollInv'
<1>1. TypeOK /\ UNCHANGED server /\ page' = [page EXCEPT ![a] = [rows |-> None, dialog |-> NoDialog]]
  BY DEF PayrollInv, SwitchTab, Reload
<1>2. page' \in [Admins -> [rows : {None} \cup [Runs -> Statuses \cup {None}], dialog : Dialogs]]
  BY <1>1, PageHolds, PageIsTyped
<1>3. work' = Leaving(a, {"page", "form", "closed"}, "gone")
  BY DEF SwitchTab
<1>4. "gone" \in {"page", "form", "closed", "gone"}
  OBVIOUS
<1> QED BY <1>1, <1>2, <1>3, <1>4, LeavingKeeps, QuietPage

LEMMA OpenDialogPreserves ==
  ASSUME PayrollInv, NEW a \in Admins, NEW kind \in Kinds, NEW r \in Runs \cup {None}, OpenDialog(a, kind, r)
  PROVE  PayrollInv'
<1> DEFINE dialog == [kind |-> kind, run |-> r]
<1>1. TypeOK /\ UNCHANGED <<server, work>> /\ page' = [page EXCEPT ![a].dialog = dialog] /\ dialog \in Dialogs
  BY DEF PayrollInv, OpenDialog, Dialogs
<1> HIDE DEF dialog
<1>2. page' \in [Admins -> [rows : {None} \cup [Runs -> Statuses \cup {None}], dialog : Dialogs]]
  BY <1>1, PageHolds, PageIsTyped
<1>3. work' \in [Workers -> Requests \cup {None}] /\ UNCHANGED work
  BY <1>1 DEF TypeOK
<1> QED BY <1>1, <1>2, <1>3, QuietPage

LEMMA CloseDialogPreserves ==
  ASSUME PayrollInv, NEW a \in Admins, CloseDialog(a)
  PROVE  PayrollInv'
<1>1. TypeOK /\ UNCHANGED server /\ page' = [page EXCEPT ![a].dialog = NoDialog]
  BY DEF PayrollInv, CloseDialog
<1>2. page' \in [Admins -> [rows : {None} \cup [Runs -> Statuses \cup {None}], dialog : Dialogs]]
  BY <1>1, PageHolds, PageIsTyped
<1>3. work' = Leaving(a, {"form"}, "closed")
  BY DEF CloseDialog
<1>4. "closed" \in {"page", "form", "closed", "gone"}
  OBVIOUS
<1> QED BY <1>1, <1>2, <1>3, <1>4, LeavingKeeps, QuietPage

(* Whatever is sent begins by reading; what is sent to create has its period. *)
LEMMA SendPreserves ==
  ASSUME PayrollInv, NEW a \in Admins, NEW w \in Workers, NEW period \in Periods \cup {None},
         NEW typed \in SUBSET Employees, NEW account \in Accounts \cup {None},
         page[a].dialog.kind = "create" => period \in Periods, Send(a, w, period, typed, account)
  PROVE  PayrollInv'
<1> DEFINE kind == page[a].dialog.kind
           from == IF kind \in {"approve", "delete"} THEN "page" ELSE "form"
           asked == Request(a, kind, page[a].dialog.run, "read", from, period, typed, account, None)
<1>1. TypeOK /\ UNCHANGED <<server, page>> /\ work' = [work EXCEPT ![w] = asked]
  BY DEF PayrollInv, Send
<1>2. kind \in Kinds \cup {None} /\ page[a].dialog.run \in Runs \cup {None}
  BY <1>1, PageHolds DEF Dialogs
<1>3. from \in {"page", "form", "closed", "gone"}
  OBVIOUS
<1>4. asked \in Requests /\ asked.step = "read" /\ (asked.kind = "create" => asked.period \in Periods)
  <2>1. kind = "create" => period \in Periods
    OBVIOUS
  <2> HIDE DEF kind, from
  <2> QED BY <1>2, <1>3, <2>1 DEF Requests, Request, Steps
<1> HIDE DEF asked
<1>5. /\ work' \in [Workers -> Requests \cup {None}] /\ work'[w] = asked
      /\ \A v \in Workers \ {w} : work'[v] = work[v]
  BY <1>1, <1>4 DEF TypeOK
<1>6. page' \in [Admins -> [rows : {None} \cup [Runs -> Statuses \cup {None}], dialog : Dialogs]]
  BY <1>1 DEF TypeOK
<1>7. \A v \in Workers :
        \/ work'[v] = None
        \/ work'[v].step = "read" /\ (work'[v].kind = "create" => work'[v].period \in Periods)
        \/ /\ work[v] # None /\ work'[v].kind = work[v].kind /\ work'[v].step = work[v].step
           /\ work'[v].run = work[v].run /\ work'[v].net = work[v].net /\ work'[v].period = work[v].period
  BY <1>4, <1>5
<1> QED BY <1>1, <1>5, <1>6, <1>7, QuietPage

LEMMA SubmitPreserves ==
  ASSUME PayrollInv, NEW a \in Admins, NEW w \in Workers, Confirm(a, w) \/ SubmitPayment(a, w) \/ SubmitRun(a, w)
  PROVE  PayrollInv'
<1>1. CASE Confirm(a, w)
  <2>1. page[a].dialog.kind # "create" /\ Send(a, w, None, {}, None)
    BY <1>1 DEF Confirm
  <2> QED BY <2>1, SendPreserves
<1>2. CASE SubmitPayment(a, w)
  <2>1. page[a].dialog.kind = "pay"
    BY <1>2 DEF SubmitPayment
  <2>2. PICK account \in Accounts : Send(a, w, None, {}, account)
    BY <1>2 DEF SubmitPayment
  <2> QED BY <2>1, <2>2, SendPreserves
<1>3. CASE SubmitRun(a, w)
  <2>1. PICK period \in Periods, typed \in SUBSET Employees : Send(a, w, period, typed, None)
    BY <1>3 DEF SubmitRun
  <2> QED BY <2>1, SendPreserves
<1> QED BY <1>1, <1>2, <1>3

LEMMA AnsweredPreserves ==
  ASSUME PayrollInv, NEW w \in Workers, NEW lost \in BOOLEAN, Answered(w, lost)
  PROVE  PayrollInv'
<1> DEFINE a == work[w].by
           dialog == IF page[a].dialog.kind = work[w].kind THEN NoDialog ELSE page[a].dialog
<1>1. /\ TypeOK /\ UNCHANGED server /\ work[w] # None /\ work' = [work EXCEPT ![w] = None]
      /\ page' = [page EXCEPT ![a] = [rows |-> None, dialog |-> dialog]] \/ page' = page
  BY DEF PayrollInv, Answered, Reload
<1>2. a \in Admins
  BY <1>1, Requested DEF Requests
<1>3. dialog \in Dialogs
  BY <1>1, <1>2, PageHolds
<1> HIDE DEF a, dialog
<1>4. page' \in [Admins -> [rows : {None} \cup [Runs -> Statuses \cup {None}], dialog : Dialogs]]
  <2>1. CASE page' = page
    BY <1>1, <2>1 DEF TypeOK
  <2>2. CASE page' = [page EXCEPT ![a] = [rows |-> None, dialog |-> dialog]]
    BY <1>1, <1>2, <1>3, <2>2, PageIsTyped
  <2> QED BY <1>1, <2>1, <2>2
<1>5. work' \in [Workers -> Requests \cup {None}] /\ \A v \in Workers : work'[v] = None \/ work'[v] = work[v]
  BY <1>1 DEF TypeOK
<1>6. \A v \in Workers :
        \/ work'[v] = None
        \/ work'[v].step = "read" /\ (work'[v].kind = "create" => work'[v].period \in Periods)
        \/ /\ work[v] # None /\ work'[v].kind = work[v].kind /\ work'[v].step = work[v].step
           /\ work'[v].run = work[v].run /\ work'[v].net = work[v].net /\ work'[v].period = work[v].period
  BY <1>5
<1> QED BY <1>1, <1>4, <1>5, <1>6, QuietPage

----------------------------------------------------------------------------
(* The theorems                                                            *)

LEMMA InitHolds == Init => PayrollInv
<1> SUFFICES ASSUME Init PROVE PayrollInv
  OBVIOUS
<1>1. TypeOK
  BY DEF Init, TypeOK, Nothing, NoDialog, Dialogs
<1>2. Stored = {} /\ \A r \in Runs : paid[r] = Nothing
  BY DEF Init, Stored
<1>3. DrawerCovers
  <2> DEFINE cash == [r \in DOMAIN paid |-> paid[r].cash]
  <2>1. DOMAIN paid = Runs /\ \A r \in Runs : cash[r] = 0
    BY DEF Init, Nothing
  <2> HIDE DEF cash
  <2>2. SumFunctionOnSet(cash, Runs) = 0
    BY <2>1, ConstantsAssumption, SumOfZeros
  <2>3. Drawer = Cash - 0
    BY <2>1, <2>2 DEF Drawer, cash
  <2> QED BY <2>3, ConstantsAssumption DEF DrawerCovers
<1>4. SalariesLeaveOnce
  BY <1>1, <1>2, <1>3 DEF SalariesLeaveOnce, PaidOnce, PaidStays, TypeOK, Nothing
<1>5. UnusedIsUnpaid
  BY <1>1, <1>2 DEF UnusedIsUnpaid, TypeOK
<1>6. ClaimsHold /\ DeletionsHold /\ CreationsHold
  BY DEF Init, ClaimsHold, DeletionsHold, CreationsHold, At
<1> QED BY <1>1, <1>4, <1>5, <1>6 DEF PayrollInv

LEMMA NextPreserves == PayrollInv /\ [Next]_vars => PayrollInv'
<1> SUFFICES ASSUME PayrollInv, [Next]_vars PROVE PayrollInv'
  OBVIOUS
<1>1. CASE \E w \in Workers : Handle(w) \/ \E lost \in BOOLEAN : Answered(w, lost)
  <2>1. PICK w \in Workers : Handle(w) \/ \E lost \in BOOLEAN : Answered(w, lost)
    BY <1>1
  <2>2. CASE \E lost \in BOOLEAN : Answered(w, lost)
    BY <2>2, AnsweredPreserves
  <2>3. CASE Handle(w)
    BY <2>3, CreateReadPreserves, CreateWritePreserves, ApprovePreserves, ReadsPreserve, PayClaimPreserves,
       PayPostPreserves, DeleteReadPreserves, DeleteWritePreserves DEF Handle
  <2> QED BY <2>1, <2>2, <2>3
<1>2. CASE \E a \in Admins :
             \/ Load(a) \/ SwitchTab(a) \/ CloseDialog(a)
             \/ \E kind \in Kinds, r \in Runs \cup {None} : OpenDialog(a, kind, r)
             \/ \E w \in Workers : Confirm(a, w) \/ SubmitPayment(a, w) \/ SubmitRun(a, w)
  BY <1>2, LoadPreserves, SwitchTabPreserves, CloseDialogPreserves, OpenDialogPreserves, SubmitPreserves
<1>3. CASE \E e \in Employees : Employ(e) \/ Dismiss(e) \/ \E p \in Periods : RecordOrRemoveLeave(e, p)
  BY <1>3, EmployPreserves
<1>4. CASE UNCHANGED vars
  <2>1. TypeOK' /\ UNCHANGED <<payRun, paid>>
    BY <1>4 DEF vars, PayrollInv, TypeOK
  <2>2. SamePosts /\ SameDeletions /\ CreationsHold'
    BY <1>4 DEF vars, PayrollInv, SamePosts, SameDeletions, CreationsHold, At
  <2> QED BY <2>1, <2>2, QuietStep
<1> QED BY <1>1, <1>2, <1>3, <1>4 DEF Next

(* The invariant that keeps payroll right holds throughout: types; whoever
   is about to post holds an approved run alone; nothing was paid for a run
   there is not; and so on (payroll.py). *)
THEOREM PayrollInvariant == Spec => []PayrollInv
BY InitHolds, NextPreserves, PTL DEF Spec

(* However requests overlap and answers are lost, what a paid run's
   salaries come to left an account once, the drawer covers what was taken
   from it, and one request at a time a paid run stays (payroll.py:
   pay_pay_run, delete_pay_run; bank.py: check_cash_overdraft). *)
THEOREM SalariesAreSafe == Spec => []SalariesLeaveOnce
<1>1. PayrollInv => SalariesLeaveOnce
  BY DEF PayrollInv
<1> QED BY <1>1, PayrollInvariant, PTL

----------------------------------------------------------------------------
(* One administrator, who waits                                            *)

\* What the list shows is, of what is stored, the pay runs.
LEMMA ListedStays ==
  ASSUME UNCHANGED payRun
  PROVE  Listed' = Listed
BY DEF Listed, Stored

LEMMA RequestMoves ==
  ASSUME TypeOK, NEW w \in Workers, work[w] # None, NEW step \in Steps, Step(w, step)
  PROVE  /\ work'[w] # None /\ work'[w].step = step /\ work'[w].by = work[w].by /\ work'[w].from = work[w].from
         /\ \A v \in Workers \ {w} : work'[v] = work[v]
<1> DEFINE moved == [work[w] EXCEPT !.step = step]
<1>1. work[w] \in Requests /\ work \in [Workers -> Requests \cup {None}]
  BY DEF TypeOK
<1>2. moved \in Requests /\ moved.step = step /\ moved.by = work[w].by /\ moved.from = work[w].from
  BY <1>1 DEF Requests
<1>3. work' = [work EXCEPT ![w] = moved]
  BY DEF Step
<1> HIDE DEF moved
<1> QED BY <1>1, <1>2, <1>3, ConstantsAssumption

(* A request that is handled changes what is stored only in the step that  *)
(* is its last, and stays of the page that waits for it.                   *)
LEMMA HandleMoves ==
  ASSUME PayrollInv, NEW w \in Workers, Handle(w)
  PROVE  /\ work[w] # None /\ work[w].step # "done"
         /\ work'[w].by = work[w].by /\ work'[w].from = work[w].from
         /\ \A v \in Workers \ {w} : work'[v] = work[v]
         /\ payRun' = payRun \/ (work'[w] # None /\ work'[w].step = "done")
         /\ UNCHANGED page
<1>1. TypeOK
  BY DEF PayrollInv
<1>2. work[w] # None /\ work[w].step # "done" /\ UNCHANGED page
  BY DEF Handle, CreateRead, CreateWrite, Approve, PayRead, PayClaim, PayPost, DeleteRead, DeleteWrite, At
<1>3. CASE \E step \in Steps : Step(w, step) /\ (payRun' = payRun \/ step = "done")
  BY <1>1, <1>2, <1>3, RequestMoves
<1>4. CASE CreateRead(w)
  <2>1. CASE Step(w, "refused")
    BY <1>3, <1>4, <2>1 DEF CreateRead, server, Steps
  <2>2. CASE ~Step(w, "refused")
    <3> DEFINE active == {e \in Employees : employee[e] = "active"}
               net == [e \in active |-> NetPay(e, work[w].period, work[w].typed)]
               asked == Request(work[w].by, "create", work[w].run, "write", work[w].from, work[w].period, work[w].typed,
                                work[w].account, net)
    <3>1. work' = [work EXCEPT ![w] = asked] /\ payRun' = payRun
      BY <1>4, <2>2 DEF CreateRead, server
    <3>2. asked.by = work[w].by /\ asked.from = work[w].from /\ asked.step = "write"
      BY DEF Request
    <3> HIDE DEF asked
    <3> QED BY <1>1, <1>2, <3>1, <3>2 DEF TypeOK
  <2> QED BY <2>1, <2>2
<1>5. CASE CreateWrite(w) \/ Approve(w) \/ PayRead(w) \/ PayClaim(w) \/ PayPost(w) \/ DeleteRead(w) \/ DeleteWrite(w)
  BY <1>3, <1>5 DEF CreateWrite, Approve, PayRead, PayClaim, PayPost, DeleteRead, DeleteWrite, Steps, server
<1> QED BY <1>4, <1>5 DEF Handle

(* What a list shows stays fresh where nothing is stored, and what was done *)
(* is not answered.                                                        *)
LEMMA FreshStays ==
  ASSUME TypeOK, OneWhoWaits, ListInv, UNCHANGED payRun, DOMAIN work' = Workers,
         \A w \in Workers : /\ work'[w] # None => work'[w].from # "gone"
                            /\ work[w] # None /\ work[w].step = "done" =>
                                 work'[w] # None /\ work'[w].by = work[w].by /\ work'[w].step = "done",
         \A a \in Admins : page'[a].rows \in {page[a].rows, None, Listed}
  PROVE  ListInv'
<1>1. NobodyLeft'
  BY DEF NobodyLeft
<1>2. Listed' = Listed
  BY ListedStays
<1>3. ListIsFresh'
  BY <1>2 DEF ListInv, ListIsFresh, Mine
<1> QED BY <1>1, <1>3 DEF ListInv

LEMMA HandleKeepsList ==
  ASSUME PayrollInv, OneWhoWaits, ListInv, NEW w \in Workers, Handle(w)
  PROVE  ListInv'
<1>1. /\ work[w] # None /\ work[w].step # "done"
      /\ work'[w].by = work[w].by /\ work'[w].from = work[w].from
      /\ \A v \in Workers \ {w} : work'[v] = work[v]
      /\ payRun' = payRun \/ (work'[w] # None /\ work'[w].step = "done")
      /\ UNCHANGED page
  BY HandleMoves
<1>2. NobodyLeft'
  BY <1>1 DEF ListInv, NobodyLeft
<1>3. ListIsFresh'
  <2>1. CASE payRun' = payRun
    BY <1>1, <2>1, ListedStays DEF ListInv, ListIsFresh, Mine
  <2>2. CASE work'[w] # None /\ work'[w].step = "done"
    <3>1. work[w].by \in Admins
      BY <1>1, Requested DEF PayrollInv, Requests
    <3>2. \A a \in Admins : w \in Mine(a)'
      BY <1>1, <2>2, <3>1 DEF OneWhoWaits, Mine
    <3> QED BY <2>2, <3>2 DEF ListIsFresh
  <2> QED BY <1>1, <2>1, <2>2
<1> QED BY <1>2, <1>3 DEF ListInv

LEMMA PageKeepsList ==
  ASSUME PayrollInv, OneWhoWaits, ListInv, NEW a \in Admins,
         \/ Load(a) \/ SwitchTab(a) \/ CloseDialog(a)
         \/ \E kind \in Kinds, r \in Runs \cup {None} : OpenDialog(a, kind, r)
         \/ \E w \in Workers : Confirm(a, w) \/ SubmitPayment(a, w) \/ SubmitRun(a, w)
  PROVE  ListInv'
<1>1. TypeOK /\ work \in [Workers -> Requests \cup {None}] /\ NobodyLeft
  BY DEF PayrollInv, TypeOK, ListInv
<1>2. CASE Load(a)
  BY <1>1, <1>2, FreshStays DEF Load, server, NobodyLeft, TypeOK
<1>3. CASE SwitchTab(a)
  <2>1. Mine(a) = {} /\ payRun' = payRun /\ page' = [page EXCEPT ![a] = [rows |-> None, dialog |-> NoDialog]]
        /\ work' = Leaving(a, {"page", "form", "closed"}, "gone")
    BY <1>3 DEF SwitchTab, server, Reload, OneWhoWaits
  <2>2. \A v \in Workers : work'[v] = work[v]
    BY <2>1 DEF Leaving
  <2>3. DOMAIN work' = Workers
    BY <2>1 DEF Leaving
  <2>4. \A b \in Admins : page'[b].rows \in {page[b].rows, None}
    BY <1>1, <2>1 DEF TypeOK
  <2> QED BY <1>1, <2>1, <2>2, <2>3, <2>4, FreshStays DEF NobodyLeft
<1>4. CASE CloseDialog(a)
  <2>1. payRun' = payRun /\ work' = Leaving(a, {"form"}, "closed")
        /\ \A b \in Admins : page'[b].rows = page[b].rows
    BY <1>1, <1>4 DEF CloseDialog, server, TypeOK
  <2>2. DOMAIN work' = Workers
    BY <2>1 DEF Leaving
  <2>3. \A v \in Workers : \/ work'[v] = work[v]
                           \/ work[v] # None /\ work'[v] = [work[v] EXCEPT !.from = "closed"]
    BY <2>1 DEF Leaving, Mine
  <2>4. ASSUME NEW v \in Workers
        PROVE  /\ work'[v] # None => work'[v].from # "gone"
               /\ work[v] # None /\ work[v].step = "done" =>
                    work'[v] # None /\ work'[v].by = work[v].by /\ work'[v].step = "done"
    <3>1. CASE work'[v] = work[v]
      BY <1>1, <3>1 DEF NobodyLeft
    <3>2. CASE work[v] # None /\ work'[v] = [work[v] EXCEPT !.from = "closed"]
      <4>1. work[v] \in Requests
        BY <1>1, <3>2
      <4>2. work'[v] \in Requests /\ work'[v].from = "closed" /\ work'[v].by = work[v].by /\ work'[v].step = work[v].step
        BY <3>2, <4>1 DEF Requests
      <4> QED BY <4>2, ConstantsAssumption
    <3> QED BY <2>3, <3>1, <3>2
  <2> QED BY <1>1, <2>1, <2>2, <2>4, FreshStays
<1>5. CASE \E kind \in Kinds, r \in Runs \cup {None} : OpenDialog(a, kind, r)
  <2>1. UNCHANGED <<payRun, work>> /\ \A b \in Admins : page'[b].rows = page[b].rows
    BY <1>1, <1>5 DEF OpenDialog, server, TypeOK
  <2> QED BY <1>1, <2>1, FreshStays DEF NobodyLeft
<1>6. CASE \E w \in Workers : Confirm(a, w) \/ SubmitPayment(a, w) \/ SubmitRun(a, w)
  <2>0. PICK w \in Workers : \E period, typed, account : Send(a, w, period, typed, account)
    BY <1>6 DEF Confirm, SubmitPayment, SubmitRun
  <2>1. PICK period, typed, account : Send(a, w, period, typed, account)
    BY <2>0
  <2> DEFINE kind == page[a].dialog.kind
             asked == Request(a, kind, page[a].dialog.run, "read", IF kind \in {"approve", "delete"} THEN "page" ELSE "form",
                              period, typed, account, None)
  <2>2. work[w] = None /\ UNCHANGED <<payRun, page>> /\ work' = [work EXCEPT ![w] = asked]
    BY <2>1 DEF Send, server
  <2>3. asked.from # "gone"
    BY DEF Request
  <2> HIDE DEF asked
  <2>4. \A v \in Workers : /\ work'[v] # None => work'[v].from # "gone"
                           /\ work[v] # None => work'[v] = work[v]
    BY <1>1, <2>2, <2>3 DEF NobodyLeft
  <2>5. DOMAIN work' = Workers
    BY <1>1, <2>2
  <2> QED BY <1>1, <2>2, <2>4, <2>5, FreshStays
<1> QED BY <1>2, <1>3, <1>4, <1>5, <1>6

LEMMA AnsweredKeepsList ==
  ASSUME PayrollInv, OneWhoWaits, ListInv, NEW w \in Workers, NEW lost \in BOOLEAN, Answered(w, lost)
  PROVE  ListInv'
<1>1. TypeOK /\ work \in [Workers -> Requests \cup {None}] /\ NobodyLeft /\ ListIsFresh
  BY DEF PayrollInv, TypeOK, ListInv
<1>2. /\ work[w] # None /\ ~lost /\ payRun' = payRun /\ work' = [work EXCEPT ![w] = None]
      /\ work[w].step = "done" \/ (work[w].step # "done" /\ page' = page)
  BY DEF Answered, OneWhoWaits, server
<1>3. CASE work[w].step # "done"
  <2>1. \A v \in Workers : /\ work'[v] # None => work'[v].from # "gone"
                           /\ work[v] # None /\ work[v].step = "done" => work'[v] = work[v]
    BY <1>1, <1>2, <1>3 DEF NobodyLeft
  <2>2. DOMAIN work' = Workers
    BY <1>1, <1>2
  <2> QED BY <1>1, <1>2, <1>3, <2>1, <2>2, FreshStays
<1>4. CASE work[w].step = "done"
  <2>1. work[w].by \in Admins /\ work[w].from # "gone"
    BY <1>1, <1>2, Requested DEF Requests, NobodyLeft
  <2>2. \E dialog : page' = [page EXCEPT ![work[w].by] = [rows |-> None, dialog |-> dialog]]
    BY <1>2, <1>4, <2>1 DEF Answered, Reload
  <2>3. \A a \in Admins : page'[a].rows = None
    BY <1>1, <2>1, <2>2 DEF OneWhoWaits, TypeOK
  <2>4. NobodyLeft'
    BY <1>1, <1>2 DEF NobodyLeft
  <2> QED BY <2>3, <2>4 DEF ListInv, ListIsFresh
<1> QED BY <1>3, <1>4

(* An administrator alone who waits for his calls sees each pay run as it  *)
(* is stored, once none is under way: what a request did is read again     *)
(* when it is answered (PayRunsTab.tsx: reload).                           *)
THEOREM PayRunsListConverges ==
  ASSUME OneWhoWaits
  PROVE  Spec => []PayRunsConverge
<1>1. Init => ListInv
  BY DEF Init, ListInv, NobodyLeft, ListIsFresh
<1>2. PayrollInv /\ ListInv /\ [Next]_vars => ListInv'
  <2> SUFFICES ASSUME PayrollInv, ListInv, [Next]_vars
               PROVE  ListInv'
    OBVIOUS
  <2>1. ASSUME NEW w \in Workers, Handle(w) \/ \E lost \in BOOLEAN : Answered(w, lost)
        PROVE  ListInv'
    BY <2>1, HandleKeepsList, AnsweredKeepsList
  <2>2. ASSUME NEW a \in Admins,
               \/ Load(a) \/ SwitchTab(a) \/ CloseDialog(a)
               \/ \E kind \in Kinds, r \in Runs \cup {None} : OpenDialog(a, kind, r)
               \/ \E w \in Workers : Confirm(a, w) \/ SubmitPayment(a, w) \/ SubmitRun(a, w)
        PROVE  ListInv'
    BY <2>2, PageKeepsList
  <2>3. ASSUME UNCHANGED <<payRun, work, page>>
        PROVE  ListInv'
    BY <2>3, FreshStays DEF PayrollInv, TypeOK, ListInv, NobodyLeft
  <2>4. CASE \E e \in Employees : Employ(e) \/ Dismiss(e) \/ \E p \in Periods : RecordOrRemoveLeave(e, p)
    BY <2>3, <2>4 DEF Employ, Dismiss, RecordOrRemoveLeave
  <2>5. CASE UNCHANGED vars
    BY <2>3, <2>5 DEF vars
  <2> QED BY <2>1, <2>2, <2>4, <2>5 DEF Next
<1>3. ListInv => PayRunsConverge
  BY DEF ListInv, ListIsFresh, PayRunsConverge
<1> QED BY <1>1, <1>2, <1>3, PayrollInvariant, PTL DEF Spec
=============================================================================
