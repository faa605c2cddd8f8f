---------------------------- MODULE AccountsProofs ----------------------------
(***************************************************************************)
(* Proofs about SignUp and People.  However sign-ups, verifications,       *)
(* resets and the codes they send race, an organization spent a verified   *)
(* code of its own email; and on one page only the code that was sent last *)
(* still works.  Whoever changes accounts from where, an organization      *)
(* keeps an active administrator; and to someone alone, pages show and do  *)
(* what they say, and whoever was dismissed cannot sign in.                *)
(***************************************************************************)
EXTENDS SignUp, FiniteSetTheorems, TLAPS

(* The invariant, by the variables it is about. *)
RequestsOK ==
  request \in [Pages -> [Ops -> Request]] /\ CodesExist /\ SignUpsSawTheirCode
OrgsOK ==
  /\ users \subseteq Emails
  /\ orgs \subseteq [email : Emails, code : Codes, by : SignUpPages]
  /\ RegisteredWasVerified
  /\ \A o \in orgs : codes[o.code] # None /\ o.email \in users
PagesOK ==
  page \in [Pages -> [email : Emails, sent : BOOLEAN, badge : BOOLEAN]]
FailuresOK == failures \in [Kinds \X Emails -> 0..MaxFailures]
ResetsOK == resets \subseteq [email : Emails, code : Codes, by : ForgotDialogs]

(* Steps leave a code that exists its email and kind, never unspend it and
   never make it pending again. *)
CodesFollow ==
  /\ codes' \in [Codes -> {None} \cup CodeRow]
  /\ \A c \in Codes : codes[c] # None =>
       /\ codes'[c] # None
       /\ codes'[c].email = codes[c].email /\ codes'[c].kind = codes[c].kind
       /\ codes[c].used_at => codes'[c].used_at
       /\ codes'[c].state = "pending" => codes[c].state = "pending"

(* No code is made. *)
NoNewCodes == \A c \in Codes : codes'[c] # None => codes[c] # None

LEMMA InvariantByParts ==
  SignUpInv <=> /\ codes \in [Codes -> {None} \cup CodeRow]
                /\ RequestsOK /\ OrgsOK /\ PagesOK /\ FailuresOK /\ ResetsOK
BY DEF SignUpInv, TypeOK, RequestsOK, OrgsOK, PagesOK, FailuresOK, ResetsOK

----------------------------------------------------------------------------
(* Codes *)

(* A code that exists is a row. *)
LEMMA CodeFields ==
  ASSUME codes \in [Codes -> {None} \cup CodeRow], NEW c \in Codes, codes[c] # None
  PROVE  /\ codes[c] \in CodeRow
         /\ codes[c].email \in Emails /\ codes[c].kind \in Kinds
         /\ codes[c].used_at \in BOOLEAN /\ codes[c].stale \in BOOLEAN
BY DEF CodeRow

(* Nothing happens to the codes. *)
LEMMA CodesUnchanged ==
  ASSUME codes \in [Codes -> {None} \cup CodeRow], UNCHANGED codes
  PROVE  CodesFollow /\ NoNewCodes
BY DEF CodesFollow, NoNewCodes

(* Verifying, spending and expiring codes that exist. *)
LEMMA SetFollows ==
  ASSUME codes \in [Codes -> {None} \cup CodeRow], NEW S \in SUBSET Codes,
         \A c \in S : codes[c] # None,
         NEW state \in {"verified", "used", "expired"}, codes' = Marked(S, state)
  PROVE  /\ CodesFollow /\ NoNewCodes
         /\ \A c \in S : codes'[c].state = state /\ (state = "used" => codes'[c].used_at)
<1>1. ASSUME NEW c \in S
      PROVE  /\ Marked(S, state)[c] \in CodeRow
             /\ Marked(S, state)[c].email = codes[c].email /\ Marked(S, state)[c].kind = codes[c].kind
             /\ Marked(S, state)[c].state = state
             /\ codes[c].used_at => Marked(S, state)[c].used_at
             /\ state = "used" => Marked(S, state)[c].used_at
  <2>1. codes[c] \in CodeRow
    BY <1>1, CodeFields
  <2> QED BY <2>1 DEF Marked, CodeRow
<1>2. ASSUME NEW c \in Codes \ S PROVE Marked(S, state)[c] = codes[c]
  BY DEF Marked
<1>3. Marked(S, state) \in [Codes -> {None} \cup CodeRow]
  <2>1. ASSUME NEW c \in Codes PROVE Marked(S, state)[c] \in {None} \cup CodeRow
    BY <1>1, <1>2
  <2> QED BY <2>1 DEF Marked
<1>4. None \notin CodeRow
  BY ConstantsAssumption DEF ConstantsAssumption
<1> QED BY <1>1, <1>2, <1>3, <1>4 DEF CodesFollow, NoNewCodes

(* A new code takes a row that is free; those seen expire. *)
LEMMA SendFollows ==
  ASSUME codes \in [Codes -> {None} \cup CodeRow], NEW S \in SUBSET Codes,
         \A c \in S : codes[c] # None, NEW n \in Codes, codes[n] = None,
         NEW p \in Pages, NEW e \in Emails,
         codes' = [Marked(S, "expired") EXCEPT ![n] = NewCode(p, e)]
  PROVE  /\ CodesFollow
         /\ codes'[n].email = e
         /\ \A c \in Codes \ {n} :
              /\ codes'[c] # None => codes[c] # None
              /\ codes[c] # None => /\ codes'[c].email = codes[c].email
                                    /\ codes'[c].state = "pending" => c \notin S
<1> DEFINE set == Marked(S, "expired")
<1>1. NewCode(p, e) \in CodeRow /\ NewCode(p, e) # None /\ NewCode(p, e).email = e
  <2>1. KindOf(p) \in Kinds
    BY DEF KindOf, Kinds
  <2>2. NewCode(p, e) \in CodeRow /\ NewCode(p, e).email = e
    BY <2>1 DEF NewCode, CodeRow
  <2> QED BY <2>2, ConstantsAssumption DEF ConstantsAssumption
<1>2. /\ set \in [Codes -> {None} \cup CodeRow]
      /\ \A c \in Codes : codes[c] # None =>
           /\ set[c] # None
           /\ set[c].email = codes[c].email /\ set[c].kind = codes[c].kind
           /\ codes[c].used_at => set[c].used_at
           /\ set[c].state = "pending" => codes[c].state = "pending"
      /\ \A c \in S : set[c].state = "expired"
      /\ \A c \in Codes \ S : set[c] = codes[c]
  <2>1. ASSUME NEW c \in S
        PROVE  /\ set[c] \in CodeRow
               /\ set[c].email = codes[c].email /\ set[c].kind = codes[c].kind
               /\ set[c].state = "expired"
               /\ codes[c].used_at => set[c].used_at
    <3>1. codes[c] \in CodeRow
      BY <2>1, CodeFields
    <3> QED BY <3>1 DEF Marked, CodeRow
  <2>2. ASSUME NEW c \in Codes \ S PROVE set[c] = codes[c]
    BY DEF Marked
  <2>3. set \in [Codes -> {None} \cup CodeRow]
    <3>1. ASSUME NEW c \in Codes PROVE set[c] \in {None} \cup CodeRow
      BY <2>1, <2>2
    <3> QED BY <3>1 DEF Marked
  <2>4. None \notin CodeRow
    BY ConstantsAssumption DEF ConstantsAssumption
  <2> HIDE DEF set
  <2> QED BY <2>1, <2>2, <2>3, <2>4
<1> HIDE DEF set
<1>3. codes' = [set EXCEPT ![n] = NewCode(p, e)]
  BY DEF set
<1> QED BY <1>1, <1>2, <1>3 DEF CodesFollow


----------------------------------------------------------------------------
(* Requests *)

(* What a request holds. *)
LEMMA RequestFields ==
  ASSUME NEW q \in Request
  PROVE  /\ q.code \in Codes \cup {None} /\ q.seen \in SUBSET Codes
         /\ q.at \in {"idle", "sent", "read"}
         /\ q.at # "idle" => q.email \in Emails
BY DEF Request, Idle

(* One request moves on; the others go on naming codes that exist. *)
LEMMA RequestMoves ==
  ASSUME RequestsOK, CodesFollow, NEW p \in Pages, NEW o \in Ops, NEW r \in Request,
         request' = [request EXCEPT ![p][o] = r],
         r.code # None => codes[r.code] # None,
         \A c \in r.seen : codes[c] # None,
         p \in SignUpPages /\ o = "submit" /\ r.at = "read" =>
           \E c \in Codes : r.seen = {c} /\ codes[c].email = r.email /\ codes[c].kind = "signup"
  PROVE  RequestsOK'
<1> DEFINE Exist(cs, q) == (q.code # None => cs[q.code] # None)
                           /\ \A c \in q.seen : cs[c] # None
           Saw(cs, q) == q.at = "read" => \E c \in Codes :
                           q.seen = {c} /\ cs[c].email = q.email /\ cs[c].kind = "signup"
<1>1. request \in [Pages -> [Ops -> Request]] /\ request' \in [Pages -> [Ops -> Request]]
  BY DEF RequestsOK
<1>2. ASSUME NEW q \in Pages, NEW u \in Ops
      PROVE  request'[q][u] = IF q = p /\ u = o THEN r ELSE request[q][u]
  BY <1>1
<1>3. \A q \in Request : q.code \in Codes \cup {None} /\ q.seen \subseteq Codes
  BY RequestFields
<1>4. ASSUME NEW q \in Request, Exist(codes, q) PROVE Exist(codes', q)
  BY <1>3, <1>4 DEF CodesFollow
<1>5. ASSUME NEW q \in Request, Saw(codes, q), Exist(codes, q) PROVE Saw(codes', q)
  BY <1>3, <1>5 DEF CodesFollow
<1>6. ASSUME NEW q \in Pages, NEW u \in Ops
      PROVE  /\ Exist(codes, request[q][u])
             /\ q \in SignUpPages /\ u = "submit" => Saw(codes, request[q][u])
  BY <1>6 DEF RequestsOK, CodesExist, SignUpsSawTheirCode
<1>7. Exist(codes, r) /\ (p \in SignUpPages /\ o = "submit" => Saw(codes, r))
  OBVIOUS
<1>8. ASSUME NEW q \in Pages, NEW u \in Ops
      PROVE  /\ Exist(codes', request'[q][u])
             /\ q \in SignUpPages /\ u = "submit" => Saw(codes', request'[q][u])
  <2> HIDE DEF Exist, Saw
  <2>1. CASE q = p /\ u = o
    BY <1>2, <1>4, <1>5, <1>7, <2>1
  <2>2. CASE ~(q = p /\ u = o)
    <3>1. request'[q][u] = request[q][u] /\ request[q][u] \in Request
      BY <1>1, <1>2, <2>2
    <3> QED BY <1>4, <1>5, <1>6, <3>1
  <2> QED BY <2>1, <2>2
<1>9. CodesExist'
  BY <1>8 DEF CodesExist
<1>10. SignUpsSawTheirCode'
  <2>1. SignUpPages \subseteq Pages /\ "submit" \in Ops
    BY DEF Pages, Ops
  <2> QED BY <1>8, <2>1 DEF SignUpsSawTheirCode
<1> QED BY <1>1, <1>9, <1>10 DEF RequestsOK

(* No request moves. *)
LEMMA RequestsStay ==
  ASSUME RequestsOK, CodesFollow, UNCHANGED request
  PROVE  RequestsOK'
<1>1. \A q \in Request : q.code \in Codes \cup {None} /\ q.seen \subseteq Codes
  BY RequestFields
<1>2. request \in [Pages -> [Ops -> Request]] /\ SignUpPages \subseteq Pages /\ "submit" \in Ops
  BY DEF RequestsOK, Pages, Ops
<1>3. CodesExist'
  BY <1>1, <1>2 DEF RequestsOK, CodesExist, CodesFollow
<1>4. SignUpsSawTheirCode'
  <2> SUFFICES ASSUME NEW p \in SignUpPages, request[p]["submit"].at = "read"
               PROVE  \E c \in Codes :
                        /\ request[p]["submit"].seen = {c}
                        /\ codes'[c].email = request[p]["submit"].email
                        /\ codes'[c].kind = "signup"
    BY DEF SignUpsSawTheirCode
  <2>1. PICK c \in Codes : /\ request[p]["submit"].seen = {c}
                           /\ codes[c].email = request[p]["submit"].email
                           /\ codes[c].kind = "signup"
    BY DEF RequestsOK, SignUpsSawTheirCode
  <2>2. codes[c] # None
    BY <1>2, <2>1 DEF RequestsOK, CodesExist
  <2> QED BY <2>1, <2>2 DEF CodesFollow
<1> QED BY <1>2, <1>3, <1>4 DEF RequestsOK

(* A request is answered. *)
LEMMA AnsweredOK ==
  ASSUME RequestsOK, CodesFollow, NEW p \in Pages, NEW o \in Ops, Answered(p, o)
  PROVE  RequestsOK'
<1>1. Idle \in Request
  BY DEF Idle, Request
<1>2. Idle.code = None /\ Idle.seen = {} /\ Idle.at = "idle"
  BY DEF Idle
<1> QED BY <1>1, <1>2, RequestMoves DEF Answered

(* A request is sent. *)
LEMMA AskOK ==
  ASSUME RequestsOK, PagesOK, codes \in [Codes -> {None} \cup CodeRow],
         NEW p \in Pages, NEW o \in Ops,
         NEW c \in Codes \cup {None}, c # None => codes[c] # None, Ask(p, o, c)
  PROVE  CodesFollow /\ RequestsOK'
<1> DEFINE r == [at |-> "sent", email |-> page[p].email, code |-> c, seen |-> {}]
<1>1. r \in Request
  BY DEF Request, PagesOK
<1>2. CodesFollow /\ request' = [request EXCEPT ![p][o] = r]
  BY CodesUnchanged DEF Ask
<1>3. r.code = c /\ r.seen = {} /\ r.at = "sent"
  OBVIOUS
<1> HIDE DEF r
<1> QED BY <1>1, <1>2, <1>3, RequestMoves

(* A request has read the codes S. *)
LEMMA DecideOK ==
  ASSUME RequestsOK, CodesFollow, NEW p \in Pages, NEW o \in Ops, NEW S \in SUBSET Codes,
         \A c \in S : codes[c] # None, request[p][o].at # "idle",
         p \in SignUpPages /\ o = "submit" =>
           \E c \in Codes : /\ S = {c} /\ codes[c].email = request[p][o].email
                            /\ codes[c].kind = "signup",
         Decide(p, o, S)
  PROVE  RequestsOK'
<1> DEFINE r == [at |-> "read", email |-> request[p][o].email, code |-> request[p][o].code,
                 seen |-> S]
<1>1. request \in [Pages -> [Ops -> Request]] /\ request[p][o] \in Request
  BY DEF RequestsOK
<1>2. request' = [request EXCEPT ![p][o] = r]
  BY <1>1 DEF Decide
<1>3. r \in Request
  BY <1>1, RequestFields DEF Request
<1>4. request[p][o].code # None => codes[request[p][o].code] # None
  BY DEF RequestsOK, CodesExist
<1>5. r.code = request[p][o].code /\ r.seen = S /\ r.email = request[p][o].email
  OBVIOUS
<1> HIDE DEF r
<1> QED BY <1>2, <1>3, <1>4, <1>5, RequestMoves

----------------------------------------------------------------------------
(* Organizations *)

(* What the organizations spent stays spent. *)
LEMMA OrgsStay ==
  ASSUME OrgsOK, CodesFollow, UNCHANGED <<users, orgs>>
  PROVE  OrgsOK'
<1>1. \A o \in orgs : o.code \in Codes
  BY DEF OrgsOK
<1>2. RegisteredWasVerified'
  BY <1>1 DEF OrgsOK, RegisteredWasVerified, CodesFollow
<1>3. \A o \in orgs : codes'[o.code] # None
  BY <1>1 DEF OrgsOK, CodesFollow
<1> QED BY <1>2, <1>3 DEF OrgsOK

----------------------------------------------------------------------------
(* Steps *)

(* A step that neither registers nor resets. *)
LEMMA StepKeeps ==
  ASSUME SignUpInv, CodesFollow, RequestsOK', PagesOK', FailuresOK',
         UNCHANGED <<users, orgs, resets>>
  PROVE  SignUpInv'
<1>1. OrgsOK' /\ ResetsOK'
  BY InvariantByParts, OrgsStay DEF ResetsOK
<1>2. codes' \in [Codes -> {None} \cup CodeRow]
  BY DEF CodesFollow
<1> QED BY <1>1, <1>2 DEF SignUpInv, TypeOK, RequestsOK, OrgsOK, PagesOK, FailuresOK, ResetsOK

(* The codes of an email that are in some state exist. *)
LEMMA RowsExist ==
  ASSUME NEW e, NEW states
  PROVE  /\ Rows(e, states) \in SUBSET Codes
         /\ \A c \in Rows(e, states) : codes[c] # None /\ codes[c].email = e
                                        /\ codes[c].state \in states
BY DEF Rows

(* A wrong guess expires codes and counts no further than it may. *)
LEMMA WrongOtpKeeps ==
  ASSUME codes \in [Codes -> {None} \cup CodeRow], FailuresOK,
         NEW k \in Kinds, NEW e \in Emails, ~Blocked(k, e), WrongOtp(k, e)
  PROVE  CodesFollow /\ NoNewCodes /\ FailuresOK'
<1> DEFINE S == {c \in Pending(e) : codes[c].kind = k}
<1>1. codes' = codes => CodesFollow /\ NoNewCodes
  BY CodesUnchanged
<1>2. ASSUME codes' = Marked(S, "expired") PROVE CodesFollow /\ NoNewCodes
  <2>1. S \in SUBSET Codes /\ \A c \in S : codes[c] # None
    BY RowsExist DEF Pending
  <2> HIDE DEF S
  <2> QED BY <1>2, <2>1, SetFollows
<1>3. FailuresOK'
  <2>1. failures[<<k, e>>] \in 0..MaxFailures /\ failures[<<k, e>>] # MaxFailures
    BY DEF FailuresOK, Blocked
  <2>2. MaxFailures \in Nat
    BY ConstantsAssumption DEF ConstantsAssumption
  <2>3. failures[<<k, e>>] + 1 \in 0..MaxFailures
    BY <2>1, <2>2
  <2> QED BY <2>3 DEF FailuresOK, WrongOtp
<1> QED BY <1>1, <1>2, <1>3 DEF WrongOtp

(* The failures of an email are forgotten. *)
LEMMA FailuresReset ==
  ASSUME FailuresOK, NEW key, failures' = [failures EXCEPT ![key] = 0]
  PROVE  FailuresOK'
<1>1. 0 \in 0..MaxFailures
  BY ConstantsAssumption DEF ConstantsAssumption
<1> QED BY <1>1 DEF FailuresOK

(* What a page shows changes. *)
LEMMA PageShows ==
  ASSUME PagesOK, NEW p \in Pages, NEW sent \in BOOLEAN, NEW badge \in BOOLEAN
  PROVE  /\ page' = [page EXCEPT ![p].sent = sent] => PagesOK'
         /\ page' = [page EXCEPT ![p].badge = badge, ![p].sent = sent] => PagesOK'
         /\ UNCHANGED page => PagesOK'
BY DEF PagesOK

(* What people do asks for something of codes that exist. *)
LEMMA PeopleKeep ==
  ASSUME SignUpInv, NEW p \in Pages, Visitor(p)
  PROVE  SignUpInv'
<1>1. RequestsOK /\ PagesOK /\ FailuresOK /\ codes \in [Codes -> {None} \cup CodeRow]
  BY InvariantByParts
<1>2. ASSUME NEW o \in Ops, NEW c \in Codes \cup {None}, c # None => codes[c] # None, Ask(p, o, c)
      PROVE  SignUpInv'
  <2>1. CodesFollow /\ RequestsOK'
    BY <1>1, <1>2, AskOK
  <2>2. PagesOK' /\ FailuresOK' /\ UNCHANGED <<users, orgs, resets>>
    BY <1>1, <1>2 DEF Ask, PagesOK, FailuresOK
  <2> QED BY <2>1, <2>2, StepKeeps
<1>3. ASSUME NEW e \in Emails, EditEmail(p, e) PROVE SignUpInv'
  <2>1. CodesFollow
    BY <1>1, <1>3, CodesUnchanged DEF EditEmail
  <2>2. RequestsOK'
    BY <1>1, <1>3, <2>1, RequestsStay DEF EditEmail
  <2>3. PagesOK' /\ FailuresOK' /\ UNCHANGED <<users, orgs, resets>>
    BY <1>1, <1>3 DEF EditEmail, PagesOK, FailuresOK
  <2> QED BY <2>1, <2>2, <2>3, StepKeeps
<1>4. {"send", "verify", "submit"} \subseteq Ops
  BY DEF Ops
<1> QED BY <1>2, <1>3, <1>4 DEF Visitor, ClickSend, ClickVerify, ClickRegister, ClickReset

(* What a handler finds: the parts of the invariant and its own request. *)
LEMMA HandlerFinds ==
  ASSUME SignUpInv, NEW p \in Pages, NEW o \in Ops, request[p][o].at # "idle"
  PROVE  /\ RequestsOK /\ PagesOK /\ FailuresOK /\ OrgsOK /\ ResetsOK
         /\ codes \in [Codes -> {None} \cup CodeRow]
         /\ request[p][o].email \in Emails
         /\ request[p][o].code \in Codes \cup {None}
         /\ request[p][o].code # None => codes[request[p][o].code] # None
         /\ request[p][o].seen \in SUBSET Codes
         /\ \A c \in request[p][o].seen : codes[c] # None
<1>1. /\ RequestsOK /\ PagesOK /\ FailuresOK /\ OrgsOK /\ ResetsOK
      /\ codes \in [Codes -> {None} \cup CodeRow]
  BY InvariantByParts
<1>2. request[p][o] \in Request
  BY <1>1 DEF RequestsOK
<1> QED BY <1>1, <1>2, RequestFields DEF RequestsOK, CodesExist

LEMMA SendLoadKeeps ==
  ASSUME SignUpInv, NEW p \in Pages, SendLoad(p)
  PROVE  SignUpInv'
<1> DEFINE r == request[p]["send"]
<1>0. "send" \in Ops /\ r.at # "idle"
  BY DEF SendLoad, Ops
<1>1. RequestsOK /\ PagesOK /\ FailuresOK /\ codes \in [Codes -> {None} \cup CodeRow]
  BY <1>0, HandlerFinds
<1>2. CodesFollow
  BY <1>1, CodesUnchanged DEF SendLoad
<1>3. RequestsOK'
  <2>1. CASE Answered(p, "send")
    BY <1>0, <1>1, <1>2, <2>1, AnsweredOK
  <2>2. CASE Decide(p, "send", Pending(r.email))
    <3>1. Pending(r.email) \in SUBSET Codes /\ \A c \in Pending(r.email) : codes[c] # None
      BY RowsExist DEF Pending
    <3> QED BY <1>0, <1>1, <1>2, <2>2, <3>1, DecideOK
  <2> QED BY <2>1, <2>2 DEF SendLoad
<1>4. PagesOK' /\ FailuresOK'
  BY <1>1, PageShows DEF SendLoad, FailuresOK
<1> QED BY <1>2, <1>3, <1>4, StepKeeps DEF SendLoad

LEMMA SendCommitKeeps ==
  ASSUME SignUpInv, NEW p \in Pages, NEW n \in Codes, SendCommit(p, n)
  PROVE  SignUpInv'
<1> DEFINE r == request[p]["send"]
<1>0. "send" \in Ops /\ r.at # "idle"
  BY DEF SendCommit, Ops
<1>1. RequestsOK /\ PagesOK /\ FailuresOK /\ codes \in [Codes -> {None} \cup CodeRow]
  BY <1>0, HandlerFinds
<1>2. CodesFollow
  BY <1>0, <1>1, HandlerFinds, SendFollows DEF SendCommit
<1>3. RequestsOK'
  BY <1>0, <1>1, <1>2, AnsweredOK DEF SendCommit
<1>4. PagesOK' /\ FailuresOK'
  BY <1>1, PageShows DEF SendCommit, FailuresOK
<1> QED BY <1>2, <1>3, <1>4, StepKeeps DEF SendCommit

LEMMA SendFailsKeeps ==
  ASSUME SignUpInv, NEW p \in Pages, SendFails(p)
  PROVE  SignUpInv'
<1> DEFINE r == request[p]["send"]
<1>0. "send" \in Ops /\ r.at # "idle"
  BY DEF SendFails, Ops
<1>1. RequestsOK /\ PagesOK /\ FailuresOK /\ codes \in [Codes -> {None} \cup CodeRow]
  BY <1>0, HandlerFinds
<1>2. CodesFollow
  BY <1>0, <1>1, HandlerFinds, SetFollows DEF SendFails
<1>3. RequestsOK'
  BY <1>0, <1>1, <1>2, AnsweredOK DEF SendFails
<1>4. PagesOK' /\ FailuresOK'
  BY <1>1, PageShows DEF SendFails, FailuresOK
<1> QED BY <1>2, <1>3, <1>4, StepKeeps DEF SendFails

LEMMA VerifyLoadKeeps ==
  ASSUME SignUpInv, NEW p \in Pages, VerifyLoad(p)
  PROVE  SignUpInv'
<1> DEFINE r == request[p]["verify"]
           c == r.code
<1>0. "verify" \in Ops /\ r.at # "idle" /\ UNCHANGED <<users, orgs, resets>>
  BY DEF VerifyLoad, Ops
<1>1. /\ RequestsOK /\ PagesOK /\ FailuresOK /\ codes \in [Codes -> {None} \cup CodeRow]
      /\ r.email \in Emails /\ c \in Codes \cup {None} /\ (c # None => codes[c] # None)
  BY <1>0, HandlerFinds
<1>2. ASSUME Answered(p, "verify"), CodesFollow PROVE RequestsOK'
  BY <1>0, <1>1, <1>2, AnsweredOK
<1>3. CASE Answered(p, "verify") /\ UNCHANGED <<codes, failures, page>>
  <2>1. CodesFollow /\ PagesOK' /\ FailuresOK'
    BY <1>1, <1>3, CodesUnchanged DEF PagesOK, FailuresOK
  <2> QED BY <1>0, <1>2, <1>3, <2>1, StepKeeps
<1>4. CASE ~Blocked("signup", r.email) /\ Answered(p, "verify")
             /\ WrongOtp("signup", r.email) /\ UNCHANGED page
  <2>1. CodesFollow /\ PagesOK' /\ FailuresOK'
    BY <1>1, <1>4, WrongOtpKeeps DEF PagesOK, Kinds
  <2> QED BY <1>0, <1>2, <1>4, <2>1, StepKeeps
<1>5. CASE /\ c # None /\ UNCHANGED failures
           /\ \/ Answered(p, "verify") /\ ShowBadge(p) /\ UNCHANGED codes
              \/ Answered(p, "verify") /\ UNCHANGED <<codes, page>>
              \/ Answered(p, "verify") /\ codes' = Marked({c}, "expired") /\ UNCHANGED page
              \/ Decide(p, "verify", {c}) /\ UNCHANGED <<codes, page>>
  <2>1. CodesFollow
    <3>1. CASE UNCHANGED codes
      BY <1>1, <3>1, CodesUnchanged
    <3>2. CASE codes' = Marked({c}, "expired")
      BY <1>1, <1>5, <3>2, SetFollows
    <3> QED BY <1>5, <3>1, <3>2
  <2>2. RequestsOK'
    <3>1. CASE Decide(p, "verify", {c})
      <4>1. {c} \in SUBSET Codes /\ \A d \in {c} : codes[d] # None
        BY <1>1, <1>5
      <4> QED BY <1>0, <1>1, <2>1, <3>1, <4>1, DecideOK
    <3> QED BY <1>2, <1>5, <2>1, <3>1
  <2>3. PagesOK' /\ FailuresOK'
    BY <1>1, <1>5, PageShows DEF ShowBadge, FailuresOK
  <2> QED BY <1>0, <2>1, <2>2, <2>3, StepKeeps
<1>6. CASE Blocked("signup", r.email)
  BY <1>3, <1>6 DEF VerifyLoad
<1>7. CASE ~Blocked("signup", r.email) /\ (c = None \/ codes[c].kind # "signup")
  BY <1>4, <1>7 DEF VerifyLoad
<1>8. CASE ~Blocked("signup", r.email) /\ c # None /\ codes[c].kind = "signup"
  <2>1. /\ UNCHANGED failures
        /\ CASE codes[c].state = "verified" -> Answered(p, "verify") /\ ShowBadge(p) /\ UNCHANGED codes
             [] codes[c].state \in {"used", "expired"} -> Answered(p, "verify") /\ UNCHANGED <<codes, page>>
             [] OTHER -> IF codes[c].stale
                         THEN Answered(p, "verify") /\ codes' = Marked({c}, "expired") /\ UNCHANGED page
                         ELSE Decide(p, "verify", {c}) /\ UNCHANGED <<codes, page>>
    BY <1>8 DEF VerifyLoad
  <2>2. CASE codes[c].state = "verified"
    BY <1>5, <1>8, <2>1, <2>2
  <2>3. CASE codes[c].state \in {"used", "expired"}
    BY <1>5, <1>8, <2>1, <2>3
  <2>4. CASE codes[c].state \notin {"verified", "used", "expired"}
    BY <1>5, <1>8, <2>1, <2>4
  <2> QED BY <2>2, <2>3, <2>4
<1> QED BY <1>6, <1>7, <1>8

LEMMA VerifyCommitKeeps ==
  ASSUME SignUpInv, NEW p \in Pages, VerifyCommit(p)
  PROVE  SignUpInv'
<1> DEFINE r == request[p]["verify"]
<1>0. "verify" \in Ops /\ r.at # "idle"
  BY DEF VerifyCommit, Ops
<1>1. RequestsOK /\ PagesOK /\ FailuresOK /\ codes \in [Codes -> {None} \cup CodeRow]
  BY <1>0, HandlerFinds
<1>2. CodesFollow
  BY <1>0, <1>1, HandlerFinds, SetFollows DEF VerifyCommit
<1>3. RequestsOK'
  BY <1>0, <1>1, <1>2, AnsweredOK DEF VerifyCommit
<1>4. PagesOK'
  BY <1>1, PageShows DEF VerifyCommit, ShowBadge
<1>5. FailuresOK'
  BY <1>1, FailuresReset DEF VerifyCommit
<1> QED BY <1>2, <1>3, <1>4, <1>5, StepKeeps DEF VerifyCommit

LEMMA StatusDoneKeeps ==
  ASSUME SignUpInv, NEW p \in Pages, StatusDone(p)
  PROVE  SignUpInv'
<1> DEFINE r == request[p]["status"]
<1>0. "status" \in Ops /\ r.at # "idle"
  BY DEF StatusDone, Ops
<1>1. RequestsOK /\ PagesOK /\ FailuresOK /\ codes \in [Codes -> {None} \cup CodeRow]
  BY <1>0, HandlerFinds
<1>2. CodesFollow
  BY <1>1, CodesUnchanged DEF StatusDone
<1>3. RequestsOK'
  BY <1>0, <1>1, <1>2, AnsweredOK DEF StatusDone
<1>4. PagesOK' /\ FailuresOK'
  BY <1>1, PageShows DEF StatusDone, ShowBadge, FailuresOK
<1> QED BY <1>2, <1>3, <1>4, StepKeeps DEF StatusDone

LEMMA RegisterLoadKeeps ==
  ASSUME SignUpInv, NEW p \in Pages, RegisterLoad(p)
  PROVE  SignUpInv'
<1> DEFINE r == request[p]["submit"]
<1>0. "submit" \in Ops /\ r.at # "idle" /\ UNCHANGED <<users, orgs, resets, failures, page>>
  BY DEF RegisterLoad, Ops
<1>1. RequestsOK /\ PagesOK /\ FailuresOK /\ codes \in [Codes -> {None} \cup CodeRow]
  BY <1>0, HandlerFinds
<1>2. PagesOK' /\ FailuresOK'
  BY <1>0, <1>1 DEF PagesOK, FailuresOK
<1>3. ASSUME Answered(p, "submit"), CodesFollow PROVE SignUpInv'
  <2>1. RequestsOK'
    BY <1>0, <1>1, <1>3, AnsweredOK
  <2> QED BY <1>0, <1>2, <1>3, <2>1, StepKeeps
<1>4. CASE Answered(p, "submit") /\ UNCHANGED codes
  BY <1>1, <1>3, <1>4, CodesUnchanged
<1>5. ASSUME NEW c \in Verified(r.email),
             \/ Answered(p, "submit") /\ codes' = Marked({c}, "expired")
             \/ Decide(p, "submit", {c}) /\ UNCHANGED codes
      PROVE  SignUpInv'
  <2>1. /\ c \in Codes /\ codes[c] # None /\ codes[c].email = r.email /\ codes[c].kind = "signup"
        /\ {c} \in SUBSET Codes
    BY <1>5, RowsExist DEF Verified
  <2>2. CASE Answered(p, "submit") /\ codes' = Marked({c}, "expired")
    <3>1. CodesFollow
      BY <1>1, <2>1, <2>2, SetFollows
    <3> QED BY <1>3, <2>2, <3>1
  <2>3. CASE Decide(p, "submit", {c}) /\ UNCHANGED codes
    <3>1. CodesFollow
      BY <1>1, <2>3, CodesUnchanged
    <3>2. RequestsOK'
      BY <1>0, <1>1, <2>1, <2>3, <3>1, DecideOK
    <3> QED BY <1>0, <1>2, <3>1, <3>2, StepKeeps
  <2> QED BY <1>5, <2>2, <2>3
<1> QED BY <1>4, <1>5 DEF RegisterLoad

(* A registration spends the code it has read, which is of its own email and
   which no organization has spent: one that had would be of that email too,
   and have its account. *)
LEMMA RegisterCommitKeeps ==
  ASSUME SignUpInv, NEW p \in Pages, RegisterCommit(p)
  PROVE  SignUpInv'
<1> DEFINE r == request[p]["submit"]
<1>0. "submit" \in Ops /\ r.at = "read" /\ p \in SignUpPages /\ UNCHANGED <<resets, failures, page>>
  BY DEF RegisterCommit, Ops
<1>1. /\ RequestsOK /\ PagesOK /\ FailuresOK /\ OrgsOK /\ ResetsOK
      /\ codes \in [Codes -> {None} \cup CodeRow] /\ r.email \in Emails
  BY <1>0, HandlerFinds
<1>2. PICK c \in Codes : /\ r.seen = {c} /\ codes[c] # None
                        /\ codes[c].email = r.email /\ codes[c].kind = "signup"
  BY <1>0, HandlerFinds DEF RequestsOK, SignUpsSawTheirCode
<1>3. CASE r.email \in users
  <2>1. CodesFollow /\ UNCHANGED <<users, orgs>> /\ Answered(p, "submit")
    BY <1>1, <1>3, CodesUnchanged DEF RegisterCommit
  <2>2. RequestsOK' /\ PagesOK' /\ FailuresOK'
    BY <1>0, <1>1, <2>1, AnsweredOK DEF PagesOK, FailuresOK
  <2> QED BY <1>0, <2>1, <2>2, StepKeeps
<1>4. CASE r.email \notin users
  <2> DEFINE new == [email |-> r.email, code |-> c, by |-> p]
  <2>1. /\ codes' = Marked({c}, "used") /\ users' = users \cup {r.email}
        /\ orgs' = orgs \cup {new} /\ Answered(p, "submit")
    <3>1. orgs' = orgs \cup {[email |-> r.email, code |-> d, by |-> p] : d \in {c}}
      BY <1>2, <1>4 DEF RegisterCommit
    <3>2. {[email |-> r.email, code |-> d, by |-> p] : d \in {c}} = {new}
      OBVIOUS
    <3> QED BY <1>2, <1>4, <3>1, <3>2 DEF RegisterCommit
  <2>2. CodesFollow /\ codes'[c].used_at
    <3>1. {c} \in SUBSET Codes /\ c \in {c} /\ \A d \in {c} : codes[d] # None
      BY <1>2
    <3>2. codes \in [Codes -> {None} \cup CodeRow] /\ codes' = Marked({c}, "used")
      BY <1>1, <2>1
    <3> QED BY <3>1, <3>2, SetFollows
  <2>3. RequestsOK' /\ PagesOK' /\ FailuresOK' /\ ResetsOK'
    BY <1>0, <1>1, <2>1, <2>2, AnsweredOK DEF PagesOK, FailuresOK, ResetsOK
  <2>4. ASSUME NEW o \in orgs
        PROVE  /\ o.code \in Codes /\ codes[o.code] # None /\ codes'[o.code] # None
               /\ codes'[o.code].email = o.email /\ codes'[o.code].kind = "signup"
               /\ codes'[o.code].used_at
               /\ o.email \in users /\ o.email # r.email /\ o.code # c
    <3>1. /\ o.code \in Codes /\ codes[o.code] # None /\ o.email \in users
          /\ codes[o.code].email = o.email /\ codes[o.code].kind = "signup" /\ codes[o.code].used_at
      BY <1>1 DEF OrgsOK, RegisteredWasVerified
    <3> QED BY <1>2, <1>4, <2>2, <3>1 DEF CodesFollow
  <2>5. /\ codes'[c] # None /\ codes'[c].email = r.email /\ codes'[c].kind = "signup"
        /\ new.email = r.email /\ new.code = c
    BY <1>2, <2>2 DEF CodesFollow
  <2>6. orgs' \subseteq [email : Emails, code : Codes, by : SignUpPages] /\ users' \subseteq Emails
    BY <1>0, <1>1, <2>1 DEF OrgsOK
  <2> HIDE DEF new
  <2>7. ASSUME NEW o \in orgs', NEW other \in orgs', other.code = o.code \/ other.email = o.email
        PROVE  other = o
    <3>1. CASE o \in orgs /\ other \in orgs
      BY <1>1, <2>7, <3>1 DEF OrgsOK, RegisteredWasVerified
    <3>2. CASE o = new \/ other = new
      BY <2>1, <2>4, <2>5, <2>7, <3>2
    <3> QED BY <2>1, <3>1, <3>2
  <2>8. \A o \in orgs' : /\ codes'[o.code] # None /\ o.email \in users'
                         /\ codes'[o.code].email = o.email /\ codes'[o.code].kind = "signup"
                         /\ codes'[o.code].used_at
    BY <2>1, <2>2, <2>4, <2>5
  <2>9. OrgsOK'
    BY <2>6, <2>7, <2>8 DEF OrgsOK, RegisteredWasVerified
  <2>10. codes' \in [Codes -> {None} \cup CodeRow]
    BY <2>2 DEF CodesFollow
  <2> QED BY <2>3, <2>9, <2>10
          DEF SignUpInv, TypeOK, RequestsOK, OrgsOK, PagesOK, FailuresOK, ResetsOK
<1> QED BY <1>3, <1>4

LEMMA ResetLoadKeeps ==
  ASSUME SignUpInv, NEW p \in Pages, ResetLoad(p)
  PROVE  SignUpInv'
<1> DEFINE r == request[p]["submit"]
           c == r.code
<1>0. /\ "submit" \in Ops /\ r.at # "idle" /\ p \notin SignUpPages
      /\ UNCHANGED <<users, orgs, resets, page>>
  BY ConstantsAssumption DEF ResetLoad, Ops, ConstantsAssumption
<1>1. /\ RequestsOK /\ PagesOK /\ FailuresOK /\ codes \in [Codes -> {None} \cup CodeRow]
      /\ r.email \in Emails /\ c \in Codes \cup {None} /\ (c # None => codes[c] # None)
  BY <1>0, HandlerFinds
<1>2. PagesOK'
  BY <1>0, <1>1 DEF PagesOK
<1>3. ASSUME Answered(p, "submit"), CodesFollow, FailuresOK' PROVE SignUpInv'
  <2>1. RequestsOK'
    BY <1>0, <1>1, <1>3, AnsweredOK
  <2> QED BY <1>0, <1>2, <1>3, <2>1, StepKeeps
<1>4. CASE Blocked("reset", r.email)
  <2>1. Answered(p, "submit") /\ CodesFollow /\ FailuresOK'
    BY <1>1, <1>4, CodesUnchanged DEF ResetLoad, FailuresOK
  <2> QED BY <1>3, <2>1
<1>5. CASE ~Blocked("reset", r.email)
           /\ (r.email \notin users \/ c = None \/ codes[c].kind # "reset")
  <2>1. Answered(p, "submit") /\ WrongOtp("reset", r.email)
    BY <1>5 DEF ResetLoad
  <2>2. CodesFollow /\ FailuresOK'
    BY <1>1, <1>5, <2>1, WrongOtpKeeps DEF Kinds
  <2> QED BY <1>3, <2>1, <2>2
<1>6. CASE ~Blocked("reset", r.email)
           /\ ~(r.email \notin users \/ c = None \/ codes[c].kind # "reset")
  <2>1. /\ c \in Codes /\ codes[c] # None /\ UNCHANGED failures
        /\ \/ Answered(p, "submit") /\ UNCHANGED codes
           \/ Answered(p, "submit") /\ codes' = Marked({c}, "expired")
           \/ Decide(p, "submit", {c}) /\ UNCHANGED codes
    BY <1>1, <1>6 DEF ResetLoad
  <2>2. FailuresOK'
    BY <1>1, <2>1 DEF FailuresOK
  <2>3. CodesFollow
    <3>1. CASE UNCHANGED codes
      BY <1>1, <3>1, CodesUnchanged
    <3>2. CASE codes' = Marked({c}, "expired")
      BY <1>1, <2>1, <3>2, SetFollows
    <3> QED BY <2>1, <3>1, <3>2
  <2>4. CASE Decide(p, "submit", {c})
    <3>1. {c} \in SUBSET Codes /\ \A d \in {c} : codes[d] # None
      BY <2>1
    <3>2. RequestsOK'
      BY <1>0, <1>1, <2>3, <2>4, <3>1, DecideOK
    <3> QED BY <1>0, <1>2, <2>2, <2>3, <3>2, StepKeeps
  <2> QED BY <1>3, <2>1, <2>2, <2>3, <2>4
<1> QED BY <1>4, <1>5, <1>6

LEMMA ResetCommitKeeps ==
  ASSUME SignUpInv, NEW p \in Pages, ResetCommit(p)
  PROVE  SignUpInv'
<1> DEFINE r == request[p]["submit"]
<1>0. "submit" \in Ops /\ r.at # "idle" /\ p \in ForgotDialogs
  BY DEF ResetCommit, Ops
<1>1. /\ RequestsOK /\ PagesOK /\ FailuresOK /\ OrgsOK /\ ResetsOK
      /\ codes \in [Codes -> {None} \cup CodeRow]
      /\ r.email \in Emails /\ r.seen \in SUBSET Codes
  BY <1>0, HandlerFinds
<1>2. CodesFollow
  BY <1>0, <1>1, HandlerFinds, SetFollows DEF ResetCommit
<1>3. RequestsOK'
  BY <1>0, <1>1, <1>2, AnsweredOK DEF ResetCommit
<1>4. PagesOK'
  BY <1>1, PageShows DEF ResetCommit
<1>5. FailuresOK'
  BY <1>1, FailuresReset DEF ResetCommit
<1>6. ResetsOK'
  <2>1. {[email |-> r.email, code |-> d, by |-> p] : d \in r.seen}
          \subseteq [email : Emails, code : Codes, by : ForgotDialogs]
    BY <1>0, <1>1
  <2> QED BY <1>1, <2>1 DEF ResetCommit, ResetsOK
<1>7. OrgsOK'
  BY <1>1, <1>2, OrgsStay DEF ResetCommit
<1>8. codes' \in [Codes -> {None} \cup CodeRow]
  BY <1>2 DEF CodesFollow
<1> QED BY <1>3, <1>4, <1>5, <1>6, <1>7, <1>8
        DEF SignUpInv, TypeOK, RequestsOK, OrgsOK, PagesOK, FailuresOK, ResetsOK

(* The cooldown and the life of a code pass. *)
LEMMA PassesFollow ==
  ASSUME codes \in [Codes -> {None} \cup CodeRow], Passes
  PROVE  CodesFollow /\ NoNewCodes
<1>1. ASSUME NEW c \in Codes, codes[c] # None,
             \/ codes' = [codes EXCEPT ![c].recent = FALSE]
             \/ codes' = [codes EXCEPT ![c].stale = TRUE]
      PROVE  CodesFollow /\ NoNewCodes
  <2>1. codes[c] \in CodeRow /\ None \notin CodeRow
    BY <1>1, ConstantsAssumption DEF ConstantsAssumption
  <2> DEFINE row == codes'[c]
  <2>2. /\ row \in CodeRow /\ row.email = codes[c].email /\ row.kind = codes[c].kind
        /\ row.used_at = codes[c].used_at /\ row.state = codes[c].state
    <3>1. CASE codes' = [codes EXCEPT ![c].recent = FALSE]
      <4>1. row = [codes[c] EXCEPT !.recent = FALSE]
        BY <3>1
      <4> HIDE DEF row
      <4> QED BY <2>1, <4>1 DEF CodeRow
    <3>2. CASE codes' = [codes EXCEPT ![c].stale = TRUE]
      <4>1. row = [codes[c] EXCEPT !.stale = TRUE]
        BY <3>2
      <4> HIDE DEF row
      <4> QED BY <2>1, <4>1 DEF CodeRow
    <3> QED BY <1>1, <3>1, <3>2
  <2>3. \A d \in Codes \ {c} : codes'[d] = codes[d]
    BY <1>1
  <2>4. codes' \in [Codes -> {None} \cup CodeRow]
    <3>1. DOMAIN codes' = Codes /\ codes' = [d \in Codes |-> codes'[d]]
      BY <1>1
    <3>2. \A d \in Codes : codes'[d] \in {None} \cup CodeRow
      BY <2>2, <2>3
    <3> QED BY <3>1, <3>2
  <2> HIDE DEF row
  <2> QED BY <2>1, <2>2, <2>3, <2>4 DEF row, CodesFollow, NoNewCodes
<1>2. CASE UNCHANGED codes
  BY <1>2, CodesUnchanged
<1> QED BY <1>1, <1>2 DEF Passes

LEMMA PassesKeeps ==
  ASSUME SignUpInv, Passes
  PROVE  SignUpInv'
<1>1. RequestsOK /\ PagesOK /\ FailuresOK /\ codes \in [Codes -> {None} \cup CodeRow]
  BY InvariantByParts
<1>2. CodesFollow
  BY <1>1, PassesFollow
<1>3. RequestsOK' /\ PagesOK'
  BY <1>1, <1>2, RequestsStay DEF Passes, PagesOK
<1>4. FailuresOK'
  BY <1>1, FailuresReset DEF Passes, FailuresOK
<1> QED BY <1>2, <1>3, <1>4, StepKeeps DEF Passes

LEMMA InitKeeps == Init => SignUpInv
<1> SUFFICES ASSUME Init PROVE SignUpInv
  OBVIOUS
<1>1. Idle \in Request /\ Idle.code = None /\ Idle.seen = {} /\ Idle.at = "idle"
  BY DEF Idle, Request
<1>2. page \in [Pages -> [email : Emails, sent : BOOLEAN, badge : BOOLEAN]]
  BY DEF Init
<1>3. ASSUME NEW p \in Pages
      PROVE  LET r == [Idle EXCEPT !.at = "sent", !.email = page[p].email]
             IN  r \in Request /\ r.code = None /\ r.seen = {} /\ r.at = "sent"
  BY <1>2 DEF Idle, Request
<1>4. ASSUME NEW p \in Pages, NEW o \in Ops
      PROVE  /\ request[p][o] \in Request
             /\ request[p][o].code = None /\ request[p][o].seen = {}
             /\ request[p][o].at # "read"
  BY <1>1, <1>3 DEF Init
<1>5. request \in [Pages -> [Ops -> Request]]
  <2>1. request = [p \in Pages |-> request[p]]
    BY DEF Init
  <2>2. ASSUME NEW p \in Pages PROVE request[p] \in [Ops -> Request]
    <3>1. request[p] = [o \in Ops |-> request[p][o]]
      BY DEF Init
    <3> QED BY <1>4, <3>1
  <2> QED BY <2>1, <2>2
<1>6. CodesExist
  BY <1>4 DEF CodesExist
<1>7. SignUpsSawTheirCode
  BY <1>4 DEF SignUpsSawTheirCode, Pages, Ops
<1>8. /\ codes \in [Codes -> {None} \cup CodeRow] /\ users \subseteq Emails
      /\ orgs = {} /\ resets = {}
  BY DEF Init
<1>9. failures \in [Kinds \X Emails -> 0..MaxFailures]
  <2>1. 0 \in 0..MaxFailures
    BY ConstantsAssumption DEF ConstantsAssumption
  <2> QED BY <2>1 DEF Init
<1> QED BY <1>2, <1>5, <1>6, <1>7, <1>8, <1>9 DEF SignUpInv, TypeOK, RegisteredWasVerified

LEMMA NextKeeps == SignUpInv /\ [Next]_vars => SignUpInv'
<1>1. ASSUME SignUpInv, UNCHANGED vars PROVE SignUpInv'
  <2>1. RequestsOK /\ PagesOK /\ FailuresOK /\ codes \in [Codes -> {None} \cup CodeRow]
    BY <1>1, InvariantByParts
  <2>2. CodesFollow
    BY <1>1, <2>1, CodesUnchanged DEF vars
  <2>3. RequestsOK'
    BY <1>1, <2>1, <2>2, RequestsStay DEF vars
  <2>4. PagesOK' /\ FailuresOK'
    BY <1>1, <2>1 DEF vars, PagesOK, FailuresOK
  <2> QED BY <1>1, <2>2, <2>3, <2>4, StepKeeps DEF vars
<1>2. ASSUME SignUpInv, NEW p \in Pages, Server(p) PROVE SignUpInv'
  BY <1>2, SendLoadKeeps, SendCommitKeeps, SendFailsKeeps, VerifyLoadKeeps, VerifyCommitKeeps,
     StatusDoneKeeps, RegisterLoadKeeps, RegisterCommitKeeps, ResetLoadKeeps, ResetCommitKeeps
     DEF Server
<1> QED BY <1>1, <1>2, PassesKeeps, PeopleKeep DEF Next

(* Whatever races, the invariant holds: a sign-up under way has read a code of
   its own email, and an organization's email has its account. *)
THEOREM SignUpInvariant == Spec => []SignUpInv
BY InitKeeps, NextKeeps, PTL DEF Spec

(* An organization spent a verified code of its own email that no other
   organization spent, and no email has two (auth.py:349): for any number of
   pages, emails and codes. *)
THEOREM RegistrationsWereVerified == Spec => []RegisteredWasVerified
<1>1. SignUpInv => RegisteredWasVerified
  BY DEF SignUpInv
<1> QED BY <1>1, SignUpInvariant, PTL

----------------------------------------------------------------------------
(* The newest code, on one page *)

Newest == \A e \in Emails : \A c, d \in Pending(e) : c = d
NewestInv == SignUpInv /\ SendersSawPending /\ Newest

(* Code c waits to be used, for the email e. *)
Waits(cs, c, e) == cs[c] # None /\ cs[c].email = e /\ cs[c].state = "pending"

LEMMA SendersSee ==
  /\ SendersSawPending <=>
       \A p \in Pages : request[p]["send"].at = "read" =>
         \A c \in Codes : Waits(codes, c, request[p]["send"].email) => c \in request[p]["send"].seen
  /\ SendersSawPending' <=>
       \A p \in Pages : request'[p]["send"].at = "read" =>
         \A c \in Codes : Waits(codes', c, request'[p]["send"].email) => c \in request'[p]["send"].seen
BY DEF SendersSawPending, Pending, Rows, Waits

(* Without a new code, what waits for its code was waiting before. *)
LEMMA PendingShrinks ==
  ASSUME CodesFollow, NoNewCodes, NEW e
  PROVE  Pending(e)' \subseteq Pending(e)
BY DEF Pending, Rows, CodesFollow, NoNewCodes

(* A step that makes no code, and after which no request has newly read the
   codes it is going to replace. *)
LEMMA NoCodeKeepsNewest ==
  ASSUME SendersSawPending, Newest, CodesFollow, NoNewCodes,
         \A p \in Pages : request'[p]["send"].at = "read" =>
           request'[p]["send"] = request[p]["send"]
  PROVE  (SendersSawPending /\ Newest)'
<1>1. \A e : Pending(e)' \subseteq Pending(e)
  BY PendingShrinks
<1>2. SendersSawPending'
  <2> SUFFICES ASSUME NEW p \in Pages, request'[p]["send"].at = "read",
                      NEW c \in Codes, Waits(codes', c, request'[p]["send"].email)
               PROVE  c \in request'[p]["send"].seen
    BY SendersSee
  <2>1. request'[p]["send"] = request[p]["send"]
    OBVIOUS
  <2>2. Waits(codes, c, request[p]["send"].email)
    BY <2>1 DEF Waits, CodesFollow, NoNewCodes
  <2> QED BY <2>1, <2>2, SendersSee
<1>3. Newest'
  BY <1>1 DEF Newest
<1> QED BY <1>2, <1>3

(* What an operation other than a send leaves of the sends. *)
LEMMA SendStays ==
  ASSUME RequestsOK, NEW p \in Pages, NEW o \in Ops,
         \/ UNCHANGED request
         \/ Answered(p, o)
         \/ o # "send" /\ \E S : Decide(p, o, S)
         \/ \E c : Ask(p, o, c)
  PROVE  \A q \in Pages : request'[q]["send"].at = "read" =>
           request'[q]["send"] = request[q]["send"]
<1>1. request \in [Pages -> [Ops -> Request]] /\ "send" \in Ops
  BY DEF RequestsOK, Ops
<1>2. ASSUME NEW r, request' = [request EXCEPT ![p][o] = r], o # "send" \/ r.at # "read",
             NEW q \in Pages, request'[q]["send"].at = "read"
      PROVE  request'[q]["send"] = request[q]["send"]
  BY <1>1, <1>2
<1>3. Idle.at # "read" /\ \A e, c : [at |-> "sent", email |-> e, code |-> c, seen |-> {}].at # "read"
  BY DEF Idle
<1>4. CASE UNCHANGED request
  BY <1>4
<1>5. CASE Answered(p, o)
  BY <1>2, <1>3, <1>5 DEF Answered
<1>6. ASSUME NEW S, o # "send", Decide(p, o, S)
      PROVE  \A q \in Pages : request'[q]["send"] = request[q]["send"]
  BY <1>1, <1>6 DEF Decide
<1>7. ASSUME NEW c, Ask(p, o, c)
      PROVE  \A q \in Pages : request'[q]["send"].at = "read" =>
               request'[q]["send"] = request[q]["send"]
  BY <1>2, <1>3, <1>7 DEF Ask
<1> QED BY <1>4, <1>5, <1>6, <1>7

(* The server's handlers, but for the one that makes a code. *)
LEMMA HandlersMakeNoCode ==
  ASSUME SignUpInv, NEW p \in Pages,
         SendFails(p) \/ StatusDone(p) \/ VerifyLoad(p) \/ VerifyCommit(p) \/ RegisterLoad(p)
           \/ RegisterCommit(p) \/ ResetLoad(p) \/ ResetCommit(p)
  PROVE  CodesFollow /\ NoNewCodes
<1> DEFINE Moves == \/ UNCHANGED codes
                    \/ \E S \in SUBSET Codes, state \in {"verified", "used", "expired"} :
                         (\A c \in S : codes[c] # None) /\ codes' = Marked(S, state)
<1>1. codes \in [Codes -> {None} \cup CodeRow]
  BY InvariantByParts
<1>2. Moves => CodesFollow /\ NoNewCodes
  BY <1>1, CodesUnchanged, SetFollows
<1>3. {"send", "status", "verify", "submit"} \subseteq Ops
  BY DEF Ops
<1>4. ASSUME NEW o \in Ops, request[p][o].at # "idle",
             \/ codes' = Marked(request[p][o].seen, "verified")
             \/ codes' = Marked(request[p][o].seen, "used")
             \/ codes' = Marked(request[p][o].seen, "expired")
      PROVE  Moves
  BY <1>4, HandlerFinds
<1>5. CASE SendFails(p)
  BY <1>2, <1>3, <1>4, <1>5 DEF SendFails
<1>6. CASE StatusDone(p)
  BY <1>2, <1>6 DEF StatusDone
<1>7. CASE VerifyCommit(p)
  BY <1>2, <1>3, <1>4, <1>7 DEF VerifyCommit
<1>8. CASE RegisterCommit(p)
  BY <1>2, <1>3, <1>4, <1>8 DEF RegisterCommit
<1>9. CASE ResetCommit(p)
  BY <1>2, <1>3, <1>4, <1>9 DEF ResetCommit
<1>10. ASSUME NEW c \in Codes, codes[c] # None,
              UNCHANGED codes \/ codes' = Marked({c}, "expired")
       PROVE  CodesFollow /\ NoNewCodes
  <2>1. {c} \in SUBSET Codes /\ \A d \in {c} : codes[d] # None
    BY <1>10
  <2> QED BY <1>2, <1>10, <2>1
<1>11. ASSUME NEW o \in Ops, request[p][o].at # "idle"
       PROVE  /\ request[p][o].email \in Emails
              /\ request[p][o].code # None =>
                   request[p][o].code \in Codes /\ codes[request[p][o].code] # None
              /\ FailuresOK
  BY <1>11, HandlerFinds
<1> HIDE DEF Moves
<1>12. CASE VerifyLoad(p)
  <2> DEFINE r == request[p]["verify"]
  <2>1. /\ r.email \in Emails /\ (r.code # None => r.code \in Codes /\ codes[r.code] # None)
        /\ FailuresOK
    BY <1>3, <1>11, <1>12 DEF VerifyLoad
  <2>2. \/ UNCHANGED codes
        \/ ~Blocked("signup", r.email) /\ WrongOtp("signup", r.email)
        \/ r.code # None /\ codes' = Marked({r.code}, "expired")
    BY <1>12 DEF VerifyLoad
  <2> QED BY <1>1, <1>10, <2>1, <2>2, CodesUnchanged, WrongOtpKeeps DEF Kinds
<1>13. CASE ResetLoad(p)
  <2> DEFINE r == request[p]["submit"]
  <2>1. /\ r.email \in Emails /\ (r.code # None => r.code \in Codes /\ codes[r.code] # None)
        /\ FailuresOK
    BY <1>3, <1>11, <1>13 DEF ResetLoad
  <2>2. \/ UNCHANGED codes
        \/ ~Blocked("reset", r.email) /\ WrongOtp("reset", r.email)
        \/ r.code # None /\ codes' = Marked({r.code}, "expired")
    BY <1>13 DEF ResetLoad
  <2> QED BY <1>1, <1>10, <2>1, <2>2, CodesUnchanged, WrongOtpKeeps DEF Kinds
<1>14. CASE RegisterLoad(p)
  <2>1. \/ UNCHANGED codes
        \/ \E c \in Verified(request[p]["submit"].email) : codes' = Marked({c}, "expired")
    BY <1>14 DEF RegisterLoad
  <2>2. \A c \in Verified(request[p]["submit"].email) : c \in Codes /\ codes[c] # None
    BY RowsExist DEF Verified
  <2> QED BY <1>1, <1>10, <2>1, <2>2, CodesUnchanged
<1> QED BY <1>5, <1>6, <1>7, <1>8, <1>9, <1>12, <1>13, <1>14

(* And they leave the sends alone. *)
LEMMA HandlersLeaveSends ==
  ASSUME SignUpInv, NEW p \in Pages,
         SendFails(p) \/ StatusDone(p) \/ VerifyLoad(p) \/ VerifyCommit(p) \/ RegisterLoad(p)
           \/ RegisterCommit(p) \/ ResetLoad(p) \/ ResetCommit(p)
  PROVE  \A q \in Pages : request'[q]["send"].at = "read" =>
           request'[q]["send"] = request[q]["send"]
<1>1. RequestsOK /\ {"send", "status", "verify", "submit"} \subseteq Ops
  BY InvariantByParts DEF Ops
<1>2. \/ \E o \in Ops : Answered(p, o)
      \/ \E o \in Ops : o # "send" /\ \E S : Decide(p, o, S)
  BY <1>1 DEF SendFails, StatusDone, VerifyLoad, VerifyCommit, RegisterLoad, RegisterCommit,
              ResetLoad, ResetCommit
<1> QED BY <1>1, <1>2, SendStays

(* A send that has read which codes wait. *)
LEMMA SendLoadKeepsNewest ==
  ASSUME NewestInv, NEW p \in Pages, SendLoad(p)
  PROVE  (SendersSawPending /\ Newest)'
<1>1. /\ RequestsOK /\ codes \in [Codes -> {None} \cup CodeRow] /\ "send" \in Ops
      /\ UNCHANGED codes /\ CodesFollow /\ NoNewCodes
  BY InvariantByParts, CodesUnchanged DEF SendLoad, Ops, NewestInv
<1>2. CASE Answered(p, "send")
  BY <1>1, <1>2, SendStays, NoCodeKeepsNewest DEF NewestInv
<1>3. CASE Decide(p, "send", Pending(request[p]["send"].email))
  <2> DEFINE e == request[p]["send"].email
             r == [at |-> "read", email |-> e, code |-> request[p]["send"].code, seen |-> Pending(e)]
  <2>1. request \in [Pages -> [Ops -> Request]] /\ request' = [request EXCEPT ![p]["send"] = r]
    BY <1>1, <1>3 DEF Decide, RequestsOK
  <2>2. r.email = e /\ r.seen = Pending(e)
    OBVIOUS
  <2>3. \A d : Pending(d)' = Pending(d)
    BY <1>1 DEF Pending, Rows
  <2>4. SendersSawPending'
    <3> SUFFICES ASSUME NEW q \in Pages, request'[q]["send"].at = "read",
                        NEW c \in Codes, Waits(codes', c, request'[q]["send"].email)
                 PROVE  c \in request'[q]["send"].seen
      BY SendersSee
    <3>0. Waits(codes, c, request'[q]["send"].email)
      BY <1>1
    <3> HIDE DEF r, e
    <3>1. CASE q = p
      <4>1. request'[q]["send"] = r
        BY <1>1, <2>1, <3>1
      <4> QED BY <2>2, <3>0, <4>1 DEF Waits, Pending, Rows
    <3>2. CASE q # p
      <4>1. request'[q]["send"] = request[q]["send"]
        BY <1>1, <2>1, <3>2
      <4> QED BY <3>0, <4>1, SendersSee DEF NewestInv
    <3> QED BY <3>1, <3>2
  <2>5. Newest'
    BY <2>3 DEF NewestInv, Newest
  <2> QED BY <2>4, <2>5
<1> QED BY <1>2, <1>3 DEF SendLoad

(* The new code is the only one that waits, and no other page is sending. *)
LEMMA SendCommitKeepsNewest ==
  ASSUME NewestInv, \A p, q \in Pages : p = q,
         NEW p \in Pages, NEW n \in Codes, SendCommit(p, n)
  PROVE  (SendersSawPending /\ Newest)'
<1> DEFINE r == request[p]["send"]
<1>0. "send" \in Ops /\ r.at = "read" /\ r.at # "idle" /\ SignUpInv
  BY DEF SendCommit, Ops, NewestInv
<1>1. RequestsOK /\ codes \in [Codes -> {None} \cup CodeRow] /\ r.email \in Emails
  BY <1>0, HandlerFinds
<1>2. /\ CodesFollow /\ codes'[n].email = r.email
      /\ \A c \in Codes \ {n} :
           /\ codes'[c] # None => codes[c] # None
           /\ codes[c] # None => /\ codes'[c].email = codes[c].email
                                 /\ codes'[c].state = "pending" => c \notin r.seen
  <2>1. r.seen \in SUBSET Codes /\ (\A c \in r.seen : codes[c] # None) /\ codes[n] = None
    BY <1>0, HandlerFinds DEF SendCommit
  <2>2. codes' = [Marked(r.seen, "expired") EXCEPT ![n] = NewCode(p, r.email)]
    BY DEF SendCommit
  <2> QED BY <1>1, <2>1, <2>2, SendFollows
<1>3. Pending(r.email) \subseteq r.seen
  BY <1>0 DEF NewestInv, SendersSawPending
<1>4. SendersSawPending'
  <2>1. request'[p]["send"] = Idle
    BY <1>0, <1>1 DEF SendCommit, Answered, RequestsOK
  <2>2. Idle.at # "read"
    BY DEF Idle
  <2> QED BY <2>1, <2>2 DEF SendersSawPending
<1> HIDE DEF r
<1>5. ASSUME NEW e \in Emails, NEW c \in Pending(e)', c # n
      PROVE  c \in Pending(e) /\ e # r.email
  <2>1. c \in Codes /\ codes'[c] # None /\ codes'[c].email = e /\ codes'[c].state = "pending"
    BY <1>5 DEF Pending, Rows
  <2>2. /\ codes[c] # None /\ codes[c].email = e /\ codes[c].state = "pending" /\ c \notin r.seen
    BY <1>2, <1>5, <2>1 DEF CodesFollow
  <2>3. c \in Pending(e)
    BY <2>1, <2>2 DEF Pending, Rows
  <2> QED BY <1>3, <2>2, <2>3
<1>6. ASSUME NEW e \in Emails, n \in Pending(e)' PROVE e = r.email
  BY <1>2, <1>6 DEF Pending, Rows
<1>7. Newest'
  <2> SUFFICES ASSUME NEW e \in Emails, NEW c \in Pending(e)', NEW d \in Pending(e)'
               PROVE  c = d
    BY DEF Newest
  <2>1. CASE c = n \/ d = n
    BY <1>5, <1>6, <2>1
  <2>2. CASE c # n /\ d # n
    BY <1>5, <2>2 DEF NewestInv, Newest
  <2> QED BY <2>1, <2>2
<1> QED BY <1>4, <1>7

(* Every step keeps the newest code alone, if there is one page. *)
LEMMA NextKeepsNewest ==
  ASSUME NewestInv, \A p, q \in Pages : p = q, [Next]_vars
  PROVE  (SendersSawPending /\ Newest)'
<1>1. SignUpInv /\ RequestsOK /\ codes \in [Codes -> {None} \cup CodeRow]
  BY InvariantByParts DEF NewestInv
<1>2. CASE UNCHANGED <<codes, request>>
  BY <1>1, <1>2, CodesUnchanged, NoCodeKeepsNewest DEF NewestInv
<1>3. CASE Passes
  <2>1. UNCHANGED request
    BY <1>3 DEF Passes
  <2> QED BY <1>1, <1>3, <2>1, PassesFollow, NoCodeKeepsNewest DEF NewestInv
<1>4. ASSUME NEW p \in Pages, Visitor(p) PROVE (SendersSawPending /\ Newest)'
  <2>1. UNCHANGED codes /\ (UNCHANGED request \/ \E o \in Ops : \E c : Ask(p, o, c))
    BY <1>4 DEF Visitor, EditEmail, ClickSend, ClickVerify, ClickRegister, ClickReset, Ask, Ops
  <2>2. \A q \in Pages : request'[q]["send"].at = "read" =>
          request'[q]["send"] = request[q]["send"]
    BY <1>1, <2>1, SendStays
  <2> QED BY <1>1, <2>1, <2>2, CodesUnchanged, NoCodeKeepsNewest DEF NewestInv
<1>5. ASSUME NEW p \in Pages, Server(p) PROVE (SendersSawPending /\ Newest)'
  <2>1. CASE SendLoad(p)
    BY <2>1, SendLoadKeepsNewest
  <2>2. ASSUME NEW c \in Codes, SendCommit(p, c)
        PROVE  (SendersSawPending /\ Newest)'
    BY <2>2, SendCommitKeepsNewest
  <2>3. CASE SendFails(p) \/ StatusDone(p) \/ VerifyLoad(p) \/ VerifyCommit(p)
               \/ RegisterLoad(p) \/ RegisterCommit(p) \/ ResetLoad(p) \/ ResetCommit(p)
    BY <1>1, <2>3, HandlersMakeNoCode, HandlersLeaveSends, NoCodeKeepsNewest DEF NewestInv
  <2> QED BY <1>5, <2>1, <2>2, <2>3 DEF Server
<1> QED BY <1>2, <1>3, <1>4, <1>5 DEF Next, vars

(* With one page, of the codes sent to an email at most one still waits: the
   one sent last. *)
THEOREM NewestCodeWorks == Spec => []OnlyNewestWorks
<1> DEFINE Inv == SignUpInv /\ (OnePage => SendersSawPending /\ Newest)
<1>1. Init => Inv
  <2> SUFFICES ASSUME Init PROVE Inv
    OBVIOUS
  <2>1. \A e : Pending(e) = {}
    BY DEF Init, Pending, Rows
  <2> QED BY <2>1, InitKeeps DEF SendersSawPending, Newest
<1>2. Inv /\ [Next]_vars => Inv'
  <2> SUFFICES ASSUME Inv, [Next]_vars, OnePage'
               PROVE  (SendersSawPending /\ Newest)'
    BY NextKeeps
  <2>1. SignUpInv /\ SignUpInv'
    BY NextKeeps
  <2>2. OnePage /\ \A p, q \in Pages : p = q
    <3>1. DOMAIN page = Pages /\ DOMAIN page' = Pages
      BY <2>1 DEF SignUpInv, TypeOK
    <3> QED BY <3>1 DEF OnePage
  <2> QED BY <2>1, <2>2, NextKeepsNewest DEF NewestInv
<1>3. Inv => OnlyNewestWorks
  BY DEF Newest, OnlyNewestWorks
<1> QED BY <1>1, <1>2, <1>3, PTL DEF Spec

-----------------------------------------------------------------------------
(* The accounts of an organization and of the platform, managed elsewhere *)

CONSTANTS Page, People, Employees, Modules, Me, Others, Tabs, Room, Records
VARIABLES people, employees, plan, lock, view, dialog, call, links

Team == INSTANCE People

-----------------------------------------------------------------------------
(* Accounts, and what handlers do to them                                  *)

AccountsOK ==
  /\ people \in [People -> {None} \cup Team!AnAccount] /\ employees \in [Employees -> {None} \cup Team!Employee]
  /\ plan \in Team!Access /\ lock \in [People -> {"never", "payroll", "reopened"}]
AccountsInv == AccountsOK /\ Team!LoginsExist /\ Team!PlatformIsAdmins

(* The counting of the module and that of the theorems about it are one.   *)
LEMMA CountsAgree ==
  ASSUME NEW S
  PROVE  Team!Cardinality(S) = Cardinality(S) /\ (Team!IsFiniteSet(S) <=> IsFiniteSet(S))
<1>1. Team!Cardinality(S) = Cardinality(S)
  BY DEF Team!Cardinality, Cardinality
<1>2. Team!IsFiniteSet(S) <=> IsFiniteSet(S)
  BY DEF Team!IsFiniteSet, IsFiniteSet
<1> QED BY <1>1, <1>2

LEMMA NewAccounts ==
  ASSUME Team!ConstantsOK, NEW role \in Team!AllRoles, NEW pass \in {None} \cup 0..2
  PROVE  /\ Team!Account(role, pass) \in Team!AnAccount
         /\ Team!Account(role, pass).role = role /\ Team!Account(role, pass).here
         /\ Team!Account(role, pass).active /\ Team!Account(role, pass).pass = pass
<1>1. None \in Team!Access
  BY DEF Team!Access
<1> QED BY <1>1 DEF Team!Account, Team!AnAccount

LEMMA ChangedAccounts ==
  ASSUME Team!ConstantsOK, NEW p \in Team!AnAccount, NEW a \in Team!Change
  PROVE  /\ Team!Changed(p, a) \in Team!AnAccount
         /\ Team!Changed(p, a).role = (IF a.role = None THEN p.role ELSE a.role)
         /\ Team!Changed(p, a).active = (IF a.active = None THEN p.active ELSE a.active)
         /\ Team!Changed(p, a).here = (IF a.here = None THEN p.here ELSE a.here)
         /\ Team!Changed(p, a).pass = p.pass /\ Team!Changed(p, a).access = p.access
<1>1. Team!Roles \subseteq Team!AllRoles
  BY DEF Team!Roles, Team!AllRoles
<1>2. /\ a.role \in Team!Roles \cup {None} /\ a.active \in BOOLEAN \cup {None} /\ a.here \in BOOLEAN \cup {None}
  BY DEF Team!Change
<1> DEFINE r == IF a.role = None THEN p.role ELSE a.role
           c == IF a.active = None THEN p.active ELSE a.active
           h == IF a.here = None THEN p.here ELSE a.here
<1>3. r \in Team!AllRoles /\ c \in BOOLEAN /\ h \in BOOLEAN
  BY <1>1, <1>2 DEF Team!AnAccount
<1>4. Team!Changed(p, a) = [p EXCEPT !.role = r, !.active = c, !.here = h]
  BY DEF Team!Changed
<1> HIDE DEF r, c, h
<1>5. [p EXCEPT !.role = r, !.active = c, !.here = h] \in Team!AnAccount
  BY <1>3 DEF Team!AnAccount
<1>6. /\ [p EXCEPT !.role = r, !.active = c, !.here = h].role = r
      /\ [p EXCEPT !.role = r, !.active = c, !.here = h].active = c
      /\ [p EXCEPT !.role = r, !.active = c, !.here = h].here = h
      /\ [p EXCEPT !.role = r, !.active = c, !.here = h].pass = p.pass
      /\ [p EXCEPT !.role = r, !.active = c, !.here = h].access = p.access
  BY DEF Team!AnAccount
<1> QED BY <1>4, <1>5, <1>6 DEF r, c, h

\* What a surface asks of the server.
Asked(surface, op, i, a) ==
  /\ op \in Team!Asks
  /\ surface \in {"tenant", "panel", "console", "admins", "logins"}
  /\ surface \in {"tenant", "panel", "console"} => Team!OfOrganization
  /\ surface \in {"admins", "logins"} => Page = surface
  /\ op # "create" => i \in People
  /\ op = "create" =>
       /\ i = None /\ a \in Team!Addition
       /\ IF a.role = "employee" THEN surface = "tenant" /\ a.employee # None ELSE a.employee = None
  /\ op = "update" => a \in Team!Change /\ (a.here # None => surface = "console")
  /\ op = "access" => a \in Team!Access

(* A step that leaves every account what it is for, or changes one account *)
(* into another, keeps the accounts in order.                              *)
LEMMA OneAccountChanges ==
  ASSUME Team!ConstantsOK, AccountsInv, NEW i \in People, people[i] # None, NEW q \in Team!AnAccount,
         ~Team!OfOrganization => q.role = "admin" /\ q.here,
         people' = [people EXCEPT ![i] = q], UNCHANGED <<employees, plan>>,
         lock' \in [People -> {"never", "payroll", "reopened"}]
  PROVE  AccountsInv'
<1>1. AccountsOK'
  BY DEF AccountsInv, AccountsOK
<1>2. Team!LoginsExist'
  BY DEF AccountsInv, AccountsOK, Team!LoginsExist, Team!Employee, Team!ConstantsOK
<1>3. Team!PlatformIsAdmins'
  BY DEF AccountsInv, AccountsOK, Team!PlatformIsAdmins, Team!Exists, Team!OfOrganization
<1> QED BY <1>1, <1>2, <1>3 DEF AccountsInv

LEMMA EffectKeeps ==
  ASSUME Team!ConstantsOK, AccountsInv, NEW surface, NEW op, NEW i, NEW a, NEW actor,
         Asked(surface, op, i, a), Team!Allowed(surface, op, i, a, actor),
         Team!Effect(surface, op, i, a), UNCHANGED plan
  PROVE  AccountsInv'
<1> USE DEF Team!ConstantsOK
<1>0. op # "create" => i \in People /\ i # None /\ people[i] # None /\ people[i] \in Team!AnAccount
  BY DEF Asked, Team!Allowed, AccountsInv, AccountsOK
<1>p. op # "create" /\ ~Team!OfOrganization => people[i].role = "admin" /\ people[i].here
  BY <1>0 DEF AccountsInv, Team!PlatformIsAdmins, Team!Exists
<1>1. CASE op = "create"
  <2>1. Team!Create(surface, a) /\ a \in Team!Addition /\ UNCHANGED lock
    BY <1>1 DEF Asked, Team!Effect, Team!Create
  <2>2. PICK j \in People \ Team!Exists :
          /\ people' = [people EXCEPT ![j] = Team!Account(a.role, IF Tabs # {} /\ surface \in {"tenant", "panel"} THEN None ELSE Team!ByAdmin)]
          /\ employees' = IF a.employee = None THEN employees ELSE [employees EXCEPT ![a.employee].login = j]
    BY <2>1 DEF Team!Create
  <2> DEFINE pass == IF Tabs # {} /\ surface \in {"tenant", "panel"} THEN None ELSE Team!ByAdmin
             q == Team!Account(a.role, pass)
  <2>3. pass \in {None} \cup 0..2 /\ a.role \in Team!AllRoles
    BY <2>1 DEF Team!ByAdmin, Team!Addition, Team!Roles, Team!AllRoles
  <2>4. q \in Team!AnAccount /\ q.role = a.role /\ q.here
    BY <2>3, NewAccounts
  <2>5. people' = [people EXCEPT ![j] = q] /\ people[j] = None
    BY <2>2 DEF Team!Exists
  <2> HIDE DEF q, pass
  <2>6. a.employee # None => /\ a.employee \in Employees /\ employees[a.employee] \in Team!Employee
                             /\ employees[a.employee] # None
    <3> SUFFICES ASSUME a.employee # None PROVE employees[a.employee] # None
      BY <2>1 DEF Team!Addition, AccountsInv, AccountsOK
    <3>1. a.role = "employee" /\ surface = "tenant"
      BY <1>1 DEF Asked
    <3> QED BY <3>1, <1>1 DEF Team!Allowed, Team!MayInvite
  <2>7. employees' \in [Employees -> {None} \cup Team!Employee]
    BY <2>2, <2>6 DEF AccountsInv, AccountsOK, Team!Employee
  <2>8. AccountsOK'
    BY <2>1, <2>4, <2>5, <2>7 DEF AccountsInv, AccountsOK
  <2>9. Team!LoginsExist'
    <3> SUFFICES ASSUME NEW e \in Employees, employees'[e] # None, employees'[e].login # None
                 PROVE  people'[employees'[e].login] # None
      BY DEF Team!LoginsExist
    <3>1. q # None
      BY <2>4
    <3>2. CASE a.employee # None /\ e = a.employee
      <4>1. employees'[e].login = j
        BY <2>2, <2>6, <3>2 DEF Team!Employee, AccountsInv, AccountsOK
      <4> QED BY <4>1, <3>1, <2>5 DEF AccountsInv, AccountsOK
    <3>3. CASE ~(a.employee # None /\ e = a.employee)
      <4>1. employees'[e] = employees[e] /\ employees[e] \in Team!Employee
        BY <2>2, <2>6, <3>3 DEF AccountsInv, AccountsOK
      <4>2. people[employees[e].login] # None /\ employees[e].login \in People
        BY <4>1 DEF AccountsInv, Team!LoginsExist, Team!Employee
      <4> QED BY <4>1, <4>2, <2>5 DEF AccountsInv, AccountsOK
    <3> QED BY <3>2, <3>3
  <2>10. Team!PlatformIsAdmins'
    <3> SUFFICES ASSUME ~Team!OfOrganization, NEW k \in People, people'[k] # None
                 PROVE  people'[k].role = "admin" /\ people'[k].here
      BY DEF Team!PlatformIsAdmins, Team!Exists, Team!OfOrganization
    <3>1. a.role = "admin"
      BY <1>1, <2>1 DEF Asked, Team!Addition, Team!Roles
    <3> QED BY <3>1, <2>4, <2>5 DEF AccountsInv, AccountsOK, Team!PlatformIsAdmins, Team!Exists
  <2> QED BY <2>8, <2>9, <2>10 DEF AccountsInv
<1>2. CASE op = "update"
  <2> DEFINE q == Team!Changed(people[i], a)
  <2>1. /\ people' = [people EXCEPT ![i] = q] /\ UNCHANGED employees
        /\ lock' = IF a.active = TRUE /\ ~people[i].active THEN [lock EXCEPT ![i] = "reopened"] ELSE lock
    BY <1>2 DEF Team!Effect
  <2>2. a \in Team!Change /\ (a.here # None => surface = "console")
    BY <1>2 DEF Asked
  <2>3. /\ q \in Team!AnAccount /\ q.role = (IF a.role = None THEN people[i].role ELSE a.role)
        /\ q.here = (IF a.here = None THEN people[i].here ELSE a.here)
    BY <1>0, <1>2, <2>2, ChangedAccounts
  <2>4. lock' \in [People -> {"never", "payroll", "reopened"}]
    BY <2>1 DEF AccountsInv, AccountsOK
  <2> HIDE DEF q
  <2>5. ~Team!OfOrganization => q.role = "admin" /\ q.here
    <3> SUFFICES ASSUME ~Team!OfOrganization PROVE q.role = "admin" /\ q.here
      OBVIOUS
    <3>1. a.here = None
      BY <2>2 DEF Asked
    <3>2. a.role \in {None, "admin"}
      BY <2>2 DEF Team!Change, Team!Roles
    <3> QED BY <3>1, <3>2, <2>3, <1>2, <1>p
  <2> QED BY <1>0, <1>2, <2>1, <2>3, <2>4, <2>5, OneAccountChanges
<1>3. CASE op = "delete"
  <2>1. Team!DeleteAccount(surface, i)
    BY <1>3 DEF Team!Effect
  <2>2. CASE surface \in {"tenant", "panel"} /\ people[i].busy
    <3> DEFINE q == [people[i] EXCEPT !.active = FALSE]
    <3>1. people' = [people EXCEPT ![i] = q] /\ UNCHANGED <<employees, lock>>
      BY <2>1, <2>2 DEF Team!DeleteAccount
    <3>2. q \in Team!AnAccount /\ q.role = people[i].role /\ q.here = people[i].here
      BY <1>0, <1>3 DEF Team!AnAccount
    <3>3. lock' \in [People -> {"never", "payroll", "reopened"}]
      BY <3>1 DEF AccountsInv, AccountsOK
    <3> HIDE DEF q
    <3> QED BY <1>0, <1>3, <1>p, <3>1, <3>2, <3>3, OneAccountChanges
  <2>3. CASE ~(surface \in {"tenant", "panel"} /\ people[i].busy)
    <3>1. /\ people' = [people EXCEPT ![i] = None]
          /\ employees' = Team!Unlinked(i) /\ lock' = [lock EXCEPT ![i] = "never"]
      BY <2>1, <2>3 DEF Team!DeleteAccount
    <3>2. ASSUME NEW e \in Employees
          PROVE  /\ employees'[e] \in {None} \cup Team!Employee
                 /\ employees'[e] # None /\ employees'[e].login # None =>
                      employees[e] # None /\ employees'[e].login = employees[e].login /\ employees[e].login # i
      <4>1. CASE employees[e] # None /\ employees[e].login = i
        <5>1. employees'[e] = [employees[e] EXCEPT !.login = None] /\ employees[e] \in Team!Employee
          BY <3>1, <4>1 DEF Team!Unlinked, Team!EmployeeOf, AccountsInv, AccountsOK
        <5> QED BY <5>1 DEF Team!Employee
      <4>2. CASE ~(employees[e] # None /\ employees[e].login = i)
        <5>1. employees'[e] = employees[e]
          BY <3>1, <4>2 DEF Team!Unlinked, Team!EmployeeOf
        <5> QED BY <5>1, <4>2 DEF AccountsInv, AccountsOK
      <4> QED BY <4>1, <4>2
    <3>3. employees' \in [Employees -> {None} \cup Team!Employee]
      BY <3>1, <3>2 DEF Team!Unlinked
    <3>4. AccountsOK'
      BY <1>0, <1>3, <3>1, <3>3 DEF AccountsInv, AccountsOK
    <3>5. Team!LoginsExist'
      <4> SUFFICES ASSUME NEW e \in Employees, employees'[e] # None, employees'[e].login # None
                   PROVE  people'[employees'[e].login] # None
        BY DEF Team!LoginsExist
      <4>1. employees[e] # None /\ employees'[e].login = employees[e].login /\ employees[e].login # i
        BY <3>2
      <4>2. people[employees[e].login] # None /\ employees[e].login \in People
        BY <4>1 DEF AccountsInv, AccountsOK, Team!LoginsExist, Team!Employee
      <4> QED BY <4>1, <4>2, <3>1 DEF AccountsInv, AccountsOK
    <3>6. Team!PlatformIsAdmins'
      BY <3>1 DEF AccountsInv, AccountsOK, Team!PlatformIsAdmins, Team!Exists, Team!OfOrganization
    <3> QED BY <3>4, <3>5, <3>6 DEF AccountsInv
  <2> QED BY <2>2, <2>3
<1>4. CASE op = "reset"
  <2> DEFINE q == [people[i] EXCEPT !.pass = Team!ByAdmin]
  <2>1. people' = [people EXCEPT ![i] = q] /\ UNCHANGED <<employees, lock>>
    BY <1>4 DEF Team!Effect
  <2>2. q \in Team!AnAccount /\ q.role = people[i].role /\ q.here = people[i].here
    BY <1>0, <1>4 DEF Team!AnAccount, Team!ByAdmin
  <2>3. lock' \in [People -> {"never", "payroll", "reopened"}]
    BY <2>1 DEF AccountsInv, AccountsOK
  <2> HIDE DEF q
  <2> QED BY <1>0, <1>4, <1>p, <2>1, <2>2, <2>3, OneAccountChanges
<1>5. CASE op = "access"
  <2> DEFINE q == [people[i] EXCEPT !.access = a]
  <2>1. people' = [people EXCEPT ![i] = q] /\ UNCHANGED <<employees, lock>>
    BY <1>5 DEF Team!Effect
  <2>2. q \in Team!AnAccount /\ q.role = people[i].role /\ q.here = people[i].here
    BY <1>0, <1>5 DEF Team!AnAccount, Asked
  <2>3. lock' \in [People -> {"never", "payroll", "reopened"}]
    BY <2>1 DEF AccountsInv, AccountsOK
  <2> HIDE DEF q
  <2> QED BY <1>0, <1>5, <1>p, <2>1, <2>2, <2>3, OneAccountChanges
<1> QED BY <1>1, <1>2, <1>3, <1>4, <1>5 DEF Asked, Team!Asks

-----------------------------------------------------------------------------
(* The last administrator                                                  *)

LEMMA NotTheLast ==
  ASSUME Team!ConstantsOK, NEW i, Cardinality(Team!ActiveAdmins) > 1
  PROVE  \E j \in Team!ActiveAdmins : j # i
<1>1. SUFFICES ASSUME Team!ActiveAdmins \subseteq {i} PROVE FALSE
  OBVIOUS
<1>2. IsFiniteSet({i}) /\ Cardinality({i}) = 1
  BY FS_Singleton
<1>3. Cardinality(Team!ActiveAdmins) <= 1 /\ Cardinality(Team!ActiveAdmins) \in Nat
  BY <1>1, <1>2, FS_Subset, FS_CardinalityType
<1> QED BY <1>3

LEMMA AnotherStays ==
  ASSUME AccountsOK, NEW i \in People, NEW j \in Team!ActiveAdmins, j # i, NEW q, people' = [people EXCEPT ![i] = q]
  PROVE  Team!ActiveAdmins' # {}
<1>1. j \in People /\ people'[j] = people[j]
  BY DEF AccountsOK, Team!ActiveAdmins, Team!Exists
<1>2. j \in Team!ActiveAdmins'
  BY <1>1 DEF Team!ActiveAdmins, Team!Exists
<1> QED BY <1>2

(* Whoever stays an active administrator here counts.                      *)
LEMMA HimselfStays ==
  ASSUME Team!ConstantsOK, AccountsOK, NEW i \in People, NEW q \in Team!AnAccount,
         q.role = "admin", q.active, q.here, people' = [people EXCEPT ![i] = q]
  PROVE  Team!ActiveAdmins' # {}
<1>1. people'[i] = q /\ q # None
  BY DEF AccountsOK, Team!ConstantsOK
<1>2. i \in Team!ActiveAdmins'
  BY <1>1 DEF Team!ActiveAdmins, Team!Exists
<1> QED BY <1>2

(* An account that is as much of an administrator as it was.               *)
LEMMA SameRankStays ==
  ASSUME Team!ConstantsOK, AccountsOK, Team!ActiveAdmins # {}, NEW i \in People, NEW q \in Team!AnAccount,
         people[i] # None, q.role = people[i].role, q.active = people[i].active, q.here = people[i].here,
         people' = [people EXCEPT ![i] = q]
  PROVE  Team!ActiveAdmins' # {}
<1>1. PICK j \in Team!ActiveAdmins : TRUE
  OBVIOUS
<1>2. CASE j # i
  BY <1>1, <1>2, AnotherStays
<1>3. CASE j = i
  BY <1>1, <1>3, HimselfStays DEF Team!ActiveAdmins
<1> QED BY <1>2, <1>3

LEMMA EffectKeepsAnAdmin ==
  ASSUME Team!ConstantsOK, AccountsInv, Page # "logins", Team!ActiveAdmins # {},
         NEW surface, NEW op, NEW i, NEW a, NEW actor \in People \cup {None},
         Asked(surface, op, i, a), Team!Allowed(surface, op, i, a, actor), Team!Effect(surface, op, i, a)
  PROVE  Team!ActiveAdmins' # {}
<1> USE DEF Team!ConstantsOK
<1>0. /\ op # "create" => i \in People /\ i # None /\ people[i] # None /\ people[i] \in Team!AnAccount
      /\ AccountsOK /\ surface \in {"tenant", "panel", "console", "admins"}
  BY DEF Asked, Team!Allowed, AccountsInv, AccountsOK
<1>a. surface = "admins" => /\ ~Team!OfOrganization /\ \A j \in People : people[j] # None => people[j].role = "admin" /\ people[j].here
                            /\ actor # None /\ people[actor] # None /\ people[actor].active
  BY DEF Asked, Team!OfOrganization, AccountsInv, Team!PlatformIsAdmins, Team!Exists, Team!Allowed
<1>1. CASE op = "create"
  <2>1. PICK j \in People \ Team!Exists : \E q : people' = [people EXCEPT ![j] = q]
    BY <1>1 DEF Team!Effect, Team!Create
  <2>2. PICK k \in Team!ActiveAdmins : TRUE
    OBVIOUS
  <2>3. k # j
    BY <2>1, <2>2 DEF Team!ActiveAdmins
  <2> QED BY <1>0, <2>1, <2>2, <2>3, AnotherStays
<1>2. CASE op = "update"
  <2> DEFINE q == Team!Changed(people[i], a)
  <2>1. people' = [people EXCEPT ![i] = q] /\ a \in Team!Change /\ (a.here # None => surface = "console")
    BY <1>2 DEF Team!Effect, Asked
  <2>2. /\ q \in Team!AnAccount /\ q.role = (IF a.role = None THEN people[i].role ELSE a.role)
        /\ q.active = (IF a.active = None THEN people[i].active ELSE a.active)
        /\ q.here = (IF a.here = None THEN people[i].here ELSE a.here)
    BY <1>0, <1>2, <2>1, ChangedAccounts
  <2>q. q = Team!Changed(people[i], a)
    OBVIOUS
  <2> HIDE DEF q
  <2>3. CASE i \notin Team!ActiveAdmins
    <3>1. PICK k \in Team!ActiveAdmins : TRUE
      OBVIOUS
    <3> QED BY <1>0, <1>2, <2>1, <2>3, <3>1, AnotherStays
  <2>4. CASE i \in Team!ActiveAdmins /\ q.role = "admin" /\ q.active /\ q.here
    BY <1>0, <1>2, <2>1, <2>2, <2>4, HimselfStays
  <2>5. CASE i \in Team!ActiveAdmins /\ ~(q.role = "admin" /\ q.active /\ q.here)
    <3>1. people[i].here /\ people[i].role = "admin" /\ people[i].active
      BY <2>5 DEF Team!ActiveAdmins
    <3>2. CASE surface = "console"
      <4>1. ~Team!WouldOrphanOrg(i)
        BY <1>2, <2>5, <2>q, <3>1, <3>2 DEF Team!Allowed, Team!MayUpdateAnywhere
      <4>2. \E k \in Team!ActiveAdmins : k # i
        BY <4>1, <2>5 DEF Team!WouldOrphanOrg
      <4> QED BY <4>2, <1>0, <1>2, <2>1, AnotherStays
    <3>3. CASE surface \in {"tenant", "panel"}
      <4>1. q.here = people[i].here
        BY <2>1, <2>2, <3>3
      <4>2. \/ a.role \notin {None, "admin"} /\ people[i].role = "admin"
            \/ a.active = FALSE /\ people[i].active /\ people[i].role = "admin"
        BY <4>1, <2>1, <2>2, <2>5, <3>1 DEF Team!Change
      <4>3. Cardinality(Team!ActiveAdmins) > 1
        BY <4>2, <1>2, <3>3, CountsAgree DEF Team!Allowed, Team!MayUpdate, Team!RequireAnotherAdmin
      <4> QED BY <4>3, NotTheLast, <1>0, <1>2, <2>1, AnotherStays
    <3>4. CASE surface = "admins"
      <4>1. q.here = people[i].here /\ q.role = "admin"
        BY <2>1, <2>2, <3>1, <3>4, <1>a DEF Team!Change, Team!Roles
      <4>2. a.active = FALSE /\ people[i].active
        BY <4>1, <2>1, <2>2, <2>5, <3>1 DEF Team!Change
      <4>3. Cardinality(Team!ActiveAdmins) > 1
        BY <4>2, <1>2, <3>4, CountsAgree DEF Team!Allowed, Team!MayChangeAdmin
      <4> QED BY <4>3, NotTheLast, <1>0, <1>2, <2>1, AnotherStays
    <3> QED BY <3>2, <3>3, <3>4, <1>0
  <2> QED BY <2>3, <2>4, <2>5
<1>3. CASE op = "delete"
  <2>1. PICK q : people' = [people EXCEPT ![i] = q]
    BY <1>3 DEF Team!Effect, Team!DeleteAccount
  <2>2. CASE i \notin Team!ActiveAdmins
    <3>1. PICK k \in Team!ActiveAdmins : TRUE
      OBVIOUS
    <3> QED BY <1>0, <1>3, <2>1, <2>2, <3>1, AnotherStays
  <2>3. CASE i \in Team!ActiveAdmins
    <3>1. \E k \in Team!ActiveAdmins : k # i
      <4>1. CASE surface \in {"tenant", "panel"}
        <5>1. Cardinality(Team!ActiveAdmins) > 1
          BY <1>3, <2>3, <4>1, CountsAgree DEF Team!Allowed, Team!MayDelete, Team!RequireAnotherAdmin, Team!ActiveAdmins
        <5> QED BY <5>1, NotTheLast
      <4>2. CASE surface = "console"
        <5>1. ~Team!WouldOrphanOrg(i)
          BY <1>3, <4>2 DEF Team!Allowed, Team!MayDeleteAnywhere
        <5> QED BY <5>1, <2>3 DEF Team!WouldOrphanOrg
      <4>3. CASE surface = "admins"
        <5>1. i # actor
          BY <1>3, <4>3 DEF Team!Allowed, Team!MayDeleteAdmin
        <5>2. actor \in Team!ActiveAdmins
          BY <1>a, <4>3 DEF Team!ActiveAdmins, Team!Exists
        <5> QED BY <5>1, <5>2
      <4> QED BY <4>1, <4>2, <4>3, <1>0
    <3> QED BY <3>1, <1>0, <1>3, <2>1, AnotherStays
  <2> QED BY <2>2, <2>3
<1>4. CASE op = "reset"
  <2> DEFINE q == [people[i] EXCEPT !.pass = Team!ByAdmin]
  <2>1. people' = [people EXCEPT ![i] = q]
    BY <1>4 DEF Team!Effect
  <2>2. q \in Team!AnAccount /\ q.role = people[i].role /\ q.active = people[i].active /\ q.here = people[i].here
    BY <1>0, <1>4 DEF Team!AnAccount, Team!ByAdmin
  <2> HIDE DEF q
  <2> QED BY <1>0, <1>4, <2>1, <2>2, SameRankStays
<1>5. CASE op = "access"
  <2> DEFINE q == [people[i] EXCEPT !.access = a]
  <2>1. people' = [people EXCEPT ![i] = q]
    BY <1>5 DEF Team!Effect
  <2>2. q \in Team!AnAccount /\ q.role = people[i].role /\ q.active = people[i].active /\ q.here = people[i].here
    BY <1>0, <1>5 DEF Team!AnAccount, Asked
  <2> HIDE DEF q
  <2> QED BY <1>0, <1>5, <2>1, <2>2, SameRankStays
<1> QED BY <1>1, <1>2, <1>3, <1>4, <1>5 DEF Asked, Team!Asks

-----------------------------------------------------------------------------
(* The page                                                                *)

PageInv ==
  /\ Team!ListFits(view) /\ Team!DialogFits(dialog) /\ Team!CallFits(call)
  /\ Team!NobodyIsAdded /\ Team!ClosedIsIdle

\* What a page does but be answered by the server.
AtThePage ==
  \/ Team!Load \/ Team!OpenCreate \/ Team!Close \/ Team!LoadOverview \/ Team!SaveAccess \/ Team!Submit \/ Team!Answered
  \/ \E i \in People : \/ Team!Toggle(i) \/ \E kind \in Team!Kinds : Team!Open(kind, i)
                       \/ \E role \in Team!Roles : Team!SetRole(i, role)
  \/ \E role \in Team!Roles : Team!ChangeRole(role)
  \/ \E m \in Team!Access : Team!Draft(m)
  \/ \E role \in Team!Roles : Team!Edit("role", role)
  \/ \E b \in BOOLEAN : Team!Edit("active", b) \/ Team!Edit("here", b)

LEMMA RowsFit ==
  ASSUME AccountsOK
  PROVE  /\ DOMAIN Team!Rows = Team!Listed /\ Team!Listed \subseteq Team!Exists /\ Team!Exists \subseteq People
         /\ \A i \in Team!Exists : Team!Shown(i) \in Team!Row
         /\ \A i \in Team!Listed : Team!Rows[i] = Team!Shown(i)
<1>1. Team!Listed \subseteq Team!Exists /\ Team!Exists \subseteq People
  BY DEF Team!Listed, Team!Exists
<1>2. ASSUME NEW i \in Team!Exists PROVE Team!Shown(i) \in Team!Row
  <2>1. people[i] \in Team!AnAccount
    BY DEF AccountsOK, Team!Exists
  <2> QED BY <2>1 DEF Team!Shown, Team!Row, Team!AnAccount
<1> QED BY <1>1, <1>2 DEF Team!Rows

LEMMA RoomIsSome ==
  ASSUME Team!ConstantsOK, Team!Cardinality(Team!Exists) < Room
  PROVE  Room # 0
<1>1. IsFiniteSet(Team!Exists)
  BY FS_Subset, CountsAgree DEF Team!ConstantsOK, Team!Exists
<1> QED BY <1>1, FS_CardinalityType, CountsAgree DEF Team!ConstantsOK

LEMMA EmptyPages ==
  ASSUME Team!ConstantsOK
  PROVE
  /\ Team!ListFits(Team!Unread) /\ Team!DialogFits(Team!NoDialog) /\ Team!CallFits(Team!NoCall)
  /\ Team!NoDialog.kind = "none" /\ Team!NoCall.step = "idle" /\ Team!NoCall.op = None
<1>1. Team!ListFits(Team!Unread)
  <2>1. DOMAIN Team!NoRows = {}
    BY DEF Team!NoRows
  <2>2. Team!Unread.shown = Team!NoRows /\ Team!Unread.loading \in BOOLEAN
    BY DEF Team!Unread
  <2>3. Team!Unread = [loading |-> Team!Unread.loading, shown |-> Team!Unread.shown]
    BY DEF Team!Unread
  <2> HIDE DEF Team!Unread, Team!NoRows
  <2> QED BY <2>1, <2>2, <2>3 DEF Team!ListFits
<1>2. Team!DialogFits(Team!NoDialog) /\ Team!NoDialog.kind = "none"
  BY DEF Team!DialogFits, Team!NoDialog
<1>3. Team!CallFits(Team!NoCall) /\ Team!NoCall.step = "idle" /\ Team!NoCall.op = None
  <2>1. Team!NoCall.op = None /\ Team!NoCall.step = "idle"
    BY DEF Team!NoCall
  <2> QED BY <2>1 DEF Team!CallFits, Team!ConstantsOK, Team!Asks
<1> QED BY <1>1, <1>2, <1>3

(* What is sent, for each of the ways to ask.                              *)
LEMMA SentCalls ==
  ASSUME Team!ConstantsOK
  PROVE  /\ \A i \in People, a \in Team!Change : (a.here # None => Team!Surface = "console") =>
              Team!CallFits([Team!NoCall EXCEPT !.op = "update", !.on = i, !.arg = a, !.step = "sent"])
         /\ \A i \in People, a \in Team!Access :
              Team!CallFits([Team!NoCall EXCEPT !.op = "access", !.on = i, !.arg = a, !.step = "sent"])
         /\ \A i \in People, op \in {"delete", "reset"} :
              Team!CallFits([Team!NoCall EXCEPT !.op = op, !.on = i, !.arg = Team!NoChange, !.step = "sent"])
         /\ \A a \in Team!Addition : (IF a.role = "employee" THEN Page = "tenant" /\ a.employee # None ELSE a.employee = None) =>
              Team!CallFits([Team!NoCall EXCEPT !.op = "create", !.on = None, !.arg = a, !.step = "sent"])
<1> USE DEF Team!ConstantsOK, Team!NoCall, Team!CallFits, Team!Steps, Team!Asks
<1>1. ASSUME NEW i \in People, NEW a \in Team!Change, a.here # None => Team!Surface = "console"
      PROVE  Team!CallFits([Team!NoCall EXCEPT !.op = "update", !.on = i, !.arg = a, !.step = "sent"])
  BY <1>1
<1>2. ASSUME NEW i \in People, NEW a \in Team!Access
      PROVE  Team!CallFits([Team!NoCall EXCEPT !.op = "access", !.on = i, !.arg = a, !.step = "sent"])
  OBVIOUS
<1>3. ASSUME NEW i \in People, NEW op \in {"delete", "reset"}
      PROVE  Team!CallFits([Team!NoCall EXCEPT !.op = op, !.on = i, !.arg = Team!NoChange, !.step = "sent"])
  OBVIOUS
<1>4. ASSUME NEW a \in Team!Addition,
             IF a.role = "employee" THEN Page = "tenant" /\ a.employee # None ELSE a.employee = None
      PROVE  Team!CallFits([Team!NoCall EXCEPT !.op = "create", !.on = None, !.arg = a, !.step = "sent"])
  BY <1>4
<1> HIDE DEF Team!NoCall, Team!CallFits
<1> QED BY <1>1, <1>2, <1>3, <1>4

LEMMA SendKeeps ==
  ASSUME Team!ConstantsOK, PageInv, NEW op, NEW i, NEW a, Team!Send(op, i, a), Page # "closed",
         Team!CallFits([Team!NoCall EXCEPT !.op = op, !.on = i, !.arg = a, !.step = "sent"]),
         op = "create" => dialog.kind = "create"
  PROVE  PageInv'
<1>1. /\ call' = [Team!NoCall EXCEPT !.op = op, !.on = i, !.arg = a, !.step = "sent"]
      /\ UNCHANGED <<view, dialog>>
  BY DEF Team!Send
<1>2. call'.op = op
  BY <1>1 DEF Team!NoCall
<1>3. Team!CallFits(call')
  BY <1>1
<1>4. Team!NobodyIsAdded' /\ Team!ClosedIsIdle'
  BY <1>1, <1>2 DEF PageInv, Team!NobodyIsAdded, Team!ClosedIsIdle
<1> QED BY <1>1, <1>3, <1>4 DEF PageInv

(* Whoever asks for something does so on a page that is open.              *)
LEMMA PageIsOpen ==
  ASSUME PageInv, dialog # Team!NoDialog \/ call # Team!NoCall \/ view.loading \/ DOMAIN view.shown # {}
  PROVE  Page # "closed"
BY DEF PageInv, Team!ClosedIsIdle, Team!Idle, Team!NoRows

LEMMA EditKeeps ==
  ASSUME Team!ConstantsOK, PageInv, NEW field \in Team!Fields, NEW value,
         value \in (IF field = "role" THEN Team!Roles ELSE BOOLEAN), Team!Edit(field, value)
  PROVE  PageInv'
<1>1. /\ dialog.kind = "edit" /\ dialog' = [dialog EXCEPT !.form[field] = value, !.touched = @ \cup {field}]
      /\ UNCHANGED <<view, call>>
  BY DEF Team!Edit
<1>2. /\ dialog \in [kind : {"edit"}, on : People, row : Team!Row, form : Team!Form, touched : SUBSET Team!Fields]
      /\ Team!Surface = "console"
  BY <1>1 DEF PageInv, Team!DialogFits
<1> DEFINE form == [dialog.form EXCEPT ![field] = value]
           touched == dialog.touched \cup {field}
<1>3. form \in Team!Form
  <2>1. CASE field = "role"
    BY <1>2, <2>1 DEF Team!Form
  <2>2. CASE field = "active"
    BY <1>2, <2>2 DEF Team!Form
  <2>3. CASE field = "here"
    BY <1>2, <2>3 DEF Team!Form
  <2> QED BY <2>1, <2>2, <2>3 DEF Team!Fields
<1>4. touched \in SUBSET Team!Fields
  BY <1>2
<1>5. dialog' = [dialog EXCEPT !.form = form, !.touched = touched]
  BY <1>1, <1>2
<1> HIDE DEF form, touched
<1>6. dialog' \in [kind : {"edit"}, on : People, row : Team!Row, form : Team!Form, touched : SUBSET Team!Fields]
  BY <1>2, <1>3, <1>4, <1>5
<1>7. Team!DialogFits(dialog)'
  BY <1>2, <1>6 DEF Team!DialogFits, Team!Surface
<1>8. Team!NobodyIsAdded' /\ Team!ClosedIsIdle'
  <2>1. Page # "closed"
    BY <1>1, PageIsOpen, EmptyPages
  <2> QED BY <2>1, <1>1, <1>6 DEF PageInv, Team!NobodyIsAdded, Team!ClosedIsIdle
<1> QED BY <1>1, <1>7, <1>8 DEF PageInv

LEMMA OpenKeeps ==
  ASSUME Team!ConstantsOK, PageInv, NEW i \in People, NEW kind \in Team!Kinds, Team!Open(kind, i)
  PROVE  PageInv'
<1>1. /\ i \in DOMAIN view.shown /\ view.shown[i] \in Team!Row /\ UNCHANGED <<view, call>>
      /\ dialog' = [kind |-> kind, on |-> i, row |-> IF kind = "overview" THEN None ELSE view.shown[i],
                    form |-> Team!Fill(kind, i), touched |-> {}]
  BY DEF Team!Open, PageInv, Team!ListFits
<1>2. kind \in {"reset", "delete", "edit", "overview"}
  BY DEF Team!Kinds, Team!Surface
<1>3. kind = "edit" => Team!Fill(kind, i) \in Team!Form
  <2>1. kind = "edit" => Team!OfOrganization
    BY DEF Team!Kinds, Team!Surface, Team!OfOrganization
  <2> QED BY <1>1, <2>1 DEF Team!Fill, Team!Form, Team!Row, Team!Roles
<1>4. kind = "overview" => Team!Fill(kind, i) = None
  BY DEF Team!Fill
<1>5. kind \in {"delete", "reset"} => Team!Fill(kind, i) = Team!NoChange
  BY DEF Team!Fill
<1>6. Team!DialogFits(dialog)'
  <2> HIDE DEF Team!Fill
  <2> DEFINE d == [kind |-> kind, on |-> i, row |-> IF kind = "overview" THEN None ELSE view.shown[i],
                   form |-> Team!Fill(kind, i), touched |-> {}]
  <2>0. kind = "edit" => Team!Surface = "console"
    BY DEF Team!Kinds, Team!Surface
  <2>1. Team!DialogFits(d)
    BY <2>0, <1>1, <1>2, <1>3, <1>4, <1>5 DEF Team!DialogFits
  <2> QED BY <2>1, <1>1
<1>7. Team!NobodyIsAdded' /\ Team!ClosedIsIdle'
  <2>1. Page # "closed"
    BY <1>1, PageIsOpen
  <2> QED BY <2>1, <1>1, <1>2 DEF PageInv, Team!NobodyIsAdded, Team!ClosedIsIdle
<1> QED BY <1>1, <1>6, <1>7 DEF PageInv

LEMMA OverviewKeeps ==
  ASSUME Team!ConstantsOK, AccountsInv, PageInv, Team!LoadOverview \/ \E m \in Team!Access : Team!Draft(m)
  PROVE  PageInv'
<1>1. dialog.kind = "overview" /\ UNCHANGED <<view, call>>
  BY DEF Team!LoadOverview, Team!Draft
<1>2. /\ dialog \in [kind : {"overview"}, on : People, row : Team!Row \cup {None}, form : Team!AccessForm \cup {None}, touched : {{}}]
      /\ dialog.row # None => dialog.form \in Team!AccessForm
  BY <1>1 DEF PageInv, Team!DialogFits
<1>3. /\ dialog' \in [kind : {"overview"}, on : People, row : Team!Row \cup {None}, form : Team!AccessForm \cup {None}, touched : {{}}]
      /\ dialog'.row # None => dialog'.form # None
  <2>1. CASE Team!LoadOverview
    <3> DEFINE new == [stored |-> people[dialog.on].access, draft |-> people[dialog.on].access]
               form == IF dialog.form = None \/ dialog.form.stored # people[dialog.on].access THEN new ELSE dialog.form
    <3>1. Team!Shown(dialog.on) \in Team!Row /\ people[dialog.on] \in Team!AnAccount
      BY <2>1, RowsFit DEF Team!LoadOverview, AccountsInv, AccountsOK, Team!Exists
    <3>2. form \in Team!AccessForm /\ form # None
      BY <1>2, <3>1 DEF Team!AccessForm, Team!AnAccount, Team!ConstantsOK
    <3>3. dialog' = [dialog EXCEPT !.row = Team!Shown(dialog.on), !.form = form]
      BY <2>1 DEF Team!LoadOverview
    <3> HIDE DEF form
    <3> QED BY <1>2, <3>1, <3>2, <3>3
  <2>2. ASSUME NEW m \in Team!Access, Team!Draft(m)
        PROVE  /\ dialog' \in [kind : {"overview"}, on : People, row : Team!Row \cup {None}, form : Team!AccessForm \cup {None}, touched : {{}}]
               /\ dialog'.row # None => dialog'.form # None
    <3>1. dialog.row # None /\ dialog' = [dialog EXCEPT !.form.draft = m]
      BY <2>2 DEF Team!Draft
    <3> DEFINE form == [dialog.form EXCEPT !.draft = m]
    <3>2. form \in Team!AccessForm /\ form # None
      BY <1>2, <3>1 DEF Team!AccessForm, Team!ConstantsOK
    <3>3. dialog' = [dialog EXCEPT !.form = form]
      BY <3>1
    <3> HIDE DEF form
    <3> QED BY <1>2, <3>2, <3>3
  <2> QED BY <2>1, <2>2
<1>4. Team!DialogFits(dialog)'
  BY <1>3 DEF Team!DialogFits
<1>5. Team!NobodyIsAdded' /\ Team!ClosedIsIdle'
  <2>1. Page # "closed"
    BY <1>1, PageIsOpen, EmptyPages
  <2> QED BY <2>1, <1>1, <1>3 DEF PageInv, Team!NobodyIsAdded, Team!ClosedIsIdle
<1> QED BY <1>1, <1>4, <1>5 DEF PageInv

LEMMA AskingKeeps ==
  ASSUME Team!ConstantsOK, AccountsInv, PageInv,
         \/ Team!SaveAccess \/ Team!Submit
         \/ \E i \in People : Team!Toggle(i) \/ \E role \in Team!Roles : Team!SetRole(i, role)
         \/ \E role \in Team!Roles : Team!ChangeRole(role)
  PROVE  PageInv'
<1> USE DEF Team!ConstantsOK
<1>1. /\ \A role \in Team!Roles : [Team!NoChange EXCEPT !.role = role] \in Team!Change /\ [Team!NoChange EXCEPT !.role = role].here = None
      /\ \A b \in BOOLEAN : [Team!NoChange EXCEPT !.active = b] \in Team!Change /\ [Team!NoChange EXCEPT !.active = b].here = None
  BY DEF Team!NoChange, Team!Change
<1>2. CASE Team!SaveAccess
  <2> DEFINE a == IF dialog.form.draft = None THEN None ELSE {m \in dialog.form.draft : Team!InPlan(m)}
  <2>1. dialog.kind = "overview" /\ Team!Send("access", dialog.on, a) /\ dialog.row # None
    BY <1>2 DEF Team!SaveAccess
  <2>2. dialog.on \in People /\ dialog.form \in Team!AccessForm
    BY <2>1 DEF PageInv, Team!DialogFits
  <2>3. a \in Team!Access
    <3>1. dialog.form.draft \in Team!Access
      BY <2>2 DEF Team!AccessForm
    <3> QED BY <3>1 DEF Team!Access
  <2>4. Page # "closed"
    BY <2>1, PageIsOpen, EmptyPages
  <2> HIDE DEF a
  <2> QED BY <2>1, <2>2, <2>3, <2>4, SentCalls, SendKeeps
<1>3. CASE Team!Submit
  <2>1. dialog.kind \in {"create", "edit", "delete", "reset"}
    BY <1>3 DEF Team!Submit
  <2>2. Page # "closed"
    BY <2>1, PageIsOpen, EmptyPages
  <2>3. CASE dialog.kind \in {"delete", "reset"} /\ Team!Send(dialog.kind, dialog.on, Team!NoChange)
    <3>1. dialog.on \in People
      BY <2>3 DEF PageInv, Team!DialogFits
    <3> QED BY <2>2, <2>3, <3>1, SentCalls, SendKeeps
  <2>4. ASSUME dialog.kind = "create", NEW r \in Team!Roles, Team!Send("create", None, [role |-> r, employee |-> None])
        PROVE  PageInv'
    <3> DEFINE a == [role |-> r, employee |-> None]
    <3>1. a \in Team!Addition /\ a.role # "employee" /\ a.employee = None
      BY DEF Team!Addition, Team!Roles
    <3> HIDE DEF a
    <3>2. Team!CallFits([Team!NoCall EXCEPT !.op = "create", !.on = None, !.arg = a, !.step = "sent"])
      BY <3>1, SentCalls
    <3>3. Team!Send("create", None, a)
      BY <2>4 DEF a
    <3> QED BY <2>2, <2>4, <3>2, <3>3, SendKeeps
  <2>5. ASSUME dialog.kind = "create", NEW e \in dialog.form, Team!Send("create", None, [role |-> "employee", employee |-> e])
        PROVE  PageInv'
    <3> DEFINE a == [role |-> "employee", employee |-> e]
    <3>0. e \in Employees /\ Page = "tenant"
      BY <2>5 DEF PageInv, Team!DialogFits
    <3>1. a \in Team!Addition /\ a.role = "employee" /\ Page = "tenant" /\ a.employee # None
      BY <3>0 DEF Team!Addition
    <3>q. Team!Send("create", None, a)
      BY <2>5
    <3> HIDE DEF a
    <3>2. Team!CallFits([Team!NoCall EXCEPT !.op = "create", !.on = None, !.arg = a, !.step = "sent"])
      BY <3>1, SentCalls
    <3> QED BY <2>2, <2>5, <3>2, <3>q, SendKeeps
  <2>6. ASSUME dialog.kind = "edit",
               Team!Send("update", dialog.on, [dialog.form EXCEPT !.here = IF @ = dialog.row.here THEN None ELSE @])
        PROVE  PageInv'
    <3> DEFINE a == [dialog.form EXCEPT !.here = IF @ = dialog.row.here THEN None ELSE @]
    <3>1. dialog.on \in People /\ dialog.form \in Team!Form
      BY <2>6 DEF PageInv, Team!DialogFits
    <3>2. a \in Team!Change
      BY <3>1 DEF Team!Form, Team!Change
    <3>3. Team!Surface = "console"
      BY <2>6 DEF PageInv, Team!DialogFits
    <3>4. Team!Send("update", dialog.on, a)
      BY <2>6
    <3> HIDE DEF a
    <3> QED BY <2>2, <3>1, <3>2, <3>3, <3>4, SentCalls, SendKeeps
  <2> QED BY <1>3, <2>3, <2>4, <2>5, <2>6 DEF Team!Submit
<1>4. ASSUME NEW i \in People, Team!Toggle(i)
      PROVE  PageInv'
  <2>1. i \in DOMAIN view.shown /\ view.shown[i].active \in BOOLEAN
        /\ Team!Send("update", i, [Team!NoChange EXCEPT !.active = ~view.shown[i].active])
    BY <1>4 DEF Team!Toggle, PageInv, Team!ListFits, Team!Row
  <2>2. Page # "closed" /\ (~view.shown[i].active) \in BOOLEAN
    BY <2>1, PageIsOpen
  <2> QED BY <1>1, <2>1, <2>2, SentCalls, SendKeeps
<1>5. ASSUME NEW i \in People, NEW role \in Team!Roles, Team!SetRole(i, role)
      PROVE  PageInv'
  <2>1. i \in DOMAIN view.shown /\ Team!Send("update", i, [Team!NoChange EXCEPT !.role = role])
    BY <1>5 DEF Team!SetRole
  <2>2. Page # "closed"
    BY <2>1, PageIsOpen
  <2> QED BY <1>1, <2>1, <2>2, SentCalls, SendKeeps
<1>6. ASSUME NEW role \in Team!Roles, Team!ChangeRole(role)
      PROVE  PageInv'
  <2>1. dialog.kind = "overview" /\ Team!Send("update", dialog.on, [Team!NoChange EXCEPT !.role = role])
    BY <1>6 DEF Team!ChangeRole
  <2>2. Page # "closed" /\ dialog.on \in People
    BY <2>1, PageIsOpen, EmptyPages DEF PageInv, Team!DialogFits
  <2> QED BY <1>1, <2>1, <2>2, SentCalls, SendKeeps
<1> QED BY <1>2, <1>3, <1>4, <1>5, <1>6

(* How a page takes an answer.                                             *)
LEMMA AnswerSteps ==
  ASSUME Team!Answered
  PROVE  /\ call.step = "refused" => UNCHANGED view /\ UNCHANGED dialog
         /\ call.step # "refused" /\ dialog.kind = "overview" => dialog' = [dialog EXCEPT !.row = None] /\ UNCHANGED view
         /\ call.step # "refused" /\ dialog.kind # "overview" =>
              dialog' = Team!NoDialog /\ view' = (IF call.op = "reset" THEN view ELSE Team!Reload(view))
<1>1. CASE call.step = "refused"
  <2>1. UNCHANGED <<view, dialog>>
    BY <1>1 DEF Team!Answered
  <2> QED BY <1>1, <2>1
<1>2. CASE call.step # "refused" /\ dialog.kind = "overview"
  BY <1>2 DEF Team!Answered
<1>3. CASE call.step # "refused" /\ dialog.kind # "overview" /\ call.op = "reset"
  BY <1>3 DEF Team!Answered
<1>4. CASE call.step # "refused" /\ dialog.kind # "overview" /\ call.op # "reset"
  BY <1>4 DEF Team!Answered
<1> QED BY <1>1, <1>2, <1>3, <1>4

LEMMA ClosingKeeps ==
  ASSUME Team!ConstantsOK, AccountsInv, PageInv, Team!Load \/ Team!OpenCreate \/ Team!Close \/ Team!Answered
  PROVE  PageInv'
<1>1. CASE Team!Load
  <2>1. view' = [loading |-> FALSE, shown |-> Team!Rows] /\ UNCHANGED <<dialog, call>> /\ Page # "closed"
    BY <1>1, PageIsOpen DEF Team!Load
  <2>2. Team!ListFits(view)'
    BY <2>1, RowsFit DEF Team!ListFits, AccountsInv
  <2> QED BY <2>1, <2>2 DEF PageInv, Team!NobodyIsAdded, Team!ClosedIsIdle
<1>2. CASE Team!OpenCreate
  <2> DEFINE form == IF Page = "tenant" THEN {e \in Employees : employees[e] # None /\ employees[e].active /\ employees[e].login = None} ELSE {}
  <2>1. dialog' = [Team!NoDialog EXCEPT !.kind = "create", !.form = form] /\ UNCHANGED <<view, call>> /\ Page # "closed" /\ Room # 0
    BY <1>2, RoomIsSome DEF Team!OpenCreate
  <2>2. form \in SUBSET (IF Page = "tenant" THEN Employees ELSE {})
    OBVIOUS
  <2> HIDE DEF form
  <2>3. Team!DialogFits(dialog)'
    BY <2>1, <2>2 DEF Team!DialogFits, Team!NoDialog
  <2> QED BY <2>1, <2>3 DEF PageInv, Team!NobodyIsAdded, Team!ClosedIsIdle
<1>3. CASE Team!Close
  <2>1. dialog' = Team!NoDialog /\ view' \in {view, Team!Unread} /\ UNCHANGED call /\ Page # "closed"
    BY <1>3, PageIsOpen DEF Team!Close
  <2>2. Team!ListFits(view)' /\ Team!DialogFits(dialog)'
    BY <2>1, EmptyPages DEF PageInv
  <2> QED BY <2>1, <2>2, EmptyPages DEF PageInv, Team!NobodyIsAdded, Team!ClosedIsIdle
<1>4. CASE Team!Answered
  <2>1. call' = Team!NoCall /\ Page # "closed"
    BY <1>4, PageIsOpen, EmptyPages DEF Team!Answered
  <2>2. \/ UNCHANGED <<view, dialog>>
        \/ dialog.kind = "overview" /\ dialog' = [dialog EXCEPT !.row = None] /\ UNCHANGED view
        \/ dialog' = Team!NoDialog /\ view' \in {view, Team!Reload(view)}
    BY <1>4, AnswerSteps
  <2>3. Team!ListFits(view)'
    <3>1. view \in [loading : BOOLEAN, shown : {view.shown}]
      BY DEF PageInv, Team!ListFits
    <3>2. ASSUME NEW s, NEW v \in [loading : BOOLEAN, shown : {s}]
          PROVE  [v EXCEPT !.loading = TRUE] \in [loading : BOOLEAN, shown : {s}]
      OBVIOUS
    <3>3. ASSUME NEW v \in [loading : BOOLEAN, shown : {view.shown}]
          PROVE  Team!ListFits(v)
      <4>1. v = [loading |-> v.loading, shown |-> v.shown] /\ v.loading \in BOOLEAN /\ v.shown = view.shown
        OBVIOUS
      <4> QED BY <4>1 DEF PageInv, Team!ListFits
    <3>4. Team!ListFits(Team!Reload(view))
      BY <3>1, <3>2, <3>3 DEF Team!Reload
    <3> QED BY <2>2, <3>4 DEF PageInv
  <2>4. Team!DialogFits(dialog)' /\ (dialog'.kind = "create" => dialog.kind = "create")
    <3>1. CASE dialog.kind = "overview" /\ dialog' = [dialog EXCEPT !.row = None]
      BY <3>1 DEF PageInv, Team!DialogFits
    <3>2. CASE dialog' \in {dialog, Team!NoDialog}
      BY <3>2, EmptyPages DEF PageInv
    <3> QED BY <2>2, <3>1, <3>2
  <2>5. Team!CallFits(call)' /\ call'.op = None
    BY <2>1, EmptyPages
  <2> QED BY <2>1, <2>3, <2>4, <2>5 DEF PageInv, Team!ConstantsOK, Team!Asks, Team!NobodyIsAdded, Team!ClosedIsIdle
<1> QED BY <1>1, <1>2, <1>3, <1>4

LEMMA PageKeeps ==
  ASSUME Team!ConstantsOK, AccountsInv, PageInv, AtThePage
  PROVE  PageInv' /\ UNCHANGED <<people, employees, plan, lock, links>>
<1>1. PageInv'
  BY EditKeeps, OpenKeeps, OverviewKeeps, AskingKeeps, ClosingKeeps DEF AtThePage, Team!Fields
<1>2. UNCHANGED <<people, employees, plan, lock, links>>
  BY DEF AtThePage, Team!Load, Team!OpenCreate, Team!Close, Team!LoadOverview, Team!SaveAccess, Team!Submit, Team!Answered,
         Team!Toggle, Team!Open, Team!SetRole, Team!ChangeRole, Team!Draft, Team!Edit, Team!Send
<1> QED BY <1>1, <1>2

-----------------------------------------------------------------------------
(* The server, payroll and links                                           *)

LinksInv ==
  /\ links \in [Tabs -> Team!Link]
  /\ \A t \in Tabs : /\ links[t].step # "closed" => links[t].of \in People
                     /\ links[t].step \in {"in", "done"} => links[t].pass # None

LEMMA PeopleInvByParts ==
  /\ Team!PeopleInv <=> AccountsInv /\ PageInv /\ LinksInv
  /\ Team!PeopleInv' <=> AccountsInv' /\ PageInv' /\ LinksInv'
  BY DEF Team!PeopleInv, Team!TypeOK, AccountsInv, AccountsOK, PageInv, LinksInv

LEMMA AskedHere ==
  ASSUME Team!ConstantsOK, PageInv, call.step # "idle"
  PROVE  Asked(Team!Surface, call.op, call.on, call.arg) /\ Page # "closed"
<1>1. Page # "closed"
  BY PageIsOpen, EmptyPages
<1>2. Team!Surface \in {"tenant", "panel", "console", "admins", "logins"}
  BY <1>1 DEF Team!ConstantsOK, Team!Surface
<1>3. call.op \in Team!Asks
  BY DEF PageInv, Team!CallFits
<1> QED BY <1>2, <1>3 DEF Asked, PageInv, Team!CallFits, Team!Asks, Team!Surface, Team!OfOrganization

LEMMA ServedCalls ==
  ASSUME Team!ConstantsOK, AccountsInv, PageInv, call.step = "sent"
  PROVE  /\ Team!CallFits([call EXCEPT !.step = "refused"])
         /\ LET was == IF call.on = None THEN None ELSE people[call.on]
            IN  Team!CallFits([call EXCEPT !.step = "done", !.was = was])
<1> DEFINE was == IF call.on = None THEN None ELSE people[call.on]
<1> USE DEF Team!Steps
<1>0. call.op \in Team!Asks
  BY DEF PageInv, Team!CallFits
<1>w. (call.op = "create" => was = None) /\ was \in Team!AnAccount \cup {None}
  BY <1>0 DEF PageInv, Team!CallFits, AccountsInv, AccountsOK, Team!Asks
<1> HIDE DEF was
<1> DEFINE refused == [call EXCEPT !.step = "refused"]
           done == [call EXCEPT !.step = "done", !.was = was]
           Same(c) == c.op = call.op /\ c.arg = call.arg /\ c.step # "idle"
<1> SUFFICES Team!CallFits(refused) /\ Team!CallFits(done)
  BY DEF was
<1>s. ASSUME NEW Ons, NEW Args, NEW Was, was \in Was, call \in [op : Team!Asks, on : Ons, arg : Args, step : Team!Steps, was : Was]
      PROVE  /\ refused \in [op : Team!Asks, on : Ons, arg : Args, step : Team!Steps, was : Was] /\ Same(refused)
             /\ done \in [op : Team!Asks, on : Ons, arg : Args, step : Team!Steps, was : Was] /\ Same(done)
  BY <1>s
<1> HIDE DEF Team!Steps, refused, done
<1>o. ASSUME NEW Args, call \in [op : Team!Asks, on : People, arg : Args, step : Team!Steps, was : Team!AnAccount \cup {None}]
      PROVE  /\ refused \in [op : Team!Asks, on : People, arg : Args, step : Team!Steps, was : Team!AnAccount \cup {None}] /\ Same(refused)
             /\ done \in [op : Team!Asks, on : People, arg : Args, step : Team!Steps, was : Team!AnAccount \cup {None}] /\ Same(done)
  BY <1>w, <1>s, <1>o
<1> HIDE DEF Same
<1>1. CASE call.op = "create"
  <2>1. /\ call \in [op : Team!Asks, on : {None}, arg : Team!Addition, step : Team!Steps, was : {None}]
        /\ IF call.arg.role = "employee" THEN Page = "tenant" /\ call.arg.employee # None ELSE call.arg.employee = None
    BY <1>1 DEF PageInv, Team!CallFits, Team!Asks
  <2>2. Same(refused) /\ refused \in [op : Team!Asks, on : {None}, arg : Team!Addition, step : Team!Steps, was : {None}]
    BY <1>w, <1>s, <1>1, <2>1
  <2>3. Same(done) /\ done \in [op : Team!Asks, on : {None}, arg : Team!Addition, step : Team!Steps, was : {None}]
    BY <1>w, <1>s, <1>1, <2>1
  <2>4. ASSUME NEW c \in [op : Team!Asks, on : {None}, arg : Team!Addition, step : Team!Steps, was : {None}], Same(c)
        PROVE  Team!CallFits(c)
    BY <1>1, <2>1, <2>4 DEF Same, Team!CallFits, Team!Asks
  <2> QED BY <2>2, <2>3, <2>4
<1>2. CASE call.op = "update"
  <2>1. /\ call \in [op : Team!Asks, on : People, arg : Team!Change, step : Team!Steps, was : Team!AnAccount \cup {None}]
        /\ call.arg.here # None => Team!Surface = "console"
    BY <1>2 DEF PageInv, Team!CallFits, Team!Asks
  <2>2. Same(refused) /\ refused \in [op : Team!Asks, on : People, arg : Team!Change, step : Team!Steps, was : Team!AnAccount \cup {None}]
    BY <1>o, <2>1
  <2>3. Same(done) /\ done \in [op : Team!Asks, on : People, arg : Team!Change, step : Team!Steps, was : Team!AnAccount \cup {None}]
    BY <1>o, <2>1
  <2>4. ASSUME NEW c \in [op : Team!Asks, on : People, arg : Team!Change, step : Team!Steps, was : Team!AnAccount \cup {None}], Same(c)
        PROVE  Team!CallFits(c)
    BY <1>2, <2>1, <2>4 DEF Same, Team!CallFits, Team!Asks
  <2> QED BY <2>2, <2>3, <2>4
<1>3. CASE call.op \in {"delete", "reset"}
  <2>1. /\ call \in [op : Team!Asks, on : People, arg : {Team!NoChange}, step : Team!Steps, was : Team!AnAccount \cup {None}]
    BY <1>3 DEF PageInv, Team!CallFits, Team!Asks
  <2>2. Same(refused) /\ refused \in [op : Team!Asks, on : People, arg : {Team!NoChange}, step : Team!Steps, was : Team!AnAccount \cup {None}]
    BY <1>o, <2>1
  <2>3. Same(done) /\ done \in [op : Team!Asks, on : People, arg : {Team!NoChange}, step : Team!Steps, was : Team!AnAccount \cup {None}]
    BY <1>o, <2>1
  <2>4. ASSUME NEW c \in [op : Team!Asks, on : People, arg : {Team!NoChange}, step : Team!Steps, was : Team!AnAccount \cup {None}], Same(c)
        PROVE  Team!CallFits(c)
    BY <1>3, <2>1, <2>4 DEF Same, Team!CallFits, Team!Asks
  <2> QED BY <2>2, <2>3, <2>4
<1>4. CASE call.op = "access"
  <2>1. /\ call \in [op : Team!Asks, on : People, arg : Team!Access, step : Team!Steps, was : Team!AnAccount \cup {None}]
    BY <1>4 DEF PageInv, Team!CallFits, Team!Asks
  <2>2. Same(refused) /\ refused \in [op : Team!Asks, on : People, arg : Team!Access, step : Team!Steps, was : Team!AnAccount \cup {None}]
    BY <1>o, <2>1
  <2>3. Same(done) /\ done \in [op : Team!Asks, on : People, arg : Team!Access, step : Team!Steps, was : Team!AnAccount \cup {None}]
    BY <1>o, <2>1
  <2>4. ASSUME NEW c \in [op : Team!Asks, on : People, arg : Team!Access, step : Team!Steps, was : Team!AnAccount \cup {None}], Same(c)
        PROVE  Team!CallFits(c)
    BY <1>4, <2>1, <2>4 DEF Same, Team!CallFits, Team!Asks
  <2> QED BY <2>2, <2>3, <2>4
<1> QED BY <1>0, <1>1, <1>2, <1>3, <1>4 DEF Team!Asks

\* The page is as it was, but for the answer to its request.
LEMMA AnswerKeeps ==
  ASSUME PageInv, UNCHANGED <<view, dialog>>, Team!CallFits(call'), call'.op = call.op, Page # "closed"
  PROVE  PageInv'
BY DEF PageInv, Team!NobodyIsAdded, Team!ClosedIsIdle

LEMMA ServeKeeps ==
  ASSUME Team!ConstantsOK, AccountsInv, PageInv, Team!Serve
  PROVE  /\ AccountsInv' /\ PageInv' /\ UNCHANGED links
         /\ Page # "logins" /\ Team!ActiveAdmins # {} => Team!ActiveAdmins' # {}
<1> DEFINE was == IF call.on = None THEN None ELSE people[call.on]
<1>1. call.step = "sent" /\ UNCHANGED <<plan, view, dialog, links>>
  BY DEF Team!Serve
<1>2. Asked(Team!Surface, call.op, call.on, call.arg) /\ Page # "closed"
  BY <1>1, AskedHere
<1>3. CASE Team!Allowed(Team!Surface, call.op, call.on, call.arg, Me)
  <2>1. Team!Effect(Team!Surface, call.op, call.on, call.arg) /\ call' = [call EXCEPT !.step = "done", !.was = was]
    BY <1>3 DEF Team!Serve
  <2>2. AccountsInv'
    BY <1>1, <1>2, <1>3, <2>1, EffectKeeps
  <2>3. Team!CallFits(call') /\ call'.op = call.op
    <3>1. Team!CallFits(call')
      BY <1>1, <2>1, ServedCalls
    <3>2. call'.op = call.op
      BY <2>1, <1>2 DEF PageInv, Team!CallFits, Asked, Team!Asks
    <3> QED BY <3>1, <3>2
  <2>4. Page # "logins" /\ Team!ActiveAdmins # {} => Team!ActiveAdmins' # {}
    BY <1>2, <1>3, <2>1, EffectKeepsAnAdmin DEF Team!ConstantsOK
  <2> QED BY <1>1, <1>2, <2>2, <2>3, <2>4, AnswerKeeps
<1>4. CASE ~Team!Allowed(Team!Surface, call.op, call.on, call.arg, Me)
  <2>1. call' = [call EXCEPT !.step = "refused"] /\ UNCHANGED <<people, employees, lock>>
    BY <1>4 DEF Team!Serve
  <2>2. Team!CallFits(call')
    BY <1>1, <2>1, ServedCalls
  <2>3. call'.op = call.op
    BY <2>1, <1>2 DEF PageInv, Team!CallFits, Asked, Team!Asks
  <2>4. AccountsInv' /\ Team!ActiveAdmins' = Team!ActiveAdmins
    BY <1>1, <2>1 DEF AccountsInv, AccountsOK, Team!LoginsExist, Team!PlatformIsAdmins, Team!ActiveAdmins, Team!Exists, Team!OfOrganization
  <2> QED BY <1>1, <1>2, <2>2, <2>3, <2>4, AnswerKeeps
<1> QED BY <1>3, <1>4

LEMMA PageStays ==
  ASSUME PageInv, UNCHANGED <<view, dialog, call>>
  PROVE  PageInv'
BY DEF PageInv, Team!NobodyIsAdded, Team!ClosedIsIdle, Team!Idle

(* What is asked for elsewhere is what the server may be asked.            *)
LEMMA AskedElsewhere ==
  ASSUME Team!ConstantsOK,
         NEW surface \in Others \cap {"tenant", "panel", "console", "admins"}, Team!Elsewhere(surface)
  PROVE  \E actor \in People \cup {None}, op \in Team!Asks : \E i, a :
           /\ Asked(surface, op, i, a) /\ Team!Allowed(surface, op, i, a, actor) /\ Team!Effect(surface, op, i, a)
           /\ op = "create" => Room # 0
<1>0. /\ surface \in {"tenant", "panel", "console"} => Team!OfOrganization
      /\ surface = "admins" => Page = "admins"
  BY DEF Team!ConstantsOK, Team!OfOrganization
<1> USE DEF Asked, Team!Asks
<1>1. PICK actor \in (IF surface \in {"tenant", "admins"} THEN Team!Exists ELSE {None}) :
         \/ \E i \in Team!Exists :
              \/ \E op \in {"delete", "reset"} : Team!Allowed(surface, op, i, Team!NoChange, actor) /\ Team!Effect(surface, op, i, Team!NoChange)
              \/ \E a \in Team!Changes(surface) : Team!Allowed(surface, "update", i, a, actor) /\ Team!Effect(surface, "update", i, a)
         \/ \E a \in Team!Additions(surface) : /\ Team!Cardinality(Team!Exists) < Room
                                               /\ Team!Allowed(surface, "create", None, a, actor) /\ Team!Create(surface, a)
  BY DEF Team!Elsewhere
<1>2. actor \in People \cup {None} /\ Team!Exists \subseteq People
  BY DEF Team!Exists
<1>3. ASSUME NEW i \in Team!Exists, NEW op \in {"delete", "reset"},
             Team!Allowed(surface, op, i, Team!NoChange, actor), Team!Effect(surface, op, i, Team!NoChange)
      PROVE  Asked(surface, op, i, Team!NoChange)
  BY <1>0, <1>2
<1>4. ASSUME NEW i \in Team!Exists, NEW a \in Team!Changes(surface)
      PROVE  Asked(surface, "update", i, a)
  <2>1. a \in Team!Change /\ (a.here # None => surface = "console")
    BY DEF Team!Changes, Team!NoChange, Team!Change
  <2> QED BY <1>0, <1>2, <2>1
<1>5. ASSUME NEW a \in Team!Additions(surface)
      PROVE  Asked(surface, "create", None, a)
  <2>1. /\ a \in Team!Addition
        /\ IF a.role = "employee" THEN surface = "tenant" /\ a.employee # None ELSE a.employee = None
    BY DEF Team!Additions, Team!Addition, Team!Roles, Team!ConstantsOK
  <2> QED BY <1>0, <2>1
<1>6. ASSUME NEW a \in Team!Additions(surface), Team!Create(surface, a)
      PROVE  Team!Effect(surface, "create", None, a)
  BY <1>6 DEF Team!Effect
<1> HIDE DEF Asked, Team!Asks
<1>7. {"create", "update", "delete", "reset"} \subseteq Team!Asks
  BY DEF Team!Asks
<1>8. Team!Cardinality(Team!Exists) < Room => Room # 0
  BY RoomIsSome
<1> QED BY <1>1, <1>2, <1>3, <1>4, <1>5, <1>6, <1>7, <1>8

LEMMA ElsewhereKeeps ==
  ASSUME Team!ConstantsOK, AccountsInv, PageInv,
         NEW surface \in Others \cap {"tenant", "panel", "console", "admins"}, Team!Elsewhere(surface)
  PROVE  /\ AccountsInv' /\ PageInv' /\ UNCHANGED links
         /\ Page # "logins" /\ Team!ActiveAdmins # {} => Team!ActiveAdmins' # {}
<1>1. UNCHANGED <<plan, view, dialog, call, links>>
  BY DEF Team!Elsewhere
<1>2. PICK actor \in People \cup {None}, op \in Team!Asks : \E i, a :
        Asked(surface, op, i, a) /\ Team!Allowed(surface, op, i, a, actor) /\ Team!Effect(surface, op, i, a)
  BY AskedElsewhere
<1>3. AccountsInv'
  BY <1>1, <1>2, EffectKeeps
<1>4. Page # "logins" /\ Team!ActiveAdmins # {} => Team!ActiveAdmins' # {}
  BY <1>2, EffectKeepsAnAdmin
<1> QED BY <1>1, <1>3, <1>4, PageStays

LEMMA LocksKeep ==
  ASSUME Team!ConstantsOK, AccountsInv, NEW e \in Employees, employees[e] # None, Team!LockLogin(employees[e].login),
         NEW r, employees' = [employees EXCEPT ![e] = r], UNCHANGED plan,
         r \in {None} \cup Team!Employee, r # None => r.login = employees[e].login
  PROVE  AccountsInv'
<1> DEFINE i == employees[e].login
<1>0. employees[e] \in Team!Employee /\ i \in People \cup {None} /\ (i # None => people[i] # None /\ people[i] \in Team!AnAccount)
  BY DEF AccountsInv, AccountsOK, Team!LoginsExist, Team!Employee
<1>1. /\ people' \in [People -> {None} \cup Team!AnAccount] /\ lock' \in [People -> {"never", "payroll", "reopened"}]
      /\ \A j \in People : /\ people'[j] = None <=> people[j] = None
                           /\ people'[j] # None => people'[j].role = people[j].role /\ people'[j].here = people[j].here
  <2>1. CASE i = None
    BY <2>1 DEF Team!LockLogin, AccountsInv, AccountsOK
  <2>2. CASE i # None
    <3> DEFINE q == [people[i] EXCEPT !.active = FALSE]
    <3>1. people' = [people EXCEPT ![i] = q] /\ lock' = [lock EXCEPT ![i] = "payroll"] /\ i \in People
      BY <1>0, <2>2 DEF Team!LockLogin
    <3>2. q \in Team!AnAccount /\ q.role = people[i].role /\ q.here = people[i].here
      BY <1>0, <2>2 DEF Team!AnAccount
    <3>3. q # None
      BY <3>2 DEF Team!ConstantsOK
    <3> HIDE DEF q, i
    <3> QED BY <1>0, <2>2, <3>1, <3>2, <3>3 DEF AccountsInv, AccountsOK
  <2> QED BY <2>1, <2>2
<1> HIDE DEF i
<1>2. AccountsOK'
  BY <1>1 DEF AccountsInv, AccountsOK
<1>3. Team!LoginsExist'
  <2> SUFFICES ASSUME NEW f \in Employees, employees'[f] # None, employees'[f].login # None
               PROVE  people'[employees'[f].login] # None
    BY DEF Team!LoginsExist
  <2>1. employees[f] # None /\ employees[f].login = employees'[f].login
    BY DEF AccountsInv, AccountsOK
  <2>2. employees[f].login \in People /\ people[employees[f].login] # None
    BY <2>1 DEF AccountsInv, AccountsOK, Team!LoginsExist, Team!Employee
  <2> QED BY <1>1, <2>1, <2>2
<1>4. Team!PlatformIsAdmins'
  BY <1>1 DEF AccountsInv, AccountsOK, Team!PlatformIsAdmins, Team!Exists, Team!OfOrganization
<1> QED BY <1>2, <1>3, <1>4 DEF AccountsInv

LEMMA AtPayrollKeeps ==
  ASSUME Team!ConstantsOK, AccountsInv, PageInv, Team!AtPayroll
  PROVE  AccountsInv' /\ PageInv' /\ UNCHANGED links
<1>1. /\ UNCHANGED <<plan, dialog, call, links>> /\ Team!Idle
      /\ view' = IF Page = "closed" THEN view ELSE Team!Unread
  BY DEF Team!AtPayroll
<1>2. PageInv'
  BY <1>1, EmptyPages DEF PageInv, Team!NobodyIsAdded, Team!ClosedIsIdle, Team!Idle
<1>3. PICK e \in Employees : Team!DeleteEmployee(e) \/ Team!PayEmployee(e) \/ \E active \in BOOLEAN : Team!UpdateEmployee(e, active)
  BY DEF Team!AtPayroll
<1>4. employees[e] # None /\ employees[e] \in Team!Employee
  BY <1>3 DEF Team!DeleteEmployee, Team!PayEmployee, Team!UpdateEmployee, AccountsInv, AccountsOK
<1>5. \A active \in BOOLEAN : /\ [employees[e] EXCEPT !.active = active] \in Team!Employee
                              /\ [employees[e] EXCEPT !.active = active].login = employees[e].login
                              /\ [employees[e] EXCEPT !.slips = active] \in Team!Employee
                              /\ [employees[e] EXCEPT !.slips = active].login = employees[e].login
  BY <1>4 DEF Team!Employee
<1>6. ASSUME NEW r \in Team!Employee, r.login = employees[e].login, employees' = [employees EXCEPT ![e] = r],
             UNCHANGED <<people, lock>>
      PROVE  AccountsInv'
  <2>1. AccountsOK'
    BY <1>1, <1>6 DEF AccountsInv, AccountsOK
  <2>2. Team!LoginsExist'
    BY <1>4, <1>6 DEF AccountsInv, AccountsOK, Team!LoginsExist
  <2>3. Team!PlatformIsAdmins'
    BY <1>6 DEF AccountsInv, Team!PlatformIsAdmins, Team!Exists, Team!OfOrganization
  <2> QED BY <2>1, <2>2, <2>3 DEF AccountsInv
<1>7. CASE Team!DeleteEmployee(e)
  <2> DEFINE r == IF employees[e].slips THEN [employees[e] EXCEPT !.active = FALSE] ELSE None
  <2>1. employees' = [employees EXCEPT ![e] = r] /\ Team!LockLogin(employees[e].login)
    BY <1>7 DEF Team!DeleteEmployee
  <2>2. r \in {None} \cup Team!Employee /\ (r # None => r.login = employees[e].login)
    BY <1>5
  <2>3. UNCHANGED plan
    BY <1>1
  <2> HIDE DEF r
  <2> QED BY <1>1, <1>2, <1>4, <2>1, <2>2, <2>3, LocksKeep
<1>8. CASE Team!PayEmployee(e)
  <2> DEFINE r == [employees[e] EXCEPT !.slips = TRUE]
  <2>1. employees' = [employees EXCEPT ![e] = r] /\ UNCHANGED <<people, lock>>
    BY <1>8 DEF Team!PayEmployee
  <2>2. r \in Team!Employee /\ r.login = employees[e].login
    BY <1>5
  <2> HIDE DEF r
  <2> QED BY <1>1, <1>2, <1>6, <2>1, <2>2
<1>9. ASSUME NEW active \in BOOLEAN, Team!UpdateEmployee(e, active) PROVE AccountsInv'
  <2> DEFINE r == [employees[e] EXCEPT !.active = active]
  <2>1. employees' = [employees EXCEPT ![e] = r]
    BY <1>9 DEF Team!UpdateEmployee
  <2>2. r \in Team!Employee /\ r.login = employees[e].login
    BY <1>5
  <2> HIDE DEF r
  <2>3. CASE active
    BY <1>6, <1>9, <2>1, <2>2, <2>3 DEF Team!UpdateEmployee
  <2>4. CASE ~active
    BY <1>1, <1>4, <1>9, <2>1, <2>2, <2>4, LocksKeep DEF Team!UpdateEmployee
  <2> QED BY <2>3, <2>4
<1> QED BY <1>1, <1>2, <1>3, <1>7, <1>8, <1>9

\* Hours are logged, or a password is set.
Same(i, q) ==
  /\ i \in People /\ people[i] # None /\ q \in Team!AnAccount /\ people' = [people EXCEPT ![i] = q]
  /\ q.role = people[i].role /\ q.active = people[i].active /\ q.here = people[i].here /\ q.access = people[i].access

LEMMA WorkIsSame ==
  ASSUME AccountsInv, Team!Work
  PROVE  /\ \E i, q : Same(i, q) /\ q.pass = people[i].pass
         /\ UNCHANGED <<employees, plan, lock, view, dialog, call, links>>
<1>1. PICK i \in Team!Exists : people' = [people EXCEPT ![i].busy = TRUE]
  BY DEF Team!Work
<1> DEFINE q == [people[i] EXCEPT !.busy = TRUE]
<1>2. people' = [people EXCEPT ![i] = q] /\ i \in People /\ people[i] # None /\ people[i] \in Team!AnAccount
  BY <1>1 DEF Team!Exists, AccountsInv, AccountsOK
<1>3. /\ q \in Team!AnAccount /\ q.role = people[i].role /\ q.active = people[i].active
      /\ q.here = people[i].here /\ q.access = people[i].access /\ q.pass = people[i].pass
  BY <1>2 DEF Team!AnAccount
<1> HIDE DEF q
<1>4. Same(i, q)
  BY <1>2, <1>3 DEF Same
<1>5. UNCHANGED <<employees, plan, lock, view, dialog, call, links>>
  BY DEF Team!Work
<1> QED BY <1>3, <1>4, <1>5

LEMMA SameKeeps ==
  ASSUME Team!ConstantsOK, AccountsInv, PageInv, NEW i, NEW q, Same(i, q),
         UNCHANGED <<employees, plan, lock, view, dialog, call>>
  PROVE  AccountsInv' /\ PageInv' /\ (Team!ActiveAdmins # {} => Team!ActiveAdmins' # {})
<1>1. ~Team!OfOrganization => q.role = "admin" /\ q.here
  BY DEF Same, AccountsInv, Team!PlatformIsAdmins, Team!Exists
<1>2. AccountsInv'
  <2>1. lock' \in [People -> {"never", "payroll", "reopened"}]
    BY DEF AccountsInv, AccountsOK
  <2> QED BY <1>1, <2>1, OneAccountChanges DEF Same
<1>3. Team!ActiveAdmins # {} => Team!ActiveAdmins' # {}
  BY SameRankStays DEF Same, AccountsInv
<1> QED BY <1>2, <1>3, PageStays

LEMMA AcceptIsSame ==
  ASSUME Team!ConstantsOK, AccountsInv, LinksInv, NEW t \in Tabs, NEW p \in 1..2, Team!Accept(t, p)
  PROVE  /\ links[t].step = "ready" /\ UNCHANGED <<employees, plan, lock, view, dialog, call>>
         /\ \/ UNCHANGED people /\ links' = [links EXCEPT ![t].step = "refused"]
            \/ \E q : /\ Same(links[t].of, q) /\ q.pass = p /\ people[links[t].of].pass = None
                      /\ \E step \in {"in", "done"} : links' = [links EXCEPT ![t].step = step, ![t].pass = p]
<1> DEFINE i == links[t].of
           q == [people[i] EXCEPT !.pass = p, !.link = FALSE]
<1>1. links[t].step = "ready" /\ UNCHANGED <<employees, plan, lock, view, dialog, call>> /\ i \in People
  BY DEF Team!Accept, LinksInv
<1>2. CASE Team!LinkOpen(i)
  <2>1. people[i] # None /\ people[i].pass = None /\ people[i] \in Team!AnAccount
    BY <1>1, <1>2 DEF Team!LinkOpen, AccountsInv, AccountsOK
  <2>2. /\ people' = [people EXCEPT ![i] = q]
        /\ links' = [links EXCEPT ![t].step = IF people[i].active THEN "in" ELSE "done", ![t].pass = p]
    BY <1>2 DEF Team!Accept
  <2>3. ASSUME NEW P, p \in P, NEW a \in [role : Team!AllRoles, active : BOOLEAN, pass : P, link : BOOLEAN,
                                        access : Team!Access, here : BOOLEAN, busy : BOOLEAN]
        PROVE  LET b == [a EXCEPT !.pass = p, !.link = FALSE]
               IN  /\ b \in [role : Team!AllRoles, active : BOOLEAN, pass : P, link : BOOLEAN,
                            access : Team!Access, here : BOOLEAN, busy : BOOLEAN]
                   /\ b.role = a.role /\ b.active = a.active /\ b.here = a.here /\ b.access = a.access /\ b.pass = p
    BY <2>3
  <2>5. p \in {None} \cup 0..2
    OBVIOUS
  <2>6. /\ q \in Team!AnAccount /\ q.role = people[i].role /\ q.active = people[i].active
        /\ q.here = people[i].here /\ q.access = people[i].access /\ q.pass = p
    BY <2>1, <2>3, <2>5 DEF Team!AnAccount
  <2> HIDE DEF q
  <2>4. Same(i, q)
    BY <1>1, <2>1, <2>2, <2>6 DEF Same
  <2> QED BY <1>1, <2>1, <2>2, <2>4, <2>6
<1>3. CASE ~Team!LinkOpen(i)
  BY <1>1, <1>3 DEF Team!Accept
<1> QED BY <1>2, <1>3

LEMMA LinkSteps ==
  ASSUME Team!ConstantsOK, LinksInv, NEW t \in Tabs
  PROVE  /\ \A i \in People : Team!OpenLink(t, i) => LinksInv' /\ links'[t].step \notin {"in", "done"}
         /\ links[t].step # "closed" /\ links' = [links EXCEPT ![t].step = "refused"] => LinksInv' /\ links'[t].step = "refused"
         /\ \A p \in 1..2, step \in {"in", "done"} :
              links[t].step # "closed" /\ links' = [links EXCEPT ![t].step = step, ![t].pass = p] =>
                LinksInv' /\ links'[t].of = links[t].of /\ links'[t].pass = p
<1> USE DEF Team!ConstantsOK
<1>s. ASSUME NEW l \in Team!Link, links' = [links EXCEPT ![t] = l], l.of \in People, l.step \in {"in", "done"} => l.pass # None
      PROVE  LinksInv' /\ links'[t] = l
  BY <1>s DEF LinksInv
<1>1. ASSUME NEW i \in People, Team!OpenLink(t, i) PROVE LinksInv' /\ links'[t].step \notin {"in", "done"}
  <2> DEFINE l == [Team!NoLink EXCEPT !.step = IF Team!LinkOpen(i) THEN "ready" ELSE "invalid", !.of = i]
  <2>1. links' = [links EXCEPT ![t] = l]
    BY <1>1 DEF Team!OpenLink
  <2>2. l \in Team!Link /\ l.of = i /\ l.step \in {"ready", "invalid"}
    BY DEF Team!NoLink, Team!Link
  <2> HIDE DEF l
  <2> QED BY <2>1, <2>2, <1>s
<1>2. ASSUME links[t].step # "closed", links' = [links EXCEPT ![t].step = "refused"]
      PROVE  LinksInv' /\ links'[t].step = "refused"
  <2> DEFINE l == [links[t] EXCEPT !.step = "refused"]
  <2>1. links' = [links EXCEPT ![t] = l]
    BY <1>2
  <2>2. l \in Team!Link /\ l.of \in People /\ l.step = "refused"
    BY <1>2 DEF LinksInv, Team!Link
  <2> HIDE DEF l
  <2> QED BY <2>1, <2>2, <1>s
<1>3. ASSUME NEW p \in 1..2, NEW step \in {"in", "done"}, links[t].step # "closed",
             links' = [links EXCEPT ![t].step = step, ![t].pass = p]
      PROVE  LinksInv' /\ links'[t].of = links[t].of /\ links'[t].pass = p
  <2> DEFINE l == [links[t] EXCEPT !.step = step, !.pass = p]
  <2>1. links' = [links EXCEPT ![t] = l]
    BY <1>3
  <2>2. p # None /\ p \in {None} \cup 1..2
    OBVIOUS
  <2>3. links[t] \in Team!Link /\ links[t].of \in People
    BY <1>3 DEF LinksInv
  <2>4. ASSUME NEW P, p \in P, NEW a \in [step : {"closed", "ready", "invalid", "refused", "in", "done"}, of : People \cup {None}, pass : P]
        PROVE  LET b == [a EXCEPT !.step = step, !.pass = p]
               IN  /\ b \in [step : {"closed", "ready", "invalid", "refused", "in", "done"}, of : People \cup {None}, pass : P]
                   /\ b.of = a.of /\ b.pass = p
    BY <2>4
  <2>5. l \in Team!Link /\ l.of = links[t].of /\ l.pass = p
    BY <2>2, <2>3, <2>4 DEF Team!Link
  <2> HIDE DEF l
  <2> QED BY <2>1, <2>2, <2>3, <2>5, <1>s
<1> QED BY <1>1, <1>2, <1>3

LEMMA NextSteps ==
  ASSUME Team!Next
  PROVE  \/ AtThePage \/ Team!Serve \/ Team!AtPayroll \/ Team!Work
         \/ \E surface \in Others \cap {"tenant", "panel", "console", "admins"} : Team!Elsewhere(surface)
         \/ \E t \in Tabs : (\E i \in People : Team!OpenLink(t, i)) \/ \E p \in 1..2 : Team!Accept(t, p)
  BY DEF Team!Next, AtThePage

LEMMA LinkKeeps ==
  ASSUME Team!ConstantsOK, AccountsInv, PageInv, LinksInv, NEW t \in Tabs,
         (\E i \in People : Team!OpenLink(t, i)) \/ \E p \in 1..2 : Team!Accept(t, p)
  PROVE  AccountsInv' /\ PageInv' /\ LinksInv' /\ (Team!ActiveAdmins # {} => Team!ActiveAdmins' # {})
<1>1. ASSUME NEW i \in People, Team!OpenLink(t, i)
      PROVE  AccountsInv' /\ PageInv' /\ LinksInv' /\ Team!ActiveAdmins' = Team!ActiveAdmins
  <2>1. UNCHANGED <<people, employees, plan, lock, view, dialog, call>>
    BY <1>1 DEF Team!OpenLink
  <2>2. AccountsInv' /\ Team!ActiveAdmins' = Team!ActiveAdmins
    BY <2>1 DEF AccountsInv, AccountsOK, Team!LoginsExist, Team!PlatformIsAdmins, Team!ActiveAdmins, Team!Exists, Team!OfOrganization
  <2> QED BY <1>1, <2>1, <2>2, PageStays, LinkSteps
<1>2. ASSUME NEW p \in 1..2, Team!Accept(t, p)
      PROVE  AccountsInv' /\ PageInv' /\ LinksInv' /\ (Team!ActiveAdmins # {} => Team!ActiveAdmins' # {})
  <2>0. links[t].step # "closed" /\ UNCHANGED <<employees, plan, lock, view, dialog, call>>
    BY <1>2, AcceptIsSame
  <2>1. CASE UNCHANGED people /\ links' = [links EXCEPT ![t].step = "refused"]
    <3>1. AccountsInv' /\ Team!ActiveAdmins' = Team!ActiveAdmins
      BY <2>0, <2>1 DEF AccountsInv, AccountsOK, Team!LoginsExist, Team!PlatformIsAdmins, Team!ActiveAdmins, Team!Exists, Team!OfOrganization
    <3> QED BY <2>0, <2>1, <3>1, PageStays, LinkSteps
  <2>2. ASSUME NEW q, Same(links[t].of, q), NEW step \in {"in", "done"},
               links' = [links EXCEPT ![t].step = step, ![t].pass = p]
        PROVE  AccountsInv' /\ PageInv' /\ LinksInv' /\ (Team!ActiveAdmins # {} => Team!ActiveAdmins' # {})
    <3>1. LinksInv'
      BY <2>0, <2>2, LinkSteps
    <3>2. AccountsInv' /\ PageInv' /\ (Team!ActiveAdmins # {} => Team!ActiveAdmins' # {})
      BY <2>0, <2>2, SameKeeps
    <3> QED BY <3>1, <3>2
  <2> QED BY <1>2, <2>1, <2>2, AcceptIsSame
<1> QED BY <1>1, <1>2

LEMMA TeamStarts ==
  ASSUME Team!ConstantsOK, Team!Init
  PROVE  AccountsInv /\ PageInv /\ LinksInv
<1> USE DEF Team!ConstantsOK
<1> DEFINE Start(r, c, m) == [Team!Account(r, Team!ByAdmin) EXCEPT !.active = c, !.access = m]
           Theirs == Team!Roles \cup (IF Team!Surface = "console" THEN {"employee"} ELSE {})
           Invited == IF Tabs = {} THEN {} ELSE {Team!Account("staff", None)}
<1>s. Team!Starts = {Start(r, c, m) : r \in Theirs, c \in BOOLEAN, m \in Team!Access} \cup Invited
  BY DEF Team!Starts
<1>a. ASSUME NEW r \in Theirs, NEW c \in BOOLEAN, NEW m \in Team!Access
      PROVE  Start(r, c, m) \in Team!AnAccount /\ Start(r, c, m).role = r /\ Start(r, c, m).here
  <2>1. /\ Team!Account(r, Team!ByAdmin) \in Team!AnAccount
        /\ Team!Account(r, Team!ByAdmin).role = r /\ Team!Account(r, Team!ByAdmin).here
    BY NewAccounts DEF Team!ByAdmin, Team!Roles, Team!AllRoles
  <2> QED BY <2>1 DEF Team!AnAccount
<1>b. Invited \subseteq Team!AnAccount
  BY NewAccounts DEF Team!AllRoles
<1> HIDE DEF Start, Theirs, Invited
<1>1. Team!Starts \subseteq Team!AnAccount
  BY <1>s, <1>a, <1>b
<1>2. AccountsOK
  <2>1. \A e \in Employees : [active |-> TRUE, slips |-> FALSE, login |-> None] \in Team!Employee
    BY DEF Team!Employee
  <2>2. plan \in Team!Access
    BY DEF Team!Init, Team!Access
  <2>3. people \in [People -> {None} \cup Team!AnAccount]
    BY <1>1 DEF Team!Init
  <2>4. employees \in [Employees -> {None} \cup Team!Employee]
    BY <2>1 DEF Team!Init
  <2> QED BY <2>2, <2>3, <2>4 DEF AccountsOK, Team!Init
<1>3. Team!LoginsExist
  BY DEF Team!Init, Team!LoginsExist
<1>4. Team!PlatformIsAdmins
  <2> SUFFICES ASSUME ~Team!OfOrganization, NEW i \in People, people[i] # None
               PROVE  people[i].role = "admin" /\ people[i].here
    BY DEF Team!PlatformIsAdmins, Team!Exists
  <2>1. Team!Roles = {"admin"} /\ Team!Surface # "console" /\ Tabs = {}
    BY DEF Team!Roles, Team!Surface, Team!OfOrganization
  <2>2. people[i] \in Team!Starts
    BY DEF Team!Init
  <2>3. Theirs = {"admin"} /\ Invited = {}
    BY <2>1 DEF Theirs, Invited
  <2> QED BY <2>2, <2>3, <1>s, <1>a
<1>5. PageInv
  <2>1. view = Team!Unread /\ dialog = Team!NoDialog /\ call = Team!NoCall
    BY DEF Team!Init
  <2>2. Team!ClosedIsIdle
    BY <2>1 DEF Team!ClosedIsIdle, Team!Idle, Team!Unread
  <2>3. Team!NobodyIsAdded
    BY <2>1, EmptyPages DEF Team!NobodyIsAdded, Team!Asks
  <2> QED BY <2>1, <2>2, <2>3, EmptyPages DEF PageInv
<1>6. LinksInv
  <2>1. Team!NoLink \in Team!Link /\ Team!NoLink.step = "closed"
    BY DEF Team!NoLink, Team!Link
  <2> QED BY <2>1 DEF LinksInv, Team!Init
<1> QED BY <1>2, <1>3, <1>4, <1>5, <1>6 DEF AccountsInv

(* A step keeps the invariant; and unless payroll takes it, or the page is *)
(* that of a panel's logins, there is an active administrator after it     *)
(* where there was one before.                                             *)
LEMMA TeamStepKeeps ==
  ASSUME Team!ConstantsOK, Team!PeopleInv, [Team!Next]_Team!vars
  PROVE  /\ Team!PeopleInv'
         /\ Team!AtPayroll \/ Page = "logins" \/ Team!ActiveAdmins = {} \/ Team!ActiveAdmins' # {}
<1>0. AccountsInv /\ PageInv /\ LinksInv
  BY PeopleInvByParts
<1>i. LinksInv /\ UNCHANGED links => LinksInv'
  BY DEF LinksInv
<1>u. UNCHANGED <<people, employees, plan, lock>> => AccountsInv' /\ Team!ActiveAdmins' = Team!ActiveAdmins
  BY <1>0 DEF AccountsInv, AccountsOK, Team!LoginsExist, Team!PlatformIsAdmins, Team!ActiveAdmins, Team!Exists, Team!OfOrganization
<1>1. CASE AtThePage
  BY <1>0, <1>1, <1>i, <1>u, PageKeeps, PeopleInvByParts
<1>2. CASE Team!Serve
  BY <1>0, <1>2, <1>i, ServeKeeps, PeopleInvByParts
<1>3. CASE Team!AtPayroll
  BY <1>0, <1>3, <1>i, AtPayrollKeeps, PeopleInvByParts
<1>4. CASE Team!Work
  BY <1>0, <1>4, <1>i, WorkIsSame, SameKeeps, PeopleInvByParts
<1>5. CASE \E surface \in Others \cap {"tenant", "panel", "console", "admins"} : Team!Elsewhere(surface)
  BY <1>0, <1>5, <1>i, ElsewhereKeeps, PeopleInvByParts
<1>6. CASE \E t \in Tabs : (\E i \in People : Team!OpenLink(t, i)) \/ \E p \in 1..2 : Team!Accept(t, p)
  BY <1>0, <1>6, LinkKeeps, PeopleInvByParts
<1>7. CASE UNCHANGED Team!vars
  BY <1>0, <1>7, <1>i, <1>u, PageStays, PeopleInvByParts DEF Team!vars
<1> QED BY <1>1, <1>2, <1>3, <1>4, <1>5, <1>6, <1>7, NextSteps

(* Accounts, the payroll's records, the list, the dialog, the request and  *)
(* the links are what they are for; a login is an account there is; the    *)
(* platform's own accounts are administrators; where nobody may be added   *)
(* nobody is asked for; and where no page is open nothing is (org_users.py, *)
(* platform_admin.py, payroll.py, auth.py; UsersSettings.tsx, UsersPage.tsx, *)
(* AdminsPage.tsx, OrgDetailDrawer.tsx).                                   *)
THEOREM PeopleInvariant ==
  ASSUME Team!ConstantsOK
  PROVE  Team!Spec => []Team!PeopleInv
<1>1. Team!Init => Team!PeopleInv
  BY TeamStarts, PeopleInvByParts
<1>2. Team!PeopleInv /\ [Team!Next]_Team!vars => Team!PeopleInv'
  BY TeamStepKeeps
<1> QED BY <1>1, <1>2, PTL DEF Team!Spec

(* Whoever changes, moves or deletes accounts from where, an organization  *)
(* keeps an active administrator, and so does the platform                 *)
(* (_require_another_admin, _would_orphan_org, update_admin,               *)
(* delete_admin).                                                          *)
THEOREM LastAdminAlwaysStays ==
  ASSUME Team!ConstantsOK
  PROVE  Team!Spec => []Team!LastAdminStays
<1>1. Team!Init => Team!LastAdminStays
  BY DEF Team!Init, Team!LastAdminStays
<1>2. Team!PeopleInv /\ Team!LastAdminStays /\ [Team!Next]_Team!vars => Team!LastAdminStays'
  <2> SUFFICES ASSUME Team!PeopleInv, Team!LastAdminStays, [Team!Next]_Team!vars, Page # "logins", "payroll" \notin Others
               PROVE  Team!ActiveAdmins' # {}
    BY DEF Team!LastAdminStays
  <2>1. ~Team!AtPayroll /\ Team!ActiveAdmins # {}
    BY DEF Team!AtPayroll, Team!LastAdminStays
  <2> QED BY <2>1, TeamStepKeeps
<1> QED BY <1>1, <1>2, PeopleInvariant, PTL DEF Team!Spec

-----------------------------------------------------------------------------
(* Invitations                                                             *)

\* No account comes back, and a password is as it was or an administrator's.
PasswordsKept ==
  \A i \in People : people'[i] # None => people[i] # None /\ people'[i].pass \in {people[i].pass, Team!ByAdmin}

LEMMA EffectKeepsPasswords ==
  ASSUME Team!ConstantsOK, AccountsInv, NEW surface, NEW op, NEW i, NEW a, NEW actor,
         Asked(surface, op, i, a), Team!Allowed(surface, op, i, a, actor), Team!Effect(surface, op, i, a), op # "create"
  PROVE  PasswordsKept
<1>0. i \in People /\ people[i] # None /\ people[i] \in Team!AnAccount
  BY DEF Asked, Team!Allowed, AccountsInv, AccountsOK, Team!ConstantsOK
<1>1. PICK q : people' = [people EXCEPT ![i] = q] /\ (q # None => q.pass \in {people[i].pass, Team!ByAdmin})
  <2>1. CASE op = "update"
    BY <1>0, <2>1, ChangedAccounts DEF Team!Effect, Asked
  <2>2. CASE op = "delete"
    <3>1. [people[i] EXCEPT !.active = FALSE].pass = people[i].pass
      BY <1>0 DEF Team!AnAccount
    <3> QED BY <2>2, <3>1 DEF Team!Effect, Team!DeleteAccount
  <2>3. CASE op = "reset"
    <3>1. [people[i] EXCEPT !.pass = Team!ByAdmin].pass = Team!ByAdmin
      BY <1>0 DEF Team!AnAccount
    <3> QED BY <2>3, <3>1 DEF Team!Effect
  <2>4. CASE op = "access"
    <3>1. [people[i] EXCEPT !.access = a].pass = people[i].pass
      BY <1>0 DEF Team!AnAccount
    <3> QED BY <2>4, <3>1 DEF Team!Effect
  <2> QED BY <2>1, <2>2, <2>3, <2>4 DEF Asked, Team!Asks
<1> QED BY <1>0, <1>1 DEF AccountsInv, AccountsOK, PasswordsKept

LEMMA LocksKeepPasswords ==
  ASSUME Team!ConstantsOK, AccountsInv, Team!AtPayroll
  PROVE  PasswordsKept
<1>1. PICK e \in Employees : employees[e] # None /\ (UNCHANGED people \/ Team!LockLogin(employees[e].login))
  BY DEF Team!AtPayroll, Team!DeleteEmployee, Team!PayEmployee, Team!UpdateEmployee
<1> DEFINE i == employees[e].login
<1>2. UNCHANGED people \/ (i # None /\ people' = [people EXCEPT ![i].active = FALSE])
  BY <1>1 DEF Team!LockLogin
<1>3. i # None => i \in People /\ people[i] # None /\ people[i] \in Team!AnAccount
  BY <1>1 DEF AccountsInv, AccountsOK, Team!LoginsExist, Team!Employee
<1>4. i # None => [people[i] EXCEPT !.active = FALSE].pass = people[i].pass
  BY <1>3 DEF Team!AnAccount
<1> HIDE DEF i
<1> QED BY <1>2, <1>3, <1>4 DEF AccountsInv, AccountsOK, PasswordsKept

(* Where nobody is added, whoever acts for others replaces passwords only  *)
(* by an administrator's.                                                  *)
LEMMA OthersKeepPasswords ==
  ASSUME Team!ConstantsOK, Team!PeopleInv, Room = 0,
         \/ AtThePage \/ Team!Serve \/ Team!AtPayroll \/ Team!Work \/ UNCHANGED Team!vars
         \/ \E surface \in Others \cap {"tenant", "panel", "console", "admins"} : Team!Elsewhere(surface)
  PROVE  PasswordsKept /\ UNCHANGED links
<1>0. AccountsInv /\ PageInv /\ LinksInv
  BY PeopleInvByParts
<1>u. UNCHANGED people => PasswordsKept
  BY DEF PasswordsKept
<1>1. CASE AtThePage
  BY <1>0, <1>1, <1>u, PageKeeps
<1>2. CASE Team!Serve
  <2>1. Asked(Team!Surface, call.op, call.on, call.arg) /\ UNCHANGED links
    BY <1>0, <1>2, AskedHere DEF Team!Serve
  <2>2. call.op # "create"
    BY <1>0 DEF PageInv, Team!NobodyIsAdded
  <2>3. CASE Team!Allowed(Team!Surface, call.op, call.on, call.arg, Me)
    BY <1>0, <1>2, <2>1, <2>2, <2>3, EffectKeepsPasswords DEF Team!Serve
  <2>4. CASE ~Team!Allowed(Team!Surface, call.op, call.on, call.arg, Me)
    BY <1>2, <1>u, <2>1, <2>4 DEF Team!Serve
  <2> QED BY <2>3, <2>4
<1>3. CASE Team!AtPayroll
  BY <1>0, <1>3, LocksKeepPasswords DEF Team!AtPayroll
<1>4. CASE Team!Work
  <2>1. PICK i, q : Same(i, q) /\ q.pass = people[i].pass
    BY <1>0, <1>4, WorkIsSame
  <2> QED BY <1>0, <1>4, <2>1, WorkIsSame DEF Same, PasswordsKept, AccountsInv, AccountsOK
<1>5. ASSUME NEW surface \in Others \cap {"tenant", "panel", "console", "admins"}, Team!Elsewhere(surface)
      PROVE  PasswordsKept /\ UNCHANGED links
  <2>1. PICK actor \in People \cup {None}, op \in Team!Asks : \E i, a :
          Asked(surface, op, i, a) /\ Team!Allowed(surface, op, i, a, actor) /\ Team!Effect(surface, op, i, a) /\ op # "create"
    BY <1>5, AskedElsewhere
  <2> QED BY <1>0, <1>5, <2>1, EffectKeepsPasswords DEF Team!Elsewhere
<1>6. CASE UNCHANGED Team!vars
  BY <1>6, <1>u DEF Team!vars
<1> QED BY <1>1, <1>2, <1>3, <1>4, <1>5, <1>6

LEMMA LinksKeepMine ==
  ASSUME Team!ConstantsOK, Team!PeopleInv, Team!AcceptedIsMine, NEW t \in Tabs,
         (\E i \in People : Team!OpenLink(t, i)) \/ \E p \in 1..2 : Team!Accept(t, p)
  PROVE  Team!AcceptedIsMine'
<1>0. AccountsInv /\ PageInv /\ LinksInv
  BY PeopleInvByParts
<1>m. SUFFICES ASSUME NEW u \in Tabs, links'[u].step \in {"in", "done"}, people'[links'[u].of] # None
               PROVE  people'[links'[u].of].pass \in {links'[u].pass, Team!ByAdmin}
  BY DEF Team!AcceptedIsMine
<1>o. u # t => links'[u] = links[u]
  BY <1>0 DEF LinksInv, Team!OpenLink, Team!Accept
<1>b. /\ links[u].step \in {"in", "done"} => links[u].of \in People /\ links[u].pass # None /\ links[u].pass \in 1..2
      /\ links[u].step \in {"in", "done"} /\ people[links[u].of] # None => people[links[u].of].pass \in {links[u].pass, 0}
  BY <1>0 DEF Team!AcceptedIsMine, LinksInv, Team!Link, Team!ByAdmin
<1>1. ASSUME NEW i \in People, Team!OpenLink(t, i)
      PROVE  people'[links'[u].of].pass \in {links'[u].pass, Team!ByAdmin}
  <2>1. u # t /\ UNCHANGED people
    BY <1>0, <1>1, <1>m, LinkSteps DEF Team!OpenLink
  <2> QED BY <2>1, <1>m, <1>o, <1>b DEF Team!ByAdmin
<1>2. ASSUME NEW p \in 1..2, Team!Accept(t, p)
      PROVE  people'[links'[u].of].pass \in {links'[u].pass, Team!ByAdmin}
  <2>0. links[t].step # "closed"
    BY <1>0, <1>2, AcceptIsSame
  <2>1. CASE UNCHANGED people /\ links' = [links EXCEPT ![t].step = "refused"]
    <3>1. u # t
      BY <1>0, <1>m, <2>0, <2>1, LinkSteps
    <3> QED BY <3>1, <2>1, <1>m, <1>o, <1>b DEF Team!ByAdmin
  <2>2. ASSUME NEW q, Same(links[t].of, q), q.pass = p, people[links[t].of].pass = None, NEW step \in {"in", "done"},
               links' = [links EXCEPT ![t].step = step, ![t].pass = p]
        PROVE  people'[links'[u].of].pass \in {links'[u].pass, Team!ByAdmin}
    <3>0. people' = [people EXCEPT ![links[t].of] = q] /\ links[t].of \in People /\ people[links[t].of] # None
      BY <2>2 DEF Same
    <3>1. CASE u = t
      <4>1. links'[t].of = links[t].of /\ links'[t].pass = p
        BY <1>0, <2>0, <2>2, LinkSteps
      <4> QED BY <1>0, <2>2, <3>0, <3>1, <4>1 DEF AccountsInv, AccountsOK
    <3>2. CASE u # t
      <4>1. links[u].of # links[t].of
        BY <1>b, <1>m, <1>o, <2>2, <3>0, <3>2 DEF Team!ConstantsOK
      <4>2. people'[links[u].of] = people[links[u].of]
        BY <1>0, <1>b, <1>m, <1>o, <3>0, <3>2, <4>1 DEF AccountsInv, AccountsOK
      <4> QED BY <1>b, <1>m, <1>o, <3>2, <4>2 DEF Team!ByAdmin
    <3> QED BY <3>1, <3>2
  <2> QED BY <1>0, <1>2, <2>1, <2>2, AcceptIsSame
<1> QED BY <1>1, <1>2

LEMMA StepKeepsMine ==
  ASSUME Team!ConstantsOK, Team!PeopleInv, [Team!Next]_Team!vars, Room = 0, Team!AcceptedIsMine
  PROVE  Team!AcceptedIsMine'
<1>1. CASE PasswordsKept /\ UNCHANGED links
  <2> SUFFICES ASSUME NEW t \in Tabs, links[t].step \in {"in", "done"}, people'[links[t].of] # None
               PROVE  people'[links[t].of].pass \in {links[t].pass, Team!ByAdmin}
    BY <1>1 DEF Team!AcceptedIsMine
  <2>1. links[t].of \in People
    BY PeopleInvByParts DEF LinksInv
  <2> QED BY <1>1, <2>1 DEF PasswordsKept, Team!AcceptedIsMine
<1> QED BY <1>1, OthersKeepPasswords, LinksKeepMine, NextSteps

-----------------------------------------------------------------------------
(* Someone alone                                                           *)

\* Nothing of what a page shows is changed.
SameRows ==
  \A i \in People :
    /\ people'[i] = None <=> people[i] = None
    /\ people[i] # None => /\ people'[i].role = people[i].role /\ people'[i].active = people[i].active
                           /\ people'[i].access = people[i].access /\ people'[i].here = people[i].here

LEMMA SameRowsAgree ==
  ASSUME SameRows
  PROVE  Team!Exists' = Team!Exists /\ Team!Rows' = Team!Rows /\ \A i \in Team!Exists : Team!Shown(i)' = Team!Shown(i)
<1>1. Team!Exists' = Team!Exists
  BY DEF SameRows, Team!Exists
<1>2. Team!Listed' = Team!Listed
  BY <1>1 DEF SameRows, Team!Exists, Team!Listed
<1>3. \A i \in Team!Exists : Team!Shown(i)' = Team!Shown(i)
  BY DEF SameRows, Team!Exists, Team!Shown
<1>4. \A i \in Team!Listed : Team!Shown(i)' = Team!Shown(i)
  BY <1>3 DEF Team!Listed
<1>5. Team!Rows' = Team!Rows
  BY <1>2, <1>4 DEF Team!Rows
<1> QED BY <1>1, <1>3, <1>5

LEMMA SameIsSameRows ==
  ASSUME Team!ConstantsOK, AccountsInv, NEW i, NEW q, Same(i, q)
  PROVE  SameRows
BY DEF Same, SameRows, AccountsInv, AccountsOK, Team!ConstantsOK

LEMMA SameRowsKeepLone ==
  ASSUME Team!ConstantsOK, Team!PeopleInv, Team!LoneInv, Team!Lone, SameRows, UNCHANGED <<employees, plan, lock, view, dialog, call>>
  PROVE  Team!LoneInv'
<1>0. AccountsInv /\ PageInv
  BY PeopleInvByParts
<1>s. Team!Exists' = Team!Exists /\ Team!Rows' = Team!Rows /\ \A i \in Team!Exists : Team!Shown(i)' = Team!Shown(i)
  BY SameRowsAgree
<1>1. Team!ListIsStored'
  BY <1>s DEF Team!LoneInv, Team!ListIsStored
<1>2. Team!OverviewIsStored'
  BY <1>s DEF Team!LoneInv, Team!OverviewIsStored, Team!Exists, SameRows
<1>3. Team!EditIsStored'
  BY <1>s DEF Team!LoneInv, Team!EditIsStored
<1>4. Team!LoginsForStaff'
  BY DEF Team!LoneInv, Team!LoginsForStaff
<1>5. Team!DismissedIsLocked'
  <2> SUFFICES ASSUME NEW e \in Employees, employees[e] # None, ~employees[e].active, employees[e].login # None
               PROVE  ~people'[employees[e].login].active \/ lock[employees[e].login] = "reopened"
    BY DEF Team!DismissedIsLocked
  <2>1. employees[e].login \in People /\ people[employees[e].login] # None
    BY <1>0 DEF AccountsInv, AccountsOK, Team!LoginsExist, Team!Employee
  <2> QED BY <2>1 DEF Team!LoneInv, Team!DismissedIsLocked, SameRows
<1>6. Team!EditKeepsTheRest'
  <2> SUFFICES ASSUME call.step = "done", dialog.kind = "edit", NEW field \in {"role", "active", "here"} \ dialog.touched
               PROVE  \/ people'[call.on][field] = call.was[field]
                      \/ field = "role" /\ call.was.role = "employee" /\ people'[call.on].role = "staff"
    BY DEF Team!EditKeepsTheRest
  <2>1. call.on \in People
    BY <1>0 DEF Team!LoneInv, Team!EditIsStored, PageInv, Team!CallFits
  <2>2. \/ people[call.on][field] = call.was[field]
        \/ field = "role" /\ call.was.role = "employee" /\ people[call.on].role = "staff"
    BY DEF Team!LoneInv, Team!EditKeepsTheRest
  <2>3. CASE people[call.on] = None
    BY <2>1, <2>2, <2>3 DEF SameRows
  <2>4. CASE people[call.on] # None
    <3>1. people'[call.on][field] = people[call.on][field] /\ people'[call.on].role = people[call.on].role
      BY <2>1, <2>4 DEF SameRows
    <3> QED BY <2>2, <3>1
  <2> QED BY <2>3, <2>4
<1> QED BY <1>1, <1>2, <1>3, <1>4, <1>5, <1>6 DEF Team!LoneInv

LEMMA PayrollKeepsLone ==
  ASSUME Team!ConstantsOK, Team!PeopleInv, Team!LoneInv, Team!Lone, Team!AtPayroll
  PROVE  Team!LoneInv'
<1>0. AccountsInv /\ PageInv
  BY PeopleInvByParts
<1>1. /\ dialog' = Team!NoDialog /\ call' = Team!NoCall /\ dialog'.kind = "none" /\ call'.step = "idle" /\ call'.op = None
      /\ Page = "closed" \/ view'.loading
  BY EmptyPages DEF Team!AtPayroll, Team!Idle, Team!Unread
<1>2. Team!ListIsStored' /\ Team!OverviewIsStored' /\ Team!EditIsStored' /\ Team!LoginsForStaff' /\ Team!EditKeepsTheRest'
  BY <1>1 DEF Team!ListIsStored, Team!OverviewIsStored, Team!EditIsStored, Team!LoginsForStaff, Team!EditKeepsTheRest
<1>3. Team!DismissedIsLocked'
  <2> SUFFICES ASSUME NEW f \in Employees, employees'[f] # None, ~employees'[f].active, employees'[f].login # None
               PROVE  ~people'[employees'[f].login].active \/ lock'[employees'[f].login] = "reopened"
    BY DEF Team!DismissedIsLocked
  <2>1. PICK e \in Employees : Team!DeleteEmployee(e) \/ Team!PayEmployee(e) \/ \E active \in BOOLEAN : Team!UpdateEmployee(e, active)
    BY DEF Team!AtPayroll
  <2>2. employees[e] \in Team!Employee /\ employees[e] # None
    BY <1>0, <2>1 DEF Team!DeleteEmployee, Team!PayEmployee, Team!UpdateEmployee, AccountsInv, AccountsOK
  <2> DEFINE r == employees'[e]
  <2>3. /\ employees' = [employees EXCEPT ![e] = r] /\ (r # None => r.login = employees[e].login)
        /\ \/ r # None /\ r.active /\ UNCHANGED <<people, lock>>
           \/ Team!LockLogin(employees[e].login)
    <3>1. CASE Team!DeleteEmployee(e)
      BY <1>0, <2>2, <3>1 DEF Team!DeleteEmployee, AccountsInv, AccountsOK, Team!Employee
    <3>2. CASE Team!PayEmployee(e)
      <4> DEFINE new == [employees[e] EXCEPT !.slips = TRUE]
      <4>1. new \in Team!Employee /\ new.login = employees[e].login /\ new.active
        BY <2>2, <3>2 DEF Team!PayEmployee, Team!Employee
      <4>2. employees' = [employees EXCEPT ![e] = new]
        BY <3>2 DEF Team!PayEmployee
      <4>3. employees'[e] = new
        BY <1>0, <4>2 DEF AccountsInv, AccountsOK
      <4> HIDE DEF new
      <4> QED BY <3>2, <4>1, <4>2, <4>3 DEF Team!PayEmployee, Team!ConstantsOK
    <3>3. ASSUME NEW active \in BOOLEAN, Team!UpdateEmployee(e, active)
          PROVE  /\ employees' = [employees EXCEPT ![e] = r] /\ (r # None => r.login = employees[e].login)
                 /\ \/ r # None /\ r.active /\ UNCHANGED <<people, lock>>
                    \/ Team!LockLogin(employees[e].login)
      <4> DEFINE new == [employees[e] EXCEPT !.active = active]
      <4>1. new \in Team!Employee /\ new.login = employees[e].login /\ new.active = active
        BY <2>2 DEF Team!Employee
      <4>2. employees' = [employees EXCEPT ![e] = new]
        BY <3>3 DEF Team!UpdateEmployee
      <4>3. employees'[e] = new
        BY <1>0, <4>2 DEF AccountsInv, AccountsOK
      <4> HIDE DEF new
      <4> QED BY <3>3, <4>1, <4>2, <4>3 DEF Team!UpdateEmployee, Team!ConstantsOK
    <3> QED BY <2>1, <3>1, <3>2, <3>3
  <2> HIDE DEF r
  <2>4. f # e => employees'[f] = employees[f]
    BY <1>0, <2>3 DEF AccountsInv, AccountsOK
  <2>5. employees'[e] = r
    BY <1>0, <2>3 DEF AccountsInv, AccountsOK
  <2>6. CASE r # None /\ r.active /\ UNCHANGED <<people, lock>>
    BY <2>4, <2>5, <2>6 DEF Team!LoneInv, Team!DismissedIsLocked
  <2>7. CASE Team!LockLogin(employees[e].login)
    <3> DEFINE i == employees[e].login
               j == employees'[f].login
    <3>1. j = IF f = e THEN i ELSE employees[f].login
      BY <2>3, <2>4, <2>5
    <3>2. CASE i = None
      BY <2>4, <2>7, <3>1, <3>2 DEF Team!LockLogin, Team!LoneInv, Team!DismissedIsLocked
    <3>3. CASE i # None
      <4>0. i \in People /\ people[i] \in Team!AnAccount
        BY <1>0, <2>2, <3>3 DEF AccountsInv, AccountsOK, Team!LoginsExist, Team!Employee
      <4>1. people' = [people EXCEPT ![i].active = FALSE] /\ lock' = [lock EXCEPT ![i] = "payroll"]
        BY <2>7, <3>3 DEF Team!LockLogin
      <4>2. CASE j = i
        <5>1. people'[i] = [people[i] EXCEPT !.active = FALSE]
          BY <1>0, <4>0, <4>1 DEF AccountsInv, AccountsOK
        <5>2. ~people'[i].active
          BY <4>0, <5>1 DEF Team!AnAccount
        <5> QED BY <4>2, <5>2
      <4>3. CASE j # i
        <5>1. f # e /\ j \in People
          BY <1>0, <2>4, <3>1, <4>3 DEF AccountsInv, AccountsOK, Team!Employee
        <5>2. people'[j] = people[j] /\ lock'[j] = lock[j]
          BY <1>0, <4>1, <4>3, <5>1 DEF AccountsInv, AccountsOK
        <5> QED BY <2>4, <5>1, <5>2 DEF Team!LoneInv, Team!DismissedIsLocked
      <4> QED BY <4>2, <4>3
    <3> QED BY <3>2, <3>3
  <2> QED BY <2>3, <2>6, <2>7
<1> QED BY <1>2, <1>3 DEF Team!LoneInv

(* Where the accounts are as they were, and no request was just served,    *)
(* only what is open and what is asked for matters.                        *)
LEMMA PageKeepsLoneByParts ==
  ASSUME UNCHANGED <<people, employees, plan, lock>>, Team!LoneInv,
         Team!ListIsStored', Team!OverviewIsStored', Team!EditIsStored', Team!LoginsForStaff',
         call'.step = "done" => dialog'.kind # "edit" \/ UNCHANGED <<dialog, call>>
  PROVE  Team!LoneInv'
<1>1. Team!DismissedIsLocked'
  BY DEF Team!LoneInv, Team!DismissedIsLocked
<1>2. Team!EditKeepsTheRest'
  BY DEF Team!LoneInv, Team!EditKeepsTheRest, Team!Lone
<1> QED BY <1>1, <1>2 DEF Team!LoneInv

LEMMA SendKeepsLone ==
  ASSUME Team!ConstantsOK, Team!PeopleInv, Team!LoneInv,
         \/ Team!SaveAccess \/ Team!Submit
         \/ \E i \in People : Team!Toggle(i) \/ \E role \in Team!Roles : Team!SetRole(i, role)
         \/ \E role \in Team!Roles : Team!ChangeRole(role)
  PROVE  Team!LoneInv'
<1>0. AccountsInv /\ PageInv
  BY PeopleInvByParts
<1>1. PICK op, i, a :
        /\ Team!Send(op, i, a)
        /\ dialog.kind = "edit" =>
             op = "update" /\ i = dialog.on /\ a = [dialog.form EXCEPT !.here = IF @ = dialog.row.here THEN None ELSE @]
        /\ op = "create" => dialog.kind = "create" /\ (a.employee # None => a.employee \in dialog.form)
        /\ op # None
  <2>n. Team!NoDialog.kind = "none"
    BY EmptyPages
  <2>o. None \notin {"create", "update", "delete", "reset", "access"}
    BY DEF Team!ConstantsOK, Team!Asks
  <2>1. CASE Team!SaveAccess
    BY <2>1, <2>o DEF Team!SaveAccess
  <2>2. CASE Team!Submit
    <3>1. CASE dialog.kind \in {"delete", "reset"} /\ Team!Send(dialog.kind, dialog.on, Team!NoChange)
      BY <3>1, <2>o
    <3>2. ASSUME dialog.kind = "create", NEW r \in Team!Roles, Team!Send("create", None, [role |-> r, employee |-> None])
          PROVE  /\ dialog.kind = "create" /\ Team!Send("create", None, [role |-> r, employee |-> None])
                 /\ [role |-> r, employee |-> None].employee = None
      BY <3>2
    <3>3. ASSUME dialog.kind = "create", NEW e \in dialog.form, Team!Send("create", None, [role |-> "employee", employee |-> e])
          PROVE  /\ dialog.kind = "create" /\ Team!Send("create", None, [role |-> "employee", employee |-> e])
                 /\ [role |-> "employee", employee |-> e].employee \in dialog.form
      BY <3>3
    <3>4. CASE dialog.kind = "edit" /\ Team!Send("update", dialog.on,
                 [dialog.form EXCEPT !.here = IF @ = dialog.row.here THEN None ELSE @])
      BY <3>4, <2>o
    <3> QED BY <2>2, <2>o, <3>1, <3>2, <3>3, <3>4 DEF Team!Submit
  <2>3. ASSUME NEW i \in People, Team!Toggle(i)
        PROVE  dialog.kind = "none" /\ \E a : Team!Send("update", i, a)
    BY <2>3, <2>n DEF Team!Toggle, Team!Idle
  <2>4. ASSUME NEW i \in People, NEW role \in Team!Roles, Team!SetRole(i, role)
        PROVE  dialog.kind = "none" /\ \E a : Team!Send("update", i, a)
    BY <2>4, <2>n DEF Team!SetRole, Team!Idle
  <2>5. ASSUME NEW role \in Team!Roles, Team!ChangeRole(role)
        PROVE  dialog.kind = "overview" /\ \E i, a : Team!Send("update", i, a)
    BY <2>5 DEF Team!ChangeRole
  <2> QED BY <2>o, <2>1, <2>2, <2>3, <2>4, <2>5
<1>2. /\ UNCHANGED <<people, employees, plan, lock, view, dialog>> /\ call = Team!NoCall /\ call.step = "idle"
      /\ call' = [Team!NoCall EXCEPT !.op = op, !.on = i, !.arg = a, !.step = "sent"]
  BY <1>1, EmptyPages DEF Team!Send
<1>3. call'.op = op /\ call'.on = i /\ call'.arg = a /\ call'.step = "sent"
  BY <1>2 DEF Team!NoCall
<1>s. Team!Rows' = Team!Rows /\ \A j : Team!Shown(j)' = Team!Shown(j)
  BY <1>2 DEF Team!Rows, Team!Listed, Team!Exists, Team!Shown
<1>4. Team!ListIsStored'
  BY <1>2, <1>3, <1>s DEF Team!LoneInv, Team!ListIsStored
<1>5. Team!OverviewIsStored'
  BY <1>2, <1>3, <1>s DEF Team!LoneInv, Team!OverviewIsStored, Team!Exists
<1>6. Team!EditIsStored'
  BY <1>1, <1>2, <1>3, <1>s DEF Team!LoneInv, Team!EditIsStored, Team!Exists
<1>7. Team!LoginsForStaff'
  BY <1>1, <1>2, <1>3 DEF Team!LoneInv, Team!LoginsForStaff
<1> QED BY <1>2, <1>3, <1>4, <1>5, <1>6, <1>7, PageKeepsLoneByParts

LEMMA OpenKeepsLone ==
  ASSUME Team!ConstantsOK, Team!PeopleInv, Team!LoneInv, Team!Lone, NEW i \in People, NEW kind \in Team!Kinds, Team!Open(kind, i)
  PROVE  Team!LoneInv'
<1>0. AccountsInv /\ PageInv
  BY PeopleInvByParts
<1>1. /\ UNCHANGED <<people, employees, plan, lock, view, call>> /\ Team!Idle /\ ~view.loading /\ i \in DOMAIN view.shown
      /\ dialog' = [kind |-> kind, on |-> i, row |-> IF kind = "overview" THEN None ELSE view.shown[i],
                    form |-> Team!Fill(kind, i), touched |-> {}]
  BY DEF Team!Open
<1>2. /\ dialog'.kind = kind /\ dialog'.on = i /\ dialog'.row = (IF kind = "overview" THEN None ELSE view.shown[i])
      /\ dialog'.form = Team!Fill(kind, i)
  BY <1>1
<1>3. kind \in {"reset", "delete", "edit", "overview"} /\ call.step = "idle" /\ call.op = None /\ dialog.kind = "none"
  BY <1>1, EmptyPages DEF Team!Kinds, Team!Idle
<1>4. view.shown = Team!Rows /\ i \in Team!Exists /\ view.shown[i] = Team!Shown(i)
  <2>1. view.shown = Team!Rows
    BY <1>0, <1>1, <1>3, PageIsOpen DEF Team!LoneInv, Team!ListIsStored
  <2> QED BY <2>1, <1>0, <1>1, RowsFit DEF AccountsInv
<1>s. Team!Rows' = Team!Rows /\ Team!Exists' = Team!Exists /\ Team!Shown(i)' = Team!Shown(i)
  BY <1>1 DEF Team!Rows, Team!Listed, Team!Exists, Team!Shown
<1>5. Team!ListIsStored'
  BY <1>1, <1>4, <1>s DEF Team!ListIsStored
<1>6. Team!OverviewIsStored'
  BY <1>2 DEF Team!OverviewIsStored
<1>7. Team!EditIsStored'
  <2> SUFFICES ASSUME kind = "edit" PROVE Team!EditIsStored'
    BY <1>2 DEF Team!EditIsStored
  <2>1. /\ dialog'.row = view.shown[i]
        /\ dialog'.form = [role |-> IF view.shown[i].role \in Team!Roles THEN view.shown[i].role ELSE "staff",
                           active |-> view.shown[i].active, here |-> view.shown[i].here]
    BY <1>2 DEF Team!Fill
  <2>2. /\ dialog'.form.role = (IF view.shown[i].role \in Team!Roles THEN view.shown[i].role ELSE "staff")
        /\ dialog'.form["active"] = view.shown[i]["active"] /\ dialog'.form["here"] = view.shown[i]["here"]
    BY <2>1
  <2> QED BY <1>1, <1>2, <1>3, <1>4, <1>s, <2>1, <2>2 DEF Team!EditIsStored
<1>8. Team!LoginsForStaff'
  BY <1>1, <1>2, <1>3 DEF Team!LoginsForStaff
<1> QED BY <1>1, <1>3, <1>5, <1>6, <1>7, <1>8, PageKeepsLoneByParts

LEMMA EditKeepsLone ==
  ASSUME Team!ConstantsOK, Team!PeopleInv, Team!LoneInv, NEW field \in Team!Fields, NEW value, Team!Edit(field, value)
  PROVE  Team!LoneInv'
<1>0. PageInv
  BY PeopleInvByParts
<1>1. /\ UNCHANGED <<people, employees, plan, lock, view, call>> /\ dialog.kind = "edit" /\ call.step = "idle" /\ call.op = None
      /\ dialog' = [dialog EXCEPT !.form[field] = value, !.touched = @ \cup {field}]
  BY EmptyPages DEF Team!Edit
<1>2. dialog \in [kind : {"edit"}, on : People, row : Team!Row, form : Team!Form, touched : SUBSET Team!Fields]
  BY <1>0, <1>1 DEF PageInv, Team!DialogFits
<1>3. /\ dialog'.kind = "edit" /\ dialog'.on = dialog.on /\ dialog'.row = dialog.row
      /\ dialog'.form = [dialog.form EXCEPT ![field] = value] /\ dialog'.touched = dialog.touched \cup {field}
  BY <1>1, <1>2
<1>4. \A f \in Team!Fields \ {field} : dialog'.form[f] = dialog.form[f]
  BY <1>2, <1>3 DEF Team!Form, Team!Fields
<1>s. Team!Rows' = Team!Rows /\ Team!Exists' = Team!Exists /\ \A i : Team!Shown(i)' = Team!Shown(i)
  BY <1>1 DEF Team!Rows, Team!Listed, Team!Exists, Team!Shown
<1>5. Team!ListIsStored'
  BY <1>1, <1>3, <1>s DEF Team!LoneInv, Team!ListIsStored
<1>6. Team!OverviewIsStored'
  BY <1>3 DEF Team!OverviewIsStored
<1>7. Team!EditIsStored'
  <2>1. dialog'.form.role # (IF dialog.row.role \in Team!Roles THEN dialog.row.role ELSE "staff") => "role" \in dialog'.touched
    <3>1. field # "role" => dialog'.form["role"] = dialog.form["role"]
      BY <1>4 DEF Team!Fields
    <3> QED BY <3>1, <1>1, <1>3 DEF Team!LoneInv, Team!EditIsStored
  <2>2. \A f \in {"active", "here"} : dialog'.form[f] # dialog.row[f] => f \in dialog'.touched
    BY <1>1, <1>3, <1>4 DEF Team!LoneInv, Team!EditIsStored, Team!Fields
  <2> QED BY <1>1, <1>3, <1>s, <2>1, <2>2 DEF Team!LoneInv, Team!EditIsStored
<1>8. Team!LoginsForStaff'
  BY <1>1, <1>3 DEF Team!LoginsForStaff
<1> QED BY <1>1, <1>5, <1>6, <1>7, <1>8, PageKeepsLoneByParts

LEMMA OverviewKeepsLone ==
  ASSUME Team!ConstantsOK, Team!PeopleInv, Team!LoneInv, Team!LoadOverview \/ \E m \in Team!Access : Team!Draft(m)
  PROVE  Team!LoneInv'
<1>0. AccountsInv /\ PageInv
  BY PeopleInvByParts
<1>1. dialog.kind = "overview" /\ UNCHANGED <<people, employees, plan, lock, view, call>>
  BY DEF Team!LoadOverview, Team!Draft
<1>2. /\ dialog \in [kind : {"overview"}, on : People, row : Team!Row \cup {None}, form : Team!AccessForm \cup {None}, touched : {{}}]
      /\ dialog.row # None => dialog.form \in Team!AccessForm
  BY <1>0, <1>1 DEF PageInv, Team!DialogFits
<1>s. Team!Exists' = Team!Exists /\ \A i : Team!Shown(i)' = Team!Shown(i)
  BY <1>1 DEF Team!Exists, Team!Shown
<1>3. dialog'.kind = "overview" /\ Team!OverviewIsStored'
  <2>1. CASE Team!LoadOverview
    <3> DEFINE new == [stored |-> people[dialog.on].access, draft |-> people[dialog.on].access]
               form == IF dialog.form = None \/ dialog.form.stored # people[dialog.on].access THEN new ELSE dialog.form
    <3>1. form.stored = people[dialog.on].access
      OBVIOUS
    <3>2. dialog' = [dialog EXCEPT !.row = Team!Shown(dialog.on), !.form = form] /\ dialog.on \in Team!Exists
      BY <2>1 DEF Team!LoadOverview
    <3> HIDE DEF form
    <3>3. dialog'.kind = "overview" /\ dialog'.on = dialog.on /\ dialog'.row = Team!Shown(dialog.on) /\ dialog'.form = form
      BY <1>2, <3>2
    <3> QED BY <1>1, <1>s, <3>1, <3>2, <3>3 DEF Team!OverviewIsStored
  <2>2. ASSUME NEW m \in Team!Access, Team!Draft(m)
        PROVE  dialog'.kind = "overview" /\ Team!OverviewIsStored'
    <3> DEFINE form == [dialog.form EXCEPT !.draft = m]
    <3>1. dialog.row # None /\ dialog' = [dialog EXCEPT !.form = form]
      BY <2>2 DEF Team!Draft
    <3>2. form.stored = dialog.form.stored
      BY <1>2, <3>1 DEF Team!AccessForm
    <3> HIDE DEF form
    <3>3. dialog'.kind = "overview" /\ dialog'.on = dialog.on /\ dialog'.row = dialog.row /\ dialog'.form = form
      BY <1>2, <3>1
    <3> QED BY <1>1, <1>s, <3>1, <3>2, <3>3 DEF Team!LoneInv, Team!OverviewIsStored
  <2> QED BY <2>1, <2>2
<1>4. Team!ListIsStored' /\ Team!EditIsStored'
  BY <1>3 DEF Team!ListIsStored, Team!EditIsStored
<1>5. Team!LoginsForStaff'
  BY <1>1, <1>3 DEF Team!LoneInv, Team!LoginsForStaff
<1> QED BY <1>1, <1>3, <1>4, <1>5, PageKeepsLoneByParts

LEMMA LoadKeepsLone ==
  ASSUME Team!ConstantsOK, Team!PeopleInv, Team!LoneInv, Team!Load
  PROVE  Team!LoneInv'
<1>1. UNCHANGED <<people, employees, plan, lock, dialog, call>> /\ view'.shown = Team!Rows
  BY DEF Team!Load
<1>s. Team!Rows' = Team!Rows /\ Team!Exists' = Team!Exists /\ \A i : Team!Shown(i)' = Team!Shown(i)
  BY <1>1 DEF Team!Rows, Team!Listed, Team!Exists, Team!Shown
<1>2. Team!ListIsStored' /\ Team!OverviewIsStored' /\ Team!EditIsStored' /\ Team!LoginsForStaff'
  BY <1>1, <1>s DEF Team!LoneInv, Team!ListIsStored, Team!OverviewIsStored, Team!EditIsStored, Team!LoginsForStaff
<1> QED BY <1>1, <1>2, PageKeepsLoneByParts

LEMMA OpenCreateKeepsLone ==
  ASSUME Team!ConstantsOK, Team!PeopleInv, Team!LoneInv, Team!OpenCreate
  PROVE  Team!LoneInv'
<1> DEFINE form == IF Page = "tenant" THEN {e \in Employees : employees[e] # None /\ employees[e].active /\ employees[e].login = None} ELSE {}
<1>1. /\ UNCHANGED <<people, employees, plan, lock, view, call>> /\ call.step = "idle" /\ call.op = None /\ dialog.kind = "none"
      /\ dialog' = [Team!NoDialog EXCEPT !.kind = "create", !.form = form]
  BY EmptyPages DEF Team!OpenCreate, Team!Idle
<1>2. \A e \in form : employees[e] # None /\ employees[e].active
  OBVIOUS
<1> HIDE DEF form
<1>3. dialog'.kind = "create" /\ dialog'.form = form
  BY <1>1 DEF Team!NoDialog
<1>s. Team!Rows' = Team!Rows
  BY <1>1 DEF Team!Rows, Team!Listed, Team!Exists, Team!Shown
<1>4. Team!ListIsStored'
  BY <1>1, <1>3, <1>s DEF Team!LoneInv, Team!ListIsStored
<1>5. Team!OverviewIsStored' /\ Team!EditIsStored' /\ Team!LoginsForStaff'
  BY <1>1, <1>2, <1>3 DEF Team!OverviewIsStored, Team!EditIsStored, Team!LoginsForStaff
<1> QED BY <1>1, <1>3, <1>4, <1>5, PageKeepsLoneByParts

LEMMA CloseKeepsLone ==
  ASSUME Team!ConstantsOK, Team!PeopleInv, Team!LoneInv, Team!Close
  PROVE  Team!LoneInv'
<1>1. /\ UNCHANGED <<people, employees, plan, lock, call>> /\ call.step = "idle" /\ dialog' = Team!NoDialog /\ dialog'.kind = "none"
      /\ view' = IF dialog.kind = "overview" THEN Team!Unread ELSE view
  BY EmptyPages DEF Team!Close
<1>s. Team!Rows' = Team!Rows
  BY <1>1 DEF Team!Rows, Team!Listed, Team!Exists, Team!Shown
<1>2. Team!ListIsStored'
  <2>1. CASE dialog.kind = "overview"
    BY <1>1, <2>1 DEF Team!ListIsStored, Team!Unread
  <2>2. CASE dialog.kind # "overview"
    BY <1>1, <1>s, <2>2 DEF Team!LoneInv, Team!ListIsStored
  <2> QED BY <2>1, <2>2
<1>3. Team!OverviewIsStored' /\ Team!EditIsStored' /\ Team!LoginsForStaff'
  BY <1>1 DEF Team!LoneInv, Team!OverviewIsStored, Team!EditIsStored, Team!LoginsForStaff
<1> QED BY <1>1, <1>2, <1>3, PageKeepsLoneByParts

LEMMA AnsweredKeepsLone ==
  ASSUME Team!ConstantsOK, Team!PeopleInv, Team!LoneInv, Team!Answered
  PROVE  Team!LoneInv'
<1>0. PageInv
  BY PeopleInvByParts
<1>1. /\ UNCHANGED <<people, employees, plan, lock>> /\ call.step \in {"done", "refused"}
      /\ call' = Team!NoCall /\ call'.step = "idle" /\ call'.op = None
  BY EmptyPages DEF Team!Answered
<1>s. Team!Rows' = Team!Rows /\ Team!Exists' = Team!Exists /\ \A i : Team!Shown(i)' = Team!Shown(i)
  BY <1>1 DEF Team!Rows, Team!Listed, Team!Exists, Team!Shown
<1>2. CASE call.step = "refused"
  <2>1. UNCHANGED <<view, dialog>>
    BY <1>2, AnswerSteps
  <2>2. Team!ListIsStored' /\ Team!OverviewIsStored' /\ Team!EditIsStored'
    BY <1>1, <1>2, <1>s, <2>1 DEF Team!LoneInv, Team!ListIsStored, Team!OverviewIsStored, Team!EditIsStored
  <2>3. Team!LoginsForStaff'
    BY <1>1, <2>1 DEF Team!LoneInv, Team!LoginsForStaff
  <2> QED BY <1>1, <2>2, <2>3, PageKeepsLoneByParts
<1>3. CASE call.step = "done" /\ dialog.kind = "overview"
  <2>1. dialog' = [dialog EXCEPT !.row = None]
    BY <1>3, AnswerSteps
  <2>2. dialog'.kind = "overview" /\ dialog'.row = None
    BY <1>0, <1>3, <2>1 DEF PageInv, Team!DialogFits
  <2> QED BY <1>1, <2>2, PageKeepsLoneByParts DEF Team!ListIsStored, Team!OverviewIsStored, Team!EditIsStored, Team!LoginsForStaff
<1>4. CASE call.step = "done" /\ dialog.kind # "overview"
  <2>1. dialog' = Team!NoDialog /\ dialog'.kind = "none"
    BY <1>4, AnswerSteps, EmptyPages
  <2>2. Team!ListIsStored'
    <3>1. CASE call.op = "reset"
      <4>1. UNCHANGED view
        BY <1>4, <3>1, AnswerSteps
      <4> QED BY <1>4, <1>s, <3>1, <4>1 DEF Team!LoneInv, Team!ListIsStored
    <3>2. CASE call.op # "reset"
      <4>1. view' = Team!Reload(view)
        BY <1>4, <3>2, AnswerSteps
      <4>2. view'.loading
        BY <1>0, <4>1 DEF Team!Reload, PageInv, Team!ListFits
      <4> QED BY <4>2 DEF Team!ListIsStored
    <3> QED BY <3>1, <3>2
  <2> QED BY <1>1, <2>1, <2>2, PageKeepsLoneByParts DEF Team!OverviewIsStored, Team!EditIsStored, Team!LoginsForStaff
<1> QED BY <1>1, <1>2, <1>3, <1>4

LEMMA EffectKeepsStaff ==
  ASSUME Team!ConstantsOK, AccountsInv, NEW surface, NEW op, NEW i, NEW a, NEW actor,
         Asked(surface, op, i, a), Team!Allowed(surface, op, i, a, actor), Team!Effect(surface, op, i, a)
  PROVE  \A e \in Employees : employees[e] # None => employees'[e] # None /\ employees'[e].active = employees[e].active
<1> SUFFICES ASSUME NEW e \in Employees, employees[e] # None
             PROVE  employees'[e] # None /\ employees'[e].active = employees[e].active
  OBVIOUS
<1>1. employees[e] \in Team!Employee
  BY DEF AccountsInv, AccountsOK
<1>2. ASSUME NEW l, employees'[e] = [employees[e] EXCEPT !.login = l], l \in People \cup {None}
      PROVE  employees'[e] # None /\ employees'[e].active = employees[e].active
  <2>1. [employees[e] EXCEPT !.login = l] \in Team!Employee /\ [employees[e] EXCEPT !.login = l].active = employees[e].active
    BY <1>1, <1>2 DEF Team!Employee
  <2> QED BY <1>2, <2>1 DEF Team!ConstantsOK
<1>3. employees'[e] = employees[e] \/ \E l \in People \cup {None} : employees'[e] = [employees[e] EXCEPT !.login = l]
  <2>1. CASE op = "create"
    <3>1. PICK j \in People \ Team!Exists :
            employees' = IF a.employee = None THEN employees ELSE [employees EXCEPT ![a.employee].login = j]
      BY <2>1 DEF Team!Effect, Team!Create
    <3>2. CASE a.employee = e /\ a.employee # None
      BY <3>1, <3>2 DEF AccountsInv, AccountsOK
    <3>3. CASE a.employee # e \/ a.employee = None
      BY <3>1, <3>3 DEF AccountsInv, AccountsOK
    <3> QED BY <3>2, <3>3
  <2>2. CASE op = "delete"
    <3>1. UNCHANGED employees \/ employees' = Team!Unlinked(i)
      BY <2>2 DEF Team!Effect, Team!DeleteAccount
    <3> QED BY <3>1 DEF Team!Unlinked
  <2>3. CASE op \in {"update", "reset", "access"}
    BY <2>3 DEF Team!Effect
  <2> QED BY <2>1, <2>2, <2>3 DEF Asked, Team!Asks
<1> QED BY <1>2, <1>3

(* A login is given to someone who works here, or is taken away; and an    *)
(* account is opened again only by hand.                                   *)
LEMMA EffectKeepsLocks ==
  ASSUME Team!ConstantsOK, AccountsInv, Team!DismissedIsLocked, NEW surface, NEW op, NEW i, NEW a, NEW actor,
         Asked(surface, op, i, a), Team!Allowed(surface, op, i, a, actor), Team!Effect(surface, op, i, a),
         op = "create" /\ a.employee # None => employees[a.employee] # None /\ employees[a.employee].active
  PROVE  Team!DismissedIsLocked'
<1> SUFFICES ASSUME NEW e \in Employees, employees'[e] # None, ~employees'[e].active, employees'[e].login # None
             PROVE  ~people'[employees'[e].login].active \/ lock'[employees'[e].login] = "reopened"
  BY DEF Team!DismissedIsLocked
<1>0. op # "create" => i \in People /\ people[i] # None /\ people[i] \in Team!AnAccount
  BY DEF Asked, Team!Allowed, AccountsInv, AccountsOK, Team!ConstantsOK
<1>l. employees[e] # None /\ employees[e].login # None /\ ~employees[e].active =>
        /\ employees[e].login \in People /\ people[employees[e].login] # None
        /\ ~people[employees[e].login].active \/ lock[employees[e].login] = "reopened"
  BY DEF AccountsInv, AccountsOK, Team!LoginsExist, Team!Employee, Team!DismissedIsLocked
<1>n. employees[e] # None => employees'[e].active = employees[e].active
  BY EffectKeepsStaff
<1>1. CASE op = "create"
  <2>1. PICK j \in People \ Team!Exists :
          /\ \E q : people' = [people EXCEPT ![j] = q]
          /\ employees' = IF a.employee = None THEN employees ELSE [employees EXCEPT ![a.employee].login = j]
          /\ UNCHANGED lock
    BY <1>1 DEF Team!Effect, Team!Create
  <2>2. employees[e] # None
    BY <1>1, <2>1 DEF AccountsInv, AccountsOK
  <2>3. a.employee = None \/ a.employee # e
    BY <1>1, <1>n, <2>2
  <2>4. employees'[e] = employees[e]
    BY <2>1, <2>3 DEF AccountsInv, AccountsOK
  <2>5. employees[e].login # j
    BY <1>l, <2>1, <2>4 DEF Team!Exists
  <2> QED BY <1>l, <2>1, <2>4, <2>5 DEF AccountsInv, AccountsOK
<1>2. CASE op = "update"
  <2>1. /\ people' = [people EXCEPT ![i] = Team!Changed(people[i], a)] /\ UNCHANGED employees
        /\ lock' = IF a.active = TRUE /\ ~people[i].active THEN [lock EXCEPT ![i] = "reopened"] ELSE lock
    BY <1>2 DEF Team!Effect
  <2>2. a \in Team!Change /\ Team!Changed(people[i], a).active = (IF a.active = None THEN people[i].active ELSE a.active)
    BY <1>0, <1>2, ChangedAccounts DEF Asked
  <2>3. CASE employees[e].login # i
    BY <1>0, <1>2, <1>l, <2>1, <2>3 DEF AccountsInv, AccountsOK
  <2>4. CASE employees[e].login = i
    <3>1. people'[i].active = (IF a.active = None THEN people[i].active ELSE a.active)
      BY <1>0, <1>2, <2>1, <2>2 DEF AccountsInv, AccountsOK
    <3>2. a.active \in {None, TRUE, FALSE}
      BY <2>2 DEF Team!Change
    <3>3. lock'[i] = lock[i] \/ lock'[i] = "reopened"
      BY <1>0, <1>2, <2>1 DEF AccountsInv, AccountsOK
    <3>4. a.active = TRUE /\ ~people[i].active => lock'[i] = "reopened"
      BY <1>0, <1>2, <2>1 DEF AccountsInv, AccountsOK
    <3> QED BY <1>l, <2>1, <2>4, <3>1, <3>2, <3>3, <3>4
  <2> QED BY <2>3, <2>4
<1>3. CASE op = "delete"
  <2>1. Team!DeleteAccount(surface, i)
    BY <1>3 DEF Team!Effect
  <2>2. CASE surface \in {"tenant", "panel"} /\ people[i].busy
    <3>1. people' = [people EXCEPT ![i].active = FALSE] /\ UNCHANGED <<employees, lock>>
      BY <2>1, <2>2 DEF Team!DeleteAccount
    <3>2. [people[i] EXCEPT !.active = FALSE].active = FALSE
      BY <1>0, <1>3 DEF Team!AnAccount
    <3> QED BY <1>0, <1>3, <1>l, <3>1, <3>2 DEF AccountsInv, AccountsOK
  <2>3. CASE ~(surface \in {"tenant", "panel"} /\ people[i].busy)
    <3>1. /\ people' = [people EXCEPT ![i] = None]
          /\ employees' = Team!Unlinked(i) /\ lock' = [lock EXCEPT ![i] = "never"]
      BY <2>1, <2>3 DEF Team!DeleteAccount
    <3>2. employees'[e] = employees[e] /\ employees[e].login # i
      <4>1. CASE employees[e] # None /\ employees[e].login = i
        <5>1. employees'[e] = [employees[e] EXCEPT !.login = None] /\ employees[e] \in Team!Employee
          BY <3>1, <4>1 DEF Team!Unlinked, Team!EmployeeOf, AccountsInv, AccountsOK
        <5>2. employees'[e].login = None
          BY <5>1 DEF Team!Employee
        <5> QED BY <5>2
      <4>2. CASE ~(employees[e] # None /\ employees[e].login = i)
        <5>1. employees'[e] = employees[e]
          BY <3>1, <4>2 DEF Team!Unlinked, Team!EmployeeOf
        <5> QED BY <4>2, <5>1
      <4> QED BY <4>1, <4>2
    <3> QED BY <1>0, <1>3, <1>l, <3>1, <3>2 DEF AccountsInv, AccountsOK
  <2> QED BY <2>2, <2>3
<1>4. CASE op \in {"reset", "access"}
  <2>1. PICK q : people' = [people EXCEPT ![i] = q] /\ q.active = people[i].active /\ UNCHANGED <<employees, lock>>
    <3>1. /\ [people[i] EXCEPT !.pass = Team!ByAdmin].active = people[i].active
          /\ [people[i] EXCEPT !.access = a].active = people[i].active
      BY <1>0, <1>4 DEF Team!AnAccount
    <3> QED BY <1>4, <3>1 DEF Team!Effect
  <2> QED BY <1>0, <1>4, <1>l, <2>1 DEF AccountsInv, AccountsOK
<1> QED BY <1>1, <1>2, <1>3, <1>4 DEF Asked, Team!Asks

LEMMA ServeKeepsLone ==
  ASSUME Team!ConstantsOK, Team!PeopleInv, Team!LoneInv, Team!Lone, Team!Serve
  PROVE  Team!LoneInv'
<1> DEFINE was == IF call.on = None THEN None ELSE people[call.on]
<1>0. AccountsInv /\ PageInv
  BY PeopleInvByParts
<1>1. call.step = "sent" /\ UNCHANGED <<plan, view, dialog, links>>
  BY DEF Team!Serve
<1>2. Asked(Team!Surface, call.op, call.on, call.arg) /\ Page # "closed" /\ call.op \in Team!Asks
  BY <1>0, <1>1, AskedHere DEF Asked
<1>c. /\ call.op = "create" \/ call.op \in {"update", "delete", "reset", "access"}
      /\ \A step : /\ [call EXCEPT !.step = step].op = call.op /\ [call EXCEPT !.step = step].on = call.on
                   /\ [call EXCEPT !.step = step].arg = call.arg /\ [call EXCEPT !.step = step].step = step
      /\ \A step : LET c == [call EXCEPT !.step = step, !.was = was]
                   IN  c.op = call.op /\ c.on = call.on /\ c.arg = call.arg /\ c.step = step /\ c.was = was
  <2>1. ASSUME NEW A, NEW B, NEW C, NEW D, NEW E, NEW w, call \in [op : A, on : B, arg : C, step : D, was : E]
        PROVE  /\ \A step : /\ [call EXCEPT !.step = step].op = call.op /\ [call EXCEPT !.step = step].on = call.on
                            /\ [call EXCEPT !.step = step].arg = call.arg /\ [call EXCEPT !.step = step].step = step
               /\ \A step : LET c == [call EXCEPT !.step = step, !.was = w]
                            IN  c.op = call.op /\ c.on = call.on /\ c.arg = call.arg /\ c.step = step /\ c.was = w
    BY <2>1
  <2>2. \E A, B, C, D, E : call \in [op : A, on : B, arg : C, step : D, was : E]
    BY <1>0, <1>2 DEF PageInv, Team!CallFits, Team!Asks
  <2> HIDE DEF was
  <2> QED BY <1>2, <2>1, <2>2 DEF Team!Asks
<1>3. CASE ~Team!Allowed(Team!Surface, call.op, call.on, call.arg, Me)
  <2>1. call' = [call EXCEPT !.step = "refused"] /\ UNCHANGED <<people, employees, lock>>
    BY <1>3 DEF Team!Serve
  <2>2. call'.op = call.op /\ call'.on = call.on /\ call'.arg = call.arg /\ call'.step = "refused"
    BY <1>c, <2>1
  <2>s. Team!Rows' = Team!Rows /\ Team!Exists' = Team!Exists /\ \A i : Team!Shown(i)' = Team!Shown(i)
    BY <2>1 DEF Team!Rows, Team!Listed, Team!Exists, Team!Shown
  <2>3. Team!ListIsStored' /\ Team!OverviewIsStored' /\ Team!EditIsStored' /\ Team!LoginsForStaff'
    BY <1>1, <2>1, <2>2, <2>s DEF Team!LoneInv, Team!ListIsStored, Team!OverviewIsStored, Team!EditIsStored, Team!LoginsForStaff
  <2> QED BY <1>1, <2>1, <2>2, <2>3, PageKeepsLoneByParts
<1>4. CASE Team!Allowed(Team!Surface, call.op, call.on, call.arg, Me)
  <2>1. Team!Effect(Team!Surface, call.op, call.on, call.arg) /\ call' = [call EXCEPT !.step = "done", !.was = was]
    BY <1>4 DEF Team!Serve
  <2>2. call'.op = call.op /\ call'.on = call.on /\ call'.arg = call.arg /\ call'.step = "done" /\ call'.was = was
    BY <1>c, <2>1
  <2>3. Team!ListIsStored'
    <3>1. CASE call.op # "reset"
      BY <2>2, <3>1 DEF Team!ListIsStored
    <3>2. CASE call.op = "reset"
      <4>1. SameRows
        <5> DEFINE i == call.on
        <5>1. i \in People /\ people[i] # None /\ people[i] \in Team!AnAccount
          BY <1>0, <1>2, <1>4, <3>2 DEF Asked, Team!Allowed, AccountsInv, AccountsOK, Team!ConstantsOK
        <5>2. people' = [people EXCEPT ![i] = [people[i] EXCEPT !.pass = Team!ByAdmin]]
          BY <2>1, <3>2 DEF Team!Effect
        <5>3. LET q == [people[i] EXCEPT !.pass = Team!ByAdmin]
              IN  /\ q \in Team!AnAccount /\ q.role = people[i].role /\ q.active = people[i].active
                  /\ q.here = people[i].here /\ q.access = people[i].access
          BY <5>1 DEF Team!AnAccount, Team!ByAdmin
        <5>4. Same(i, [people[i] EXCEPT !.pass = Team!ByAdmin])
          BY <5>1, <5>2, <5>3 DEF Same
        <5> QED BY <1>0, <5>4, SameIsSameRows
      <4> QED BY <1>1, <1>2, <2>2, <4>1, SameRowsAgree DEF Team!LoneInv, Team!ListIsStored
    <3> QED BY <3>1, <3>2
  <2>4. Team!OverviewIsStored'
    BY <2>2 DEF Team!OverviewIsStored
  <2>5. Team!EditIsStored'
    BY <1>1, <2>2 DEF Team!LoneInv, Team!EditIsStored
  <2>6. Team!LoginsForStaff'
    <3>1. dialog.kind = "create" => dialog.form \subseteq Employees
      BY <1>0 DEF PageInv, Team!DialogFits
    <3> QED BY <1>0, <1>1, <1>2, <1>4, <2>1, <2>2, <3>1, EffectKeepsStaff DEF Team!LoneInv, Team!LoginsForStaff
  <2>7. Team!DismissedIsLocked'
    BY <1>0, <1>1, <1>2, <1>4, <2>1, EffectKeepsLocks DEF Team!LoneInv, Team!LoginsForStaff
  <2>8. Team!EditKeepsTheRest'
    <3> SUFFICES ASSUME dialog.kind = "edit", NEW field \in {"role", "active", "here"} \ dialog.touched
                 PROVE  \/ people'[call.on][field] = was[field]
                        \/ field = "role" /\ was.role = "employee" /\ people'[call.on].role = "staff"
      BY <1>1, <2>2 DEF Team!EditKeepsTheRest
    <3> DEFINE i == call.on
    <3>1. /\ call.op = "update" /\ i = dialog.on
          /\ call.arg = [dialog.form EXCEPT !.here = IF @ = dialog.row.here THEN None ELSE @]
          /\ i \in Team!Exists /\ dialog.row = Team!Shown(i)
          /\ dialog.form.role # (IF dialog.row.role \in Team!Roles THEN dialog.row.role ELSE "staff") => "role" \in dialog.touched
          /\ \A f \in {"active", "here"} : dialog.form[f] # dialog.row[f] => f \in dialog.touched
      BY <1>1 DEF Team!LoneInv, Team!EditIsStored
    <3>2. i \in People /\ i # None /\ people[i] # None /\ people[i] \in Team!AnAccount /\ was = people[i]
      BY <1>0, <3>1 DEF Team!Exists, AccountsInv, AccountsOK, Team!ConstantsOK
    <3>3. dialog.form \in Team!Form /\ Team!Surface = "console"
      BY <1>0 DEF PageInv, Team!DialogFits
    <3>4. /\ call.arg.role = dialog.form.role /\ call.arg.active = dialog.form.active
          /\ call.arg.here = (IF dialog.form.here = dialog.row.here THEN None ELSE dialog.form.here)
      BY <3>1, <3>3 DEF Team!Form
    <3>5. call.arg \in Team!Change
      BY <1>2, <3>1 DEF Asked
    <3>6. people'[i] = Team!Changed(people[i], call.arg)
      BY <1>0, <2>1, <3>1, <3>2 DEF Team!Effect, AccountsInv, AccountsOK
    <3>7. /\ people'[i].role = (IF call.arg.role = None THEN people[i].role ELSE call.arg.role)
          /\ people'[i].active = (IF call.arg.active = None THEN people[i].active ELSE call.arg.active)
          /\ people'[i].here = (IF call.arg.here = None THEN people[i].here ELSE call.arg.here)
      BY <3>2, <3>5, <3>6, ChangedAccounts
    <3>8. dialog.row.role = people[i].role /\ dialog.row.active = people[i].active /\ dialog.row.here = people[i].here
      BY <3>1 DEF Team!Shown
    <3>9. dialog.form.role \in Team!Roles /\ dialog.form.role # None /\ dialog.form.active \in BOOLEAN /\ dialog.form.active # None
      BY <3>3 DEF Team!Form, Team!Roles, Team!AllRoles, Team!ConstantsOK
    <3>10. people[i].role \notin Team!Roles => people[i].role = "employee"
      BY <3>2, <3>3 DEF Team!AnAccount, Team!AllRoles, Team!Roles, Team!Surface, Team!OfOrganization
    <3>11. CASE field = "role"
      BY <3>1, <3>2, <3>4, <3>7, <3>8, <3>9, <3>10, <3>11
    <3>12. CASE field = "active"
      <4>1. dialog.form.active = dialog.row.active
        BY <3>1, <3>12
      <4> QED BY <3>2, <3>4, <3>7, <3>8, <3>9, <3>12, <4>1
    <3>13. CASE field = "here"
      <4>1. dialog.form.here = dialog.row.here
        BY <3>1, <3>13
      <4> QED BY <3>2, <3>4, <3>7, <3>13, <4>1
    <3> QED BY <3>11, <3>12, <3>13
  <2> QED BY <2>3, <2>4, <2>5, <2>6, <2>7, <2>8 DEF Team!LoneInv
<1> QED BY <1>3, <1>4

LEMMA InitIsStored ==
  ASSUME Team!ConstantsOK, Team!Init
  PROVE  Team!LoneInv
<1>1. /\ view = Team!Unread /\ dialog.kind = "none" /\ call.step = "idle" /\ call.op = None
      /\ \A e \in Employees : employees[e].active
  BY EmptyPages DEF Team!Init
<1>2. Page = "closed" \/ view.loading
  BY <1>1 DEF Team!Unread
<1>3. Team!ListIsStored /\ Team!OverviewIsStored /\ Team!EditIsStored
  BY <1>1, <1>2 DEF Team!ListIsStored, Team!OverviewIsStored, Team!EditIsStored
<1>4. Team!LoginsForStaff /\ Team!DismissedIsLocked /\ Team!EditKeepsTheRest
  BY <1>1 DEF Team!LoginsForStaff, Team!DismissedIsLocked, Team!EditKeepsTheRest
<1> QED BY <1>3, <1>4 DEF Team!LoneInv

LEMMA StepKeepsLone ==
  ASSUME Team!ConstantsOK, Team!PeopleInv, Team!LoneInv, Team!Lone, [Team!Next]_Team!vars
  PROVE  Team!LoneInv'
<1>0. AccountsInv /\ LinksInv
  BY PeopleInvByParts
<1>u. UNCHANGED people => SameRows
  BY DEF SameRows
<1>1. CASE AtThePage
  BY <1>1, SendKeepsLone, OpenKeepsLone, EditKeepsLone, OverviewKeepsLone, LoadKeepsLone, OpenCreateKeepsLone, CloseKeepsLone,
     AnsweredKeepsLone DEF AtThePage, Team!Fields
<1>2. CASE Team!Serve
  BY <1>2, ServeKeepsLone
<1>3. CASE Team!AtPayroll
  BY <1>3, PayrollKeepsLone
<1>4. CASE Team!Work
  BY <1>0, <1>4, WorkIsSame, SameIsSameRows, SameRowsKeepLone
<1>5. ~ \E surface \in Others \cap {"tenant", "panel", "console", "admins"} : Team!Elsewhere(surface)
  BY DEF Team!Lone
<1>6. ASSUME NEW t \in Tabs, (\E i \in People : Team!OpenLink(t, i)) \/ \E p \in 1..2 : Team!Accept(t, p)
      PROVE  Team!LoneInv'
  <2>1. SameRows /\ UNCHANGED <<employees, plan, lock, view, dialog, call>>
    <3>1. CASE \E i \in People : Team!OpenLink(t, i)
      BY <1>u, <3>1 DEF Team!OpenLink
    <3>2. ASSUME NEW p \in 1..2, Team!Accept(t, p)
          PROVE  SameRows /\ UNCHANGED <<employees, plan, lock, view, dialog, call>>
      BY <1>0, <1>u, <3>2, AcceptIsSame, SameIsSameRows
    <3> QED BY <1>6, <3>1, <3>2
  <2> QED BY <2>1, SameRowsKeepLone
<1>7. CASE UNCHANGED Team!vars
  <2>1. SameRows /\ UNCHANGED <<employees, plan, lock, view, dialog, call>>
    BY <1>u, <1>7 DEF Team!vars
  <2> QED BY <2>1, SameRowsKeepLone
<1> QED BY <1>1, <1>2, <1>3, <1>4, <1>5, <1>6, <1>7, NextSteps

(* The list and the overview show what is decided on; a form changes what  *)
(* was touched in it; whoever was dismissed cannot sign in, to someone     *)
(* alone; and where nobody is added, a page that has set a password has    *)
(* set the one in force (UserOverviewModal.tsx, UsersSettings.tsx,         *)
(* UsersPage.tsx, AdminsPage.tsx, OrgDetailDrawer.tsx,                     *)
(* PlatformUserModals.tsx; payroll.py: update_employee, delete_employee;   *)
(* auth.py: accept_invite).                                                *)
THEOREM AccountsFollowDecisions ==
  ASSUME Team!ConstantsOK
  PROVE  Team!Spec => []Team!AccountsAsDecided
<1> DEFINE Stored == Team!Lone => Team!LoneInv
           Mine == Room = 0 => Team!AcceptedIsMine
<1>1. Team!Init => Stored /\ Mine
  <2>1. Team!Init => Team!AcceptedIsMine
    BY DEF Team!Init, Team!AcceptedIsMine, Team!NoLink
  <2> QED BY <2>1, InitIsStored
<1>2. Team!PeopleInv /\ Stored /\ Mine /\ [Team!Next]_Team!vars => (Stored /\ Mine)'
  <2>1. Team!PeopleInv /\ Stored /\ [Team!Next]_Team!vars => (Team!Lone => Team!LoneInv')
    BY StepKeepsLone
  <2>2. Team!PeopleInv /\ Mine /\ [Team!Next]_Team!vars => (Room = 0 => Team!AcceptedIsMine')
    BY StepKeepsMine
  <2>3. Team!Lone' = Team!Lone
    BY DEF Team!Lone
  <2> QED BY <2>1, <2>2, <2>3
<1>3. Stored /\ Mine => Team!AccountsAsDecided
  <2> SUFFICES ASSUME Stored, Mine PROVE Team!AccountsAsDecided
    OBVIOUS
  <2>1. Team!AccessAsShown
    <3> SUFFICES ASSUME dialog.kind = "overview", dialog.row # None, call = Team!NoCall, Team!Lone,
                        dialog.form.draft = dialog.form.stored, NEW m \in Modules
                 PROVE  Team!Checked(m) <=> Team!MayEdit(dialog.on, m)
      BY DEF Team!AccessAsShown
    <3>1. dialog.row = Team!Shown(dialog.on) /\ dialog.form.stored = people[dialog.on].access
      BY DEF Team!LoneInv, Team!OverviewIsStored, Team!NoCall
    <3>2. dialog.row.role = people[dialog.on].role
      BY <3>1 DEF Team!Shown
    <3> QED BY <3>1, <3>2 DEF Team!Checked, Team!InPlan, Team!MayEdit
  <2>2. Team!PeopleConverge
    BY DEF Team!PeopleConverge, Team!LoneInv, Team!ListIsStored
  <2>3. Team!EditKeepsTheRest
    BY DEF Team!EditKeepsTheRest, Team!LoneInv
  <2>4. Team!Lone => Team!DismissedIsLocked
    BY DEF Team!LoneInv
  <2> QED BY <2>1, <2>2, <2>3, <2>4 DEF Team!AccountsAsDecided
<1> HIDE DEF Stored, Mine
<1> QED BY <1>1, <1>2, <1>3, PeopleInvariant, PTL DEF Team!Spec
=============================================================================
