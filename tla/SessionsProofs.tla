--------------------------- MODULE SessionsProofs ---------------------------
(***************************************************************************)
(* Proofs about Sessions: where no answer is lost, no race of tabs costs a *)
(* browser its session, and a tab of its own is signed out on purpose      *)
(* only.                                                                   *)
(***************************************************************************)
EXTENDS Sessions, TLAPS

-----------------------------------------------------------------------------
(* Types, and what is carried *)

TabRow == [token : AccessTokens \cup {None}, user : Users \cup {None},
           note : Users \cup {None}, init : BOOLEAN]
CallRow == [at : {"idle", "sent", "held", "resent", "answered"}, token : AccessTokens \cup {None}]
RefreshRow == [at : {"none", "sent", "read", "served", "fallback"},
               cookie : Tokens \cup {None}, new : Tokens \cup Users \cup {None}]
SigningRow == [at : {"none", "login", "loggedIn", "logout", "loggedOut"},
               user : Users \cup {None}, cookie : Tokens \cup {None}]

LEMMA TypesByParts ==
  TypeOK <=> /\ tokens \in [Tokens -> Rows \cup {None}]
             /\ resets \in [Users -> 0..MaxResets]
             /\ jar \in Tokens \cup {None}
             /\ tab \in [Tabs -> TabRow]
             /\ calls \in [Tabs -> [Slots -> CallRow]]
             /\ refreshing \in [Tabs -> RefreshRow]
             /\ signing \in [Tabs -> SigningRow]
             /\ signedIn \in BOOLEAN
BY DEF TypeOK, TabRow, CallRow, RefreshRow, SigningRow

LEMMA RowsNotNone ==
  /\ None \notin Rows /\ None \notin AccessTokens /\ None \notin Tokens /\ None \notin Users
BY ConstantsAssumption

LEMMA IdleTyped ==
  /\ Idle \in CallRow /\ [at |-> "sent", token |-> None] \in CallRow
  /\ Idle.at = "idle" /\ Idle.token = None
BY DEF Idle, CallRow

LEMMA RestoringTyped ==
  /\ Restoring \in [Slots -> CallRow]
  /\ \A c \in Slots : Restoring[c].at # "answered" /\ Restoring[c].token = None
  /\ \A c \in Slots : c # Me => Restoring[c] = Idle
  /\ Restoring[Me].at = "sent"
BY IdleTyped DEF Restoring, Slots

LEMMA ConstantsTyped ==
  /\ Quiet \in RefreshRow /\ Quiet.at = "none" /\ Quiet.cookie = None /\ Quiet.new = None
  /\ NotSigning \in SigningRow /\ NotSigning.at = "none"
  /\ \A note \in Users \cup {None} : Fresh(note) \in TabRow
BY DEF Quiet, NotSigning, Fresh, Page, RefreshRow, SigningRow, TabRow

(* A row keeps its type when its state changes. *)
LEMMA RowsTyped ==
  ASSUME tokens \in [Tokens -> Rows \cup {None}], NEW n \in Tokens, tokens[n] # None,
         NEW state \in {"live", "rotated", "spent", "revoked", "reused"}
  PROVE  /\ [tokens EXCEPT ![n].state = state] \in [Tokens -> Rows \cup {None}]
         /\ [tokens EXCEPT ![n].state = state][n] # None
         /\ [tokens EXCEPT ![n].state = state][n].state = state
         /\ [tokens EXCEPT ![n].state = state][n].user = tokens[n].user
         /\ \A m \in Tokens \ {n} : [tokens EXCEPT ![n].state = state][m] = tokens[m]
<1> DEFINE row == [tokens[n] EXCEPT !.state = state]
<1>1. tokens[n] \in Rows
  OBVIOUS
<1>2. row \in Rows /\ row.state = state /\ row.user = tokens[n].user
  BY <1>1 DEF Rows
<1>3. row # None
  BY <1>2, RowsNotNone
<1>4. [tokens EXCEPT ![n].state = state] = [tokens EXCEPT ![n] = row]
  OBVIOUS
<1> HIDE DEF row
<1> QED BY <1>2, <1>3, <1>4

(* Revoking and reporting: no row goes, and only those that are live change. *)
LEMMA RevokeTyped ==
  ASSUME tokens \in [Tokens -> Rows \cup {None}], NEW u, NEW state \in {"revoked", "reused"}
  PROVE  /\ RevokeUserTokens(u, state) \in [Tokens -> Rows \cup {None}]
         /\ \A n \in Tokens :
              /\ tokens[n] # None => RevokeUserTokens(u, state)[n] # None
              /\ \/ RevokeUserTokens(u, state)[n] = tokens[n]
                 \/ tokens[n] # None /\ tokens[n].state = "live" /\ RevokeUserTokens(u, state)[n].state = state
<1> SUFFICES ASSUME NEW n \in Tokens
             PROVE  LET r == IF tokens[n] # None /\ tokens[n].user = u /\ tokens[n].state = "live"
                             THEN [tokens[n] EXCEPT !.state = state] ELSE tokens[n]
                    IN  /\ r \in Rows \cup {None}
                        /\ tokens[n] # None => r # None
                        /\ r = tokens[n] \/ (tokens[n] # None /\ tokens[n].state = "live" /\ r.state = state)
  BY DEF RevokeUserTokens
<1>1. CASE tokens[n] = None
  BY <1>1
<1>2. CASE tokens[n] \in Rows
  <2>1. [tokens[n] EXCEPT !.state = state] \in Rows /\ [tokens[n] EXCEPT !.state = state].state = state
    BY <1>2 DEF Rows
  <2> QED BY <1>2, <2>1, RowsNotNone
<1> QED BY <1>1, <1>2

LEMMA AccessTyped ==
  ASSUME NEW u \in Users, NEW by \in {"self", "admin"}
  PROVE  Access(u, by) \in AccessTokens /\ Access(u, by).live /\ Access(u, by) # None
<1>1. Access(u, by) \in AccessTokens /\ Access(u, by).live
  BY DEF Access, AccessTokens
<1> QED BY <1>1, RowsNotNone

-----------------------------------------------------------------------------
(* One tab changes *)

RefreshesExist ==
  \A t \in Tabs :
    /\ refreshing[t].at \in {"sent", "read"} => refreshing[t].new = None
    /\ refreshing[t].at = "read" => refreshing[t].cookie # None /\ tokens[refreshing[t].cookie] # None
    /\ Won(t) => refreshing[t].new \in Tokens /\ tokens[refreshing[t].new] # None
    /\ refreshing[t].at = "fallback" => refreshing[t].new \in Users
SigningsExist ==
  \A t \in Tabs : signing[t].at \in {"login", "loggedIn"} => signing[t].user # None
AnswersExist ==
  \A t \in Tabs : \A c \in Slots : calls[t][c].at = "answered" => calls[t][c].token # None

Formed == TypeOK /\ CarriedExist

LEMMA CarriedByParts == CarriedExist <=> RefreshesExist /\ SigningsExist /\ AnswersExist
BY DEF CarriedExist, RefreshesExist, SigningsExist, AnswersExist

(* No row goes. *)
TokensStay ==
  /\ tokens' \in [Tokens -> Rows \cup {None}]
  /\ \A n \in Tokens : tokens[n] # None => tokens'[n] # None

LEMMA TokensUnchanged == ASSUME TypeOK, UNCHANGED tokens PROVE TokensStay
BY DEF TypeOK, TokensStay

LEMMA RefreshesStay ==
  ASSUME TypeOK, RefreshesExist, TokensStay, UNCHANGED refreshing
  PROVE  refreshing' \in [Tabs -> RefreshRow] /\ RefreshesExist'
BY TypesByParts DEF RefreshesExist, TokensStay, RefreshRow, Won

LEMMA OneRefresh ==
  ASSUME TypeOK, RefreshesExist, TokensStay, NEW t \in Tabs, NEW r \in RefreshRow,
         refreshing' = [refreshing EXCEPT ![t] = r],
         r.at \in {"sent", "read"} => r.new = None,
         r.at = "read" => r.cookie # None /\ tokens'[r.cookie] # None,
         r.at = "served" /\ r.new # None => r.new \in Tokens /\ tokens'[r.new] # None,
         r.at = "fallback" => r.new \in Users
  PROVE  refreshing' \in [Tabs -> RefreshRow] /\ RefreshesExist'
<1>1. refreshing \in [Tabs -> RefreshRow]
  BY TypesByParts
<1>2. refreshing'[t] = r /\ \A s \in Tabs \ {t} : refreshing'[s] = refreshing[s]
  BY <1>1
<1>3. refreshing' \in [Tabs -> RefreshRow]
  BY <1>1
<1>4. ASSUME NEW s \in Tabs
      PROVE  /\ refreshing'[s].at \in {"sent", "read"} => refreshing'[s].new = None
             /\ refreshing'[s].at = "read" => refreshing'[s].cookie # None /\ tokens'[refreshing'[s].cookie] # None
             /\ Won(s)' => refreshing'[s].new \in Tokens /\ tokens'[refreshing'[s].new] # None
             /\ refreshing'[s].at = "fallback" => refreshing'[s].new \in Users
  <2>1. CASE s = t
    BY <1>2, <2>1 DEF Won
  <2>2. CASE s # t
    BY <1>1, <1>2, <2>2 DEF Won, RefreshesExist, TokensStay, RefreshRow
  <2> QED BY <2>1, <2>2
<1> QED BY <1>3, <1>4 DEF RefreshesExist

LEMMA OneCall ==
  ASSUME calls \in [Tabs -> [Slots -> CallRow]], AnswersExist, NEW t \in Tabs, NEW c \in Slots, NEW r \in CallRow,
         calls' = [calls EXCEPT ![t][c] = r], r.at = "answered" => r.token # None
  PROVE  calls' \in [Tabs -> [Slots -> CallRow]] /\ AnswersExist'
<1>1. /\ calls'[t][c] = r /\ calls' \in [Tabs -> [Slots -> CallRow]]
      /\ \A s \in Tabs, d \in Slots : s # t \/ d # c => calls'[s][d] = calls[s][d]
  OBVIOUS
<1> QED BY <1>1 DEF AnswersExist

LEMMA OneTabsCalls ==
  ASSUME calls \in [Tabs -> [Slots -> CallRow]], AnswersExist, NEW t \in Tabs, NEW f \in [Slots -> CallRow],
         calls' = [calls EXCEPT ![t] = f], \A c \in Slots : f[c].at = "answered" => f[c].token # None
  PROVE  calls' \in [Tabs -> [Slots -> CallRow]] /\ AnswersExist'
<1>1. /\ calls'[t] = f /\ calls' \in [Tabs -> [Slots -> CallRow]]
      /\ \A s \in Tabs : s # t => calls'[s] = calls[s]
  OBVIOUS
<1> QED BY <1>1 DEF AnswersExist

LEMMA OneSigning ==
  ASSUME signing \in [Tabs -> SigningRow], SigningsExist, NEW t \in Tabs, NEW r \in SigningRow,
         signing' = [signing EXCEPT ![t] = r], r.at \in {"login", "loggedIn"} => r.user # None
  PROVE  signing' \in [Tabs -> SigningRow] /\ SigningsExist'
<1>1. /\ signing'[t] = r /\ signing' \in [Tabs -> SigningRow]
      /\ \A s \in Tabs : s # t => signing'[s] = signing[s]
  OBVIOUS
<1> QED BY <1>1 DEF SigningsExist

(* What a tab shows. *)
LEMMA PageTyped ==
  ASSUME NEW token \in AccessTokens \cup {None}, NEW user \in Users \cup {None},
         NEW note \in Users \cup {None}, NEW init \in BOOLEAN
  PROVE  Page(token, user, note, init) \in TabRow
BY DEF Page, TabRow

LEMMA OneTab ==
  ASSUME tab \in [Tabs -> TabRow], NEW t \in Tabs, NEW r \in TabRow, tab' = [tab EXCEPT ![t] = r]
  PROVE  tab' \in [Tabs -> TabRow] /\ tab'[t] = r /\ \A s \in Tabs : s # t => tab'[s] = tab[s]
OBVIOUS

-----------------------------------------------------------------------------
(* What is carried exists, whatever is lost *)

LEMMA FormedByParts ==
  Formed <=> /\ tokens \in [Tokens -> Rows \cup {None}]
             /\ resets \in [Users -> 0..MaxResets]
             /\ jar \in Tokens \cup {None}
             /\ tab \in [Tabs -> TabRow]
             /\ calls \in [Tabs -> [Slots -> CallRow]]
             /\ refreshing \in [Tabs -> RefreshRow]
             /\ signing \in [Tabs -> SigningRow]
             /\ signedIn \in BOOLEAN
             /\ RefreshesExist /\ SigningsExist /\ AnswersExist
BY TypesByParts, CarriedByParts DEF Formed

(* The same of the state a step leads to. *)
LEMMA FormedNext ==
  ASSUME tokens' \in [Tokens -> Rows \cup {None}], resets' \in [Users -> 0..MaxResets],
         jar' \in Tokens \cup {None}, tab' \in [Tabs -> TabRow],
         calls' \in [Tabs -> [Slots -> CallRow]], refreshing' \in [Tabs -> RefreshRow],
         signing' \in [Tabs -> SigningRow], signedIn' \in BOOLEAN,
         RefreshesExist', SigningsExist', AnswersExist'
  PROVE  Formed'
<1>1. TypeOK'
  BY DEF TypeOK, TabRow, CallRow, RefreshRow, SigningRow
<1>2. CarriedExist'
  BY DEF CarriedExist, RefreshesExist, SigningsExist, AnswersExist
<1> QED BY <1>1, <1>2 DEF Formed

LEMMA InitFormed == Init => Formed
<1> SUFFICES ASSUME Init PROVE Formed
  OBVIOUS
<1>0. MaxResets \in Nat
  BY ConstantsAssumption
<1>1. tokens \in [Tokens -> Rows \cup {None}] /\ jar \in Tokens \cup {None} /\ signedIn \in BOOLEAN
  BY DEF Init
<1>5. resets \in [Users -> 0..MaxResets]
  BY <1>0 DEF Init
<1>2. tab \in [Tabs -> TabRow] /\ refreshing \in [Tabs -> RefreshRow] /\ signing \in [Tabs -> SigningRow]
  BY ConstantsTyped DEF Init
<1>3. calls \in [Tabs -> [Slots -> CallRow]] /\ AnswersExist
  BY RestoringTyped DEF Init, AnswersExist
<1>4. RefreshesExist /\ SigningsExist
  BY ConstantsTyped DEF Init, RefreshesExist, SigningsExist, Won
<1> QED BY <1>1, <1>2, <1>3, <1>4, <1>5, FormedByParts

(* What a step leaves alone stays as it is formed. *)
LEMMA PartsStay ==
  ASSUME Formed, TokensStay
  PROVE  /\ tokens' \in [Tokens -> Rows \cup {None}]
         /\ UNCHANGED resets => resets' \in [Users -> 0..MaxResets]
         /\ UNCHANGED jar => jar' \in Tokens \cup {None}
         /\ UNCHANGED tab => tab' \in [Tabs -> TabRow]
         /\ UNCHANGED calls => calls' \in [Tabs -> [Slots -> CallRow]] /\ AnswersExist'
         /\ UNCHANGED refreshing => refreshing' \in [Tabs -> RefreshRow] /\ RefreshesExist'
         /\ UNCHANGED signing => signing' \in [Tabs -> SigningRow] /\ SigningsExist'
         /\ UNCHANGED signedIn => signedIn' \in BOOLEAN
<1>1. TypeOK /\ RefreshesExist /\ SigningsExist /\ AnswersExist
  BY CarriedByParts DEF Formed
<1>2. tokens' \in [Tokens -> Rows \cup {None}]
  BY DEF TokensStay
<1>3. UNCHANGED refreshing => refreshing' \in [Tabs -> RefreshRow] /\ RefreshesExist'
  BY <1>1, RefreshesStay
<1>4. UNCHANGED calls => calls' \in [Tabs -> [Slots -> CallRow]] /\ AnswersExist'
  BY <1>1, TypesByParts DEF AnswersExist
<1>5. UNCHANGED signing => signing' \in [Tabs -> SigningRow] /\ SigningsExist'
  BY <1>1, TypesByParts DEF SigningsExist
<1>6. /\ UNCHANGED resets => resets' \in [Users -> 0..MaxResets]
      /\ UNCHANGED jar => jar' \in Tokens \cup {None}
      /\ UNCHANGED tab => tab' \in [Tabs -> TabRow]
      /\ UNCHANGED signedIn => signedIn' \in BOOLEAN
  BY <1>1, TypesByParts
<1> QED BY <1>2, <1>3, <1>4, <1>5, <1>6

-----------------------------------------------------------------------------
(* How a refresh ends in a tab *)

LEMMA GiveUpEffect ==
  ASSUME Formed, NEW t \in Tabs, GiveUp(t)
  PROVE  /\ tab' \in [Tabs -> TabRow] /\ tab'[t] = Page(None, None, None, tab[t].init /\ Me \notin Held(t))
         /\ \A s \in Tabs : s # t => tab'[s] = tab[s]
         /\ calls' \in [Tabs -> [Slots -> CallRow]] /\ AnswersExist'
         /\ \A s \in Tabs : s # t => calls'[s] = calls[s]
         /\ \A c \in Slots : calls'[t][c] = IF c \in Held(t) THEN Idle ELSE calls[t][c]
         /\ refreshing' = [refreshing EXCEPT ![t] = Quiet]
<1>0. tab \in [Tabs -> TabRow] /\ calls \in [Tabs -> [Slots -> CallRow]] /\ AnswersExist
  BY FormedByParts
<1> DEFINE f == [c \in Slots |-> IF c \in Held(t) THEN Idle ELSE calls[t][c]]
           i == tab[t].init /\ Me \notin Held(t)
           q == Page(None, None, None, i)
<1>1. i \in BOOLEAN
  OBVIOUS
<1>2. tab' = [tab EXCEPT ![t] = q] /\ calls' = [calls EXCEPT ![t] = f] /\ refreshing' = [refreshing EXCEPT ![t] = Quiet]
  BY DEF GiveUp, SignedOff
<1>3. \A c \in Slots : f[c] = IF c \in Held(t) THEN Idle ELSE calls[t][c]
  OBVIOUS
<1>4. f \in [Slots -> CallRow] /\ \A c \in Slots : f[c].at = "answered" => f[c].token # None
  BY <1>0, IdleTyped DEF AnswersExist
<1> HIDE DEF f, i
<1>5. q \in TabRow
  BY <1>1, PageTyped
<1> HIDE DEF q
<1>6. tab' \in [Tabs -> TabRow] /\ tab'[t] = q /\ \A s \in Tabs : s # t => tab'[s] = tab[s]
  BY <1>0, <1>2, <1>5, OneTab
<1>7. calls' \in [Tabs -> [Slots -> CallRow]] /\ AnswersExist'
  BY <1>0, <1>2, <1>4, OneTabsCalls
<1>8. calls'[t] = f /\ \A s \in Tabs : s # t => calls'[s] = calls[s]
  BY <1>0, <1>2
<1> QED BY <1>2, <1>3, <1>6, <1>7, <1>8 DEF q, i

LEMMA ResumeEffect ==
  ASSUME Formed, NEW t \in Tabs, NEW token \in AccessTokens, Resume(t, token)
  PROVE  /\ tab' \in [Tabs -> TabRow] /\ tab'[t] = Page(token, tab[t].user, tab[t].note, tab[t].init)
         /\ \A s \in Tabs : s # t => tab'[s] = tab[s]
         /\ calls' \in [Tabs -> [Slots -> CallRow]] /\ AnswersExist'
         /\ \A s \in Tabs : s # t => calls'[s] = calls[s]
         /\ \A c \in Slots : calls'[t][c] = IF c \in Held(t) THEN [at |-> "resent", token |-> token] ELSE calls[t][c]
         /\ refreshing' = [refreshing EXCEPT ![t] = Quiet]
<1>0. tab \in [Tabs -> TabRow] /\ calls \in [Tabs -> [Slots -> CallRow]] /\ AnswersExist
  BY FormedByParts
<1> DEFINE f == [c \in Slots |-> IF c \in Held(t) THEN [at |-> "resent", token |-> token] ELSE calls[t][c]]
           q == Page(token, tab[t].user, tab[t].note, tab[t].init)
<1>1. tab[t].user \in Users \cup {None} /\ tab[t].note \in Users \cup {None} /\ tab[t].init \in BOOLEAN
  BY <1>0 DEF TabRow
<1>2. tab' = [tab EXCEPT ![t] = q] /\ calls' = [calls EXCEPT ![t] = f] /\ refreshing' = [refreshing EXCEPT ![t] = Quiet]
  BY DEF Resume
<1>3. \A c \in Slots : f[c] = IF c \in Held(t) THEN [at |-> "resent", token |-> token] ELSE calls[t][c]
  OBVIOUS
<1>4. [at |-> "resent", token |-> token] \in CallRow
  BY DEF CallRow
<1>5. f \in [Slots -> CallRow] /\ \A c \in Slots : f[c].at = "answered" => f[c].token # None
  BY <1>0, <1>4 DEF AnswersExist
<1> HIDE DEF f
<1>6. q \in TabRow
  BY <1>1, PageTyped
<1> HIDE DEF q
<1>7. tab' \in [Tabs -> TabRow] /\ tab'[t] = q /\ \A s \in Tabs : s # t => tab'[s] = tab[s]
  BY <1>0, <1>2, <1>6, OneTab
<1>8. calls' \in [Tabs -> [Slots -> CallRow]] /\ AnswersExist'
  BY <1>0, <1>2, <1>5, OneTabsCalls
<1>9. calls'[t] = f /\ \A s \in Tabs : s # t => calls'[s] = calls[s]
  BY <1>0, <1>2
<1> QED BY <1>2, <1>3, <1>7, <1>8, <1>9 DEF q

LEMMA FallbackFormed ==
  ASSUME Formed, NEW t \in Tabs, Fallback(t), UNCHANGED <<tokens, resets, jar, signing, signedIn>>
  PROVE  Formed'
<1>1. TokensStay
  BY TokensUnchanged DEF Formed
<1>2. CASE tab[t].note # None
  <2> DEFINE r == [at |-> "fallback", cookie |-> None, new |-> tab[t].note]
  <2>1. refreshing' = [refreshing EXCEPT ![t] = r] /\ UNCHANGED <<tab, calls>>
    BY <1>2 DEF Fallback
  <2>2. tab[t].note \in Users
    BY <1>2, FormedByParts DEF TabRow
  <2>3. r \in RefreshRow
    BY <2>2 DEF RefreshRow
  <2>4. /\ r.at \in {"sent", "read"} => r.new = None
        /\ r.at = "read" => r.cookie # None /\ tokens'[r.cookie] # None
        /\ r.at = "served" /\ r.new # None => r.new \in Tokens /\ tokens'[r.new] # None
        /\ r.at = "fallback" => r.new \in Users
    BY <2>2
  <2> HIDE DEF r
  <2>5. refreshing' \in [Tabs -> RefreshRow] /\ RefreshesExist'
    BY <1>1, <2>1, <2>3, <2>4, OneRefresh, CarriedByParts DEF Formed
  <2> QED BY <1>1, <2>1, <2>5, PartsStay, FormedNext
<1>3. CASE tab[t].note = None
  <2>1. GiveUp(t)
    BY <1>3 DEF Fallback
  <2>2. refreshing' \in [Tabs -> RefreshRow] /\ RefreshesExist'
    <3>1. refreshing' = [refreshing EXCEPT ![t] = Quiet]
      BY <2>1 DEF GiveUp
    <3> QED BY <1>1, <3>1, OneRefresh, ConstantsTyped, CarriedByParts DEF Formed
  <2> QED BY <1>1, <2>1, <2>2, GiveUpEffect, PartsStay, FormedNext
<1> QED BY <1>2, <1>3

LEMMA QuietRefresh ==
  ASSUME Formed, TokensStay, NEW t \in Tabs, refreshing' = [refreshing EXCEPT ![t] = Quiet]
  PROVE  refreshing' \in [Tabs -> RefreshRow] /\ RefreshesExist'
BY OneRefresh, ConstantsTyped, CarriedByParts DEF Formed

-----------------------------------------------------------------------------
(* Every step keeps the form *)

LEMMA RowStays ==
  ASSUME Formed, NEW n \in Tokens, tokens[n] # None, NEW state \in {"live", "rotated", "spent", "revoked", "reused"},
         tokens' = [tokens EXCEPT ![n].state = state]
  PROVE  /\ TokensStay /\ tokens'[n] # None /\ tokens'[n].state = state
         /\ \A m \in Tokens \ {n} : tokens'[m] = tokens[m]
<1> DEFINE row == [tokens[n] EXCEPT !.state = state]
<1>1. tokens \in [Tokens -> Rows \cup {None}] /\ tokens[n] \in Rows
  BY FormedByParts
<1>2. tokens' = [tokens EXCEPT ![n] = row]
  OBVIOUS
<1>3. row \in Rows /\ row.state = state /\ row # None
  <2>1. row \in Rows /\ row.state = state
    BY <1>1 DEF Rows
  <2> QED BY <2>1, RowsNotNone
<1> HIDE DEF row
<1> QED BY <1>1, <1>2, <1>3 DEF TokensStay

LEMMA RowStepsFormed ==
  ASSUME Formed, NEW n \in Tokens, GraceElapses(n) \/ RevokeSession(n)
  PROVE  Formed'
<1>1. tokens[n] # None
  BY DEF GraceElapses, RevokeSession
<1>2. tokens' = [tokens EXCEPT ![n].state = "spent"] \/ tokens' = [tokens EXCEPT ![n].state = "revoked"]
  BY DEF GraceElapses, RevokeSession
<1>3. TokensStay
  BY <1>1, <1>2, RowStays
<1>4. UNCHANGED <<resets, jar, tab, calls, refreshing, signing, signedIn>>
  BY DEF GraceElapses, RevokeSession
<1> QED BY <1>3, <1>4, PartsStay, FormedNext

LEMMA ResetPasswordFormed ==
  ASSUME Formed, NEW u \in Users, ResetPassword(u)
  PROVE  Formed'
<1>1. TokensStay
  BY RevokeTyped, FormedByParts DEF TokensStay, ResetPassword
<1>2. UNCHANGED <<jar, tab, calls, refreshing, signing, signedIn>>
  BY DEF ResetPassword
<1>3. MaxResets \in Nat /\ resets \in [Users -> 0..MaxResets]
  BY ConstantsAssumption, FormedByParts
<1>4. resets' \in [Users -> 0..MaxResets]
  BY <1>3 DEF ResetPassword
<1> QED BY <1>1, <1>2, <1>4, PartsStay, FormedNext

LEMMA SendFormed ==
  ASSUME Formed, NEW t \in Tabs, NEW c, Send(t, c)
  PROVE  Formed'
<1>1. TokensStay /\ UNCHANGED <<tokens, resets, jar, tab, refreshing, signing, signedIn>>
  BY TokensUnchanged DEF Formed, Send
<1> DEFINE r == [at |-> "sent", token |-> tab[t].token]
<1>2. c \in Slots /\ calls' = [calls EXCEPT ![t][c] = r]
  BY DEF Send, Slots
<1>3. r \in CallRow /\ r.at # "answered"
  BY FormedByParts DEF TabRow, CallRow
<1> HIDE DEF r
<1>4. calls' \in [Tabs -> [Slots -> CallRow]] /\ AnswersExist'
  BY <1>2, <1>3, OneCall, FormedByParts
<1> QED BY <1>1, <1>4, PartsStay, FormedNext

LEMMA AccessExpiresFormed ==
  ASSUME Formed, NEW t \in Tabs, AccessExpires(t)
  PROVE  Formed'
<1>1. TokensStay /\ UNCHANGED <<tokens, resets, jar, calls, refreshing, signing, signedIn>>
  BY TokensUnchanged DEF Formed, AccessExpires
<1> DEFINE k == [tab[t].token EXCEPT !.live = FALSE]
           r == [tab[t] EXCEPT !.token = k]
<1>2. tab' = [tab EXCEPT ![t] = r]
  BY DEF AccessExpires
<1>3. tab[t] \in TabRow /\ tab[t].token \in AccessTokens /\ tab \in [Tabs -> TabRow]
  BY FormedByParts DEF AccessExpires, TabRow
<1>4. k \in AccessTokens
  BY <1>3 DEF AccessTokens
<1> HIDE DEF k
<1>5. r \in TabRow
  BY <1>3, <1>4 DEF TabRow
<1> HIDE DEF r
<1>6. tab' \in [Tabs -> TabRow]
  BY <1>2, <1>3, <1>5, OneTab
<1> QED BY <1>1, <1>6, PartsStay, FormedNext

LEMMA CallAcceptedFormed ==
  ASSUME Formed, NEW t \in Tabs, NEW c \in Slots, CallAccepted(t, c)
  PROVE  Formed'
<1>1. TokensStay /\ UNCHANGED <<tokens, resets, jar, tab, refreshing, signing, signedIn>>
  BY TokensUnchanged DEF Formed, CallAccepted
<1> DEFINE a == [calls[t][c] EXCEPT !.at = "answered"]
<1>2. calls[t][c] \in CallRow /\ calls[t][c].token # None
  BY FormedByParts DEF CallAccepted, Accepted
<1>3. a \in CallRow /\ a.token # None
  BY <1>2 DEF CallRow
<1>4. calls' = [calls EXCEPT ![t][c] = a] \/ calls' = [calls EXCEPT ![t][c] = Idle]
  BY DEF CallAccepted
<1> HIDE DEF a
<1>5. calls' \in [Tabs -> [Slots -> CallRow]] /\ AnswersExist'
  BY <1>3, <1>4, OneCall, IdleTyped, FormedByParts
<1> QED BY <1>1, <1>5, PartsStay, FormedNext

LEMMA ApplyMeFormed ==
  ASSUME Formed, NEW t \in Tabs, ApplyMe(t)
  PROVE  Formed'
<1>1. TokensStay /\ UNCHANGED <<tokens, resets, jar, refreshing, signing, signedIn>>
  BY TokensUnchanged DEF Formed, ApplyMe
<1> DEFINE who == calls[t][Me].token
           q == Page(Access(who.user, who.by), who.user, tab[t].note, FALSE)
<1>2. tab' = [tab EXCEPT ![t] = q] /\ calls' = [calls EXCEPT ![t][Me] = Idle]
  BY DEF ApplyMe
<1>3. /\ tab \in [Tabs -> TabRow] /\ calls \in [Tabs -> [Slots -> CallRow]] /\ AnswersExist
      /\ Me \in Slots /\ calls[t][Me].at = "answered"
  BY FormedByParts DEF ApplyMe, Slots
<1>4. who \in AccessTokens
  BY <1>3 DEF AnswersExist, CallRow
<1>5. who.user \in Users /\ who.by \in {"self", "admin"}
  BY <1>4 DEF AccessTokens
<1> HIDE DEF who
<1>6. Access(who.user, who.by) \in AccessTokens \cup {None} /\ tab[t].note \in Users \cup {None}
  BY <1>3, <1>5, AccessTyped DEF TabRow
<1>7. q \in TabRow
  BY <1>5, <1>6, PageTyped
<1> HIDE DEF q
<1>8. tab' \in [Tabs -> TabRow]
  BY <1>2, <1>3, <1>7, OneTab
<1>9. calls' \in [Tabs -> [Slots -> CallRow]] /\ AnswersExist'
  BY <1>2, <1>3, OneCall, IdleTyped
<1> QED BY <1>1, <1>8, <1>9, PartsStay, FormedNext

LEMMA CallRefusedFormed ==
  ASSUME Formed, NEW t \in Tabs, NEW c \in Slots, CallRefused(t, c)
  PROVE  Formed'
<1>0. TokensStay /\ UNCHANGED <<tokens, resets, jar, signing, signedIn>>
  BY TokensUnchanged DEF Formed, CallRefused
<1>1. /\ tab \in [Tabs -> TabRow] /\ calls \in [Tabs -> [Slots -> CallRow]] /\ AnswersExist
      /\ TypeOK /\ RefreshesExist /\ jar \in Tokens \cup {None}
  BY FormedByParts DEF Formed
<1>2. CASE calls[t][c].at = "sent"
  <2> DEFINE h == [calls[t][c] EXCEPT !.at = "held"]
             r == [at |-> "sent", cookie |-> jar, new |-> None]
  <2>1. calls' = [calls EXCEPT ![t][c] = h] /\ UNCHANGED tab
        /\ (refreshing' = [refreshing EXCEPT ![t] = r] \/ UNCHANGED refreshing)
    BY <1>2 DEF CallRefused, StartRefresh
  <2>2. h \in CallRow /\ h.at # "answered"
    BY <1>1 DEF CallRow
  <2>3. r \in RefreshRow /\ r.at = "sent" /\ r.new = None
    BY <1>1 DEF RefreshRow
  <2> HIDE DEF h, r
  <2>4. calls' \in [Tabs -> [Slots -> CallRow]] /\ AnswersExist'
    BY <1>1, <2>1, <2>2, OneCall
  <2>5. refreshing' \in [Tabs -> RefreshRow] /\ RefreshesExist'
    BY <1>0, <1>1, <2>1, <2>3, OneRefresh, RefreshesStay
  <2> QED BY <1>0, <2>1, <2>4, <2>5, PartsStay, FormedNext
<1>3. CASE calls[t][c].at # "sent"
  <2> DEFINE n == IF c = Me /\ ~tab[t].init THEN None ELSE tab[t].note
             i == tab[t].init /\ Me \notin {c}
             q == Page(None, None, n, i)
  <2>1. calls' = [calls EXCEPT ![t][c] = Idle] /\ tab' = [tab EXCEPT ![t] = q] /\ UNCHANGED refreshing
    BY <1>3 DEF CallRefused, SignedOff
  <2>2. n \in Users \cup {None} /\ i \in BOOLEAN
    BY <1>1 DEF TabRow
  <2> HIDE DEF n, i
  <2>3. q \in TabRow
    BY <2>2, PageTyped
  <2> HIDE DEF q
  <2>4. tab' \in [Tabs -> TabRow]
    BY <1>1, <2>1, <2>3, OneTab
  <2>5. calls' \in [Tabs -> [Slots -> CallRow]] /\ AnswersExist'
    BY <1>1, <2>1, OneCall, IdleTyped
  <2> QED BY <1>0, <2>1, <2>4, <2>5, PartsStay, FormedNext
<1> QED BY <1>2, <1>3

LEMMA RefreshReadFormed ==
  ASSUME Formed, NEW t \in Tabs, RefreshRead(t)
  PROVE  Formed'
<1>0. UNCHANGED <<resets, jar, tab, calls, signing, signedIn>>
  BY DEF RefreshRead
<1>1. /\ tokens \in [Tokens -> Rows \cup {None}] /\ TypeOK /\ RefreshesExist
      /\ refreshing[t] \in RefreshRow /\ refreshing[t].at = "sent" /\ refreshing[t].new = None
  BY FormedByParts DEF Formed, RefreshRead, RefreshesExist
<1>2. TokensStay
  BY <1>1, RevokeTyped, TokensUnchanged DEF TokensStay, RefreshRead
<1> DEFINE read == [refreshing[t] EXCEPT !.at = "read"]
           served == [refreshing[t] EXCEPT !.at = "served"]
<1>3. \/ /\ refreshing' = [refreshing EXCEPT ![t] = read]
         /\ refreshing[t].cookie # None /\ tokens[refreshing[t].cookie] # None
      \/ refreshing' = [refreshing EXCEPT ![t] = served]
  BY DEF RefreshRead
<1>4. /\ read \in RefreshRow /\ read.at = "read" /\ read.new = None /\ read.cookie = refreshing[t].cookie
      /\ served \in RefreshRow /\ served.at = "served" /\ served.new = None
  BY <1>1 DEF RefreshRow
<1>5. refreshing[t].cookie # None => refreshing[t].cookie \in Tokens
  BY <1>1 DEF RefreshRow
<1> HIDE DEF read, served
<1>6. refreshing' \in [Tabs -> RefreshRow] /\ RefreshesExist'
  <2>1. CASE refreshing' = [refreshing EXCEPT ![t] = served]
    BY <1>1, <1>2, <1>4, <2>1, OneRefresh
  <2>2. CASE /\ refreshing' = [refreshing EXCEPT ![t] = read]
             /\ refreshing[t].cookie # None /\ tokens[refreshing[t].cookie] # None
    <3>1. read.cookie # None /\ tokens'[read.cookie] # None
      BY <1>2, <1>4, <1>5, <2>2 DEF TokensStay
    <3> QED BY <1>1, <1>2, <1>4, <2>2, <3>1, OneRefresh
  <2> QED BY <1>3, <2>1, <2>2
<1> QED BY <1>0, <1>2, <1>6, PartsStay, FormedNext

(* A token is issued for a row that nobody carries; every other row is what
   the step made of it. *)
LEMMA IssueEffect ==
  ASSUME NEW rows \in [Tokens -> Rows \cup {None}], NEW n \in Tokens, NEW u \in Users, IssueTokens(n, u, rows)
  PROVE  /\ tokens' \in [Tokens -> Rows \cup {None}] /\ ~Carried(n)
         /\ tokens'[n] # None /\ tokens'[n].state = "live"
         /\ \A m \in Tokens : m # n => tokens'[m] = rows[m]
<1> DEFINE row == [user |-> u, state |-> "live"]
<1>1. row \in Rows /\ row.state = "live"
  BY DEF Rows
<1>2. tokens' = [rows EXCEPT ![n] = row] /\ ~Carried(n)
  BY DEF IssueTokens
<1> HIDE DEF row
<1> QED BY <1>1, <1>2, RowsNotNone

LEMMA RefreshCommitEffect ==
  ASSUME Formed, NEW t \in Tabs, NEW n \in Tokens, RefreshCommit(t, n)
  PROVE  /\ tokens' \in [Tokens -> Rows \cup {None}] /\ TokensStay /\ ~Carried(n)
         /\ tokens'[n] # None /\ tokens'[n].state = "live"
         /\ refreshing[t].cookie \in Tokens /\ refreshing[t].cookie # n
         /\ tokens'[refreshing[t].cookie] # None /\ tokens'[refreshing[t].cookie].state = "rotated"
         /\ \A m \in Tokens : m # n /\ m # refreshing[t].cookie => tokens'[m] = tokens[m]
         /\ refreshing' = [refreshing EXCEPT ![t] = [at |-> "served", cookie |-> refreshing[t].cookie, new |-> n]]
         /\ refreshing' \in [Tabs -> RefreshRow] /\ RefreshesExist'
         /\ UNCHANGED <<resets, jar, tab, calls, signing, signedIn>>
<1> DEFINE old == refreshing[t].cookie
           rows == [tokens EXCEPT ![old].state = "rotated"]
           r == [at |-> "served", cookie |-> old, new |-> n]
<1>1. /\ refreshing[t].at = "read" /\ IssueTokens(n, tokens[old].user, rows)
      /\ refreshing' = [refreshing EXCEPT ![t] = r]
      /\ UNCHANGED <<resets, jar, tab, calls, signing, signedIn>>
  BY DEF RefreshCommit
<1>2. tokens \in [Tokens -> Rows \cup {None}] /\ TypeOK /\ RefreshesExist /\ refreshing[t] \in RefreshRow
  BY FormedByParts DEF Formed
<1>3. old \in Tokens /\ tokens[old] # None
  BY <1>1, <1>2 DEF RefreshesExist, RefreshRow
<1>4. tokens[old].user \in Users
  BY <1>2, <1>3 DEF Rows
<1>5. ~Carried(n) /\ old # n
  BY <1>1 DEF IssueTokens, Carried
<1> HIDE DEF old
<1>6. "rotated" \in {"live", "rotated", "spent", "revoked", "reused"}
  OBVIOUS
<1>7. /\ rows \in [Tokens -> Rows \cup {None}] /\ rows[old] # None /\ rows[old].state = "rotated"
      /\ \A m \in Tokens \ {old} : rows[m] = tokens[m]
  BY <1>2, <1>3, <1>6, RowsTyped
<1> HIDE DEF rows
<1>8. /\ tokens' \in [Tokens -> Rows \cup {None}] /\ tokens'[n] # None /\ tokens'[n].state = "live"
      /\ \A m \in Tokens : m # n => tokens'[m] = rows[m]
  BY <1>1, <1>4, <1>7, IssueEffect
<1>9. TokensStay
  BY <1>7, <1>8 DEF TokensStay
<1>10. r \in RefreshRow /\ r.at = "served" /\ r.new = n
  BY <1>3 DEF RefreshRow
<1> HIDE DEF r
<1>11. refreshing' \in [Tabs -> RefreshRow] /\ RefreshesExist'
  BY <1>1, <1>2, <1>8, <1>9, <1>10, OneRefresh
<1> QED BY <1>1, <1>3, <1>5, <1>7, <1>8, <1>9, <1>11 DEF old, r

LEMMA RefreshCommitFormed ==
  ASSUME Formed, NEW t \in Tabs, NEW n \in Tokens, RefreshCommit(t, n)
  PROVE  Formed'
BY RefreshCommitEffect, PartsStay, FormedNext

LEMMA RefreshDoneFormed ==
  ASSUME Formed, NEW t \in Tabs, RefreshDone(t)
  PROVE  Formed'
<1>0. UNCHANGED <<tokens, resets, signing, signedIn>> /\ TokensStay /\ refreshing[t].at = "served"
  BY TokensUnchanged DEF RefreshDone, Formed
<1>1. CASE refreshing[t].new # None
  <2> DEFINE n == refreshing[t].new
             k == Access(tokens[n].user, "self")
  <2>1. n \in Tokens /\ tokens[n] # None /\ tokens \in [Tokens -> Rows \cup {None}]
    BY <1>0, <1>1, FormedByParts DEF RefreshesExist, Won
  <2>2. jar' = n /\ Resume(t, k)
    BY <1>1 DEF RefreshDone
  <2>3. k \in AccessTokens
    <3>1. tokens[n].user \in Users
      BY <2>1 DEF Rows
    <3> QED BY <3>1, AccessTyped
  <2> HIDE DEF k
  <2>4. refreshing' \in [Tabs -> RefreshRow] /\ RefreshesExist'
    BY <1>0, <2>2, QuietRefresh DEF Resume
  <2>5. /\ tab' \in [Tabs -> TabRow] /\ calls' \in [Tabs -> [Slots -> CallRow]] /\ AnswersExist'
    BY <2>2, <2>3, ResumeEffect
  <2>6. jar' \in Tokens \cup {None}
    BY <2>1, <2>2
  <2> QED BY <1>0, <2>4, <2>5, <2>6, PartsStay, FormedNext
<1>2. CASE refreshing[t].new = None
  <2>1. Fallback(t) /\ UNCHANGED jar
    BY <1>2 DEF RefreshDone
  <2> QED BY <1>0, <2>1, FallbackFormed
<1> QED BY <1>1, <1>2

LEMMA RefreshLostFormed ==
  ASSUME Formed, NEW t \in Tabs, RefreshLost(t)
  PROVE  Formed'
BY FallbackFormed DEF RefreshLost

LEMMA FallbackDoneFormed ==
  ASSUME Formed, NEW t \in Tabs, FallbackDone(t)
  PROVE  Formed'
<1>0. UNCHANGED <<tokens, resets, jar, signing, signedIn>> /\ TokensStay
  BY TokensUnchanged DEF FallbackDone, Formed
<1>1. refreshing' = [refreshing EXCEPT ![t] = Quiet]
  BY DEF FallbackDone, Resume, GiveUp
<1>2. refreshing' \in [Tabs -> RefreshRow] /\ RefreshesExist'
  BY <1>0, <1>1, QuietRefresh
<1> DEFINE k == Access(refreshing[t].new, "admin")
<1>3. k \in AccessTokens
  <2>1. refreshing[t].new \in Users
    BY FormedByParts DEF FallbackDone, RefreshesExist
  <2> QED BY <2>1, AccessTyped
<1>4. Resume(t, k) \/ GiveUp(t)
  BY DEF FallbackDone
<1> HIDE DEF k
<1>5. tab' \in [Tabs -> TabRow] /\ calls' \in [Tabs -> [Slots -> CallRow]] /\ AnswersExist'
  BY <1>3, <1>4, ResumeEffect, GiveUpEffect
<1> QED BY <1>0, <1>2, <1>5, PartsStay, FormedNext

LEMMA LoginFormed ==
  ASSUME Formed, NEW t \in Tabs, NEW u \in Users, Login(t, u)
  PROVE  Formed'
<1>1. UNCHANGED <<tokens, resets, jar, tab, calls, refreshing, signedIn>> /\ TokensStay
  BY TokensUnchanged DEF Login, Formed
<1> DEFINE r == [at |-> "login", user |-> u, cookie |-> None]
<1>2. signing' = [signing EXCEPT ![t] = r]
  BY DEF Login
<1>3. r \in SigningRow /\ r.user # None
  BY RowsNotNone DEF SigningRow
<1> HIDE DEF r
<1>4. signing' \in [Tabs -> SigningRow] /\ SigningsExist'
  BY <1>2, <1>3, OneSigning, FormedByParts
<1> QED BY <1>1, <1>4, PartsStay, FormedNext

LEMMA ServeLoginEffect ==
  ASSUME Formed, NEW t \in Tabs, NEW n \in Tokens, ServeLogin(t, n)
  PROVE  /\ TokensStay /\ ~Carried(n) /\ tokens'[n] # None /\ tokens'[n].state = "live"
         /\ \A m \in Tokens : m # n => tokens'[m] = tokens[m]
         /\ signing' = [signing EXCEPT ![t] = [at |-> "loggedIn", user |-> signing[t].user, cookie |-> n]]
         /\ signing' \in [Tabs -> SigningRow] /\ SigningsExist'
         /\ UNCHANGED <<resets, jar, tab, calls, refreshing, signedIn>>
<1> DEFINE r == [at |-> "loggedIn", user |-> signing[t].user, cookie |-> n]
<1>1. /\ signing[t].at = "login" /\ IssueTokens(n, signing[t].user, tokens)
      /\ signing' = [signing EXCEPT ![t] = r] /\ UNCHANGED <<resets, jar, tab, calls, refreshing, signedIn>>
  BY DEF ServeLogin
<1>2. /\ signing[t] \in SigningRow /\ signing \in [Tabs -> SigningRow] /\ SigningsExist
      /\ tokens \in [Tokens -> Rows \cup {None}]
  BY FormedByParts
<1>3. signing[t].user \in Users
  BY <1>1, <1>2 DEF SigningsExist, SigningRow
<1>4. /\ tokens' \in [Tokens -> Rows \cup {None}] /\ ~Carried(n)
      /\ tokens'[n] # None /\ tokens'[n].state = "live"
      /\ \A m \in Tokens : m # n => tokens'[m] = tokens[m]
  BY <1>1, <1>2, <1>3, IssueEffect
<1>5. TokensStay
  BY <1>4 DEF TokensStay
<1>6. r \in SigningRow /\ r.user # None
  BY <1>3, RowsNotNone DEF SigningRow
<1> HIDE DEF r
<1>7. signing' \in [Tabs -> SigningRow] /\ SigningsExist'
  BY <1>1, <1>2, <1>6, OneSigning
<1> QED BY <1>1, <1>4, <1>5, <1>7 DEF r

LEMMA ServeLoginFormed ==
  ASSUME Formed, NEW t \in Tabs, NEW n \in Tokens, ServeLogin(t, n)
  PROVE  Formed'
BY ServeLoginEffect, PartsStay, FormedNext

LEMMA NotSigningFormed ==
  ASSUME Formed, NEW t \in Tabs, signing' = [signing EXCEPT ![t] = NotSigning]
  PROVE  signing' \in [Tabs -> SigningRow] /\ SigningsExist'
<1>1. NotSigning.at \notin {"login", "loggedIn"}
  BY ConstantsTyped
<1> QED BY <1>1, OneSigning, ConstantsTyped, FormedByParts

LEMMA LoginDoneFormed ==
  ASSUME Formed, NEW t \in Tabs, LoginDone(t)
  PROVE  Formed'
<1>1. UNCHANGED <<tokens, resets, calls, refreshing>> /\ TokensStay /\ signedIn' \in BOOLEAN
  BY TokensUnchanged DEF LoginDone, Formed
<1>2. /\ signing[t] \in SigningRow /\ SigningsExist /\ signing[t].at = "loggedIn" /\ jar' = signing[t].cookie
      /\ tab \in [Tabs -> TabRow]
  BY FormedByParts DEF LoginDone
<1>3. signing[t].user \in Users /\ jar' \in Tokens \cup {None}
  BY <1>2 DEF SigningsExist, SigningRow
<1> DEFINE q == Page(Access(signing[t].user, "self"), signing[t].user, None, tab[t].init)
<1>4. tab' = [tab EXCEPT ![t] = q]
  BY DEF LoginDone
<1>5. q \in TabRow
  <2>1. Access(signing[t].user, "self") \in AccessTokens \cup {None} /\ tab[t].init \in BOOLEAN
    BY <1>2, <1>3, AccessTyped DEF TabRow
  <2> QED BY <1>3, <2>1, PageTyped
<1> HIDE DEF q
<1>6. tab' \in [Tabs -> TabRow]
  BY <1>2, <1>4, <1>5, OneTab
<1>7. signing' \in [Tabs -> SigningRow] /\ SigningsExist'
  BY NotSigningFormed DEF LoginDone
<1> QED BY <1>1, <1>3, <1>6, <1>7, PartsStay, FormedNext

LEMMA LogoutFormed ==
  ASSUME Formed, NEW t \in Tabs, Logout(t)
  PROVE  Formed'
<1>1. UNCHANGED <<tokens, resets, jar, tab, calls, refreshing, signedIn>> /\ TokensStay
  BY TokensUnchanged DEF Logout, Formed
<1> DEFINE r == [at |-> "logout", user |-> tab[t].user, cookie |-> jar]
<1>2. signing' = [signing EXCEPT ![t] = r]
  BY DEF Logout
<1>3. r \in SigningRow /\ r.at \notin {"login", "loggedIn"}
  BY FormedByParts DEF SigningRow, TabRow
<1> HIDE DEF r
<1>4. signing' \in [Tabs -> SigningRow] /\ SigningsExist'
  BY <1>2, <1>3, OneSigning, FormedByParts
<1> QED BY <1>1, <1>4, PartsStay, FormedNext

LEMMA ServeLogoutFormed ==
  ASSUME Formed, NEW t \in Tabs, ServeLogout(t)
  PROVE  Formed'
<1>1. UNCHANGED <<resets, jar, tab, calls, refreshing, signedIn>>
  BY DEF ServeLogout
<1> DEFINE n == signing[t].cookie
           r == [signing[t] EXCEPT !.at = "loggedOut"]
<1>2. /\ signing[t] \in SigningRow /\ signing' = [signing EXCEPT ![t] = r]
      /\ signing \in [Tabs -> SigningRow] /\ SigningsExist
  BY FormedByParts DEF ServeLogout
<1>3. n # None => n \in Tokens
  BY <1>2 DEF SigningRow
<1>4. \/ n # None /\ tokens[n] # None /\ tokens' = [tokens EXCEPT ![n].state = "revoked"]
      \/ UNCHANGED tokens
  BY DEF ServeLogout
<1>5. TokensStay
  BY <1>3, <1>4, RowStays, TokensUnchanged DEF Formed
<1>6. r \in SigningRow /\ r.at = "loggedOut"
  BY <1>2 DEF SigningRow
<1> HIDE DEF r
<1>7. signing' \in [Tabs -> SigningRow] /\ SigningsExist'
  BY <1>2, <1>6, OneSigning
<1> QED BY <1>1, <1>5, <1>7, PartsStay, FormedNext

LEMMA NobodyFormed ==
  ASSUME Formed, NEW t \in Tabs, tab' = [tab EXCEPT ![t] = Page(None, None, None, tab[t].init)]
  PROVE  tab' \in [Tabs -> TabRow]
<1>1. tab \in [Tabs -> TabRow] /\ tab[t].init \in BOOLEAN
  BY FormedByParts DEF TabRow
<1>2. Page(None, None, None, tab[t].init) \in TabRow
  BY <1>1, PageTyped
<1> QED BY <1>1, <1>2, OneTab

LEMMA LogoutDoneFormed ==
  ASSUME Formed, NEW t \in Tabs, LogoutDone(t)
  PROVE  Formed'
<1>1. UNCHANGED <<tokens, resets, calls, refreshing>> /\ TokensStay /\ signedIn' \in BOOLEAN
  BY TokensUnchanged DEF LogoutDone, Formed
<1>2. jar' \in Tokens \cup {None}
  BY FormedByParts DEF LogoutDone
<1>3. tab' \in [Tabs -> TabRow] /\ signing' \in [Tabs -> SigningRow] /\ SigningsExist'
  BY NobodyFormed, NotSigningFormed DEF LogoutDone
<1> QED BY <1>1, <1>2, <1>3, PartsStay, FormedNext

LEMMA EndWorkspaceFormed ==
  ASSUME Formed, NEW t \in Tabs, EndWorkspace(t)
  PROVE  Formed'
<1>1. UNCHANGED <<tokens, resets, jar, calls, refreshing, signing, signedIn>> /\ TokensStay
  BY TokensUnchanged DEF EndWorkspace, Formed
<1>2. tab' \in [Tabs -> TabRow]
  BY NobodyFormed DEF EndWorkspace
<1> QED BY <1>1, <1>2, PartsStay, FormedNext

LEMMA ReloadFormed ==
  ASSUME Formed, NEW t \in Tabs, Reload(t)
  PROVE  Formed'
<1>1. UNCHANGED <<tokens, resets, jar, signing, signedIn>> /\ TokensStay
  BY TokensUnchanged DEF Reload, Formed
<1>2. /\ tab \in [Tabs -> TabRow] /\ calls \in [Tabs -> [Slots -> CallRow]] /\ AnswersExist
      /\ tab[t].note \in Users \cup {None}
  BY FormedByParts DEF TabRow
<1>3. tab' \in [Tabs -> TabRow]
  BY <1>2, ConstantsTyped, OneTab DEF Reload
<1>4. calls' \in [Tabs -> [Slots -> CallRow]] /\ AnswersExist'
  BY <1>2, RestoringTyped, OneTabsCalls DEF Reload
<1>5. refreshing' \in [Tabs -> RefreshRow] /\ RefreshesExist'
  BY <1>1, QuietRefresh DEF Reload
<1> QED BY <1>1, <1>3, <1>4, <1>5, PartsStay, FormedNext

LEMMA ImpersonateFormed ==
  ASSUME Formed, NEW t \in Tabs, NEW u \in Users, Impersonate(t, u)
  PROVE  Formed'
<1>1. UNCHANGED <<tokens, resets, jar, refreshing, signing, signedIn>> /\ TokensStay
  BY TokensUnchanged DEF Impersonate, Formed
<1> DEFINE q == Page(Access(u, "admin"), tab[t].user, u, tab[t].init)
           r == [at |-> "sent", token |-> Access(u, "admin")]
<1>2. tab' = [tab EXCEPT ![t] = q] /\ calls' = [calls EXCEPT ![t][Me] = r] /\ Me \in Slots
  BY DEF Impersonate, Slots
<1>3. /\ tab \in [Tabs -> TabRow] /\ calls \in [Tabs -> [Slots -> CallRow]] /\ AnswersExist
      /\ tab[t].user \in Users \cup {None} /\ tab[t].init \in BOOLEAN
  BY FormedByParts DEF TabRow
<1>4. Access(u, "admin") \in AccessTokens \cup {None}
  BY AccessTyped
<1>5. q \in TabRow
  BY <1>3, <1>4, PageTyped
<1>6. r \in CallRow /\ r.at # "answered"
  BY <1>4 DEF CallRow
<1> HIDE DEF q, r
<1>7. tab' \in [Tabs -> TabRow]
  BY <1>2, <1>3, <1>5, OneTab
<1>8. calls' \in [Tabs -> [Slots -> CallRow]] /\ AnswersExist'
  BY <1>2, <1>3, <1>6, OneCall
<1> QED BY <1>1, <1>7, <1>8, PartsStay, FormedNext

LEMMA NextFormed == Formed /\ [Next]_vars => Formed'
<1> SUFFICES ASSUME Formed, [Next]_vars PROVE Formed'
  OBVIOUS
<1>1. CASE UNCHANGED vars
  BY <1>1, TokensUnchanged, PartsStay, FormedNext DEF vars, Formed
<1>2. ASSUME NEW t \in Tabs, Answers(t) PROVE Formed'
  BY <1>2, CallAcceptedFormed, CallRefusedFormed, ApplyMeFormed, RefreshReadFormed, RefreshDoneFormed,
     FallbackDoneFormed, RefreshCommitFormed, ServeLoginFormed, ServeLogoutFormed, LoginDoneFormed,
     LogoutDoneFormed DEF Answers
<1>3. ASSUME NEW t \in Tabs, Acts(t) PROVE Formed'
  BY <1>3, SendFormed, LoginFormed, ImpersonateFormed, LogoutFormed, EndWorkspaceFormed, ReloadFormed DEF Acts
<1>4. ASSUME NEW t \in Tabs, AccessExpires(t) \/ RefreshLost(t) PROVE Formed'
  BY <1>4, AccessExpiresFormed, RefreshLostFormed
<1>5. ASSUME NEW n \in Tokens, GraceElapses(n) \/ RevokeSession(n) PROVE Formed'
  BY <1>5, RowStepsFormed
<1>6. ASSUME NEW u \in Users, ResetPassword(u) PROVE Formed'
  BY <1>6, ResetPasswordFormed
<1> QED BY <1>1, <1>2, <1>3, <1>4, <1>5, <1>6 DEF Next

-----------------------------------------------------------------------------
(* Where no answer is lost, races are harmless.  A calm step leaves the    *)
(* cookie and what was granted alone, and no row that is needed grows old. *)

RowsCalm ==
  \A n \in Tokens :
    /\ Works(n) => Works(n)'
    /\ Recent(n) /\ (\E s \in Tabs : refreshing[s].cookie = n) => Recent(n)'
RefreshesCalm ==
  \A s \in Tabs :
    /\ Won(s) => refreshing'[s] = refreshing[s]
    /\ Won(s)' => Won(s)
    /\ refreshing'[s].cookie \in {None, jar, refreshing[s].cookie}
    /\ refreshing'[s].at \in {"sent", "read"} /\ refreshing'[s].cookie \notin {None, jar} =>
         refreshing[s].at \in {"sent", "read"}
SigningsCalm == \A s \in Tabs : signing'[s].at = "loggedIn" => signing'[s] = signing[s]

LEMMA CalmSteps ==
  ASSUME Formed, RacesAreHarmless, UNCHANGED <<jar, signedIn>>, RowsCalm, RefreshesCalm, SigningsCalm
  PROVE  RacesAreHarmless'
<1>1. /\ jar \in Tokens \cup {None} /\ refreshing \in [Tabs -> RefreshRow] /\ RefreshesExist
      /\ None \notin Tokens
  BY FormedByParts, RowsNotNone
<1>2. jar # None => Recent(jar)'
  <2>1. CASE Works(jar)
    BY <1>1, <2>1 DEF RowsCalm, Works, Recent
  <2>2. ASSUME Recent(jar), NEW t \in Tabs, Won(t), refreshing[t].cookie = jar, jar # None
        PROVE  Recent(jar)'
    <3>1. jar \in Tokens /\ Recent(jar) /\ \E s \in Tabs : refreshing[s].cookie = jar
      BY <1>1, <2>2
    <3>2. \A n \in Tokens : Recent(n) /\ (\E s \in Tabs : refreshing[s].cookie = n) => Recent(n)'
      BY DEF RowsCalm
    <3>3. ASSUME NEW n \in Tokens, n = jar PROVE Recent(jar)'
      <4>1. Recent(n)' /\ jar' = jar
        BY <3>1, <3>2, <3>3
      <4> QED BY <3>3, <4>1 DEF Recent
    <3> QED BY <3>1, <3>3
  <2> QED BY <2>1, <2>2 DEF RacesAreHarmless, CookieWorks
<1>3. CookieWorks'
  <2>1. signedIn' => jar' # None
    BY DEF RacesAreHarmless, CookieWorks
  <2>2. CASE jar # None /\ Works(jar)
    BY <1>1, <2>1, <2>2 DEF RowsCalm, Works, CookieWorks
  <2>3. ASSUME NEW t \in Tabs, Won(t), refreshing[t].cookie = jar, jar # None
        PROVE  CookieWorks'
    <3>1. Won(t)' /\ (refreshing[t].cookie = jar)'
      BY <2>3 DEF RefreshesCalm, Won
    <3> QED BY <1>2, <2>1, <2>3, <3>1 DEF CookieWorks
  <2>4. CASE jar = None
    BY <2>1, <2>4 DEF CookieWorks
  <2> QED BY <2>2, <2>3, <2>4 DEF RacesAreHarmless, CookieWorks
<1>4. PresentedIsRecent'
  <2> SUFFICES ASSUME NEW s \in Tabs, refreshing'[s].at \in {"sent", "read"}, refreshing'[s].cookie # None
               PROVE  tokens'[refreshing'[s].cookie] # None
                      /\ tokens'[refreshing'[s].cookie].state \in {"live", "revoked", "rotated"}
    BY DEF PresentedIsRecent, Recent
  <2>1. CASE refreshing'[s].cookie = jar
    BY <1>2, <2>1 DEF Recent
  <2>2. CASE refreshing'[s].cookie # jar
    <3> DEFINE n == refreshing[s].cookie
    <3>1. refreshing[s].at \in {"sent", "read"} /\ refreshing'[s].cookie = n /\ n # None
      BY <2>2 DEF RefreshesCalm
    <3>2. n \in Tokens
      BY <1>1, <3>1 DEF RefreshRow
    <3>3. Recent(n)
      BY <3>1 DEF RacesAreHarmless, PresentedIsRecent
    <3> QED BY <3>1, <3>2, <3>3 DEF RowsCalm, Recent
  <2> QED BY <2>1, <2>2
<1>5. PromisedIsFresh'
  <2>1. ASSUME NEW t \in Tabs, Won(t)'
        PROVE  /\ Works(refreshing[t].new)' /\ (refreshing[t].new # jar)'
               /\ \A s \in Tabs : /\ (refreshing[s].cookie # refreshing[t].new)'
                                  /\ Won(s)' /\ (refreshing[s].new = refreshing[t].new)' => s = t
    <3> DEFINE n == refreshing[t].new
    <3>1. Won(t) /\ refreshing'[t] = refreshing[t] /\ n \in Tokens
      BY <1>1, <2>1 DEF RefreshesCalm, RefreshesExist
    <3>2. /\ Works(n) /\ n # jar
          /\ \A s \in Tabs : refreshing[s].cookie # n /\ (Won(s) /\ refreshing[s].new = n => s = t)
      BY <3>1 DEF RacesAreHarmless, PromisedIsFresh
    <3>3. tokens'[n] # None /\ tokens'[n].state \in {"live", "revoked"}
      BY <3>1, <3>2 DEF RowsCalm, Works
    <3>4. \A s \in Tabs : refreshing'[s].cookie # n
      <4>1. n # None /\ n # jar /\ \A s \in Tabs : refreshing[s].cookie # n
        BY <3>1, <3>2, RowsNotNone
      <4>2. \A s \in Tabs : refreshing'[s].cookie \in {None, jar, refreshing[s].cookie}
        BY DEF RefreshesCalm
      <4> HIDE DEF n
      <4> QED BY <4>1, <4>2
    <3>5. \A s \in Tabs : Won(s)' => Won(s) /\ refreshing'[s] = refreshing[s]
      BY DEF RefreshesCalm
    <3> QED BY <3>1, <3>2, <3>3, <3>4, <3>5 DEF Works
  <2>2. ASSUME NEW t \in Tabs, signing'[t].at = "loggedIn"
        PROVE  /\ (signing[t].cookie \in Tokens)' /\ Works(signing[t].cookie)' /\ (signing[t].cookie # jar)'
               /\ \A s \in Tabs : /\ (refreshing[s].cookie # signing[t].cookie)'
                                  /\ Won(s)' => (refreshing[s].new # signing[t].cookie)'
                                  /\ (signing[s].at = "loggedIn")' /\ (signing[s].cookie = signing[t].cookie)' => s = t
    <3> DEFINE n == signing[t].cookie
    <3>1. signing'[t] = signing[t] /\ signing[t].at = "loggedIn"
      BY <2>2 DEF SigningsCalm
    <3>2. n \in Tokens /\ Works(n) /\ n # jar
          /\ \A s \in Tabs : /\ refreshing[s].cookie # n /\ (Won(s) => refreshing[s].new # n)
                             /\ signing[s].at = "loggedIn" /\ signing[s].cookie = n => s = t
      BY <3>1 DEF RacesAreHarmless, PromisedIsFresh
    <3>3. tokens'[n] # None /\ tokens'[n].state \in {"live", "revoked"}
      BY <3>2 DEF RowsCalm, Works
    <3>4. \A s \in Tabs : refreshing'[s].cookie # n
      BY <1>1, <3>2 DEF RefreshesCalm
    <3>5. \A s \in Tabs : Won(s)' => Won(s) /\ refreshing'[s] = refreshing[s]
      BY DEF RefreshesCalm
    <3>6. \A s \in Tabs : signing'[s].at = "loggedIn" => signing'[s] = signing[s]
      BY DEF SigningsCalm
    <3> QED BY <3>1, <3>2, <3>3, <3>4, <3>5, <3>6 DEF Works
  <2> QED BY <2>1, <2>2 DEF PromisedIsFresh
<1> QED BY <1>3, <1>4, <1>5 DEF RacesAreHarmless

(* Rows that only age when nothing needs them any more. *)
LEMMA RowsUnchangedCalm == ASSUME UNCHANGED tokens PROVE RowsCalm
BY DEF RowsCalm, Works, Recent

LEMMA LiveRowsCalm ==
  ASSUME \A n \in Tokens : \/ tokens'[n] = tokens[n]
                           \/ tokens[n] # None /\ tokens'[n] # None /\ tokens'[n].state = "revoked"
  PROVE  RowsCalm
BY DEF RowsCalm, Works, Recent

LEMMA RefreshesUnchangedCalm ==
  ASSUME UNCHANGED refreshing PROVE RefreshesCalm
BY DEF RefreshesCalm, Won

LEMMA SigningsUnchangedCalm ==
  ASSUME UNCHANGED signing PROVE SigningsCalm
BY DEF SigningsCalm

(* A refresh that was not granted ends, or another begins. *)
LEMMA OneRefreshCalm ==
  ASSUME Formed, NEW t \in Tabs, ~Won(t), NEW r \in RefreshRow, refreshing' = [refreshing EXCEPT ![t] = r],
         r.at = "served" => r.new = None, r.cookie \in {None, jar, refreshing[t].cookie},
         r.at \in {"sent", "read"} /\ r.cookie \notin {None, jar} => refreshing[t].at \in {"sent", "read"}
  PROVE  RefreshesCalm
<1>1. refreshing \in [Tabs -> RefreshRow]
  BY FormedByParts
<1>2. refreshing'[t] = r /\ \A s \in Tabs : s # t => refreshing'[s] = refreshing[s]
  BY <1>1
<1> SUFFICES ASSUME NEW s \in Tabs
             PROVE  /\ Won(s) => refreshing'[s] = refreshing[s]
                    /\ Won(s)' => Won(s)
                    /\ refreshing'[s].cookie \in {None, jar, refreshing[s].cookie}
                    /\ refreshing'[s].at \in {"sent", "read"} /\ refreshing'[s].cookie \notin {None, jar} =>
                         refreshing[s].at \in {"sent", "read"}
  BY DEF RefreshesCalm
<1>3. CASE s = t
  BY <1>2, <1>3 DEF Won
<1>4. CASE s # t
  BY <1>2, <1>4 DEF Won
<1> QED BY <1>3, <1>4

LEMMA QuietRefreshCalm ==
  ASSUME Formed, NEW t \in Tabs, ~Won(t), refreshing' = [refreshing EXCEPT ![t] = Quiet]
  PROVE  RefreshesCalm
<1>1. Quiet \in RefreshRow /\ Quiet.at = "none" /\ Quiet.cookie = None
  BY ConstantsTyped
<1> QED BY <1>1, OneRefreshCalm

LEMMA OneSigningCalm ==
  ASSUME Formed, NEW t \in Tabs, NEW r, signing' = [signing EXCEPT ![t] = r], r.at # "loggedIn"
  PROVE  SigningsCalm
BY FormedByParts DEF SigningsCalm

LEMMA FallbackCalm ==
  ASSUME Formed, NEW t \in Tabs, ~Won(t), Fallback(t)
  PROVE  RefreshesCalm
<1>1. CASE tab[t].note # None
  <2> DEFINE r == [at |-> "fallback", cookie |-> None, new |-> tab[t].note]
  <2>1. refreshing' = [refreshing EXCEPT ![t] = r]
    BY <1>1 DEF Fallback
  <2>2. r \in RefreshRow /\ r.at = "fallback" /\ r.cookie = None
    BY FormedByParts DEF TabRow, RefreshRow
  <2> HIDE DEF r
  <2> QED BY <2>1, <2>2, OneRefreshCalm
<1>2. CASE tab[t].note = None
  BY <1>2, QuietRefreshCalm DEF Fallback, GiveUp
<1> QED BY <1>1, <1>2

LEMMA TokenStepsHarmless ==
  ASSUME Formed, RacesAreHarmless,
         \/ \E n \in Tokens : GraceElapses(n) \/ RevokeSession(n)
         \/ \E u \in Users : ResetPassword(u)
  PROVE  RacesAreHarmless'
<1>1. UNCHANGED <<jar, signedIn, refreshing, signing>>
  BY DEF GraceElapses, RevokeSession, ResetPassword
<1>2. ASSUME NEW n \in Tokens, GraceElapses(n) PROVE RowsCalm
  <2>1. tokens[n] # None /\ tokens[n].state = "rotated" /\ \A s \in Tabs : refreshing[s].cookie # n
    BY <1>2 DEF GraceElapses
  <2>2. \A m \in Tokens \ {n} : tokens'[m] = tokens[m]
    BY <1>2, <2>1, RowStays DEF GraceElapses
  <2> QED BY <2>1, <2>2 DEF RowsCalm, Works, Recent
<1>3. ASSUME NEW n \in Tokens, RevokeSession(n) PROVE RowsCalm
  <2>1. /\ tokens[n] # None /\ tokens'[n] # None /\ tokens'[n].state = "revoked"
        /\ \A m \in Tokens \ {n} : tokens'[m] = tokens[m]
    BY <1>3, RowStays DEF RevokeSession
  <2> QED BY <2>1, LiveRowsCalm
<1>4. ASSUME NEW u \in Users, ResetPassword(u) PROVE RowsCalm
  <2>1. tokens' = RevokeUserTokens(u, "revoked") /\ tokens \in [Tokens -> Rows \cup {None}]
    BY <1>4, FormedByParts DEF ResetPassword
  <2> QED BY <2>1, RevokeTyped, LiveRowsCalm
<1> QED BY <1>1, <1>2, <1>3, <1>4, RefreshesUnchangedCalm, SigningsUnchangedCalm, CalmSteps

LEMMA TabStepsHarmless ==
  ASSUME Formed, RacesAreHarmless, UNCHANGED <<tokens, jar, refreshing, signing, signedIn>>
  PROVE  RacesAreHarmless'
BY RowsUnchangedCalm, RefreshesUnchangedCalm, SigningsUnchangedCalm, CalmSteps

LEMMA CallRefusedHarmless ==
  ASSUME Formed, RacesAreHarmless, NEW t \in Tabs, NEW c \in Slots, CallRefused(t, c)
  PROVE  RacesAreHarmless'
<1>1. UNCHANGED <<tokens, jar, signing, signedIn>>
  BY DEF CallRefused
<1>2. CASE UNCHANGED refreshing
  BY <1>1, <1>2, TabStepsHarmless
<1>3. CASE ~UNCHANGED refreshing
  <2> DEFINE r == [at |-> "sent", cookie |-> jar, new |-> None]
  <2>1. refreshing[t].at = "none" /\ refreshing' = [refreshing EXCEPT ![t] = r]
    BY <1>3 DEF CallRefused, StartRefresh
  <2>2. r \in RefreshRow /\ r.at = "sent" /\ r.cookie = jar
    BY FormedByParts DEF RefreshRow
  <2>3. ~Won(t)
    BY <2>1 DEF Won
  <2> HIDE DEF r
  <2>4. RefreshesCalm
    BY <2>1, <2>2, <2>3, OneRefreshCalm
  <2> QED BY <1>1, <2>4, RowsUnchangedCalm, SigningsUnchangedCalm, CalmSteps
<1> QED BY <1>2, <1>3

LEMMA RefreshReadHarmless ==
  ASSUME Formed, RacesAreHarmless, NEW t \in Tabs, RefreshRead(t)
  PROVE  RacesAreHarmless' /\ UNCHANGED tokens
<1> DEFINE n == refreshing[t].cookie
           read == [refreshing[t] EXCEPT !.at = "read"]
           served == [refreshing[t] EXCEPT !.at = "served"]
<1>1. /\ refreshing[t].at = "sent" /\ refreshing[t] \in RefreshRow /\ refreshing[t].new = None /\ ~Won(t)
      /\ UNCHANGED <<jar, signing, signedIn>>
  BY FormedByParts DEF RefreshRead, RefreshesExist, Won
<1>2. n # None => Recent(n)
  BY <1>1 DEF RacesAreHarmless, PresentedIsRecent
<1>3. UNCHANGED tokens
  BY <1>2 DEF RefreshRead, Recent
<1>4. refreshing' = [refreshing EXCEPT ![t] = read] \/ refreshing' = [refreshing EXCEPT ![t] = served]
  BY DEF RefreshRead
<1>5. /\ read \in RefreshRow /\ read.at = "read" /\ read.cookie = n
      /\ served \in RefreshRow /\ served.at = "served" /\ served.new = None /\ served.cookie = n
  BY <1>1 DEF RefreshRow
<1> HIDE DEF read, served
<1>6. RefreshesCalm
  BY <1>1, <1>4, <1>5, OneRefreshCalm
<1> QED BY <1>1, <1>3, <1>6, RowsUnchangedCalm, SigningsUnchangedCalm, CalmSteps

LEMMA EndedRefreshHarmless ==
  ASSUME Formed, RacesAreHarmless, NEW t \in Tabs, ~Won(t),
         FallbackDone(t) \/ RefreshDone(t) \/ Reload(t)
  PROVE  RacesAreHarmless'
<1>1. UNCHANGED <<tokens, signing, signedIn, jar>>
  BY DEF FallbackDone, RefreshDone, Reload, Won
<1>2. RefreshesCalm
  <2>1. CASE FallbackDone(t) \/ Reload(t)
    BY <2>1, QuietRefreshCalm DEF FallbackDone, Reload, Resume, GiveUp
  <2>2. CASE RefreshDone(t)
    BY <2>2, FallbackCalm DEF RefreshDone, Won
  <2> QED BY <2>1, <2>2
<1> QED BY <1>1, <1>2, RowsUnchangedCalm, SigningsUnchangedCalm, CalmSteps

LEMMA AskingHarmless ==
  ASSUME Formed, RacesAreHarmless, NEW t \in Tabs, Logout(t) \/ ServeLogout(t) \/ \E u \in Users : Login(t, u)
  PROVE  RacesAreHarmless'
<1>1. UNCHANGED <<jar, refreshing, signedIn>>
  BY DEF Logout, ServeLogout, Login
<1>2. SigningsCalm
  <2>1. CASE Logout(t) \/ \E u \in Users : Login(t, u)
    <3>1. PICK r : signing' = [signing EXCEPT ![t] = r] /\ r.at # "loggedIn"
      BY <2>1 DEF Logout, Login
    <3> QED BY <3>1, OneSigningCalm
  <2>2. CASE ServeLogout(t)
    <3> DEFINE r == [signing[t] EXCEPT !.at = "loggedOut"]
    <3>1. signing[t] \in SigningRow /\ signing' = [signing EXCEPT ![t] = r]
      BY <2>2, FormedByParts DEF ServeLogout
    <3>2. r.at = "loggedOut"
      BY <3>1 DEF SigningRow
    <3> HIDE DEF r
    <3> QED BY <3>1, <3>2, OneSigningCalm
  <2> QED BY <2>1, <2>2
<1>3. RowsCalm
  <2>1. CASE UNCHANGED tokens
    BY <2>1, RowsUnchangedCalm
  <2>2. CASE ~UNCHANGED tokens
    <3> DEFINE n == signing[t].cookie
    <3>1. ServeLogout(t)
      BY <2>2 DEF Logout, Login
    <3>2. n # None /\ tokens[n] # None /\ tokens' = [tokens EXCEPT ![n].state = "revoked"] /\ n \in Tokens
      BY <2>2, <3>1, FormedByParts DEF ServeLogout, SigningRow
    <3> HIDE DEF n
    <3>3. /\ tokens'[n] # None /\ tokens'[n].state = "revoked"
          /\ \A m \in Tokens \ {n} : tokens'[m] = tokens[m]
      BY <3>2, RowStays
    <3> QED BY <3>2, <3>3, LiveRowsCalm
  <2> QED BY <2>1, <2>2
<1> QED BY <1>1, <1>2, <1>3, RefreshesUnchangedCalm, CalmSteps

LEMMA RefreshCommitHarmless ==
  ASSUME Formed, RacesAreHarmless, NEW t \in Tabs, NEW n \in Tokens, RefreshCommit(t, n)
  PROVE  RacesAreHarmless'
<1> DEFINE old == refreshing[t].cookie
           r == [at |-> "served", cookie |-> old, new |-> n]
<1>1. /\ tokens'[n] # None /\ tokens'[n].state = "live"
      /\ old \in Tokens /\ old # n /\ tokens'[old] # None /\ tokens'[old].state = "rotated"
      /\ \A m \in Tokens : m # n /\ m # old => tokens'[m] = tokens[m]
      /\ refreshing' = [refreshing EXCEPT ![t] = r] /\ UNCHANGED <<jar, signing, signedIn>>
  BY RefreshCommitEffect
<1>2. /\ jar # n
      /\ \A s \in Tabs : refreshing[s].cookie # n /\ refreshing[s].new # n /\ signing[s].cookie # n
  BY RefreshCommitEffect DEF Carried
<1>3. /\ refreshing \in [Tabs -> RefreshRow] /\ RefreshesExist /\ refreshing[t].at = "read"
      /\ jar \in Tokens \cup {None} /\ None \notin Tokens
  BY FormedByParts, RowsNotNone DEF RefreshCommit
<1>4. /\ refreshing'[t].at = "served" /\ refreshing'[t].cookie = old /\ refreshing'[t].new = n
      /\ \A s \in Tabs : s # t => refreshing'[s] = refreshing[s]
  BY <1>1, <1>3
<1>5. ~Won(t) /\ Won(t)' /\ \A s \in Tabs : s # t => (Won(s)' <=> Won(s))
  BY <1>3, <1>4, RowsNotNone DEF Won
<1>6. CookieWorks /\ PresentedIsRecent /\ PromisedIsFresh
  BY DEF RacesAreHarmless
<1>7. CookieWorks'
  <2>1. CASE jar = old
    BY <1>1, <1>3, <1>4, <1>5, <2>1 DEF CookieWorks, Recent
  <2>2. CASE jar # None /\ jar # old
    <3>1. tokens'[jar] = tokens[jar]
      BY <1>1, <1>2, <1>3, <2>2
    <3>2. Works(jar) \/ (Recent(jar) /\ \E s \in Tabs : Won(s) /\ refreshing[s].cookie = jar)
      BY <1>6, <2>2 DEF CookieWorks
    <3>3. CASE Works(jar)
      BY <1>1, <2>2, <3>1, <3>3 DEF CookieWorks, Works
    <3>4. ASSUME Recent(jar), NEW s \in Tabs, Won(s), refreshing[s].cookie = jar
          PROVE  CookieWorks'
      <4>1. s # t /\ Won(s)' /\ refreshing'[s].cookie = jar
        BY <1>4, <1>5, <3>4
      <4> QED BY <1>1, <2>2, <3>1, <3>4, <4>1 DEF CookieWorks, Recent
    <3> QED BY <3>2, <3>3, <3>4
  <2>3. CASE jar = None
    BY <1>1, <1>6, <2>3 DEF CookieWorks
  <2> QED BY <2>1, <2>2, <2>3
<1>8. PresentedIsRecent'
  <2> SUFFICES ASSUME NEW s \in Tabs, refreshing'[s].at \in {"sent", "read"}, refreshing'[s].cookie # None
               PROVE  tokens'[refreshing'[s].cookie] # None
                      /\ tokens'[refreshing'[s].cookie].state \in {"live", "revoked", "rotated"}
    BY DEF PresentedIsRecent, Recent
  <2> DEFINE m == refreshing[s].cookie
  <2>1. s # t /\ refreshing'[s] = refreshing[s]
    BY <1>4
  <2>2. m \in Tokens /\ m # n /\ tokens[m] # None /\ tokens[m].state \in {"live", "revoked", "rotated"}
    BY <1>2, <1>3, <1>6, <2>1 DEF PresentedIsRecent, Recent, RefreshRow
  <2>3. tokens'[m] # None /\ tokens'[m].state \in {"live", "revoked", "rotated"}
    <3> HIDE DEF m
    <3>1. CASE m = old
      BY <1>1, <3>1
    <3>2. CASE m # old
      BY <1>1, <2>2, <3>2
    <3> QED BY <3>1, <3>2
  <2> QED BY <2>1, <2>3
<1> HIDE DEF r
<1>9. ASSUME NEW m \in Tokens, Works(m), \A s \in Tabs : refreshing[s].cookie # m
      PROVE  tokens'[m] # None /\ tokens'[m].state \in {"live", "revoked"}
  BY <1>1, <1>9 DEF Works
<1>10. \A s \in Tabs : refreshing'[s].cookie = refreshing[s].cookie
  BY <1>4
<1>11. PromisedIsFresh'
  <2>1. ASSUME NEW s \in Tabs, Won(s)'
        PROVE  /\ Works(refreshing[s].new)' /\ (refreshing[s].new # jar)'
               /\ \A q \in Tabs : /\ (refreshing[q].cookie # refreshing[s].new)'
                                  /\ Won(q)' /\ (refreshing[q].new = refreshing[s].new)' => q = s
    <3>1. CASE s = t
      <4>1. refreshing'[s].new = n /\ jar' = jar
        BY <1>1, <1>4, <3>1
      <4>2. \A q \in Tabs : q # s => refreshing'[q].new # n
        BY <1>2, <1>4, <3>1
      <4> QED BY <1>1, <1>2, <1>10, <4>1, <4>2 DEF Works
    <3>2. CASE s # t
      <4> DEFINE m == refreshing[s].new
      <4>1. refreshing'[s] = refreshing[s] /\ Won(s) /\ m \in Tokens /\ m # n
        BY <1>2, <1>3, <1>4, <1>5, <2>1, <3>2 DEF RefreshesExist
      <4>2. /\ Works(m) /\ m # jar
            /\ \A q \in Tabs : refreshing[q].cookie # m /\ (Won(q) /\ refreshing[q].new = m => q = s)
        BY <1>6, <4>1 DEF PromisedIsFresh
      <4>3. tokens'[m] # None /\ tokens'[m].state \in {"live", "revoked"}
        BY <1>9, <4>1, <4>2
      <4>4. \A q \in Tabs : Won(q)' /\ refreshing'[q].new = m => q = s
        BY <1>4, <1>5, <4>1, <4>2
      <4> QED BY <1>1, <1>10, <4>1, <4>2, <4>3, <4>4 DEF Works
    <3> QED BY <3>1, <3>2
  <2>2. ASSUME NEW s \in Tabs, signing'[s].at = "loggedIn"
        PROVE  /\ (signing[s].cookie \in Tokens)' /\ Works(signing[s].cookie)' /\ (signing[s].cookie # jar)'
               /\ \A q \in Tabs : /\ (refreshing[q].cookie # signing[s].cookie)'
                                  /\ Won(q)' => (refreshing[q].new # signing[s].cookie)'
                                  /\ (signing[q].at = "loggedIn")' /\ (signing[q].cookie = signing[s].cookie)' => q = s
    <3> DEFINE m == signing[s].cookie
    <3>1. signing' = signing /\ jar' = jar
      BY <1>1
    <3>2. /\ m \in Tokens /\ Works(m) /\ m # jar /\ m # n
          /\ \A q \in Tabs : /\ refreshing[q].cookie # m /\ (Won(q) => refreshing[q].new # m)
                             /\ signing[q].at = "loggedIn" /\ signing[q].cookie = m => q = s
      BY <1>2, <1>6, <2>2, <3>1 DEF PromisedIsFresh
    <3>3. tokens'[m] # None /\ tokens'[m].state \in {"live", "revoked"}
      BY <1>9, <3>2
    <3>4. \A q \in Tabs : Won(q)' => refreshing'[q].new # m
      BY <1>4, <1>5, <3>2
    <3> QED BY <1>10, <3>1, <3>2, <3>3, <3>4 DEF Works
  <2> QED BY <2>1, <2>2 DEF PromisedIsFresh
<1> QED BY <1>7, <1>8, <1>11 DEF RacesAreHarmless

(* The cookie becomes one that was promised, or goes; the tokens stay. *)
LEMMA NewCookieHarmless ==
  ASSUME Formed, RacesAreHarmless, UNCHANGED tokens, signedIn' => jar' # None,
         jar' # None => jar' \in Tokens /\ Works(jar'),
         \A s \in Tabs :
           /\ refreshing'[s].cookie \in {None, refreshing[s].cookie}
           /\ refreshing'[s].at \in {"sent", "read"} => refreshing'[s] = refreshing[s]
           /\ Won(s)' => Won(s) /\ refreshing'[s] = refreshing[s] /\ refreshing'[s].new # jar'
           /\ signing'[s].at = "loggedIn" => signing'[s] = signing[s] /\ signing'[s].cookie # jar'
  PROVE  RacesAreHarmless'
<1>1. PresentedIsRecent /\ PromisedIsFresh /\ RefreshesExist /\ None \notin Tokens
  BY FormedByParts, RowsNotNone DEF RacesAreHarmless
<1>2. CookieWorks'
  BY DEF CookieWorks, Works
<1>3. PresentedIsRecent'
  BY <1>1 DEF PresentedIsRecent, Recent
<1>4. PromisedIsFresh'
  <2>1. ASSUME NEW t \in Tabs, Won(t)'
        PROVE  /\ Works(refreshing[t].new)' /\ (refreshing[t].new # jar)'
               /\ \A s \in Tabs : /\ (refreshing[s].cookie # refreshing[t].new)'
                                  /\ Won(s)' /\ (refreshing[s].new = refreshing[t].new)' => s = t
    <3> DEFINE n == refreshing[t].new
    <3>1. Won(t) /\ refreshing'[t] = refreshing[t] /\ n \in Tokens /\ n # jar'
      BY <1>1, <2>1 DEF RefreshesExist
    <3>2. /\ Works(n)
          /\ \A s \in Tabs : refreshing[s].cookie # n /\ (Won(s) /\ refreshing[s].new = n => s = t)
      BY <1>1, <3>1 DEF PromisedIsFresh
    <3>3. \A s \in Tabs : refreshing'[s].cookie # n
      <4>1. n # None /\ \A s \in Tabs : refreshing[s].cookie # n
        BY <1>1, <3>1, <3>2
      <4> HIDE DEF n
      <4> QED BY <4>1
    <3>4. \A s \in Tabs : Won(s)' /\ refreshing'[s].new = n => s = t
      BY <3>2
    <3> QED BY <3>1, <3>2, <3>3, <3>4 DEF Works
  <2>2. ASSUME NEW t \in Tabs, signing'[t].at = "loggedIn"
        PROVE  /\ (signing[t].cookie \in Tokens)' /\ Works(signing[t].cookie)' /\ (signing[t].cookie # jar)'
               /\ \A s \in Tabs : /\ (refreshing[s].cookie # signing[t].cookie)'
                                  /\ Won(s)' => (refreshing[s].new # signing[t].cookie)'
                                  /\ (signing[s].at = "loggedIn")' /\ (signing[s].cookie = signing[t].cookie)' => s = t
    <3> DEFINE n == signing[t].cookie
    <3>1. signing'[t] = signing[t] /\ signing[t].at = "loggedIn" /\ n # jar'
      BY <2>2
    <3>2. /\ n \in Tokens /\ Works(n)
          /\ \A s \in Tabs : /\ refreshing[s].cookie # n
                             /\ Won(s) => refreshing[s].new # n
                             /\ signing[s].at = "loggedIn" /\ signing[s].cookie = n => s = t
      BY <1>1, <3>1 DEF PromisedIsFresh
    <3>3. \A s \in Tabs : refreshing'[s].cookie # n
      <4>1. n # None /\ \A s \in Tabs : refreshing[s].cookie # n
        BY <1>1, <3>2
      <4> HIDE DEF n
      <4> QED BY <4>1
    <3>4. \A s \in Tabs : /\ Won(s)' => refreshing'[s].new # n
                         /\ signing'[s].at = "loggedIn" /\ signing'[s].cookie = n => s = t
      BY <3>2
    <3> QED BY <3>1, <3>2, <3>3, <3>4 DEF Works
  <2> QED BY <2>1, <2>2 DEF PromisedIsFresh
<1> QED BY <1>2, <1>3, <1>4 DEF RacesAreHarmless

LEMMA RefreshWonHarmless ==
  ASSUME Formed, RacesAreHarmless, NEW t \in Tabs, RefreshDone(t), Won(t)
  PROVE  RacesAreHarmless'
<1>1. /\ jar' = refreshing[t].new /\ refreshing' = [refreshing EXCEPT ![t] = Quiet]
      /\ UNCHANGED <<tokens, signing, signedIn>>
  BY DEF RefreshDone, Won, Resume
<1>2. /\ refreshing \in [Tabs -> RefreshRow] /\ RefreshesExist /\ PromisedIsFresh
  BY FormedByParts DEF RacesAreHarmless
<1>3. jar' \in Tokens /\ jar' # None /\ Works(jar')
  BY <1>1, <1>2, RowsNotNone DEF RefreshesExist, PromisedIsFresh
<1>4. refreshing'[t] = Quiet /\ \A s \in Tabs : s # t => refreshing'[s] = refreshing[s]
  BY <1>1, <1>2
<1>5. \A s \in Tabs :
        /\ refreshing'[s].cookie \in {None, refreshing[s].cookie}
        /\ refreshing'[s].at \in {"sent", "read"} => refreshing'[s] = refreshing[s]
        /\ Won(s)' => s # t
  BY <1>4, ConstantsTyped DEF Won
<1>6. ASSUME NEW s \in Tabs, Won(s)'
      PROVE  Won(s) /\ refreshing'[s] = refreshing[s] /\ refreshing'[s].new # jar'
  <2>1. s # t /\ refreshing'[s] = refreshing[s] /\ Won(s)
    BY <1>4, <1>5, <1>6 DEF Won
  <2>2. refreshing[s].new # refreshing[t].new
    BY <1>2, <2>1 DEF PromisedIsFresh
  <2> QED BY <1>1, <2>1, <2>2
<1>7. ASSUME NEW s \in Tabs, signing'[s].at = "loggedIn"
      PROVE  signing'[s] = signing[s] /\ signing'[s].cookie # jar'
  BY <1>1, <1>2, <1>7 DEF PromisedIsFresh
<1> QED BY <1>1, <1>3, <1>5, <1>6, <1>7, NewCookieHarmless

LEMMA LoginDoneHarmless ==
  ASSUME Formed, RacesAreHarmless, NEW t \in Tabs, LoginDone(t)
  PROVE  RacesAreHarmless'
<1>1. /\ jar' = signing[t].cookie /\ signing[t].at = "loggedIn" /\ signing' = [signing EXCEPT ![t] = NotSigning]
      /\ UNCHANGED <<tokens, refreshing>>
  BY DEF LoginDone
<1>2. signing \in [Tabs -> SigningRow] /\ PromisedIsFresh
  BY FormedByParts DEF RacesAreHarmless
<1>3. jar' \in Tokens /\ jar' # None /\ Works(jar')
  BY <1>1, <1>2, RowsNotNone DEF PromisedIsFresh
<1>4. signing'[t] = NotSigning /\ \A s \in Tabs : s # t => signing'[s] = signing[s]
  BY <1>1, <1>2
<1>5. ASSUME NEW s \in Tabs, Won(s)'
      PROVE  Won(s) /\ refreshing'[s].new # jar'
  BY <1>1, <1>2, <1>5 DEF PromisedIsFresh, Won
<1>6. ASSUME NEW s \in Tabs, signing'[s].at = "loggedIn"
      PROVE  signing'[s] = signing[s] /\ signing'[s].cookie # jar'
  <2>1. s # t /\ signing'[s] = signing[s]
    BY <1>4, <1>6, ConstantsTyped
  <2>2. signing[s].cookie # signing[t].cookie
    BY <1>1, <1>2, <1>6, <2>1 DEF PromisedIsFresh
  <2> QED BY <1>1, <2>1, <2>2
<1> QED BY <1>1, <1>3, <1>5, <1>6, NewCookieHarmless

LEMMA LogoutDoneHarmless ==
  ASSUME ~Loses, Formed, RacesAreHarmless, NEW t \in Tabs, LogoutDone(t)
  PROVE  RacesAreHarmless'
<1>1. /\ jar' = None /\ signedIn' = FALSE /\ signing' = [signing EXCEPT ![t] = NotSigning]
      /\ UNCHANGED <<tokens, refreshing>>
  BY DEF LogoutDone
<1>2. signing \in [Tabs -> SigningRow] /\ RefreshesExist /\ PromisedIsFresh
  BY FormedByParts DEF RacesAreHarmless
<1>3. ASSUME NEW s \in Tabs, Won(s)'
      PROVE  Won(s) /\ refreshing'[s].new # jar'
  BY <1>1, <1>2, <1>3, RowsNotNone DEF RefreshesExist, Won
<1>4. signing'[t] = NotSigning /\ \A s \in Tabs : s # t => signing'[s] = signing[s]
  BY <1>1, <1>2
<1>5. ASSUME NEW s \in Tabs, signing'[s].at = "loggedIn"
      PROVE  signing'[s] = signing[s] /\ signing'[s].cookie # jar'
  <2>1. s # t /\ signing'[s] = signing[s]
    BY <1>4, <1>5, ConstantsTyped
  <2>2. signing[s].cookie \in Tokens
    BY <1>2, <1>5, <2>1 DEF PromisedIsFresh
  <2> QED BY <1>1, <2>1, <2>2, RowsNotNone
<1> QED BY <1>1, <1>3, <1>5, NewCookieHarmless

LEMMA ServeLoginHarmless ==
  ASSUME Formed, RacesAreHarmless, NEW t \in Tabs, NEW n \in Tokens, ServeLogin(t, n)
  PROVE  RacesAreHarmless'
<1> DEFINE r == [at |-> "loggedIn", user |-> signing[t].user, cookie |-> n]
<1>1. /\ tokens'[n] # None /\ tokens'[n].state = "live"
      /\ \A m \in Tokens : m # n => tokens'[m] = tokens[m]
      /\ signing' = [signing EXCEPT ![t] = r] /\ UNCHANGED <<jar, refreshing, signedIn>>
  BY ServeLoginEffect
<1>2. /\ jar # n
      /\ \A s \in Tabs : refreshing[s].cookie # n /\ refreshing[s].new # n /\ signing[s].cookie # n
  BY ServeLoginEffect DEF Carried
<1>3. /\ signing \in [Tabs -> SigningRow] /\ refreshing \in [Tabs -> RefreshRow] /\ RefreshesExist
      /\ jar \in Tokens \cup {None} /\ CookieWorks /\ PresentedIsRecent /\ PromisedIsFresh
  BY FormedByParts DEF RacesAreHarmless
<1>4. /\ signing'[t].at = "loggedIn" /\ signing'[t].cookie = n
      /\ \A s \in Tabs : s # t => signing'[s] = signing[s]
  BY <1>1, <1>3
<1> HIDE DEF r
<1>5. CookieWorks'
  BY <1>1, <1>2, <1>3 DEF CookieWorks, Works, Recent, Won
<1>6. PresentedIsRecent'
  BY <1>1, <1>2, <1>3 DEF PresentedIsRecent, Recent, RefreshRow
<1>7. \A m \in Tokens : Works(m) /\ m # n => tokens'[m] # None /\ tokens'[m].state \in {"live", "revoked"}
  BY <1>1 DEF Works
<1>8. PromisedIsFresh'
  <2>1. ASSUME NEW s \in Tabs, Won(s)'
        PROVE  /\ Works(refreshing[s].new)' /\ (refreshing[s].new # jar)'
               /\ \A q \in Tabs : /\ (refreshing[q].cookie # refreshing[s].new)'
                                  /\ Won(q)' /\ (refreshing[q].new = refreshing[s].new)' => q = s
    <3>1. Won(s) /\ refreshing[s].new \in Tokens /\ refreshing[s].new # n
      BY <1>1, <1>2, <1>3, <2>1 DEF Won, RefreshesExist
    <3>2. /\ Works(refreshing[s].new) /\ refreshing[s].new # jar
          /\ \A q \in Tabs : /\ refreshing[q].cookie # refreshing[s].new
                             /\ Won(q) /\ refreshing[q].new = refreshing[s].new => q = s
      BY <1>3, <3>1 DEF PromisedIsFresh
    <3> QED BY <1>1, <1>7, <3>1, <3>2 DEF Works, Won
  <2>2. ASSUME NEW s \in Tabs, signing'[s].at = "loggedIn"
        PROVE  /\ (signing[s].cookie \in Tokens)' /\ Works(signing[s].cookie)' /\ (signing[s].cookie # jar)'
               /\ \A q \in Tabs : /\ (refreshing[q].cookie # signing[s].cookie)'
                                  /\ Won(q)' => (refreshing[q].new # signing[s].cookie)'
                                  /\ (signing[q].at = "loggedIn")' /\ (signing[q].cookie = signing[s].cookie)' => q = s
    <3>1. CASE s = t
      BY <1>1, <1>2, <1>4, <3>1 DEF Works
    <3>2. CASE s # t
      <4> DEFINE m == signing[s].cookie
      <4>1. signing'[s] = signing[s] /\ signing[s].at = "loggedIn" /\ m # n
        BY <1>2, <1>4, <2>2, <3>2
      <4>2. /\ m \in Tokens /\ Works(m) /\ m # jar
            /\ \A q \in Tabs : /\ refreshing[q].cookie # m
                               /\ Won(q) => refreshing[q].new # m
                               /\ signing[q].at = "loggedIn" /\ signing[q].cookie = m => q = s
        BY <1>3, <4>1 DEF PromisedIsFresh
      <4>3. tokens'[m] # None /\ tokens'[m].state \in {"live", "revoked"}
        BY <1>7, <4>1, <4>2
      <4>4. \A q \in Tabs : signing'[q].at = "loggedIn" /\ signing'[q].cookie = m => q = s
        BY <1>4, <4>1, <4>2
      <4> QED BY <1>1, <4>1, <4>2, <4>3, <4>4 DEF Works, Won
    <3> QED BY <3>1, <3>2
  <2> QED BY <2>1, <2>2 DEF PromisedIsFresh
<1> QED BY <1>5, <1>6, <1>8 DEF RacesAreHarmless

LEMMA InitHarmless == Init => RacesAreHarmless
BY ConstantsTyped DEF Init, RacesAreHarmless, CookieWorks, PresentedIsRecent, PromisedIsFresh, Won

LEMMA NextHarmless ==
  ASSUME ~Loses, Formed, RacesAreHarmless, [Next]_vars
  PROVE  RacesAreHarmless'
<1>1. CASE UNCHANGED vars
  BY <1>1, TabStepsHarmless DEF vars
<1>2. ASSUME NEW t \in Tabs, Answers(t) PROVE RacesAreHarmless'
  <2>1. ASSUME NEW c \in Slots, CallAccepted(t, c) PROVE RacesAreHarmless'
    BY <2>1, TabStepsHarmless DEF CallAccepted
  <2>2. CASE ApplyMe(t)
    BY <2>2, TabStepsHarmless DEF ApplyMe
  <2>3. CASE RefreshDone(t) \/ FallbackDone(t)
    <3>1. CASE Won(t)
      BY <2>3, <3>1, RefreshWonHarmless DEF FallbackDone, Won
    <3>2. CASE ~Won(t)
      BY <2>3, <3>2, EndedRefreshHarmless
    <3> QED BY <3>1, <3>2
  <2> QED BY <1>2, <2>1, <2>2, <2>3, CallRefusedHarmless, RefreshReadHarmless, RefreshCommitHarmless,
             ServeLoginHarmless, AskingHarmless, LoginDoneHarmless, LogoutDoneHarmless DEF Answers
<1>3. ASSUME NEW t \in Tabs, Acts(t) PROVE RacesAreHarmless'
  <2>1. ASSUME NEW c \in Calls, Send(t, c) PROVE RacesAreHarmless'
    BY <2>1, TabStepsHarmless DEF Send
  <2>2. ASSUME NEW u \in Users, Impersonate(t, u) PROVE RacesAreHarmless'
    BY <2>2, TabStepsHarmless DEF Impersonate
  <2>3. CASE EndWorkspace(t)
    BY <2>3, TabStepsHarmless DEF EndWorkspace
  <2>4. CASE Reload(t)
    BY <2>4, EndedRefreshHarmless DEF Reload, Won
  <2> QED BY <1>3, <2>1, <2>2, <2>3, <2>4, AskingHarmless DEF Acts
<1>4. ASSUME NEW t \in Tabs, AccessExpires(t) \/ RefreshLost(t) PROVE RacesAreHarmless'
  BY <1>4, TabStepsHarmless DEF AccessExpires, RefreshLost
<1>5. CASE \/ \E n \in Tokens : GraceElapses(n) \/ RevokeSession(n)
           \/ \E u \in Users : ResetPassword(u)
  BY <1>5, TokenStepsHarmless
<1> QED BY <1>1, <1>2, <1>3, <1>4, <1>5 DEF Next

-----------------------------------------------------------------------------
(* A tab of its own *)

KnownTab(t) ==
  /\ tab[t].note = None /\ refreshing[t].at # "fallback"
  /\ tab[t].init => tab[t].user = None /\ signing[t].at = "none"
  /\ calls[t][Me].at # "idle" => tab[t].init
  /\ calls[t][Me].at = "sent" => calls[t][Me].token = None
  /\ tab[t].user # None \/ calls[t][Me].at \in {"resent", "answered"} => jar # None
  /\ \A c \in Slots : calls[t][c].at \in {"resent", "answered"} =>
       calls[t][c].token # None /\ calls[t][c].token.live
OverTab(t) ==
  refreshing[t].at = "served" /\ refreshing[t].new = None /\ refreshing[t].cookie # None =>
    tokens[refreshing[t].cookie] # None /\ tokens[refreshing[t].cookie].state # "live"
PurposeTab(t) ==
  tab[t].user # None /\ tab'[t].user = None =>
    \/ signing[t].at = "loggedOut"
    \/ ~tab[t].init /\ tab'[t].init
    \/ refreshing[t].at = "served" /\ refreshing[t].cookie # jar
    \/ jar # None /\ tokens[jar].state = "revoked"
LoneStep(t) == KnownTab(t)' /\ OverTab(t)' /\ PurposeTab(t)

LoneTab(t) == Formed /\ RacesAreHarmless /\ KnownTab(t) /\ OverTab(t) /\ \A s \in Tabs : s = t

(* What a page shows, field by field. *)
LEMMA PageShows ==
  ASSUME NEW token, NEW user, NEW note, NEW init
  PROVE  /\ Page(token, user, note, init).token = token /\ Page(token, user, note, init).user = user
         /\ Page(token, user, note, init).note = note /\ Page(token, user, note, init).init = init
BY DEF Page

LEMMA TokenStepsLone ==
  ASSUME NEW t \in Tabs, LoneTab(t),
         \/ \E n \in Tokens : GraceElapses(n) \/ RevokeSession(n)
         \/ \E u \in Users : ResetPassword(u)
  PROVE  LoneStep(t)
<1>1. UNCHANGED <<jar, tab, calls, refreshing, signing>>
  BY DEF GraceElapses, RevokeSession, ResetPassword
<1>2. \A m \in Tokens : tokens[m] # None /\ tokens[m].state # "live" => tokens'[m] # None /\ tokens'[m].state # "live"
  <2>1. ASSUME NEW n \in Tokens, GraceElapses(n) \/ RevokeSession(n)
        PROVE  \A m \in Tokens : tokens[m] # None /\ tokens[m].state # "live" => tokens'[m] # None /\ tokens'[m].state # "live"
    <3>1. tokens[n] # None /\ Formed
      BY <2>1 DEF GraceElapses, RevokeSession, LoneTab
    <3>2. tokens' = [tokens EXCEPT ![n].state = "spent"] \/ tokens' = [tokens EXCEPT ![n].state = "revoked"]
      BY <2>1 DEF GraceElapses, RevokeSession
    <3>3. /\ tokens'[n] # None /\ tokens'[n].state \in {"spent", "revoked"}
          /\ \A m \in Tokens \ {n} : tokens'[m] = tokens[m]
      BY <3>1, <3>2, RowStays
    <3> QED BY <3>3
  <2>2. ASSUME NEW u \in Users, ResetPassword(u)
        PROVE  \A m \in Tokens : tokens[m] # None /\ tokens[m].state # "live" => tokens'[m] # None /\ tokens'[m].state # "live"
    <3>1. tokens' = RevokeUserTokens(u, "revoked") /\ tokens \in [Tokens -> Rows \cup {None}]
      BY <2>2, FormedByParts DEF ResetPassword, LoneTab
    <3> QED BY <3>1, RevokeTyped
  <2> QED BY <2>1, <2>2
<1>3. refreshing[t].cookie # None => refreshing[t].cookie \in Tokens
  BY FormedByParts DEF LoneTab, RefreshRow
<1>4. KnownTab(t)' /\ PurposeTab(t)
  BY <1>1 DEF LoneTab, KnownTab, PurposeTab
<1>5. OverTab(t)'
  BY <1>1, <1>2, <1>3 DEF LoneTab, OverTab
<1> QED BY <1>4, <1>5 DEF LoneStep

(* A call that asks who is signed in, and one that carries a token that works,
   do as they did. *)
CallsAge(t) ==
  /\ calls'[t][Me].at # "idle" => calls[t][Me].at # "idle"
  /\ calls'[t][Me].at = "sent" => calls[t][Me].at = "sent" /\ calls'[t][Me].token = calls[t][Me].token
  /\ calls'[t][Me].at \in {"resent", "answered"} => calls[t][Me].at \in {"resent", "answered"}
  /\ \A c \in Slots : calls'[t][c].at \in {"resent", "answered"} =>
       calls'[t][c].token = calls[t][c].token /\ calls[t][c].at \in {"resent", "answered"}

LEMMA CallStepsLone ==
  ASSUME NEW t \in Tabs, LoneTab(t),
         \/ AccessExpires(t)
         \/ \E c \in Calls : Send(t, c)
         \/ \E c \in Slots : CallAccepted(t, c)
  PROVE  LoneStep(t)
<1>1. UNCHANGED <<tokens, jar, refreshing, signing>>
  BY DEF AccessExpires, Send, CallAccepted
<1>2. tab \in [Tabs -> TabRow] /\ calls \in [Tabs -> [Slots -> CallRow]] /\ KnownTab(t) /\ OverTab(t)
  BY FormedByParts DEF LoneTab
<1>3. OverTab(t)'
  BY <1>1, <1>2 DEF OverTab
<1>4. /\ tab'[t].user = tab[t].user /\ tab'[t].note = tab[t].note /\ tab'[t].init = tab[t].init
  <2>1. CASE AccessExpires(t)
    <3> DEFINE k == [tab[t].token EXCEPT !.live = FALSE]
    <3>1. tab' = [tab EXCEPT ![t] = [tab[t] EXCEPT !.token = k]]
      BY <2>1 DEF AccessExpires
    <3> HIDE DEF k
    <3>2. tab'[t] = [tab[t] EXCEPT !.token = k] /\ tab[t] \in TabRow
      BY <1>2, <3>1
    <3> QED BY <3>2 DEF TabRow
  <2>2. CASE UNCHANGED tab
    BY <2>2
  <2> QED BY <2>1, <2>2 DEF Send, CallAccepted
<1>5. CallsAge(t)
  <2>1. CASE UNCHANGED calls
    BY <2>1 DEF CallsAge
  <2>2. ASSUME NEW c \in Calls, Send(t, c)
        PROVE  CallsAge(t)
    <3> DEFINE r == [at |-> "sent", token |-> tab[t].token]
    <3>1. c \in Slots /\ c # Me /\ Me \in Slots
      BY ConstantsAssumption DEF Slots
    <3>2. calls' = [calls EXCEPT ![t][c] = r] /\ r.at = "sent"
      BY <2>2 DEF Send
    <3> HIDE DEF r
    <3>3. calls'[t][c] = r /\ \A d \in Slots : d # c => calls'[t][d] = calls[t][d]
      BY <1>2, <3>1, <3>2
    <3> QED BY <3>1, <3>2, <3>3 DEF CallsAge
  <2>3. ASSUME NEW c \in Slots, CallAccepted(t, c)
        PROVE  CallsAge(t)
    <3>1. calls[t][c].at \in {"sent", "resent"} /\ calls[t][c].token # None /\ calls[t][c] \in CallRow /\ Me \in Slots
      BY <1>2, <2>3 DEF CallAccepted, Accepted, Slots
    <3>2. CASE c = Me
      <4> DEFINE r == [calls[t][Me] EXCEPT !.at = "answered"]
      <4>1. calls' = [calls EXCEPT ![t][Me] = r]
        BY <2>3, <3>2 DEF CallAccepted
      <4>2. r.at = "answered" /\ r.token = calls[t][Me].token /\ calls[t][Me].at = "resent"
        BY <1>2, <3>1, <3>2 DEF CallRow, KnownTab
      <4> HIDE DEF r
      <4>3. calls'[t][Me] = r /\ \A d \in Slots : d # Me => calls'[t][d] = calls[t][d]
        BY <1>2, <3>1, <4>1
      <4> QED BY <4>2, <4>3 DEF CallsAge
    <3>3. CASE c # Me
      <4>1. calls' = [calls EXCEPT ![t][c] = Idle] /\ Idle.at = "idle"
        BY <2>3, <3>3, IdleTyped DEF CallAccepted
      <4>2. calls'[t][c] = Idle /\ \A d \in Slots : d # c => calls'[t][d] = calls[t][d]
        BY <1>2, <4>1
      <4> QED BY <3>1, <3>3, <4>1, <4>2 DEF CallsAge
    <3> QED BY <3>2, <3>3
  <2> QED BY <2>1, <2>2, <2>3 DEF AccessExpires
<1>6. KnownTab(t)' /\ PurposeTab(t)
  BY <1>1, <1>2, <1>4, <1>5 DEF KnownTab, PurposeTab, CallsAge
<1> QED BY <1>3, <1>6 DEF LoneStep

LEMMA ApplyMeLone ==
  ASSUME NEW t \in Tabs, LoneTab(t), ApplyMe(t)
  PROVE  LoneStep(t)
<1>1. UNCHANGED <<tokens, jar, refreshing, signing>> /\ calls[t][Me].at = "answered"
  BY DEF ApplyMe
<1>2. /\ tab \in [Tabs -> TabRow] /\ calls \in [Tabs -> [Slots -> CallRow]] /\ AnswersExist
      /\ KnownTab(t) /\ OverTab(t) /\ Me \in Slots
  BY FormedByParts DEF LoneTab, Slots
<1> DEFINE who == calls[t][Me].token
           q == Page(Access(who.user, who.by), who.user, tab[t].note, FALSE)
<1>3. who \in AccessTokens
  BY <1>1, <1>2 DEF AnswersExist, CallRow
<1>4. who.user # None
  BY <1>3, RowsNotNone DEF AccessTokens
<1>5. tab' = [tab EXCEPT ![t] = q] /\ calls' = [calls EXCEPT ![t][Me] = Idle]
  BY DEF ApplyMe
<1> HIDE DEF who
<1>6. q.user = who.user /\ q.note = tab[t].note /\ ~q.init
  BY DEF Page
<1> HIDE DEF q
<1>7. tab'[t] = q /\ calls'[t][Me] = Idle /\ \A d \in Slots : d # Me => calls'[t][d] = calls[t][d]
  BY <1>2, <1>5
<1>8. KnownTab(t)' /\ OverTab(t)' /\ PurposeTab(t)
  BY <1>1, <1>2, <1>4, <1>6, <1>7, IdleTyped DEF KnownTab, OverTab, PurposeTab
<1> QED BY <1>8 DEF LoneStep

LEMMA CallRefusedLone ==
  ASSUME NEW t \in Tabs, LoneTab(t), NEW c \in Slots, CallRefused(t, c)
  PROVE  LoneStep(t)
<1>1. /\ calls \in [Tabs -> [Slots -> CallRow]] /\ refreshing \in [Tabs -> RefreshRow]
      /\ KnownTab(t) /\ OverTab(t) /\ calls[t][c] \in CallRow /\ Me \in Slots
  BY FormedByParts DEF LoneTab, Slots
<1>2. calls[t][c].at = "sent"
  BY <1>1 DEF CallRefused, Refused, KnownTab
<1> DEFINE h == [calls[t][c] EXCEPT !.at = "held"]
           r == [at |-> "sent", cookie |-> jar, new |-> None]
<1>3. /\ calls' = [calls EXCEPT ![t][c] = h] /\ UNCHANGED <<tokens, jar, tab, signing>>
      /\ refreshing' = [refreshing EXCEPT ![t] = r] \/ UNCHANGED refreshing
  BY <1>2 DEF CallRefused, StartRefresh
<1>4. h.at = "held" /\ r.at = "sent"
  BY <1>1 DEF CallRow
<1> HIDE DEF h, r
<1>5. calls'[t][c] = h /\ \A d \in Slots : d # c => calls'[t][d] = calls[t][d]
  BY <1>1, <1>3
<1>6. refreshing'[t] = refreshing[t] \/ refreshing'[t].at = "sent"
  BY <1>1, <1>3, <1>4
<1>7. KnownTab(t)'
  <2>1. calls'[t][Me].at # "idle" => tab[t].init
    BY <1>1, <1>2, <1>5 DEF KnownTab
  <2> QED BY <1>1, <1>3, <1>4, <1>5, <1>6, <2>1 DEF KnownTab
<1>8. OverTab(t)' /\ PurposeTab(t)
  BY <1>1, <1>3, <1>6 DEF OverTab, PurposeTab
<1> QED BY <1>7, <1>8 DEF LoneStep

LEMMA RefreshReadLone ==
  ASSUME NEW t \in Tabs, LoneTab(t), RefreshRead(t)
  PROVE  LoneStep(t)
<1> DEFINE n == refreshing[t].cookie
           read == [refreshing[t] EXCEPT !.at = "read"]
           served == [refreshing[t] EXCEPT !.at = "served"]
<1>1. /\ refreshing[t].at = "sent" /\ refreshing[t] \in RefreshRow /\ refreshing \in [Tabs -> RefreshRow]
      /\ UNCHANGED <<jar, tab, calls, signing>> /\ KnownTab(t)
  BY FormedByParts DEF RefreshRead, LoneTab
<1>2. UNCHANGED tokens
  BY RefreshReadHarmless DEF LoneTab
<1>3. n # None => Recent(n)
  BY <1>1 DEF LoneTab, RacesAreHarmless, PresentedIsRecent
<1>4. \/ refreshing' = [refreshing EXCEPT ![t] = read]
      \/ /\ refreshing' = [refreshing EXCEPT ![t] = served]
         /\ n # None => tokens[n] # None /\ tokens[n].state # "live"
  BY <1>3 DEF RefreshRead, Recent
<1>5. read.at = "read" /\ served.at = "served" /\ served.cookie = n
  BY <1>1 DEF RefreshRow
<1> HIDE DEF read, served
<1>6. refreshing'[t] = read \/ (refreshing'[t] = served /\ (n # None => tokens[n] # None /\ tokens[n].state # "live"))
  BY <1>1, <1>4
<1>7. KnownTab(t)' /\ OverTab(t)' /\ PurposeTab(t)
  BY <1>1, <1>2, <1>5, <1>6 DEF KnownTab, OverTab, PurposeTab
<1> QED BY <1>7 DEF LoneStep

LEMMA RefreshCommitLone ==
  ASSUME NEW t \in Tabs, LoneTab(t), NEW n \in Tokens, RefreshCommit(t, n)
  PROVE  LoneStep(t)
<1>1. /\ refreshing' = [refreshing EXCEPT ![t] = [at |-> "served", cookie |-> refreshing[t].cookie, new |-> n]]
      /\ UNCHANGED <<jar, tab, calls, signing>> /\ KnownTab(t)
  BY RefreshCommitEffect DEF LoneTab
<1>2. refreshing \in [Tabs -> RefreshRow] /\ n # None
  BY FormedByParts, RowsNotNone DEF LoneTab
<1>3. refreshing'[t].at = "served" /\ refreshing'[t].new = n
  BY <1>1, <1>2
<1>4. KnownTab(t)' /\ OverTab(t)' /\ PurposeTab(t)
  BY <1>1, <1>2, <1>3 DEF KnownTab, OverTab, PurposeTab
<1> QED BY <1>4 DEF LoneStep

LEMMA RefreshDoneLone ==
  ASSUME NEW t \in Tabs, LoneTab(t), RefreshDone(t)
  PROVE  LoneStep(t)
<1>1. /\ refreshing[t].at = "served" /\ UNCHANGED <<tokens, signing>> /\ KnownTab(t) /\ OverTab(t) /\ Formed
      /\ calls \in [Tabs -> [Slots -> CallRow]] /\ refreshing \in [Tabs -> RefreshRow] /\ RefreshesExist
      /\ Me \in Slots /\ tokens \in [Tokens -> Rows \cup {None}]
  BY FormedByParts DEF RefreshDone, LoneTab, Slots
<1>2. CASE refreshing[t].new # None
  <2> DEFINE n == refreshing[t].new
             k == Access(tokens[n].user, "self")
  <2>1. n \in Tokens /\ tokens[n] # None /\ jar' = n /\ Resume(t, k)
    BY <1>1, <1>2 DEF RefreshesExist, Won, RefreshDone
  <2>2. tokens[n].user \in Users
    BY <1>1, <2>1 DEF Rows
  <2>3. k \in AccessTokens /\ k.live /\ k # None
    BY <2>2, AccessTyped
  <2> HIDE DEF k
  <2>4. /\ tab'[t] = Page(k, tab[t].user, tab[t].note, tab[t].init)
        /\ \A c \in Slots : calls'[t][c] = IF c \in Held(t) THEN [at |-> "resent", token |-> k] ELSE calls[t][c]
        /\ refreshing' = [refreshing EXCEPT ![t] = Quiet]
    BY <1>1, <2>1, <2>3, ResumeEffect
  <2>5. tab'[t].user = tab[t].user /\ tab'[t].note = tab[t].note /\ tab'[t].init = tab[t].init
    BY <2>4, PageShows
  <2>6. \A c \in Slots : \/ calls'[t][c] = calls[t][c]
                        \/ /\ calls[t][c].at = "held" /\ calls'[t][c].at = "resent"
                           /\ calls'[t][c].token = k
    BY <2>4 DEF Held
  <2>7. refreshing'[t] = Quiet /\ Quiet.at = "none"
    BY <1>1, <2>4, ConstantsTyped
  <2>8. jar' # None
    BY <2>1, RowsNotNone
  <2>9. KnownTab(t)'
    BY <1>1, <2>3, <2>5, <2>6, <2>7, <2>8 DEF KnownTab
  <2> QED BY <2>5, <2>7, <2>9 DEF LoneStep, OverTab, PurposeTab
<1>3. CASE refreshing[t].new = None
  <2>1. GiveUp(t) /\ UNCHANGED jar
    BY <1>1, <1>3 DEF RefreshDone, Fallback, KnownTab
  <2>2. /\ tab'[t] = Page(None, None, None, tab[t].init /\ Me \notin Held(t))
        /\ \A c \in Slots : calls'[t][c] = IF c \in Held(t) THEN Idle ELSE calls[t][c]
        /\ refreshing' = [refreshing EXCEPT ![t] = Quiet]
    BY <1>1, <2>1, GiveUpEffect
  <2>3. tab'[t].user = None /\ tab'[t].note = None /\ tab'[t].init = (tab[t].init /\ Me \notin Held(t))
    BY <2>2, PageShows
  <2>4. \A c \in Slots : calls'[t][c] = Idle \/ (c \notin Held(t) /\ calls'[t][c] = calls[t][c])
    BY <2>2
  <2>5. refreshing'[t] = Quiet /\ Quiet.at = "none"
    BY <1>1, <2>2, ConstantsTyped
  <2>6. KnownTab(t)'
    <3>1. calls'[t][Me] = Idle \/ (Me \notin Held(t) /\ calls'[t][Me] = calls[t][Me])
      BY <1>1, <2>4
    <3>2. tab'[t].init => tab[t].init
      BY <2>3
    <3>3. calls'[t][Me].at # "idle" => tab'[t].init
      BY <1>1, <2>3, <3>1, IdleTyped DEF KnownTab
    <3>4. \A c \in Slots : calls'[t][c].at \in {"resent", "answered"} =>
            calls'[t][c].token # None /\ calls'[t][c].token.live
      BY <1>1, <2>4, IdleTyped DEF KnownTab
    <3> QED BY <1>1, <2>1, <2>3, <2>5, <3>1, <3>2, <3>3, <3>4, IdleTyped DEF KnownTab
  <2>7. PurposeTab(t)
    <3> SUFFICES ASSUME tab[t].user # None, refreshing[t].cookie = jar
                 PROVE  jar # None /\ tokens[jar].state = "revoked"
      BY <1>1 DEF PurposeTab
    <3>1. jar # None
      BY <1>1 DEF KnownTab
    <3>2. tokens[jar] # None /\ tokens[jar].state # "live"
      BY <1>1, <1>3, <3>1 DEF OverTab
    <3>3. ~ \E s \in Tabs : Won(s)
      BY <1>3 DEF LoneTab, Won
    <3>4. Works(jar)
      BY <3>1, <3>3 DEF LoneTab, RacesAreHarmless, CookieWorks
    <3> QED BY <3>1, <3>2, <3>4 DEF Works
  <2> QED BY <2>5, <2>6, <2>7 DEF LoneStep, OverTab
<1> QED BY <1>2, <1>3

LEMMA SigningLone ==
  ASSUME NEW t \in Tabs, LoneTab(t),
         \/ Logout(t) \/ ServeLogout(t) \/ \E u \in Users : Login(t, u)
         \/ \E n \in Tokens : ServeLogin(t, n)
  PROVE  LoneStep(t)
<1>1. UNCHANGED <<jar, tab, calls, refreshing>> /\ KnownTab(t) /\ OverTab(t) /\ Formed
  BY DEF Logout, ServeLogout, Login, ServeLogin, LoneTab
<1>2. ~tab[t].init
  BY <1>1 DEF Logout, ServeLogout, Login, ServeLogin, KnownTab
<1>3. KnownTab(t)' /\ PurposeTab(t)
  BY <1>1, <1>2 DEF KnownTab, PurposeTab
<1> DEFINE m == refreshing[t].cookie
<1>4. m # None => m \in Tokens
  BY <1>1, FormedByParts DEF RefreshRow
<1>5. m # None /\ tokens[m] # None /\ tokens[m].state # "live" => tokens'[m] # None /\ tokens'[m].state # "live"
  <2>1. CASE UNCHANGED tokens
    BY <2>1
  <2>2. CASE ServeLogout(t) /\ ~UNCHANGED tokens
    <3> DEFINE n == signing[t].cookie
    <3>1. n # None /\ tokens[n] # None /\ tokens' = [tokens EXCEPT ![n].state = "revoked"] /\ n \in Tokens
      BY <1>1, <2>2, FormedByParts DEF ServeLogout, SigningRow
    <3> HIDE DEF n, m
    <3>2. /\ tokens'[n] # None /\ tokens'[n].state = "revoked"
          /\ \A l \in Tokens \ {n} : tokens'[l] = tokens[l]
      BY <1>1, <3>1, RowStays
    <3> QED BY <1>4, <3>2
  <2>3. ASSUME NEW n \in Tokens, ServeLogin(t, n)
        PROVE  m # None => tokens'[m] = tokens[m]
    <3>1. ~Carried(n) /\ \A l \in Tokens : l # n => tokens'[l] = tokens[l]
      BY <1>1, <2>3, ServeLoginEffect
    <3> QED BY <1>4, <3>1 DEF Carried
  <2> QED BY <2>1, <2>2, <2>3 DEF Logout, Login
<1>6. OverTab(t)'
  BY <1>1, <1>5 DEF OverTab
<1> QED BY <1>3, <1>6 DEF LoneStep

LEMMA LoginDoneLone ==
  ASSUME NEW t \in Tabs, LoneTab(t), LoginDone(t)
  PROVE  LoneStep(t)
<1>1. /\ jar' = signing[t].cookie /\ signing[t].at = "loggedIn" /\ UNCHANGED <<tokens, calls, refreshing>>
      /\ KnownTab(t) /\ OverTab(t) /\ PromisedIsFresh /\ SigningsExist /\ tab \in [Tabs -> TabRow]
  BY FormedByParts DEF LoginDone, LoneTab, RacesAreHarmless
<1> DEFINE q == Page(Access(signing[t].user, "self"), signing[t].user, None, tab[t].init)
<1>2. tab' = [tab EXCEPT ![t] = q]
  BY DEF LoginDone
<1>3. q.user = signing[t].user /\ q.note = None /\ q.init = tab[t].init
  BY DEF Page
<1> HIDE DEF q
<1>4. tab'[t] = q
  BY <1>1, <1>2
<1>5. signing[t].user # None /\ jar' # None /\ ~tab[t].init
  BY <1>1, RowsNotNone DEF SigningsExist, PromisedIsFresh, KnownTab
<1>6. KnownTab(t)' /\ OverTab(t)' /\ PurposeTab(t)
  BY <1>1, <1>3, <1>4, <1>5 DEF KnownTab, OverTab, PurposeTab
<1> QED BY <1>6 DEF LoneStep

LEMMA LogoutDoneLone ==
  ASSUME ~Loses, NEW t \in Tabs, LoneTab(t), LogoutDone(t)
  PROVE  LoneStep(t)
<1>1. /\ signing[t].at = "loggedOut" /\ UNCHANGED <<tokens, calls, refreshing>>
      /\ KnownTab(t) /\ OverTab(t) /\ tab \in [Tabs -> TabRow]
  BY FormedByParts DEF LogoutDone, LoneTab
<1> DEFINE q == Page(None, None, None, tab[t].init)
<1>2. tab' = [tab EXCEPT ![t] = q]
  BY DEF LogoutDone
<1>3. q.user = None /\ q.note = None /\ q.init = tab[t].init
  BY DEF Page
<1> HIDE DEF q
<1>4. tab'[t] = q
  BY <1>1, <1>2
<1>5. ~tab[t].init /\ calls[t][Me].at = "idle"
  BY <1>1 DEF KnownTab
<1>6. KnownTab(t)' /\ OverTab(t)' /\ PurposeTab(t)
  BY <1>1, <1>3, <1>4, <1>5 DEF KnownTab, OverTab, PurposeTab
<1> QED BY <1>6 DEF LoneStep

LEMMA ReloadLone ==
  ASSUME NEW t \in Tabs, LoneTab(t), Reload(t)
  PROVE  LoneStep(t)
<1>1. /\ signing[t].at = "none" /\ UNCHANGED <<tokens, jar, signing>> /\ KnownTab(t)
      /\ tab \in [Tabs -> TabRow] /\ calls \in [Tabs -> [Slots -> CallRow]] /\ refreshing \in [Tabs -> RefreshRow]
      /\ Me \in Slots
  BY FormedByParts DEF Reload, LoneTab, Slots
<1>2. /\ tab'[t] = Page(None, None, tab[t].note, TRUE) /\ calls'[t] = Restoring
      /\ refreshing'[t] = Quiet
  BY <1>1 DEF Reload, Fresh
<1>3. tab'[t].user = None /\ tab'[t].note = tab[t].note /\ tab'[t].init
  BY <1>2 DEF Page
<1>4. /\ calls'[t][Me].at = "sent" /\ calls'[t][Me].token = None
      /\ \A c \in Slots : calls'[t][c].at \notin {"resent", "answered"}
  BY <1>1, <1>2, RestoringTyped, IdleTyped
<1>5. KnownTab(t)' /\ OverTab(t)' /\ PurposeTab(t)
  BY <1>1, <1>2, <1>3, <1>4, ConstantsTyped DEF KnownTab, OverTab, PurposeTab
<1> QED BY <1>5 DEF LoneStep

LEMMA NextLone ==
  ASSUME ~Loses, Opened = {}, NEW t \in Tabs, LoneTab(t), [Next]_vars
  PROVE  LoneStep(t)
<1>0. \A s \in Tabs : s = t
  BY DEF LoneTab
<1>1. CASE UNCHANGED vars
  BY <1>1 DEF vars, LoneTab, LoneStep, KnownTab, OverTab, PurposeTab
<1>2. CASE Answers(t)
  <2>1. ~FallbackDone(t)
    BY DEF LoneTab, KnownTab, FallbackDone
  <2> QED BY <1>2, <2>1, CallStepsLone, CallRefusedLone, ApplyMeLone, RefreshReadLone, RefreshDoneLone,
             RefreshCommitLone, SigningLone, LoginDoneLone, LogoutDoneLone DEF Answers
<1>3. CASE Acts(t)
  <2>1. \A u \in Users : ~Impersonate(t, u)
    BY DEF Impersonate
  <2>2. ~EndWorkspace(t)
    BY DEF LoneTab, KnownTab, EndWorkspace, Banner
  <2> QED BY <1>3, <2>1, <2>2, CallStepsLone, SigningLone, ReloadLone DEF Acts
<1>4. CASE AccessExpires(t) \/ RefreshLost(t)
  BY <1>4, CallStepsLone DEF RefreshLost
<1>5. CASE \/ \E n \in Tokens : GraceElapses(n) \/ RevokeSession(n)
           \/ \E u \in Users : ResetPassword(u)
  BY <1>5, TokenStepsLone
<1> QED BY <1>0, <1>1, <1>2, <1>3, <1>4, <1>5 DEF Next

-----------------------------------------------------------------------------
(* The theorems *)

LEMMA InitLone ==
  ASSUME Init, Formed
  PROVE  ShownIsKnown /\ RefusedIsOver
<1>1. ASSUME NEW t \in Tabs
      PROVE  /\ tab[t] = Page(None, None, None, TRUE) /\ calls[t] = Restoring /\ refreshing[t] = Quiet
             /\ signing[t] = NotSigning /\ Me \in Slots
  BY DEF Init, Fresh, Slots
<1>2. ASSUME NEW t \in Tabs
      PROVE  KnownTab(t) /\ OverTab(t)
  <2>1. tab[t].user = None /\ tab[t].note = None /\ tab[t].init
    BY <1>1 DEF Page
  <2>2. /\ calls[t][Me].at = "sent" /\ calls[t][Me].token = None
        /\ \A c \in Slots : calls[t][c].at \notin {"resent", "answered"}
    BY <1>1, RestoringTyped, IdleTyped
  <2> QED BY <1>1, <2>1, <2>2, ConstantsTyped DEF KnownTab, OverTab
<1> QED BY <1>2 DEF ShownIsKnown, RefusedIsOver, KnownTab, OverTab

LEMMA InitInv == Init => LoneInv
BY InitFormed, InitHarmless, InitLone DEF LoneInv, SessionInv, Formed

(* A step in a browser of one tab. *)
LEMMA LoneSteps ==
  ASSUME ~Loses, Opened = {}, Alone, LoneInv, [Next]_vars
  PROVE  /\ ShownIsKnown' /\ RefusedIsOver'
         /\ SignsOutOnPurpose
<1>1. /\ Formed /\ RacesAreHarmless /\ ShownIsKnown /\ RefusedIsOver
      /\ DOMAIN tab = Tabs /\ \A s, t \in Tabs : s = t
  <2>1. Formed /\ RacesAreHarmless /\ ShownIsKnown /\ RefusedIsOver
    BY DEF LoneInv, SessionInv, Formed
  <2>2. DOMAIN tab = Tabs
    BY <2>1, FormedByParts
  <2> QED BY <2>1, <2>2 DEF Alone
<1>2. ASSUME NEW t \in Tabs
      PROVE  LoneTab(t)
  BY <1>1 DEF LoneTab, ShownIsKnown, RefusedIsOver, KnownTab, OverTab
<1>3. \A t \in Tabs : LoneStep(t)
  BY <1>2, NextLone
<1>4. ShownIsKnown' /\ RefusedIsOver'
  BY <1>3 DEF LoneStep, ShownIsKnown, RefusedIsOver, KnownTab, OverTab
<1>5. SignsOutOnPurpose
  BY <1>1, <1>3 DEF LoneStep, SignsOutOnPurpose, PurposeTab
<1> QED BY <1>4, <1>5

LEMMA NextInv == LoneInv /\ [Next]_vars => LoneInv'
<1> SUFFICES ASSUME LoneInv, [Next]_vars PROVE LoneInv'
  OBVIOUS
<1>1. Formed /\ (~Loses => RacesAreHarmless)
  BY DEF LoneInv, SessionInv, Formed
<1>2. Formed'
  BY <1>1, NextFormed
<1>3. ~Loses => RacesAreHarmless'
  BY <1>1, NextHarmless
<1>4. Alone' => Alone
  <2>1. DOMAIN tab = Tabs /\ DOMAIN tab' = Tabs
    BY <1>1, <1>2, FormedByParts DEF Formed, TypeOK
  <2> QED BY <2>1 DEF Alone
<1>5. ~Loses /\ Opened = {} /\ Alone' => ShownIsKnown' /\ RefusedIsOver'
  BY <1>4, LoneSteps
<1> QED BY <1>2, <1>3, <1>5 DEF LoneInv, SessionInv, Formed

(* Whatever is lost, what requests and answers carry exists; where nothing  *)
(* is lost, a granted token works and is nobody else's, and the cookie      *)
(* works or what replaces it is under way; and a tab of its own knows whom  *)
(* it shows (auth.py refresh, client.ts).                                   *)
THEOREM SessionInvariant == Spec => []LoneInv
<1>1. Init => LoneInv
  BY InitInv
<1>2. LoneInv /\ [Next]_vars => LoneInv'
  BY NextInv
<1> QED BY <1>1, <1>2, PTL DEF Spec

(* Where no answer is lost, once a race of refreshes is over the browser    *)
(* holds a session that is live, or that somebody ended on purpose.         *)
THEOREM RacesKeepSessions ==
  ASSUME ~Loses
  PROVE  Spec => []RaceKeepsSession
<1>1. LoneInv => RaceKeepsSession
  <2> SUFFICES ASSUME LoneInv PROVE RaceKeepsSession
    OBVIOUS
  <2>1. Formed /\ CookieWorks
    BY DEF LoneInv, SessionInv, Formed, RacesAreHarmless
  <2>2. DOMAIN tab = Tabs
    BY <2>1, FormedByParts
  <2> QED BY <2>1, <2>2 DEF RaceKeepsSession, CookieWorks, Works, Won
<1> QED BY <1>1, SessionInvariant, PTL

(* Where no answer is lost and no workspace is opened, a tab of its own     *)
(* stops showing its user only by signing out, reloading, an answer about   *)
(* an older session, or because the session was ended on purpose.           *)
THEOREM SignedOutOnPurpose ==
  ASSUME ~Loses, Opened = {}
  PROVE  Spec => OnlySignOutSignsOut
<1>1. LoneInv /\ [Next]_vars => [SignsOutOnPurpose]_vars
  <2> SUFFICES ASSUME LoneInv, [Next]_vars PROVE SignsOutOnPurpose
    OBVIOUS
  <2>1. CASE Alone
    BY <2>1, LoneSteps
  <2>2. CASE ~Alone
    BY <2>2 DEF SignsOutOnPurpose
  <2> QED BY <2>1, <2>2
<1> QED BY <1>1, SessionInvariant, PTL DEF Spec, OnlySignOutSignsOut
=============================================================================
