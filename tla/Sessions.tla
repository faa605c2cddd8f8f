------------------------------ MODULE Sessions ------------------------------
(***************************************************************************)
(* The session of a browser: tabs that keep an access token in memory and  *)
(* share one refresh cookie, the server that rotates it, and the admin     *)
(* workspace, a tab working as somebody else with no cookie of its own.    *)
(***************************************************************************)
EXTENDS Naturals

CONSTANTS
  Tabs,          \* tabs of one browser
  Calls,         \* ordinary API calls a tab can have in flight
  Users,
  Tenants,       \* users who sign in here with a password
  Opened,        \* users a platform admin opens workspaces as
  Tokens,        \* refresh tokens
  Loses,         \* whether an answer can be lost on its way
  MaxResets,     \* bound on password resets
  None

VARIABLES
  tokens,        \* rows of refresh_tokens
  resets,        \* per user, how often the password was reset
  jar,           \* the rb_refresh cookie
  tab,           \* per tab: access token, user shown, workspace note, initializing
  calls,         \* per tab and call
  refreshing,    \* per tab: the refresh in flight
  signing,       \* per tab: the sign-in or sign-out in flight
  signedIn       \* history: signed in here, and not signed out since

vars == <<tokens, resets, jar, tab, calls, refreshing, signing, signedIn>>

Access(u, by) == [user |-> u, by |-> by, live |-> TRUE]
AccessTokens == [user : Users, by : {"self", "admin"}, live : BOOLEAN]
Rows == [user : Users, state : {"live", "rotated", "spent", "revoked", "reused"}]

Me == "me"
Slots == Calls \cup {Me}
Idle == [at |-> "idle", token |-> None]
Quiet == [at |-> "none", cookie |-> None, new |-> None]
NotSigning == [at |-> "none", user |-> None, cookie |-> None]

ASSUME ConstantsAssumption ==
  /\ None \notin Tokens \cup Users \cup Rows \cup AccessTokens
  /\ Me \notin Calls
  /\ MaxResets \in Nat /\ Loses \in BOOLEAN

TypeOK ==
  /\ tokens \in [Tokens -> Rows \cup {None}]
  /\ resets \in [Users -> 0..MaxResets]
  /\ jar \in Tokens \cup {None}
  /\ tab \in [Tabs -> [token : AccessTokens \cup {None}, user : Users \cup {None},
                       note : Users \cup {None}, init : BOOLEAN]]
  /\ calls \in [Tabs -> [Slots -> [at : {"idle", "sent", "held", "resent", "answered"}, token : AccessTokens \cup {None}]]]
  /\ refreshing \in [Tabs -> [at : {"none", "sent", "read", "served", "fallback"},
                              cookie : Tokens \cup {None}, new : Tokens \cup Users \cup {None}]]
  /\ signing \in [Tabs -> [at : {"none", "login", "loggedIn", "logout", "loggedOut"},
                           user : Users \cup {None}, cookie : Tokens \cup {None}]]
  /\ signedIn \in BOOLEAN

Page(token, user, note, init) == [token |-> token, user |-> user, note |-> note, init |-> init]

\* What a page that has just been loaded does: it asks who is signed in.
Fresh(note) == Page(None, None, note, TRUE)
Restoring == [c \in Slots |-> IF c = Me THEN [at |-> "sent", token |-> None] ELSE Idle]

Init ==
  /\ tokens = [n \in Tokens |-> None]
  /\ resets = [u \in Users |-> 0]
  /\ jar = None
  /\ tab = [t \in Tabs |-> Fresh(None)]
  /\ calls = [t \in Tabs |-> Restoring]
  /\ refreshing = [t \in Tabs |-> Quiet]
  /\ signing = [t \in Tabs |-> NotSigning]
  /\ signedIn = FALSE

-----------------------------------------------------------------------------
(* The server's refresh tokens.  A token that no cookie and no request     *)
(* carries can do nothing any more, and its name is used again.            *)

Carried(n) ==
  \/ jar = n
  \/ \E t \in Tabs : n \in {refreshing[t].cookie, refreshing[t].new, signing[t].cookie}

IssueTokens(n, u, rows) ==
  /\ ~Carried(n) /\ n = CHOOSE m \in Tokens : ~Carried(m)
  /\ tokens' = [rows EXCEPT ![n] = [user |-> u, state |-> "live"]]

RevokeUserTokens(u, state) ==
  [n \in Tokens |-> IF tokens[n] # None /\ tokens[n].user = u /\ tokens[n].state = "live"
                    THEN [tokens[n] EXCEPT !.state = state] ELSE tokens[n]]

\* Thirty seconds after its rotation a token is not a benign race any more.
\* No request is in flight that long.
GraceElapses(n) ==
  /\ tokens[n] # None /\ tokens[n].state = "rotated"
  /\ \A t \in Tabs : refreshing[t].cookie # n
  /\ tokens' = [tokens EXCEPT ![n].state = "spent"]
  /\ UNCHANGED <<resets, jar, tab, calls, refreshing, signing, signedIn>>

\* A password reset, from wherever, ends every session of the user.
ResetPassword(u) ==
  /\ resets[u] < MaxResets
  /\ resets' = [resets EXCEPT ![u] = @ + 1]
  /\ tokens' = RevokeUserTokens(u, "revoked")
  /\ UNCHANGED <<jar, tab, calls, refreshing, signing, signedIn>>

\* The device is signed out from another one, in its list of sessions.
RevokeSession(n) ==
  /\ MaxResets > 0
  /\ tokens[n] # None /\ tokens[n].state = "live"
  /\ tokens' = [tokens EXCEPT ![n].state = "revoked"]
  /\ UNCHANGED <<resets, jar, tab, calls, refreshing, signing, signedIn>>

-----------------------------------------------------------------------------
(* Calls                                                                   *)

Banner(t) == IF tab[t].note = tab[t].user THEN tab[t].note ELSE None

Send(t, c) ==
  /\ tab[t].user # None
  /\ c \in Calls /\ calls[t][c].at = "idle"
  /\ calls' = [calls EXCEPT ![t][c] = [at |-> "sent", token |-> tab[t].token]]
  /\ UNCHANGED <<tokens, resets, jar, tab, refreshing, signing, signedIn>>

AccessExpires(t) ==
  /\ tab[t].token # None
  /\ tab' = [tab EXCEPT ![t].token.live = FALSE]
  /\ UNCHANGED <<tokens, resets, jar, calls, refreshing, signing, signedIn>>

Accepted(call) == call.at \in {"sent", "resent"} /\ call.token # None /\ call.token.live
Refused(call) == call.at \in {"sent", "resent"} /\ ~(call.token # None /\ call.token.live)

CallAccepted(t, c) ==
  /\ Accepted(calls[t][c])
  /\ IF c = Me
     THEN calls' = [calls EXCEPT ![t][c].at = "answered"]
     ELSE calls' = [calls EXCEPT ![t][c] = Idle]
  /\ UNCHANGED <<tokens, resets, jar, tab, refreshing, signing, signedIn>>

\* The answer to "who am I" is shown, whatever happened since the question.
ApplyMe(t) ==
  /\ calls[t][Me].at = "answered"
  /\ LET who == calls[t][Me].token IN
     tab' = [tab EXCEPT ![t] = Page(Access(who.user, who.by), who.user, tab[t].note, FALSE)]
  /\ calls' = [calls EXCEPT ![t][Me] = Idle]
  /\ UNCHANGED <<tokens, resets, jar, refreshing, signing, signedIn>>

\* Nobody is signed in in this tab: the listener clears the user.  A workspace
\* being opened is given up; the restore of a page load has ended.
SignedOff(t, over, note) ==
  [tab EXCEPT ![t] = Page(None, None, note, tab[t].init /\ Me \notin over)]

(* Faulty variant: Every refused call starts a refresh, replacing the one in flight.       *)
StartRefreshAlways(t) ==
  refreshing' = [refreshing EXCEPT ![t] = [at |-> "sent", cookie |-> jar, new |-> None]]

StartRefresh(t) ==
  IF refreshing[t].at = "none"
  THEN refreshing' = [refreshing EXCEPT ![t] = [at |-> "sent", cookie |-> jar, new |-> None]]
  ELSE UNCHANGED refreshing

\* The first refusal waits for a refresh, the tab's only one; the second is final.
CallRefused(t, c) ==
  /\ Refused(calls[t][c])
  /\ IF calls[t][c].at = "sent"
     THEN /\ calls' = [calls EXCEPT ![t][c].at = "held"]
          /\ StartRefresh(t)
          /\ UNCHANGED tab
     ELSE /\ calls' = [calls EXCEPT ![t][c] = Idle]
          /\ tab' = SignedOff(t, {c}, IF c = Me /\ ~tab[t].init THEN None ELSE tab[t].note)
          /\ UNCHANGED refreshing
  /\ UNCHANGED <<tokens, resets, jar, signing, signedIn>>

-----------------------------------------------------------------------------
(* Refreshing                                                              *)

Held(t) == {c \in Slots : calls[t][c].at = "held"}

(* Faulty variant: The refusal of a refresh clears the cookie, which it looks like it does. *)
RefreshReadClears(t) ==
  /\ refreshing[t].at = "sent"
  /\ LET n == refreshing[t].cookie IN
     IF n # None /\ tokens[n] # None /\ tokens[n].state = "live"
     THEN /\ refreshing' = [refreshing EXCEPT ![t].at = "read"]
          /\ UNCHANGED <<tokens, jar>>
     ELSE /\ refreshing' = [refreshing EXCEPT ![t].at = "served"]
          /\ jar' = None
          /\ UNCHANGED tokens
  /\ UNCHANGED <<resets, tab, calls, signing, signedIn>>

(* Faulty variant: A token that was just rotated is taken for a stolen one, with no grace. *)
RefreshReadStrictly(t) ==
  /\ refreshing[t].at = "sent"
  /\ LET n == refreshing[t].cookie IN
     IF n # None /\ tokens[n] # None /\ tokens[n].state = "live"
     THEN /\ refreshing' = [refreshing EXCEPT ![t].at = "read"]
          /\ UNCHANGED tokens
     ELSE /\ refreshing' = [refreshing EXCEPT ![t].at = "served"]
          /\ tokens' = IF n # None /\ tokens[n] # None /\ tokens[n].state \in {"spent", "rotated"}
                       THEN RevokeUserTokens(tokens[n].user, "reused") ELSE tokens
  /\ UNCHANGED <<resets, jar, tab, calls, signing, signedIn>>

\* The handler looks the token up and decides.  Clearing the cookie has no
\* effect when it refuses: the answer of a raised HTTPException is another one.
RefreshRead(t) ==
  /\ refreshing[t].at = "sent"
  /\ LET n == refreshing[t].cookie IN
     IF n # None /\ tokens[n] # None /\ tokens[n].state = "live"
     THEN /\ refreshing' = [refreshing EXCEPT ![t].at = "read"]
          /\ UNCHANGED tokens
     ELSE /\ refreshing' = [refreshing EXCEPT ![t].at = "served"]
          /\ tokens' = IF n # None /\ tokens[n] # None /\ tokens[n].state = "spent"
                       THEN RevokeUserTokens(tokens[n].user, "reused") ELSE tokens
  /\ UNCHANGED <<resets, jar, tab, calls, signing, signedIn>>

\* It rotates the row it read, and commits.
RefreshCommit(t, n) ==
  /\ refreshing[t].at = "read"
  /\ LET old == refreshing[t].cookie IN
     /\ IssueTokens(n, tokens[old].user, [tokens EXCEPT ![old].state = "rotated"])
     /\ refreshing' = [refreshing EXCEPT ![t] = [at |-> "served", cookie |-> old, new |-> n]]
  /\ UNCHANGED <<resets, jar, tab, calls, signing, signedIn>>

\* Every call that waited is sent again, with the tab's token of this moment.
Resume(t, token) ==
  /\ tab' = [tab EXCEPT ![t] = Page(token, tab[t].user, tab[t].note, tab[t].init)]
  /\ calls' = [calls EXCEPT ![t] = [c \in Slots |-> IF c \in Held(t)
                 THEN [at |-> "resent", token |-> token] ELSE @[c]]]
  /\ refreshing' = [refreshing EXCEPT ![t] = Quiet]

(* Faulty variant: A refresh that failed leaves the calls that waited for it waiting.      *)
GiveUpSilently(t) ==
  /\ tab' = SignedOff(t, {}, None)
  /\ refreshing' = [refreshing EXCEPT ![t] = Quiet]
  /\ UNCHANGED calls

GiveUp(t) ==
  /\ tab' = SignedOff(t, Held(t), None)
  /\ calls' = [calls EXCEPT ![t] = [c \in Slots |-> IF c \in Held(t) THEN Idle ELSE @[c]]]
  /\ refreshing' = [refreshing EXCEPT ![t] = Quiet]

\* No session from the cookie: try the platform session, if in a workspace.
Fallback(t) ==
  IF tab[t].note # None
  THEN /\ refreshing' = [refreshing EXCEPT ![t] = [at |-> "fallback", cookie |-> None, new |-> tab[t].note]]
       /\ UNCHANGED <<tab, calls>>
  ELSE GiveUp(t)

RefreshDone(t) ==
  /\ refreshing[t].at = "served"
  /\ IF refreshing[t].new # None
     THEN /\ jar' = refreshing[t].new
          /\ Resume(t, Access(tokens[jar'].user, "self"))
     ELSE Fallback(t) /\ UNCHANGED jar
  /\ UNCHANGED <<tokens, resets, signing, signedIn>>

\* The request or its answer is lost; the client sees a refresh that failed.
RefreshLost(t) ==
  /\ Loses /\ refreshing[t].at \in {"sent", "served"}
  /\ Fallback(t)
  /\ UNCHANGED <<tokens, resets, jar, signing, signedIn>>

FallbackDone(t) ==
  /\ refreshing[t].at = "fallback"
  /\ \/ Resume(t, Access(refreshing[t].new, "admin"))
     \/ GiveUp(t)
  /\ UNCHANGED <<tokens, resets, jar, signing, signedIn>>

-----------------------------------------------------------------------------
(* Signing in and out, reloading, workspaces                               *)

Login(t, u) ==
  /\ u \in Tenants
  /\ tab[t].user = None /\ ~tab[t].init /\ signing[t].at = "none"
  /\ signing' = [signing EXCEPT ![t] = [at |-> "login", user |-> u, cookie |-> None]]
  /\ UNCHANGED <<tokens, resets, jar, tab, calls, refreshing, signedIn>>

ServeLogin(t, n) ==
  /\ signing[t].at = "login"
  /\ IssueTokens(n, signing[t].user, tokens)
  /\ signing' = [signing EXCEPT ![t] = [at |-> "loggedIn", user |-> signing[t].user, cookie |-> n]]
  /\ UNCHANGED <<resets, jar, tab, calls, refreshing, signedIn>>

LoginDone(t) ==
  /\ signing[t].at = "loggedIn"
  /\ jar' = signing[t].cookie
  /\ tab' = [tab EXCEPT ![t] = Page(Access(signing[t].user, "self"), signing[t].user, None, tab[t].init)]
  /\ signing' = [signing EXCEPT ![t] = NotSigning]
  /\ signedIn' = TRUE
  /\ UNCHANGED <<tokens, resets, calls, refreshing>>

Logout(t) ==
  /\ tab[t].user # None /\ signing[t].at = "none"
  /\ signing' = [signing EXCEPT ![t] = [at |-> "logout", user |-> tab[t].user, cookie |-> jar]]
  /\ UNCHANGED <<tokens, resets, jar, tab, calls, refreshing, signedIn>>

ServeLogout(t) ==
  /\ signing[t].at = "logout"
  /\ LET n == signing[t].cookie IN
     tokens' = IF n # None /\ tokens[n] # None /\ tokens[n].state = "live"
               THEN [tokens EXCEPT ![n].state = "revoked"] ELSE tokens
  /\ signing' = [signing EXCEPT ![t].at = "loggedOut"]
  /\ UNCHANGED <<resets, jar, tab, calls, refreshing, signedIn>>

\* The tab forgets its session even when the request failed.
LogoutDone(t) ==
  /\ signing[t].at \in {"logout", "loggedOut"}
  /\ signing[t].at = "logout" => Loses
  /\ jar' = IF signing[t].at = "loggedOut" THEN None ELSE jar
  /\ tab' = [tab EXCEPT ![t] = Page(None, None, None, tab[t].init)]
  /\ signing' = [signing EXCEPT ![t] = NotSigning]
  /\ signedIn' = FALSE
  /\ UNCHANGED <<tokens, resets, calls, refreshing>>

\* A reload drops what is in flight, answers included.  The workspace note stays.
Reload(t) ==
  /\ signing[t].at = "none"
  /\ refreshing[t].at = "none" \/ (Loses /\ refreshing[t].at # "read")
  /\ tab' = [tab EXCEPT ![t] = Fresh(tab[t].note)]
  /\ calls' = [calls EXCEPT ![t] = Restoring]
  /\ refreshing' = [refreshing EXCEPT ![t] = Quiet]
  /\ UNCHANGED <<tokens, resets, jar, signing, signedIn>>

\* In the platform console, an admin opens an organization as one of its users.
Impersonate(t, u) ==
  /\ u \in Opened
  /\ ~tab[t].init /\ calls[t][Me].at = "idle"
  /\ tab' = [tab EXCEPT ![t] = Page(Access(u, "admin"), tab[t].user, u, tab[t].init)]
  /\ calls' = [calls EXCEPT ![t][Me] = [at |-> "sent", token |-> Access(u, "admin")]]
  /\ UNCHANGED <<tokens, resets, jar, refreshing, signing, signedIn>>

EndWorkspace(t) ==
  /\ Banner(t) # None
  /\ tab' = [tab EXCEPT ![t] = Page(None, None, None, tab[t].init)]
  /\ UNCHANGED <<tokens, resets, jar, calls, refreshing, signing, signedIn>>

-----------------------------------------------------------------------------
Answers(t) ==
  \/ \E c \in Slots : CallAccepted(t, c) \/ CallRefused(t, c)
  \/ ApplyMe(t)
  \/ RefreshRead(t) \/ RefreshDone(t) \/ FallbackDone(t)
  \/ \E n \in Tokens : RefreshCommit(t, n) \/ ServeLogin(t, n)
  \/ ServeLogout(t) \/ LoginDone(t) \/ LogoutDone(t)

Acts(t) ==
  \/ \E c \in Calls : Send(t, c)
  \/ \E u \in Users : Login(t, u) \/ Impersonate(t, u)
  \/ Logout(t) \/ EndWorkspace(t) \/ Reload(t)

Next ==
  \/ \E t \in Tabs : Answers(t) \/ Acts(t) \/ AccessExpires(t) \/ RefreshLost(t)
  \/ \E n \in Tokens : GraceElapses(n) \/ RevokeSession(n)
  \/ \E u \in Users : ResetPassword(u)

Spec == Init /\ [][Next]_vars

(* The server answers and the client runs its continuations; nobody has to *)
(* click, and no answer has to be lost.                                    *)
Fairness ==
  \A t \in Tabs :
    /\ \A c \in Slots : WF_vars(CallAccepted(t, c) \/ CallRefused(t, c))
    /\ WF_vars(ApplyMe(t))
    /\ WF_vars(RefreshRead(t) \/ RefreshDone(t) \/ FallbackDone(t))
    /\ WF_vars(\E n \in Tokens : RefreshCommit(t, n))

FairSpec == Spec /\ Fairness

-----------------------------------------------------------------------------
(* Two tabs that refresh at once are a benign race (auth.py:70): once the   *)
(* race is over, a browser that did not sign out holds a session that is    *)
(* live, or that somebody ended on purpose.  That no answer is lost is      *)
(* assumed: a lost one leaves the browser with the token it had.            *)
RaceKeepsSession ==
  signedIn /\ (\A t \in DOMAIN tab : refreshing[t].at = "none" /\ signing[t].at = "none")
    => jar # None /\ tokens[jar].state \in {"live", "revoked"}

(* In a tab of its own, whatever calls meet an expired access token at     *)
(* once, the user is signed out only by signing out, or because the        *)
(* session was ended on purpose (client.ts shares one refresh).  What this *)
(* excepts is real: the refresh of a session that was signed out of,       *)
(* answered after the next sign-in, ends that one.                         *)
Alone == \A s, t \in DOMAIN tab : s = t
SignsOutOnPurpose ==
  Alone => \A t \in DOMAIN tab : tab[t].user # None /\ tab'[t].user = None =>
    \/ signing[t].at = "loggedOut"
    \/ ~tab[t].init /\ tab'[t].init
    \/ refreshing[t].at = "served" /\ refreshing[t].cookie # jar
    \/ jar # None /\ tokens[jar].state = "revoked"
OnlySignOutSignsOut == [][SignsOutOnPurpose]_vars

\* A refresh was granted, and its answer is under way.
Won(t) == refreshing[t].at = "served" /\ refreshing[t].new # None

(* What requests and answers carry, whatever is lost: a token they name    *)
(* has a row, and a call is answered if its access token was accepted.     *)
CarriedExist ==
  \A t \in Tabs :
    /\ refreshing[t].at \in {"sent", "read"} => refreshing[t].new = None
    /\ refreshing[t].at = "read" => refreshing[t].cookie # None /\ tokens[refreshing[t].cookie] # None
    /\ Won(t) => refreshing[t].new \in Tokens /\ tokens[refreshing[t].new] # None
    /\ refreshing[t].at = "fallback" => refreshing[t].new \in Users
    /\ signing[t].at \in {"login", "loggedIn"} => signing[t].user # None
    /\ \A c \in Slots : calls[t][c].at = "answered" => calls[t][c].token # None

(* Why a race costs no session: a token that was promised to a tab - a     *)
(* refresh or a sign-in was served, its answer is under way - works until  *)
(* it is revoked, and is nobody else's; what a request presents was        *)
(* replaced by a race at most; and the cookie works, or what replaces it   *)
(* is under way.                                                           *)
Works(n) == tokens[n] # None /\ tokens[n].state \in {"live", "revoked"}
Recent(n) == tokens[n] # None /\ tokens[n].state \in {"live", "revoked", "rotated"}
CookieWorks ==
  /\ signedIn => jar # None
  /\ jar # None => \/ Works(jar)
                   \/ Recent(jar) /\ \E t \in Tabs : Won(t) /\ refreshing[t].cookie = jar
PresentedIsRecent ==
  \A t \in Tabs :
    refreshing[t].at \in {"sent", "read"} /\ refreshing[t].cookie # None => Recent(refreshing[t].cookie)
PromisedIsFresh ==
  \A t \in Tabs :
    /\ Won(t) =>
         /\ Works(refreshing[t].new) /\ refreshing[t].new # jar
         /\ \A s \in Tabs : /\ refreshing[s].cookie # refreshing[t].new
                            /\ Won(s) /\ refreshing[s].new = refreshing[t].new => s = t
    /\ signing[t].at = "loggedIn" =>
         /\ signing[t].cookie \in Tokens /\ Works(signing[t].cookie) /\ signing[t].cookie # jar
         /\ \A s \in Tabs : /\ refreshing[s].cookie # signing[t].cookie
                            /\ Won(s) => refreshing[s].new # signing[t].cookie
                            /\ signing[s].at = "loggedIn" /\ signing[s].cookie = signing[t].cookie => s = t
RacesAreHarmless == CookieWorks /\ PresentedIsRecent /\ PromisedIsFresh
SessionInv == TypeOK /\ CarriedExist /\ (~Loses => RacesAreHarmless)

(* Why a tab of its own is signed out on purpose only: it shows a user     *)
(* when it has asked who he is, and then the browser has his cookie; a     *)
(* call that is sent again carries a token that works; and what a refresh  *)
(* refused was not live.                                                   *)
ShownIsKnown ==
  \A t \in Tabs :
    /\ tab[t].note = None /\ refreshing[t].at # "fallback"
    /\ tab[t].init => tab[t].user = None /\ signing[t].at = "none"
    /\ calls[t][Me].at # "idle" => tab[t].init
    /\ calls[t][Me].at = "sent" => calls[t][Me].token = None
    /\ tab[t].user # None \/ calls[t][Me].at \in {"resent", "answered"} => jar # None
    /\ \A c \in Slots : calls[t][c].at \in {"resent", "answered"} =>
         calls[t][c].token # None /\ calls[t][c].token.live
RefusedIsOver ==
  \A t \in Tabs : LET n == refreshing[t].cookie IN
    refreshing[t].at = "served" /\ refreshing[t].new = None /\ n # None =>
      tokens[n] # None /\ tokens[n].state # "live"
LoneInv == SessionInv /\ (~Loses /\ Opened = {} /\ Alone => ShownIsKnown /\ RefusedIsOver)

(* Every call that is refused and waits for a refresh is answered in the   *)
(* end, and so is the restore a page waits for while it shows nothing,     *)
(* unless the page is reloaded for ever.                                   *)
CallsSettle ==
  \A t \in Tabs :
    /\ \A c \in Slots : calls[t][c].at = "held" ~> calls[t][c].at # "held"
    /\ []<><<Reload(t)>>_vars \/ (tab[t].init ~> ~tab[t].init)
=============================================================================
