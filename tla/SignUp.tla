------------------------------- MODULE SignUp -------------------------------
(***************************************************************************)
(* One-time codes: the sign-up page that verifies an email before it       *)
(* creates an organization, the forgotten-password dialog, and the server  *)
(* that sends, checks, burns and spends the codes.                         *)
(***************************************************************************)
EXTENDS Naturals

CONSTANTS
  Emails, Codes,
  SignUpPages, ForgotDialogs,
  MaxFailures,       \* OTP_MAX_FAILURES
  None

VARIABLES
  codes,             \* rows of email_verifications
  users,             \* emails with an account
  orgs,              \* history: the sign-ups, each with the code it spent
  resets,            \* history: the password resets, each with its code
  failures,          \* otp_failures, per kind and email
  page,              \* what each page shows
  request            \* what each page waits for, per operation

vars == <<codes, users, orgs, resets, failures, page, request>>

Pages == SignUpPages \cup ForgotDialogs
Kinds == {"signup", "reset"}
KindOf(p) == IF p \in SignUpPages THEN "signup" ELSE "reset"
Ops == {"status", "send", "verify", "submit"}
Idle == [at |-> "idle", email |-> None, code |-> None, seen |-> {}]
CodeRow == [email : Emails, kind : Kinds, recent : BOOLEAN, stale : BOOLEAN, used_at : BOOLEAN,
            state : {"pending", "verified", "used", "expired"}]
Request == {Idle} \cup [at : {"sent", "read"}, email : Emails, code : Codes \cup {None},
                       seen : SUBSET Codes]

ASSUME ConstantsAssumption ==
  /\ SignUpPages \cap ForgotDialogs = {}
  /\ None \notin Codes \cup CodeRow
  /\ MaxFailures \in Nat

TypeOK ==
  /\ codes \in [Codes -> {None} \cup CodeRow]
  /\ users \subseteq Emails
  /\ orgs \subseteq [email : Emails, code : Codes, by : SignUpPages]
  /\ resets \subseteq [email : Emails, code : Codes, by : ForgotDialogs]
  /\ failures \in [Kinds \X Emails -> 0..MaxFailures]
  /\ page \in [Pages -> [email : Emails, sent : BOOLEAN, badge : BOOLEAN]]
  /\ request \in [Pages -> [Ops -> Request]]

Init ==
  /\ codes = [c \in Codes |-> None]
  /\ users \in SUBSET Emails
  /\ orgs = {} /\ resets = {}
  /\ failures = [k \in Kinds \X Emails |-> 0]
  /\ page \in [Pages -> [email : Emails, sent : {FALSE}, badge : {FALSE}]]
  /\ request = [p \in Pages |-> [o \in Ops |->
       IF o = "status" /\ p \in SignUpPages
       THEN [Idle EXCEPT !.at = "sent", !.email = page[p].email] ELSE Idle]]

-----------------------------------------------------------------------------
Rows(e, states) == {c \in Codes : codes[c] # None /\ codes[c].email = e /\ codes[c].state \in states}
Pending(e) == Rows(e, {"pending"})
Verified(e) == {c \in Rows(e, {"verified"}) : codes[c].kind = "signup" /\ ~codes[c].used_at}

Marked(S, state) == [c \in Codes |-> IF c \in S
  THEN [codes[c] EXCEPT !.state = state, !.used_at = @ \/ state = "used"] ELSE codes[c]]

Answered(p, o) == request' = [request EXCEPT ![p][o] = Idle]
Ask(p, o, c) ==
  /\ request[p][o].at = "idle"
  /\ request' = [request EXCEPT ![p][o] = [at |-> "sent", email |-> page[p].email, code |-> c, seen |-> {}]]
  /\ UNCHANGED <<codes, users, orgs, resets, failures, page>>
Decide(p, o, S) ==
  request' = [request EXCEPT ![p][o] = [at |-> "read", email |-> @.email, code |-> @.code, seen |-> S]]

-----------------------------------------------------------------------------
(* What people do                                                          *)

\* Editing the email, "Change email" and opening the dialog anew start over.
EditEmail(p, e) ==
  /\ page[p].email # e
  /\ page' = [page EXCEPT ![p] = [email |-> e, sent |-> FALSE, badge |-> FALSE]]
  /\ UNCHANGED <<codes, users, orgs, resets, failures, request>>

ClickSend(p) == ~page[p].badge /\ Ask(p, "send", None)

\* A code from the inbox of that email, or a wrong one.
ClickVerify(p, c) ==
  /\ p \in SignUpPages /\ page[p].sent /\ ~page[p].badge
  /\ c # None => codes[c] # None /\ codes[c].email = page[p].email
  /\ Ask(p, "verify", c)

ClickRegister(p) == p \in SignUpPages /\ page[p].badge /\ Ask(p, "submit", None)

ClickReset(p, c) ==
  /\ p \in ForgotDialogs /\ page[p].sent
  /\ c # None => codes[c] # None /\ codes[c].email = page[p].email
  /\ Ask(p, "submit", c)

-----------------------------------------------------------------------------
(* send_email_verification and forgot_password                             *)

SendLoad(p) ==
  LET r == request[p]["send"] e == r.email IN
  /\ r.at = "sent"
  /\ IF (e \in users) = (p \in SignUpPages) \/ \E c \in Pending(e) : codes[c].recent
     THEN /\ Answered(p, "send")
          \* the dialog gets the same answer whatever happened
          /\ page' = IF p \in ForgotDialogs THEN [page EXCEPT ![p].sent = TRUE] ELSE page
     ELSE Decide(p, "send", Pending(e)) /\ UNCHANGED page
  /\ UNCHANGED <<codes, users, orgs, resets, failures>>

NewCode(p, e) == [email |-> e, kind |-> KindOf(p), state |-> "pending", recent |-> TRUE, stale |-> FALSE,
                  used_at |-> FALSE]

(* Faulty variant: the codes sent before stay good.                        *)
SendCommitKeepsOld(p, c) ==
  LET r == request[p]["send"] IN
  /\ r.at = "read" /\ codes[c] = None /\ c = CHOOSE d \in Codes : codes[d] = None
  /\ codes' = [codes EXCEPT ![c] = NewCode(p, r.email)]
  /\ page' = [page EXCEPT ![p].sent = TRUE]
  /\ Answered(p, "send")
  /\ UNCHANGED <<users, orgs, resets, failures>>

SendCommit(p, c) ==
  LET r == request[p]["send"] IN
  /\ r.at = "read" /\ codes[c] = None /\ c = CHOOSE d \in Codes : codes[d] = None
  /\ codes' = [Marked(r.seen, "expired") EXCEPT ![c] = NewCode(p, r.email)]
  /\ page' = [page EXCEPT ![p].sent = TRUE]
  /\ Answered(p, "send")
  /\ UNCHANGED <<users, orgs, resets, failures>>

\* The email cannot be delivered: the new code is dropped again.
SendFails(p) ==
  LET r == request[p]["send"] IN
  /\ r.at = "read"
  /\ codes' = Marked(r.seen, "expired")
  /\ page' = IF p \in ForgotDialogs THEN [page EXCEPT ![p].sent = TRUE] ELSE page
  /\ Answered(p, "send")
  /\ UNCHANGED <<users, orgs, resets, failures>>

-----------------------------------------------------------------------------
(* verify_email_otp and check_email_verification_status                    *)

(* Faulty variant: one guess more than allowed.                            *)
BlockedLate(k, e) == failures[<<k, e>>] > MaxFailures

Blocked(k, e) == failures[<<k, e>>] = MaxFailures

\* A wrong guess is counted; the last one allowed burns the pending codes.
WrongOtp(k, e) ==
  /\ failures' = [failures EXCEPT ![<<k, e>>] = @ + 1]
  /\ codes' = IF failures[<<k, e>>] + 1 = MaxFailures
              THEN Marked({c \in Pending(e) : codes[c].kind = k}, "expired") ELSE codes

ShowBadge(p) == page' = [page EXCEPT ![p].badge = TRUE, ![p].sent = FALSE]

VerifyLoad(p) ==
  LET r == request[p]["verify"] c == r.code IN
  /\ r.at = "sent"
  /\ CASE Blocked("signup", r.email) ->
            Answered(p, "verify") /\ UNCHANGED <<codes, failures, page>>
       [] ~Blocked("signup", r.email) /\ (c = None \/ codes[c].kind # "signup") ->
            Answered(p, "verify") /\ WrongOtp("signup", r.email) /\ UNCHANGED page
       [] OTHER ->
            /\ UNCHANGED failures
            /\ CASE codes[c].state = "verified" -> Answered(p, "verify") /\ ShowBadge(p) /\ UNCHANGED codes
                 [] codes[c].state \in {"used", "expired"} -> Answered(p, "verify") /\ UNCHANGED <<codes, page>>
                 [] OTHER -> IF codes[c].stale
                             THEN Answered(p, "verify") /\ codes' = Marked({c}, "expired") /\ UNCHANGED page
                             ELSE Decide(p, "verify", {c}) /\ UNCHANGED <<codes, page>>
  /\ UNCHANGED <<users, orgs, resets>>

\* The page shows its badge whatever email it shows by now.
VerifyCommit(p) ==
  LET r == request[p]["verify"] IN
  /\ r.at = "read"
  /\ codes' = Marked(r.seen, "verified")
  /\ failures' = [failures EXCEPT ![<<"signup", r.email>>] = 0]
  /\ ShowBadge(p) /\ Answered(p, "verify")
  /\ UNCHANGED <<users, orgs, resets>>

StatusDone(p) ==
  LET r == request[p]["status"] IN
  /\ r.at = "sent"
  /\ \/ (\E c \in Verified(r.email) : ~codes[c].stale) /\ ShowBadge(p)
     \/ (\A c \in Verified(r.email) : codes[c].stale) /\ UNCHANGED page
  /\ Answered(p, "status")
  /\ UNCHANGED <<codes, users, orgs, resets, failures>>

-----------------------------------------------------------------------------
(* register and reset_password_with_otp                                    *)

\* The page keeps its badge when it is refused.
RegisterLoad(p) ==
  LET r == request[p]["submit"] IN
  /\ p \in SignUpPages /\ r.at = "sent"
  /\ \/ /\ (r.email \in users \/ Verified(r.email) = {})
        /\ Answered(p, "submit") /\ UNCHANGED codes
     \/ \E c \in Verified(r.email) :
          /\ r.email \notin users
          /\ IF codes[c].stale
             THEN Answered(p, "submit") /\ codes' = Marked({c}, "expired")
             ELSE Decide(p, "submit", {c}) /\ UNCHANGED codes
  /\ UNCHANGED <<users, orgs, resets, failures, page>>

(* Faulty variant: nothing keeps two accounts from having one email.       *)
RegisterCommitTwice(p) ==
  LET r == request[p]["submit"] IN
  /\ p \in SignUpPages /\ r.at = "read"
  /\ codes' = Marked(r.seen, "used") /\ users' = users \cup {r.email}
  /\ orgs' = orgs \cup {[email |-> r.email, code |-> c, by |-> p] : c \in r.seen}
  /\ Answered(p, "submit")
  /\ UNCHANGED <<resets, failures, page>>

\* users.email is unique: of two sign-ups at once the second one fails.
RegisterCommit(p) ==
  LET r == request[p]["submit"] IN
  /\ p \in SignUpPages /\ r.at = "read"
  /\ IF r.email \in users
     THEN UNCHANGED <<codes, users, orgs>>
     ELSE /\ codes' = Marked(r.seen, "used") /\ users' = users \cup {r.email}
          /\ orgs' = orgs \cup {[email |-> r.email, code |-> c, by |-> p] : c \in r.seen}
  /\ Answered(p, "submit")
  /\ UNCHANGED <<resets, failures, page>>

ResetLoad(p) ==
  LET r == request[p]["submit"] c == r.code IN
  /\ p \in ForgotDialogs /\ r.at = "sent"
  /\ CASE Blocked("reset", r.email) ->
            Answered(p, "submit") /\ UNCHANGED <<codes, failures>>
       [] ~Blocked("reset", r.email) /\ (r.email \notin users \/ c = None \/ codes[c].kind # "reset") ->
            Answered(p, "submit") /\ WrongOtp("reset", r.email)
       [] OTHER ->
            /\ UNCHANGED failures
            /\ IF codes[c].state # "pending" THEN Answered(p, "submit") /\ UNCHANGED codes
               ELSE IF codes[c].stale THEN Answered(p, "submit") /\ codes' = Marked({c}, "expired")
               ELSE Decide(p, "submit", {c}) /\ UNCHANGED codes
  /\ UNCHANGED <<users, orgs, resets, page>>

ResetCommit(p) ==
  LET r == request[p]["submit"] IN
  /\ p \in ForgotDialogs /\ r.at = "read"
  /\ codes' = Marked(r.seen, "used")
  /\ resets' = resets \cup {[email |-> r.email, code |-> c, by |-> p] : c \in r.seen}
  /\ failures' = [failures EXCEPT ![<<"reset", r.email>>] = 0]
  /\ page' = [page EXCEPT ![p].sent = FALSE]
  /\ Answered(p, "submit")
  /\ UNCHANGED <<users, orgs>>

-----------------------------------------------------------------------------
(* Time: the resend cooldown, the life of a code, the window of failures   *)

Passes ==
  /\ \/ \E c \in Codes : codes[c] # None /\ codes[c].recent /\ codes' = [codes EXCEPT ![c].recent = FALSE] /\ UNCHANGED failures
     \/ \E c \in Codes : codes[c] # None /\ ~codes[c].recent /\ codes' = [codes EXCEPT ![c].stale = TRUE] /\ UNCHANGED failures
     \/ \E k \in Kinds \X Emails : failures[k] > 0 /\ failures' = [failures EXCEPT ![k] = 0] /\ UNCHANGED codes
  /\ UNCHANGED <<users, orgs, resets, page, request>>

Visitor(p) ==
  \/ \E e \in Emails : EditEmail(p, e)
  \/ ClickSend(p) \/ ClickRegister(p)
  \/ \E c \in Codes \cup {None} : ClickVerify(p, c) \/ ClickReset(p, c)

Server(p) ==
  \/ SendLoad(p) \/ SendFails(p) \/ \E c \in Codes : SendCommit(p, c)
  \/ StatusDone(p) \/ VerifyLoad(p) \/ VerifyCommit(p)
  \/ RegisterLoad(p) \/ RegisterCommit(p) \/ ResetLoad(p) \/ ResetCommit(p)

Next == Passes \/ \E p \in Pages : Visitor(p) \/ Server(p)
Spec == Init /\ [][Next]_vars

-----------------------------------------------------------------------------
(* auth.py:349, "The backend must independently verify that the email      *)
(* address has a valid, unexpired, single-use VERIFIED record": whatever    *)
(* badge a page shows, and however sign-ups race, an organization spent a   *)
(* code of its own email that no other organization spent.                 *)
RegisteredWasVerified ==
  \A o \in orgs :
    /\ codes[o.code].email = o.email /\ codes[o.code].kind = "signup" /\ codes[o.code].used_at
    /\ \A other \in orgs : (other.code = o.code \/ other.email = o.email) => other = o

(* As long as one page sends them, the code that was sent last is the only *)
(* one that still works: the older ones were invalidated                   *)
(* (send_email_verification, forgot_password).  Two pages can each read    *)
(* which codes wait before the other sends its own.                        *)
OnePage == \A p, q \in DOMAIN page : p = q
OnlyNewestWorks == OnePage => \A e \in Emails : \A c, d \in Pending(e) : c = d

(* Why registrations hold: the codes a request names or has read exist,    *)
(* and a sign-up under way has read one of its own email.                  *)
CodesExist ==
  \A p \in Pages, o \in Ops : LET r == request[p][o] IN
    /\ r.code # None => codes[r.code] # None
    /\ \A c \in r.seen : codes[c] # None
SignUpsSawTheirCode ==
  \A p \in SignUpPages : LET r == request[p]["submit"] IN
    r.at = "read" => \E c \in Codes :
      r.seen = {c} /\ codes[c].email = r.email /\ codes[c].kind = "signup"
SignUpInv ==
  /\ TypeOK /\ CodesExist /\ SignUpsSawTheirCode
  /\ RegisteredWasVerified
  /\ \A o \in orgs : codes[o.code] # None /\ o.email \in users

(* Why the newest code stays alone: whoever is about to send one has read  *)
(* those it makes useless.                                                 *)
SendersSawPending ==
  \A p \in Pages : LET r == request[p]["send"] IN
    r.at = "read" => Pending(r.email) \subseteq r.seen
=============================================================================
