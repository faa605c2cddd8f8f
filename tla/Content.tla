------------------------------- MODULE Content -------------------------------
(***************************************************************************)
(* The content a platform administrator publishes: the website, the app's  *)
(* shared content and each organization's copy of it, which stores only    *)
(* what differs.  Three pages of the console edit them, each a whole       *)
(* document at a time; the organizations' tabs show what they were sent.   *)
(***************************************************************************)
EXTENDS Naturals, FiniteSets

CONSTANTS
  Orgs,
  Websites, Pricings, Apps,   \* open WebsitePages, SubscriptionsPages and AppContentPages
  Scopes,                     \* what the AppContentPages are used for: "shared", organizations
  Tabs, Slots,                \* tabs of the organizations' users, fetches each may wait for
  Plans,                      \* whether plans leave the module out
  Waits,                      \* whether administrators wait for what they switched to
  Loses,                      \* whether calls fail
  None

VARIABLES
  published,                  \* the website and the shared content
  overrides,                  \* what each organization stores of its own
  unpaid,                     \* organizations whose plan leaves the module out
  touched,                    \* history: fields an administrator set for an organization
  editor,                     \* what each page shows, with the read under way
  dialog,                     \* the pages that ask whether to reset
  call,                       \* each page's save and reset
  tab,                        \* what each tab shows, and to whom
  fetch                       \* its fetches under way

vars == <<published, overrides, unpaid, touched, editor, dialog, call, tab, fetch>>
server == <<published, overrides, unpaid, touched>>
pages == <<editor, dialog, call>>
tabs == <<tab, fetch>>

Editors == Websites \cup Pricings \cup Apps
WebsiteFields == {"copy", "pricing"}
PricingFields == {"pricing"}
AppFields == {"texts", "modules"}

On == "on"           \* what the built-in document says; a module that is switched on
Off == "off"
Bad == "bad"         \* what no document may say
Values == {On, Off}

FieldsOf(scope) == IF scope = "site" THEN WebsiteFields ELSE AppFields
Default(scope) == [f \in FieldsOf(scope) |-> On]
DocumentsOf(scope) == [FieldsOf(scope) -> Values]
DraftsOf(scope) == [FieldsOf(scope) -> Values \cup {Bad}]

\* What a page opens on, and what it may switch to.
Home(e) == IF e \in Apps THEN "shared" ELSE "site"
ScopesOf(home) == IF home = "shared" THEN {"shared"} \cup Orgs ELSE {"site"}

NoCall == [at |-> "idle", scope |-> None, content |-> None]
NoFetch == [at |-> "idle", org |-> None, latest |-> FALSE, of |-> None, answer |-> None]

Sites == {"site", "shared"}
Ops == {"save", "reset"}
PageOf(home) == [scope : ScopesOf(home), saved : DocumentsOf(home) \cup {None}, draft : DraftsOf(home) \cup {None},
                 at : {"idle", "sent", "read", "failed"}, answer : DocumentsOf(home) \cup {None}]
CallOf(home) == [at : {"idle", "sent", "done"}, scope : ScopesOf(home) \cup {None}, content : DocumentsOf(home) \cup {None}]
Shown == [org : Orgs \cup {None}, of : Orgs \cup {"default", "shared"}, shown : DocumentsOf("shared")]
Fetch == [at : {"idle", "sent", "read"}, org : Orgs \cup {None}, latest : BOOLEAN,
          of : Orgs \cup {"default", "shared", None}, answer : DocumentsOf("shared") \cup {None}]

TypeOK ==
  /\ published \in [Sites -> DocumentsOf("site") \cup DocumentsOf("shared")]
  /\ \A s \in Sites : published[s] \in DocumentsOf(s)
  /\ overrides \in [Orgs -> [AppFields -> Values \cup {None}]]
  /\ unpaid \subseteq Orgs /\ touched \in [Orgs -> SUBSET AppFields]
  /\ editor \in [Editors -> PageOf("site") \cup PageOf("shared")]
  /\ \A e \in Editors : editor[e] \in PageOf(Home(e))
  /\ dialog \subseteq Editors
  /\ call \in [Editors \X Ops -> CallOf("site") \cup CallOf("shared")]
  /\ \A e \in Editors, op \in Ops : call[<<e, op>>] \in CallOf(Home(e))
  /\ tab \in [Tabs -> Shown] /\ fetch \in [Tabs \X Slots -> Fetch]

-----------------------------------------------------------------------------
(* The server                                                              *)

Merged(o) == [f \in AppFields |-> IF overrides[o][f] = None THEN published["shared"][f] ELSE overrides[o][f]]
ContentOf(scope) == IF scope \in Orgs THEN Merged(scope) ELSE published[scope]

(* Faulty variant: everything is stored, not what differs. *)
WholeDocument(content) == content
Differences(content) ==
  [f \in AppFields |-> IF content[f] = published["shared"][f] THEN None ELSE content[f]]

Put(scope, content) ==
  IF scope \in Orgs
  THEN overrides' = [overrides EXCEPT ![scope] = Differences(content)] /\ UNCHANGED published
  ELSE published' = [published EXCEPT ![scope] = content] /\ UNCHANGED overrides

ResetTo(scope) ==
  IF scope \in Orgs
  THEN overrides' = [overrides EXCEPT ![scope] = [f \in AppFields |-> None]] /\ UNCHANGED published
  ELSE published' = [published EXCEPT ![scope] = Default(scope)] /\ UNCHANGED overrides

SwitchedOff(off) == IF off THEN Off ELSE None

\* A plan is accepted: what it leaves out is switched off, the rest follows the shared content.
SetModules(o, off) ==
  /\ Plans /\ (off # (o \in unpaid))
  /\ overrides' = [overrides EXCEPT ![o]["modules"] = SwitchedOff(off)]
  /\ unpaid' = IF off THEN unpaid \cup {o} ELSE unpaid \ {o}
  /\ touched' = [touched EXCEPT ![o] = @ \cup {"modules"}]
  /\ UNCHANGED published /\ UNCHANGED pages /\ UNCHANGED tabs

-----------------------------------------------------------------------------
(* The pages of the console                                                *)

Opened(scope) == [scope |-> scope, saved |-> None, draft |-> None, at |-> "sent", answer |-> None]

Dirty(e) ==
  LET d == editor[e].draft s == editor[e].saved
  IN d # None /\ IF e \in Pricings THEN d["pricing"] # s["pricing"] ELSE d # s

Valid(e) ==
  LET d == editor[e].draft
  IN \A f \in IF e \in Pricings THEN PricingFields ELSE DOMAIN d : d[f] # Bad

\* A dialog covers the page; an administrator who waits does nothing before what he switched to is there.
Free(e) == e \notin dialog /\ (Waits => editor[e].at = "idle")
Unsent(e, op) == call[<<e, op>>].at = "idle"

ReadServed(e) ==
  /\ editor[e].at = "sent"
  /\ editor' = [editor EXCEPT ![e].at = "read", ![e].answer = ContentOf(editor[e].scope)]
  /\ UNCHANGED <<dialog, call>> /\ UNCHANGED server /\ UNCHANGED tabs

ReadShown(e) ==
  /\ editor[e].at = "read"
  /\ LET answer == editor[e].answer IN
     editor' = [editor EXCEPT ![e].at = "idle", ![e].answer = None, ![e].saved = answer, ![e].draft = answer]
  /\ UNCHANGED <<dialog, call>> /\ UNCHANGED server /\ UNCHANGED tabs

\* AppContentPage clears its form; the other two keep the one they show, if any.
ReadFailed(e) ==
  /\ Loses /\ editor[e].at \in {"sent", "read"}
  /\ editor' = [editor EXCEPT ![e].at = "failed", ![e].answer = None,
                              ![e].saved = IF e \in Apps THEN None ELSE @,
                              ![e].draft = IF e \in Apps THEN None ELSE @]
  /\ UNCHANGED <<dialog, call>> /\ UNCHANGED server /\ UNCHANGED tabs

Retry(e) ==
  /\ editor[e].at = "failed" /\ editor[e].draft = None
  /\ editor' = [editor EXCEPT ![e].at = "sent"]
  /\ UNCHANGED <<dialog, call>> /\ UNCHANGED server /\ UNCHANGED tabs

\* The form of what was edited before stays until the answer is there.
ChangeScope(e, scope) ==
  /\ e \in Apps /\ scope # editor[e].scope /\ ~Dirty(e) /\ e \notin dialog
  /\ Waits => Unsent(e, "save")
  /\ editor' = [editor EXCEPT ![e].scope = scope, ![e].at = "sent", ![e].answer = None]
  /\ UNCHANGED <<dialog, call>> /\ UNCHANGED server /\ UNCHANGED tabs

Edit(e, f, v) ==
  /\ Free(e) /\ editor[e].draft # None /\ editor[e].draft[f] # v
  /\ editor' = [editor EXCEPT ![e].draft[f] = v]
  /\ UNCHANGED <<dialog, call>> /\ UNCHANGED server /\ UNCHANGED tabs
EditWebsite(e, f, v) == e \in Websites /\ f \in WebsiteFields /\ Edit(e, f, v)
EditPricing(e, f, v) == e \in Pricings /\ f \in PricingFields /\ Edit(e, f, v)
EditApp(e, f, v) == e \in Apps /\ f \in AppFields /\ (f = "modules" => v # Bad) /\ Edit(e, f, v)

Discard(e) ==
  /\ e \notin Pricings /\ Dirty(e) /\ Free(e) /\ Unsent(e, "save")
  /\ editor' = [editor EXCEPT ![e].draft = editor[e].saved]
  /\ UNCHANGED <<dialog, call>> /\ UNCHANGED server /\ UNCHANGED tabs

\* The whole document is sent, whichever part of it the page edits.
Save(e) ==
  /\ Dirty(e) /\ Free(e) /\ Unsent(e, "save") /\ Valid(e)
  /\ call' = [call EXCEPT ![<<e, "save">>] = [at |-> "sent", scope |-> editor[e].scope, content |-> editor[e].draft]]
  /\ touched' = IF editor[e].scope \in Orgs
                THEN [touched EXCEPT ![editor[e].scope] =
                        @ \cup {f \in AppFields : editor[e].draft[f] # editor[e].saved[f]}]
                ELSE touched
  /\ UNCHANGED <<published, overrides, unpaid, editor, dialog>> /\ UNCHANGED tabs

\* SubscriptionsPage offers it with nothing read yet.
OpenReset(e) ==
  /\ Free(e) /\ Unsent(e, "save") /\ Unsent(e, "reset") /\ (e \in Pricings \/ editor[e].draft # None)
  /\ dialog' = dialog \cup {e}
  /\ UNCHANGED <<editor, call>> /\ UNCHANGED server /\ UNCHANGED tabs

\* SubscriptionsPage lets go of the dialog while the reset is under way.
CancelReset(e) ==
  /\ e \in dialog /\ (e \in Pricings \/ Unsent(e, "reset"))
  /\ dialog' = dialog \ {e}
  /\ UNCHANGED <<editor, call>> /\ UNCHANGED server /\ UNCHANGED tabs

ConfirmReset(e) ==
  /\ e \in dialog /\ Unsent(e, "reset")
  /\ call' = [call EXCEPT ![<<e, "reset">>] = [at |-> "sent", scope |-> editor[e].scope, content |-> None]]
  /\ UNCHANGED <<editor, dialog>> /\ UNCHANGED server /\ UNCHANGED tabs

\* The answer is the document as the server has it now.
Served(e, op) ==
  /\ call[<<e, op>>].at = "sent"
  /\ \E scope \in {call[<<e, op>>].scope} :
       /\ IF op = "save" THEN Put(scope, call[<<e, op>>].content) ELSE ResetTo(scope)
       /\ call' = [call EXCEPT ![<<e, op>>].at = "done", ![<<e, op>>].content = ContentOf(scope)']
  /\ UNCHANGED <<unpaid, touched, editor, dialog>> /\ UNCHANGED tabs

\* Both what was saved and the form, typed in or not since.
ApplyServerContent(e, op) ==
  editor' = [editor EXCEPT ![e].saved = call[<<e, op>>].content, ![e].draft = call[<<e, op>>].content]

Answered(e, op) ==
  /\ call[<<e, op>>].at = "done"
  /\ ApplyServerContent(e, op)
  /\ dialog' = IF op = "reset" THEN dialog \ {e} ELSE dialog
  /\ call' = [call EXCEPT ![<<e, op>>] = NoCall]
  /\ UNCHANGED server /\ UNCHANGED tabs

\* A refused reset stays in its dialog.
CallFailed(e, op) ==
  /\ Loses /\ call[<<e, op>>].at \in {"sent", "done"}
  /\ call' = [call EXCEPT ![<<e, op>>] = NoCall]
  /\ UNCHANGED <<editor, dialog>> /\ UNCHANGED server /\ UNCHANGED tabs

-----------------------------------------------------------------------------
(* The organizations' tabs                                                 *)

Asks(t, s, o) ==
  fetch' = [r \in Tabs \X Slots |->
    IF r = <<t, s>> THEN [NoFetch EXCEPT !.at = "sent", !.org = o, !.latest = TRUE]
    ELSE IF r[1] = t THEN [fetch[r] EXCEPT !.latest = FALSE] ELSE fetch[r]]

\* Signing in or out fetches again; what is shown stays until the answer is there.
SignInOrOut(t, s, o) ==
  /\ fetch[<<t, s>>].at = "idle" /\ (o = None) # (tab[t].org = None)
  /\ tab' = [tab EXCEPT ![t].org = o]
  /\ Asks(t, s, o)
  /\ UNCHANGED pages /\ UNCHANGED server

FetchServed(t, s) ==
  /\ fetch[<<t, s>>].at = "sent"
  /\ LET o == fetch[<<t, s>>].org IN
     fetch' = [fetch EXCEPT ![<<t, s>>].at = "read", ![<<t, s>>].of = IF o = None THEN "shared" ELSE o,
                            ![<<t, s>>].answer = ContentOf(IF o = None THEN "shared" ELSE o)]
  /\ UNCHANGED tab /\ UNCHANGED pages /\ UNCHANGED server

\* An organization's copy falls back on the shared one, and that one on the built-in document.
FetchFailed(t, s) ==
  /\ Loses /\ fetch[<<t, s>>].at = "sent"
  /\ fetch' = [fetch EXCEPT ![<<t, s>>] = IF @.org # None THEN [@ EXCEPT !.org = None]
                                      ELSE [@ EXCEPT !.at = "read", !.of = "default", !.answer = Default("shared")]]
  /\ UNCHANGED tab /\ UNCHANGED pages /\ UNCHANGED server

Shows(f) == f.latest

FetchDone(t, s) ==
  /\ fetch[<<t, s>>].at = "read"
  /\ tab' = IF Shows(fetch[<<t, s>>])
            THEN [tab EXCEPT ![t].of = fetch[<<t, s>>].of, ![t].shown = fetch[<<t, s>>].answer] ELSE tab
  /\ fetch' = [fetch EXCEPT ![<<t, s>>] = NoFetch]
  /\ UNCHANGED pages /\ UNCHANGED server

-----------------------------------------------------------------------------
Init ==
  /\ published = [s \in Sites |-> Default(s)]
  /\ overrides = [o \in Orgs |-> [f \in AppFields |-> None]]
  /\ unpaid = {} /\ touched = [o \in Orgs |-> {}]
  /\ editor = [e \in Editors |-> Opened(Home(e))]
  /\ dialog = {} /\ call = [r \in Editors \X Ops |-> NoCall]
  /\ tab = [t \in Tabs |-> [org |-> None, of |-> "default", shown |-> Default("shared")]]
  /\ fetch = [r \in Tabs \X Slots |-> NoFetch]

People ==
  \/ \E e \in Editors, f \in WebsiteFields \cup AppFields, v \in Values \cup {Bad} :
       EditWebsite(e, f, v) \/ EditPricing(e, f, v) \/ EditApp(e, f, v)
  \/ \E e \in Editors : Save(e) \/ Discard(e) \/ OpenReset(e) \/ CancelReset(e) \/ ConfirmReset(e) \/ Retry(e)
  \/ \E e \in Editors, scope \in Scopes : ChangeScope(e, scope)
  \/ \E o \in Orgs, off \in BOOLEAN : SetModules(o, off)
  \/ \E t \in Tabs, s \in Slots, o \in Orgs \cup {None} : SignInOrOut(t, s, o)

Answers ==
  \/ \E e \in Editors : ReadServed(e) \/ ReadShown(e) \/ ReadFailed(e)
  \/ \E e \in Editors, op \in Ops : Served(e, op) \/ Answered(e, op) \/ CallFailed(e, op)
  \/ \E t \in Tabs, s \in Slots : FetchServed(t, s) \/ FetchFailed(t, s) \/ FetchDone(t, s)

Next == People \/ Answers
Spec == Init /\ [][Next]_vars

-----------------------------------------------------------------------------
(* With one administrator who waits for what he switches to, an            *)
(* organization keeps of its own only what was set for it                  *)
(* (AppContentPage.tsx: "Anything you leave as it is keeps following the   *)
(* shared content.").                                                      *)
FollowsShared == \A o \in Orgs, f \in AppFields : overrides[o][f] # None => f \in touched[o]

(* A module the plan leaves out stays off whatever the shared content says *)
(* (services/app_content.py, set_org_modules: "the organization never gets *)
(* it, even if the shared content later turns it on"), as long as nobody   *)
(* edits or resets the organization's copy.                                *)
UnpaidStaysOff == \A o \in unpaid : Merged(o)["modules"] = Off

(* With one administrator who waits for what he switches to, a page that   *)
(* waits for nothing says "All changes saved" of what is published.        *)
EditorTellsTheTruth ==
  \A e \in Editors : editor[e].at = "idle" /\ Unsent(e, "save") /\ Unsent(e, "reset") =>
    editor[e].saved = ContentOf(editor[e].scope)

(* However fetches cross, a tab that waits for nothing shows no other      *)
(* organization's content, and once signed out none at all                 *)
(* (AppContentContext.tsx: latestRequest).                                 *)
TabShowsItsOwn ==
  \A t \in Tabs : (\A s \in Slots : ~fetch[<<t, s>>].latest) =>
    tab[t].of \in {tab[t].org, "default", "shared"}

-----------------------------------------------------------------------------
(* Who is at work: an administrator alone who waits and whose calls do     *)
(* not fail, or nobody at an organization's own copy.                      *)
OneWhoWaits == Waits /\ ~Loses /\ ~Plans /\ Apps = Editors /\ \E e \in Editors : Editors = {e}
NobodyEditsCopies == Scopes \cap Orgs = {}

ContentIsOwn ==
  /\ OneWhoWaits => FollowsShared
  /\ NobodyEditsCopies => UnpaidStaysOff
  /\ TabShowsItsOwn

(* Why they hold.  A page on prices changes nothing else, calls carry what *)
(* they need and answers are there when they are read.                     *)
CallsCarry ==
  /\ \A e \in Pricings : editor[e].draft # None => editor[e].draft["copy"] # Bad
  /\ \A e \in Editors : editor[e].at = "read" => editor[e].answer # None
  /\ \A e \in Editors, op \in Ops :
       LET c == call[<<e, op>>]
       IN /\ c.at # "idle" => c.scope # None
          /\ (c.at = "sent" /\ op = "save") \/ c.at = "done" => c.content # None
  /\ \A r \in Tabs \X Slots : fetch[r].at = "read" => fetch[r].of # None /\ fetch[r].answer # None

(* The last fetch of a tab is for whoever is signed in there.              *)
LatestIsMine ==
  \A t \in Tabs, s \in Slots :
    LET f == fetch[<<t, s>>]
    IN f.latest => /\ f.at # "idle"
                   /\ f.at = "sent" => f.org \in {tab[t].org, None}
                   /\ f.at = "read" => f.of \in {tab[t].org, "default", "shared"}

(* Where nobody edits copies, what a plan leaves out is switched off there. *)
UnpaidIsOff ==
  /\ \A e \in Editors : editor[e].scope \notin Orgs /\ \A op \in Ops : call[<<e, op>>].scope \notin Orgs
  /\ \A o \in unpaid : overrides[o]["modules"] = Off

(* The page of an administrator alone: a call is about what the page shows *)
(* and a reset keeps its dialog; the form started from what is stored; and *)
(* a save changes only what was set.                                       *)
OneAtATime ==
  \A e \in Editors :
    /\ call[<<e, "reset">>].at # "idle" => e \in dialog
    /\ e \in dialog => editor[e].at = "idle" /\ call[<<e, "save">>].at = "idle"
    /\ \A op \in Ops : call[<<e, op>>].at # "idle" => editor[e].at = "idle" /\ call[<<e, op>>].scope = editor[e].scope
FormIsFromStored ==
  \A e \in Editors :
    LET stored == ContentOf(editor[e].scope)
    IN /\ editor[e].at # "failed"
       /\ editor[e].at = "read" => editor[e].answer = stored
       /\ editor[e].at = "idle" /\ (\A op \in Ops : call[<<e, op>>].at # "done") => editor[e].saved = stored
       /\ \A op \in Ops : call[<<e, op>>].at = "done" => call[<<e, op>>].content = stored
SaveIsTouched ==
  \A e \in Editors :
    LET c == call[<<e, "save">>]
    IN c.at = "sent" /\ c.scope \in Orgs => \A f \in AppFields : c.content[f] # editor[e].saved[f] => f \in touched[c.scope]

ContentInv == TypeOK /\ CallsCarry /\ LatestIsMine /\ TabShowsItsOwn
OneInv == OneAtATime /\ FormIsFromStored /\ SaveIsTouched /\ FollowsShared

(* Of the constants: pages are of one kind, organizations are told from    *)
(* the shared documents, and None is none of the rest.                     *)
ConstantsOK ==
  /\ Apps \cap (Websites \cup Pricings) = {} /\ Websites \cap Pricings = {}
  /\ Orgs \cap {"site", "shared", "default"} = {} /\ Scopes \subseteq {"shared"} \cup Orgs
  /\ None \notin Values \cup {Bad, "site", "shared", "default"} \cup Orgs
  /\ None \notin DraftsOf("site") \cup DraftsOf("shared")
=============================================================================
