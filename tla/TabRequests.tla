---------------------------- MODULE TabRequests ----------------------------
(***************************************************************************)
(* The handlers of the service worker: read, act, navigate and switch-tab  *)
(* requests under way at the same time, while the user changes what is     *)
(* allowed, focuses and closes tabs, and pages navigate on their own       *)
(* (messaging/act.ts, navigation.ts, read.ts, tabs.ts, tab-select.ts,      *)
(* common.ts, deadline.ts).  A step is what runs between two awaits.       *)
(***************************************************************************)
EXTENDS Naturals

CONSTANTS Requests,     \* requests, each made once
          Tabs, Urls, Origins,
          Origin,       \* the origin of a URL
          Required,     \* the origins whose permission the manifest requires
          None,         \* no tab
          Home,         \* the page each tab starts on
          Allowed,      \* what the user may have allowed to start with
          Targets, Picks, \* the URLs and the tabs that are asked for
          Roams, Varies, \* the URLs pages go to, and the sites the user changes, by themselves
          MaxLoads,     \* bound on the documents a tab loads
          MaxChanges    \* bound on what the user and the pages do by themselves

ASSUME RequestsAssumption ==
    /\ Origin \in [Urls -> Origins]
    /\ Required \subseteq Origins
    /\ None \notin Tabs
    /\ Home \in [Tabs -> Urls]
    /\ Allowed \subseteq [Origins -> {"none", "read", "full"}]
    /\ Targets \subseteq Urls /\ Picks \subseteq Tabs
    /\ Roams \subseteq Urls /\ Varies \subseteq Origins
    /\ MaxLoads \in Nat /\ MaxChanges \in Nat

Levels == {"none", "read", "full"}      \* accessLabel

VARIABLES
    access,     \* what the user allows on each site (see SiteGrants)
    tab,        \* the browser's tabs
    focus,      \* the tab in front, or None
    current,    \* the tab recorded in session storage, or None
    req,        \* the requests
    changes,    \* how often the user or a page has intervened
    listed      \* the sites the user has ever allowed, or opened the extension on (history)

vars == <<access, tab, focus, current, req, changes, listed>>

\* "blank" is an act that names no target.
Kinds == {"read", "select", "click", "blank", "navigate", "reload"}
Acts == {"click", "blank", "navigate", "reload"}
Stages == {"new", "mark", "gate", "query", "switch", "inject", "reading",
           "send", "reinject", "acting", "settle", "waiting", "arrived",
           "start", "loading", "done", "lost"}
Answers == {"none", "page", "result", "navigated", "unreachable", "refused", "ambiguous"}

NoAccess == [o \in Origins |-> "none"]

TypeOK ==
    /\ access \in [Origins -> Levels]
    /\ tab \in [Tabs -> [open : BOOLEAN, url : Urls, doc : 0..MaxLoads, ready : BOOLEAN,
                         script : BOOLEAN,
                         invoked : BOOLEAN]]    \* the user has opened the extension on it
    /\ focus \in Tabs \union {None}
    /\ current \in Tabs \union {None}
    /\ req \in [Requests ->
                [kind : Kinds, at : Stages, answer : Answers,
                 target : Urls, pick : Tabs,            \* what it asks for
                 tab : Tabs \union {None}, url : Urls, doc : 0..MaxLoads,   \* the page it found
                 grants : [Origins -> Levels],          \* the grants it read
                 attempt : 0..1, pending : BOOLEAN,     \* its effect is yet to happen
                 asked : BOOLEAN,           \* history: its effect has been asked for
                 acted : 0..MaxLoads, performed : 0..2, \* the page acted on, and how often
                 saw : Tabs \union {None},  \* history: the tab recorded when it looked for its own
                 moved : BOOLEAN]]          \* history: see TimesOutAt
    /\ changes \in 0..MaxChanges
    /\ listed \subseteq Origins

-----------------------------------------------------------------------------
(* common.ts, policy.ts *)

CurrentTab == IF current # None /\ tab[current].open THEN current ELSE focus

MayRead(grants, url) == grants[Origin[url]] # "none"
MayAct(grants, url) == grants[Origin[url]] = "full"

\* Chrome injects a script into an open tab of a site whose permission it holds, which the user
\* may have allowed and the manifest may require, or on which the user has opened the extension
\* (activeTab).
Injectable(t) ==
    /\ tab[t].open
    /\ \/ MayRead(access, tab[t].url)
       \/ Origin[tab[t].url] \in Required
       \/ tab[t].invoked

\* The content script listens in the tab's document.
Receives(t) == tab[t].open /\ tab[t].script

To(r, stage) == req' = [req EXCEPT ![r].at = stage]
\* A handler that has answered keeps nothing it had read.
Finished(q, a) == [q EXCEPT !.at = "done", !.answer = a, !.url = q.target, !.grants = NoAccess,
                            !.attempt = 0, !.acted = IF q.pending THEN @ ELSE 0, !.saw = None]
Answer(r, a) == req' = [req EXCEPT ![r] = Finished(@, a)]

\* A step of a request that leaves the browser alone.
Browser == <<access, tab, focus, current, changes, listed>>

-----------------------------------------------------------------------------
(* The gates *)

\* handleRead and handleAct look for a tab, and with it the URL that is checked.
FindIn(r, t) ==
    /\ req[r].at = "new" /\ req[r].kind # "select"
    /\ IF t = None
       THEN Answer(r, "unreachable")
       ELSE req' = [req EXCEPT ![r].at = IF req[r].kind = "read" THEN "mark" ELSE "gate",
                               ![r].tab = t, ![r].url = tab[t].url, ![r].doc = tab[t].doc,
                               ![r].saw = IF req[r].kind = "read" THEN current ELSE None]
    /\ UNCHANGED Browser

FindFocused(r) == FindIn(r, focus)
FindTab(r) == FindIn(r, CurrentTab)

\* setCurrentTab
Mark(r) ==
    /\ req[r].at = "mark"
    /\ current' = req[r].tab
    /\ To(r, IF req[r].kind = "read" THEN "gate" ELSE "inject")
    /\ UNCHANGED <<access, tab, focus, changes, listed>>

\* handleTabs lists the grants before it looks at the tabs.
ListGrants(r) ==
    /\ req[r].at = "new" /\ req[r].kind = "select"
    /\ req' = [req EXCEPT ![r].at = "query", ![r].grants = access]
    /\ UNCHANGED Browser

\* resolveTabSelection
ResolveTab(r) ==
    LET t == req[r].pick
    IN  /\ req[r].at = "query"
        /\ IF ~tab[t].open THEN Answer(r, "ambiguous")
           ELSE IF ~MayRead(req[r].grants, tab[t].url) THEN Answer(r, "refused")
           ELSE req' = [req EXCEPT ![r].at = "switch", ![r].tab = t,
                                   ![r].url = tab[t].url, ![r].doc = tab[t].doc]
        /\ UNCHANGED Browser

\* The access of the tab's URL, by the grants as they are when they have been read.  touchGrant
\* follows (see SiteGrants); navigate checks its target, too.
Gate(r) ==
    LET allowed == CASE req[r].kind = "read" -> MayRead(access, req[r].url)
                     [] req[r].kind = "navigate" -> /\ MayAct(access, req[r].url)
                                                    /\ MayAct(access, req[r].target)
                     [] OTHER -> MayAct(access, req[r].url)
        go == CASE req[r].kind = "read" -> "inject"
                [] req[r].kind \in {"click", "blank"} -> "send"
                [] OTHER -> "start"
    IN  /\ req[r].at = "gate"
        /\ IF ~allowed THEN Answer(r, "refused")
           ELSE req' = [req EXCEPT ![r].at = go, ![r].grants = access,
                                   ![r].pending = go = "start", ![r].asked = go = "start"]
        /\ UNCHANGED Browser

-----------------------------------------------------------------------------
(* Reading and switching *)

SwitchTab(r) ==
    /\ req[r].at = "switch"
    /\ IF tab[req[r].tab].open
       THEN focus' = req[r].tab /\ To(r, "mark")
       ELSE focus' = focus /\ Answer(r, "unreachable")
    /\ UNCHANGED <<access, tab, current, changes, listed>>

\* readTabContent
InjectToRead(r) ==
    LET t == req[r].tab
    IN  /\ req[r].at = "inject"
        /\ IF Injectable(t)
           THEN tab' = [tab EXCEPT ![t].script = TRUE] /\ To(r, "reading")
           ELSE tab' = tab /\ Answer(r, "unreachable")
        /\ UNCHANGED <<access, focus, current, changes, listed>>

ReadPage(r) ==
    /\ req[r].at = "reading"
    /\ Answer(r, IF Receives(req[r].tab) THEN "page" ELSE "unreachable")
    /\ UNCHANGED Browser

-----------------------------------------------------------------------------
(* Acting on the page: sendContentAct and handleContentActFailure *)

\* Nobody is there to receive the action: a second attempt injects the script first.
SendUnheardGivesUp(r) ==
    /\ req[r].at = "send" /\ ~Receives(req[r].tab)
    /\ To(r, "settle")
    /\ UNCHANGED Browser

SendUnheardAlways(r) ==
    /\ req[r].at = "send" /\ ~Receives(req[r].tab)
    /\ To(r, "reinject")
    /\ UNCHANGED Browser

SendUnheard(r) ==
    /\ req[r].at = "send" /\ ~Receives(req[r].tab)
    /\ To(r, IF req[r].attempt = 0 THEN "reinject" ELSE "settle")
    /\ UNCHANGED Browser

\* The message is on its way to the content script.
SendHeard(r) ==
    /\ req[r].at = "send" /\ req[r].kind = "click" /\ Receives(req[r].tab)
    /\ req' = [req EXCEPT ![r].at = "acting", ![r].pending = TRUE, ![r].asked = TRUE,
                          ![r].acted = tab[req[r].tab].doc]
    /\ UNCHANGED Browser

\* The content script has no answer to an act that names no target.
SendRefused(r) ==
    /\ req[r].at = "send" /\ req[r].kind = "blank" /\ Receives(req[r].tab)
    /\ IF req[r].attempt = 0 THEN To(r, "reinject") ELSE Answer(r, "unreachable")
    /\ UNCHANGED Browser

\* Chrome's injection check, and its omission.
InjectAnywhere(r) ==
    LET t == req[r].tab
    IN  /\ req[r].at = "reinject"
        /\ IF tab[t].open
           THEN /\ tab' = [tab EXCEPT ![t].script = TRUE]
                /\ req' = [req EXCEPT ![r].at = "send", ![r].attempt = @ + 1]
           ELSE tab' = tab /\ Answer(r, "unreachable")
        /\ UNCHANGED <<access, focus, current, changes, listed>>

InjectToAct(r) ==
    LET t == req[r].tab
    IN  /\ req[r].at = "reinject"
        /\ IF Injectable(t)
           THEN /\ tab' = [tab EXCEPT ![t].script = TRUE]
                /\ req' = [req EXCEPT ![r].at = "send", ![r].attempt = @ + 1]
           ELSE tab' = tab /\ Answer(r, "unreachable")
        /\ UNCHANGED <<access, focus, current, changes, listed>>

\* The document that was acted on is still there.
StillThere(r) == Receives(req[r].tab) /\ tab[req[r].tab].doc = req[r].acted

\* The content script performs the action, when the page gets round to it: a deadline ends the
\* wait for the answer, and does not take the message back.
PageActs(r) ==
    /\ req[r].kind = "click" /\ req[r].pending /\ StillThere(r)
    /\ req' = [req EXCEPT ![r].pending = FALSE, ![r].performed = @ + 1]
    /\ UNCHANGED Browser

ActSettles(r) ==
    /\ req[r].at = "acting" /\ ~req[r].pending /\ StillThere(r)
    /\ Answer(r, "result")
    /\ UNCHANGED Browser

\* The message channel went away with the document, and with it an action not yet performed; it
\* is not sent again.
SentAgain(r) ==
    /\ req[r].at = "acting" /\ ~StillThere(r)
    /\ req' = [req EXCEPT ![r].at = IF req[r].attempt = 0 THEN "reinject" ELSE "settle",
                          ![r].pending = FALSE, ![r].acted = 0]
    /\ UNCHANGED Browser

ActTornDown(r) ==
    /\ req[r].at = "acting" /\ ~StillThere(r)
    /\ req' = [req EXCEPT ![r].at = "settle", ![r].pending = FALSE, ![r].acted = 0]
    /\ UNCHANGED Browser

\* withDeadline.  The tab looked at after a timeout is the current one, which need not be the one
\* acted on; it is taken to have moved if its URL is another, though the page may be the same.
TimesOutAt(r, stages) ==
    /\ req[r].at \in stages
    /\ IF CurrentTab = None \/ tab[CurrentTab].url = req[r].url
       THEN Answer(r, "unreachable")
       ELSE req' = [req EXCEPT ![r].at = "settle", ![r].moved = TRUE]
    /\ UNCHANGED Browser

InjectionTimesOut(r) == TimesOutAt(r, {"reinject"})
ActTimesOut(r) == TimesOutAt(r, {"acting", "reinject"})

\* waitForExistingNavigation.  The tab has been closed: nobody answers the request.
Settle(r) ==
    /\ req[r].at = "settle"
    /\ To(r, IF ~tab[req[r].tab].open THEN "lost"
             ELSE IF tab[req[r].tab].ready THEN "arrived" ELSE "waiting")
    /\ UNCHANGED Browser

\* A slow page is not a failed one.
Overdue(r) ==
    /\ req[r].at = "waiting"
    /\ IF CurrentTab # None /\ tab[CurrentTab].ready THEN To(r, "arrived") ELSE Answer(r, "unreachable")
    /\ UNCHANGED Browser

\* Where the page went is checked with the grants the request started from.  A navigate knows
\* the tab it waited for; a click looks at the current tab; a reload does not look.
Arrived(r) ==
    LET url == IF req[r].kind = "navigate" THEN req[r].url
               ELSE IF CurrentTab = None THEN req[r].url ELSE tab[CurrentTab].url
        stays == req[r].kind \in {"click", "blank"} /\ Origin[url] = Origin[req[r].url]
    IN  /\ req[r].at = "arrived"
        /\ Answer(r, IF req[r].kind = "reload" \/ stays \/ MayRead(req[r].grants, url)
                     THEN "navigated" ELSE "refused")
        /\ UNCHANGED Browser

-----------------------------------------------------------------------------
(* Driving the tab elsewhere: handleNavigate and waitForTabReady *)

\* Another document, which the user has to open the extension on again if its site is another;
Load(t, u) ==
    /\ tab[t].doc < MaxLoads
    /\ tab' = [tab EXCEPT ![t].url = u, ![t].doc = @ + 1, ![t].ready = FALSE, ![t].script = FALSE,
                          ![t].invoked = @ /\ Origin[u] = Origin[tab[t].url]]

\* or the same document under another URL: a fragment, pushState.
Slide(t, u) ==
    /\ Origin[u] = Origin[tab[t].url]
    /\ tab' = [tab EXCEPT ![t].url = u]

\* Chrome does what it was asked for, also when nobody waits for it any more: it loads the page,
\* or stays in the document, or answers without a page (a download, no content).
GoEffect(r) ==
    LET t == req[r].tab
    IN  /\ req[r].kind \in {"navigate", "reload"} /\ req[r].pending
        /\ IF tab[t].open
           THEN /\ \/ Load(t, IF req[r].kind = "reload" THEN tab[t].url ELSE req[r].target)
                   \/ req[r].kind = "navigate" /\ Slide(t, req[r].target)
                   \/ tab' = tab
                /\ req' = [req EXCEPT ![r].pending = FALSE, ![r].performed = @ + 1,
                                      ![r].at = IF @ = "start" THEN "loading" ELSE @]
           ELSE /\ tab' = tab
                /\ req' = [req EXCEPT ![r] = IF @.at = "start"
                                             THEN [Finished(@, "unreachable") EXCEPT !.pending = FALSE]
                                             ELSE [@ EXCEPT !.pending = FALSE]]
        /\ UNCHANGED <<access, focus, current, changes, listed>>

GoTimesOut(r) ==
    /\ req[r].at \in {"start", "loading"}
    /\ Answer(r, "unreachable")
    /\ UNCHANGED Browser

\* A request has been given a tab that is ready, and takes its page to be the new one.
Informed(q) ==
    [q EXCEPT !.at = "arrived", !.url = IF q.kind = "navigate" THEN tab[q.tab].url ELSE @]

\* The tab Chrome answers the request for a navigation with may be ready: the navigation has not
\* begun, or replaces nothing.
Started(r) ==
    /\ req[r].at \in {"start", "loading"}
    /\ tab[req[r].tab].open /\ tab[req[r].tab].ready
    /\ req' = [req EXCEPT ![r] = Informed(@)]
    /\ UNCHANGED Browser

\* tabs.onUpdated: whoever waits for tab t hears that it is ready, even a request whose own
\* navigation has not begun.
Waits(r, t) == req[r].tab = t /\ req[r].at \in {"waiting", "start", "loading"}

Heard(t) == req' = [r \in Requests |-> IF Waits(r, t) THEN Informed(req[r]) ELSE req[r]]

-----------------------------------------------------------------------------
(* The browser and its user *)

Loaded(t) ==
    /\ tab[t].open /\ ~tab[t].ready
    /\ tab' = [tab EXCEPT ![t].ready = TRUE]
    /\ Heard(t)
    /\ UNCHANGED <<access, focus, current, changes, listed>>

\* A page that has loaded changes its title.
Updates(t) ==
    /\ tab[t].open /\ tab[t].ready
    /\ \E r \in Requests : Waits(r, t)
    /\ Heard(t)
    /\ UNCHANGED Browser

Intervenes == changes < MaxChanges /\ changes' = changes + 1 /\ UNCHANGED <<req, current>>

\* A page navigates on its own: a link, a redirect, the user; or it stays and changes its URL.
Navigates(t, u) ==
    /\ Intervenes
    /\ tab[t].open
    /\ Load(t, u) \/ (u # tab[t].url /\ Slide(t, u))
    /\ UNCHANGED <<access, focus, listed>>

\* The user opens the extension on the tab in front.
Invokes(t) ==
    /\ Intervenes
    /\ focus = t /\ ~tab[t].invoked
    /\ tab' = [tab EXCEPT ![t].invoked = TRUE]
    /\ listed' = listed \union {Origin[tab[t].url]}
    /\ UNCHANGED <<access, focus>>

Closes(t) ==
    LET others == {u \in Tabs \ {t} : tab[u].open}
    IN  /\ Intervenes
        /\ tab[t].open
        /\ tab' = [tab EXCEPT ![t].open = FALSE]
        /\ IF focus # t THEN focus' = focus
           ELSE IF others = {} THEN focus' = None ELSE focus' \in others
        /\ UNCHANGED <<access, listed>>

Focuses(t) ==
    /\ Intervenes
    /\ tab[t].open /\ focus # t
    /\ focus' = t
    /\ UNCHANGED <<access, tab, listed>>

AccessChanges(o, level) ==
    /\ Intervenes
    /\ access[o] # level
    /\ access' = [access EXCEPT ![o] = level]
    /\ listed' = IF level = "none" THEN listed ELSE listed \union {o}
    /\ UNCHANGED <<tab, focus>>

-----------------------------------------------------------------------------
NewRequest(kind, target, pick) ==
    [kind |-> kind, at |-> "new", answer |-> "none", target |-> target, pick |-> pick,
     tab |-> None, url |-> target, doc |-> 0, grants |-> NoAccess,
     attempt |-> 0, pending |-> FALSE, asked |-> FALSE, acted |-> 0, performed |-> 0,
     saw |-> None, moved |-> FALSE]

\* Only what a kind of request asks for varies.
Asks == LET url == CHOOSE u \in Urls : TRUE
            t == CHOOSE u \in Tabs : TRUE
        IN  {NewRequest(kind, url, t) : kind \in {"read", "click", "blank", "reload"}}
              \union {NewRequest("navigate", u, t) : u \in Targets}
              \union {NewRequest("select", url, u) : u \in Picks}

Page(u) == [open |-> TRUE, url |-> u, doc |-> 0, ready |-> TRUE, script |-> FALSE,
            invoked |-> FALSE]

Init ==
    /\ access \in Allowed
    /\ listed = {o \in Origins : access[o] # "none"}
    /\ tab = [t \in Tabs |-> Page(Home[t])]
    /\ focus \in Tabs
    /\ current = None
    /\ req \in [Requests -> Asks]
    /\ changes = 0

\* What the worker does by itself, with the deadlines that bound its waiting.
Work(r) ==
    \/ FindTab(r) \/ Mark(r) \/ ListGrants(r) \/ ResolveTab(r) \/ Gate(r)
    \/ SwitchTab(r) \/ SendUnheard(r) \/ SendHeard(r) \/ SendRefused(r)
    \/ ActTimesOut(r) \/ Settle(r) \/ Overdue(r) \/ Arrived(r) \/ GoTimesOut(r)

\* What it waits for without being able to count on it.
PageAnswers(r) == InjectToRead(r) \/ ReadPage(r) \/ InjectToAct(r)
              \/ PageActs(r) \/ ActSettles(r) \/ ActTornDown(r) \/ GoEffect(r) \/ Started(r)

\* A bound: the world is followed while a request is under way.
Busy == \E r \in Requests : req[r].at \notin {"done", "lost"}

World ==
    /\ Busy
    /\ \/ \E t \in Tabs : Loaded(t) \/ Updates(t) \/ Closes(t) \/ Focuses(t) \/ Invokes(t)
       \/ \E t \in Tabs, u \in Roams : Navigates(t, u)
       \/ \E o \in Varies, level \in Levels : AccessChanges(o, level)

Next == (\E r \in Requests : Work(r) \/ PageAnswers(r)) \/ World

Spec == Init /\ [][Next]_vars

-----------------------------------------------------------------------------
(* Properties *)

\* The action is sent to the content script a second time when the first message did not reach
\* it, and never after a first attempt that may have acted, or may act yet (sendContentAct,
\* act.ts:54-65); nor does a navigation happen twice.
PerformedAtMostOnce == \A r \in Requests : req[r].performed <= 1

\* An act on a page that does not hear it, or stops hearing it, is answered `navigated` only when
\* the page it found is gone: a page that is still there would have had the script injected
\* (act.ts:54-65, 92-98).  Not so after a timeout, when a tab with another URL passes for the page
\* having moved (act.ts:86); and a navigate or a reload is answered when Chrome calls the tab
\* ready, which it may be before it begins, or without ever leaving its page (navigation.ts:58, 66).
NavigatedMeansLeft ==
    \A r \in Requests :
        req[r].answer = "navigated" /\ req[r].kind \in {"click", "blank"} /\ ~req[r].moved =>
            ~tab[req[r].tab].open \/ tab[req[r].tab].doc # req[r].doc

\* The page acted on may be another than the one whose origin was checked (act.ts:151), and the
\* user may have revoked its site meanwhile; but for the sites of the manifest it is a page of a
\* site the user once allowed or opened the extension on, also when the page acts after the
\* request has been answered.
OnlyListedPagesAreActedOn ==
    \A r \in Requests :
        req[r].kind = "click" /\ (req[r].at = "acting" \/ req[r].pending) /\ StillThere(r)
          => Origin[tab[req[r].tab].url] \in listed \union Required

\* A read moves the agent off an open tab only when that tab was recorded after the read had
\* looked for its own (read.ts:32-37 overtaken by tabs.ts:60).
ReadsFollowTheSwitch ==
    [][\A r \in Requests :
         req[r].kind = "read" /\ req[r].at = "mark" /\ req'[r].at # "mark"
         /\ current # None /\ tab[current].open /\ current' # current
           => req[r].saw # current]_vars

\* The places of a request on its way; a second attempt at sending comes after the injection.
Place == [new |-> 0, query |-> 1, switch |-> 2, mark |-> 3, gate |-> 4, inject |-> 5, reading |-> 6,
          send |-> 7, reinject |-> 8, acting |-> 10, settle |-> 11, start |-> 12, loading |-> 13,
          waiting |-> 14, arrived |-> 15, done |-> 16, lost |-> 16]
Reached(q) == Place[q.at] + IF q.at = "send" THEN 2 * q.attempt ELSE 0

\* Whatever is lost, sent again, torn down, timed out or heard late, a request only ever goes on:
\* it is at no stage twice but for the one retry, so that it ends if it is never stuck.
RequestsOnlyGoOn ==
    [][\A r \in Requests :
         req'[r].at # req[r].at => Reached(req'[r]) > Reached(req[r])]_vars

\* What became of a request, as the agent can tell.
Told(q) == IF q.at = "lost" THEN "lost" ELSE q.answer
Effect(q) == CASE q.pending -> "asked"
               [] ~q.pending /\ q.performed > 0 -> "done"
               [] ~q.pending /\ q.performed = 0 /\ q.asked -> "void"
               [] OTHER -> "none"

Agreed == INSTANCE Errands WITH answer <- [r \in Requests |-> Told(req[r])],
                                effect <- [r \in Requests |-> Effect(req[r])]

\* The handlers keep what the agent may count on: nothing is asked of a page a second time, or
\* after the answer, and no result is reported of what has not happened (act.ts, navigation.ts).
ImplementsErrands == Agreed!Spec

\* No act waits for the page alone: at every stage the worker has a step of its own to take, if
\* only a deadline's (deadline.ts), so that every act ends.  (A read may wait for ever.)
NoActWaitsForThePage ==
    \A r \in Requests :
        req[r].kind \in Acts /\ req[r].at \notin {"done", "lost"} => ENABLED Work(r)

=============================================================================
