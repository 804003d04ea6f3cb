-------------------------- MODULE TabRequestsProofs --------------------------
(***************************************************************************)
(* Theorems about TabRequests, for any requests, tabs, URLs and bounds:    *)
(* the types, that an action is performed at most once, that `navigated`   *)
(* answers an unheard act of a page that is gone, that only pages of sites *)
(* the user has allowed are acted on, that a request only goes on, and     *)
(* that the handlers implement Errands.                                    *)
(***************************************************************************)
EXTENDS TabRequests, TLAPS

Pages == [open : BOOLEAN, url : Urls, doc : 0..MaxLoads, ready : BOOLEAN, script : BOOLEAN,
          invoked : BOOLEAN]

ReqRecords == [kind : Kinds, at : Stages, answer : Answers,
               target : Urls, pick : Tabs,
               tab : Tabs \union {None}, url : Urls, doc : 0..MaxLoads,
               grants : [Origins -> Levels],
               attempt : 0..1, pending : BOOLEAN, asked : BOOLEAN,
               acted : 0..MaxLoads, performed : 0..2,
               saw : Tabs \union {None}, moved : BOOLEAN]

\* Stages of a request that is still finding or reading its page,
Finding == {"mark", "gate", "switch", "inject", "reading"}

\* of one that has not acted, and of one whose page has gone or is going.
Looking == Finding \union {"send", "reinject", "start"}
Leaving == {"settle", "waiting", "arrived", "loading"}

\* The request has found its tab.
Located(q) == q.at \in Looking \union Leaving \union {"acting"} \/ q.answer = "navigated"

\* Acts that are sent to the page.
Sent == {"click", "blank"}

\* The page the request found is gone, or a timeout has been taken for that.
Left(q) == ~tab[q.tab].open \/ tab[q.tab].doc # q.doc \/ q.moved

\* What one request knows of itself,
Steady(q) ==
    /\ q \in ReqRecords
    /\ q.performed <= 1
    /\ q.at \in Looking \union {"new", "query"} => q.performed = 0
    /\ q.at \in Finding \union {"new", "query", "reinject"} => q.attempt = 0
    /\ q.answer # "none" => q.at = "done"
    /\ q.pending \/ q.performed = 1 => q.asked
    /\ q.asked => q.at \notin (Looking \ {"start"}) \union {"new", "query"}
    /\ Located(q) \/ q.pending => q.tab \in Tabs
    /\ q.at \in {"query", "switch"} => q.kind = "select"
    /\ q.at \in {"send", "reinject", "acting"} => q.kind \in Sent
    /\ q.at \in {"start", "loading"} => q.kind \notin Sent
    /\ q.at = "acting" => q.kind = "click" /\ (q.pending \/ q.performed = 1)
    /\ q.pending => q.performed = 0 /\ q.at \notin (Looking \ {"start"}) \union {"new", "query"}

\* and of its tab.
Tracked(q) ==
    /\ Located(q) => q.doc <= tab[q.tab].doc
    /\ q.at = "send" /\ q.attempt = 1 /\ tab[q.tab].doc = q.doc => tab[q.tab].script
    /\ q.at = "acting" => /\ q.doc <= q.acted /\ q.acted <= tab[q.tab].doc
                          /\ tab[q.tab].doc = q.acted => tab[q.tab].script
    /\ q.kind \in Sent /\ (q.at \in Leaving \/ q.answer = "navigated") => Left(q)
    /\ q.at = "mark" /\ q.kind = "read" /\ q.saw # None /\ tab[q.saw].open => q.tab = q.saw

ReqOK(q) == Steady(q) /\ Tracked(q)

\* Where the content script listens the user, or the manifest, has allowed the site.
WorldOK ==
    /\ access \in [Origins -> Levels]
    /\ tab \in [Tabs -> Pages]
    /\ focus \in Tabs \union {None}
    /\ current \in Tabs \union {None}
    /\ changes \in 0..MaxChanges
    /\ listed \subseteq Origins
    /\ \A o \in Origins : access[o] # "none" => o \in listed
    /\ \A t \in Tabs : tab[t].script => Origin[tab[t].url] \in listed \union Required
    /\ \A t \in Tabs : tab[t].invoked => Origin[tab[t].url] \in listed

ReqsOK == req \in [Requests -> ReqRecords] /\ \A r \in Requests : ReqOK(req[r])

IInv == WorldOK /\ ReqsOK

-----------------------------------------------------------------------------
(* Tabs *)

\* What any step may do to a tab: a document is only left for a later one, and a tab that has
\* been closed stays closed.
Moved(before, after) ==
    /\ after.open => before.open
    /\ before.doc <= after.doc
    /\ after.doc = before.doc /\ before.script => after.script

TabsMoved == \A t \in Tabs : Moved(tab[t], tab'[t])

\* What a request knows stays true of tabs that have moved.
LEMMA ReqStays ==
    ASSUME WorldOK, tab' \in [Tabs -> Pages], TabsMoved, NEW q, ReqOK(q)
    PROVE  ReqOK(q)'
  <1>1. Steady(q)'
    BY DEF ReqOK, Steady, Located
  <1>2. CASE Located(q)
    <2>1. /\ q.tab \in Tabs /\ q.doc \in Nat /\ q.acted \in Nat
          /\ tab[q.tab].doc \in Nat /\ tab'[q.tab].doc \in Nat
      BY <1>2, RequestsAssumption DEF ReqOK, Steady, ReqRecords, WorldOK, Pages
    <2>2. Moved(tab[q.tab], tab'[q.tab])
      BY <2>1 DEF TabsMoved
    <2>3. Tracked(q)
      BY DEF ReqOK
    <2>4. q.doc <= tab'[q.tab].doc
      BY <1>2, <2>1, <2>2, <2>3 DEF Tracked, Moved
    <2>6. q.at = "send" /\ q.attempt = 1 /\ tab'[q.tab].doc = q.doc => tab'[q.tab].script
      BY <1>2, <2>1, <2>2, <2>3 DEF Tracked, Moved
    <2>7. q.at = "acting" => /\ q.doc <= q.acted /\ q.acted <= tab'[q.tab].doc
                             /\ tab'[q.tab].doc = q.acted => tab'[q.tab].script
      BY <1>2, <2>1, <2>2, <2>3 DEF Tracked, Moved
    <2>8. ASSUME q.kind \in Sent, q.at \in Leaving \/ q.answer = "navigated" PROVE Left(q)'
      BY <1>2, <2>1, <2>2, <2>3, <2>8 DEF Tracked, Moved, Left
    <2>9. q.at = "mark" /\ q.kind = "read" /\ q.saw # None /\ tab'[q.saw].open => q.tab = q.saw
      BY <2>3 DEF Tracked, TabsMoved, Moved, ReqOK, Steady, ReqRecords
    <2>10. QED
      BY <1>1, <2>4, <2>6, <2>7, <2>8, <2>9 DEF ReqOK, Tracked
  <1>3. CASE ~Located(q)
    BY <1>1, <1>3 DEF ReqOK, Tracked, Located, Finding, Looking
  <1>4. QED
    BY <1>2, <1>3

\* A step of request r that leaves the tabs alone,
LEMMA TabsKept ==
    ASSUME IInv, NEW r \in Requests, NEW q, ReqOK(q),
           req' = [req EXCEPT ![r] = q], WorldOK', UNCHANGED tab
    PROVE  IInv'
  <1>1. ReqOK(q)' /\ \A p \in Requests : ReqOK(req[p])'
    BY DEF IInv, ReqsOK, ReqOK, Steady, Tracked, Located, Left
  <1>2. q \in ReqRecords
    BY DEF ReqOK, Steady
  <1>3. QED
    BY <1>1, <1>2 DEF IInv, ReqsOK

\* and one that leaves the whole browser alone.
LEMMA BrowserKept ==
    ASSUME IInv, NEW r \in Requests, NEW q, ReqOK(q),
           req' = [req EXCEPT ![r] = q], UNCHANGED Browser
    PROVE  IInv'
  <1>1. WorldOK' /\ UNCHANGED tab
    BY DEF IInv, WorldOK, Browser
  <1>2. QED
    BY <1>1, TabsKept

\* A step of request r that moves tabs.
LEMMA TabsStep ==
    ASSUME IInv, NEW r \in Requests, NEW q, ReqOK(q)', WorldOK', TabsMoved,
           req' = [req EXCEPT ![r] = q]
    PROVE  IInv'
  <1>1. \A p \in Requests : ReqOK(req[p])'
    BY ReqStays DEF IInv, ReqsOK, WorldOK
  <1>2. q \in ReqRecords
    BY DEF ReqOK, Steady
  <1>3. QED
    BY <1>1, <1>2 DEF IInv, ReqsOK

\* What a request keeps when it answers.
LEMMA FinishedFields ==
    ASSUME NEW q \in ReqRecords, NEW a \in Answers
    PROVE  LET f == Finished(q, a)
           IN  /\ f \in ReqRecords
               /\ f.at = "done" /\ f.answer = a /\ f.tab = q.tab /\ f.doc = q.doc
               /\ f.kind = q.kind /\ f.asked = q.asked
               /\ f.moved = q.moved /\ f.performed = q.performed /\ f.pending = q.pending
  <1> DEFINE f == Finished(q, a)
             acted == IF q.pending THEN q.acted ELSE 0
  <1>1. NoAccess \in [Origins -> Levels] /\ q.target \in Urls /\ 0 \in 0..MaxLoads
    BY RequestsAssumption DEF ReqRecords, NoAccess, Levels
  <1>2. f = [q EXCEPT !.at = "done", !.answer = a, !.url = q.target, !.grants = NoAccess,
                      !.attempt = 0, !.acted = acted, !.saw = None]
    BY <1>1 DEF Finished, ReqRecords
  <1>3. acted \in 0..MaxLoads
    BY <1>1 DEF ReqRecords
  <1> HIDE DEF acted
  <1>4. f = [kind |-> q.kind, at |-> "done", answer |-> a, target |-> q.target, pick |-> q.pick,
             tab |-> q.tab, url |-> q.target, doc |-> q.doc, grants |-> NoAccess,
             attempt |-> 0, pending |-> q.pending, asked |-> q.asked, acted |-> acted,
             performed |-> q.performed, saw |-> None, moved |-> q.moved]
    BY <1>1, <1>2 DEF ReqRecords
  <1>5. f \in ReqRecords
    BY <1>1, <1>3, <1>4 DEF ReqRecords, Stages
  <1>6. QED
    BY <1>4, <1>5

\* A request that has answered, with anything but `navigated` unless it has left, is in order.
LEMMA FinishedOK ==
    ASSUME NEW q, ReqOK(q), NEW a \in Answers,
           a = "navigated" => Located(q) /\ (q.kind \in Sent => Left(q))
    PROVE  ReqOK(Finished(q, a))
  <1>1. PICK f : f = Finished(q, a)
    OBVIOUS
  <1>2. /\ f \in ReqRecords
        /\ f.at = "done" /\ f.answer = a /\ f.tab = q.tab /\ f.doc = q.doc
        /\ f.kind = q.kind /\ f.asked = q.asked
        /\ f.moved = q.moved /\ f.performed = q.performed /\ f.pending = q.pending
    BY <1>1, FinishedFields DEF ReqOK, Steady
  <1>3. Steady(f)
    BY <1>2 DEF ReqOK, Steady, Located, Finding, Looking, Leaving
  <1>4. Tracked(f)
    BY <1>2 DEF ReqOK, Tracked, Located, Finding, Looking, Leaving, Left
  <1>5. QED
    BY <1>1, <1>3, <1>4 DEF ReqOK

\* In particular, any step that answers and does nothing else.
LEMMA AnswerIInv ==
    ASSUME IInv, NEW r \in Requests, NEW a \in Answers, Answer(r, a), UNCHANGED Browser,
           a = "navigated" => Located(req[r]) /\ (req[r].kind \in Sent => Left(req[r]))
    PROVE  IInv'
  <1>1. ReqOK(req[r])
    BY DEF IInv, ReqsOK
  <1>2. ReqOK(Finished(req[r], a))
    BY <1>1, FinishedOK
  <1>3. req' = [req EXCEPT ![r] = Finished(req[r], a)]
    BY DEF Answer
  <1>4. QED
    BY <1>2, <1>3, BrowserKept

\* A request that comes to another stage keeps everything else.
LEMMA StageFields ==
    ASSUME NEW q \in ReqRecords, NEW s \in Stages
    PROVE  LET e == [q EXCEPT !.at = s]
           IN  /\ e \in ReqRecords
               /\ e.at = s /\ e.kind = q.kind /\ e.answer = q.answer /\ e.tab = q.tab /\ e.url = q.url
               /\ e.doc = q.doc /\ e.attempt = q.attempt /\ e.pending = q.pending /\ e.acted = q.acted
               /\ e.performed = q.performed /\ e.asked = q.asked /\ e.moved = q.moved
               /\ e.saw = q.saw
  BY DEF ReqRecords

\* Until it is sent to the page, it goes from stage to stage with the page it found.
LEMMA LooksOn ==
    ASSUME NEW q, ReqOK(q), q.at \in Finding, NEW s \in {"mark", "gate", "inject", "reading"},
           s = "mark" => q.kind = "select"
    PROVE  ReqOK([q EXCEPT !.at = s])
  <1> DEFINE e == [q EXCEPT !.at = s]
  <1>1. q \in ReqRecords /\ s \in Stages
    BY DEF ReqOK, Steady, Stages
  <1>2. /\ e \in ReqRecords
        /\ e.at = s /\ e.kind = q.kind /\ e.answer = q.answer /\ e.tab = q.tab /\ e.url = q.url
        /\ e.doc = q.doc /\ e.attempt = q.attempt /\ e.pending = q.pending /\ e.acted = q.acted
        /\ e.performed = q.performed /\ e.asked = q.asked /\ e.moved = q.moved
    BY <1>1, StageFields
  <1> HIDE DEF e
  <1>3. Steady(e)
    BY <1>2 DEF ReqOK, Steady, Located, Finding, Looking
  <1>4. Tracked(e)
    BY <1>2 DEF ReqOK, Steady, Tracked, Located, Finding, Looking, Leaving
  <1>5. QED
    BY <1>3, <1>4 DEF ReqOK, e

\* A request whose page is gone waits for what takes its place.
LEMMA LeavesOn ==
    ASSUME NEW q, ReqOK(q), q.at \in {"send", "acting"} \union Leaving,
           q.kind \in Sent => Left(q), q.at = "send" => q.kind \in Sent,
           NEW s \in {"settle", "waiting", "arrived"}
    PROVE  ReqOK([q EXCEPT !.at = s])
  <1> DEFINE e == [q EXCEPT !.at = s]
  <1>1. q \in ReqRecords /\ s \in Stages
    BY DEF ReqOK, Steady, Stages
  <1>2. /\ e \in ReqRecords
        /\ e.at = s /\ e.kind = q.kind /\ e.answer = q.answer /\ e.tab = q.tab /\ e.url = q.url
        /\ e.doc = q.doc /\ e.attempt = q.attempt /\ e.pending = q.pending /\ e.acted = q.acted
        /\ e.performed = q.performed /\ e.asked = q.asked /\ e.moved = q.moved
    BY <1>1, StageFields
  <1> HIDE DEF e
  <1>3. Steady(e)
    BY <1>2 DEF ReqOK, Steady, Located, Finding, Looking, Leaving
  <1>4. Tracked(e)
    BY <1>2 DEF ReqOK, Steady, Tracked, Located, Finding, Looking, Leaving, Left
  <1>5. QED
    BY <1>3, <1>4 DEF ReqOK, e

-----------------------------------------------------------------------------
(* The gates *)

LEMMA FindTabIInv == ASSUME IInv, NEW r \in Requests, FindTab(r) PROVE IInv'
  <1> DEFINE t == CurrentTab
             stage == IF req[r].kind = "read" THEN "mark" ELSE "gate"
             saw == IF req[r].kind = "read" THEN current ELSE None
             q == [req[r] EXCEPT !.at = stage, !.tab = t, !.url = tab[t].url, !.doc = tab[t].doc,
                                 !.saw = saw]
  <1>1. req[r].at = "new" /\ ReqOK(req[r]) /\ UNCHANGED Browser
    BY DEF FindTab, FindIn, IInv, ReqsOK
  <1>2. CASE t = None
    BY <1>1, <1>2, AnswerIInv DEF FindTab, FindIn, Answers
  <1>3. CASE t # None
    <2>1. req' = [req EXCEPT ![r] = q]
      BY <1>3 DEF FindTab, FindIn
    <2>2. t \in Tabs /\ saw \in Tabs \union {None}
      BY <1>3 DEF CurrentTab, IInv, WorldOK
    <2>3. saw # None /\ tab[saw].open => t = saw
      BY DEF CurrentTab
    <2> HIDE DEF t, saw
    <2>4. tab[t].url \in Urls /\ tab[t].doc \in 0..MaxLoads /\ stage \in {"mark", "gate"}
      BY <2>2 DEF IInv, WorldOK, Pages
    <2> HIDE DEF stage
    <2>5. q \in ReqRecords
      BY <1>1, <2>2, <2>4 DEF ReqOK, Steady, ReqRecords, Stages
    <2>6. /\ q.at = stage /\ q.tab = t /\ q.url = tab[t].url /\ q.doc = tab[t].doc
          /\ q.answer = req[r].answer /\ q.performed = req[r].performed /\ q.asked = req[r].asked
          /\ q.attempt = req[r].attempt /\ q.saw = saw /\ q.pending = req[r].pending
          /\ q.kind = req[r].kind
      BY <1>1, <2>2, <2>4 DEF ReqOK, Steady, ReqRecords
    <2> HIDE DEF q
    <2>7. ReqOK(q)
      BY <1>1, <2>2, <2>3, <2>4, <2>5, <2>6 DEF ReqOK, Steady, Tracked, Located, Finding, Looking, Leaving
    <2>8. QED
      BY <1>1, <2>1, <2>7, BrowserKept
  <1>4. QED
    BY <1>2, <1>3

LEMMA MarkIInv == ASSUME IInv, NEW r \in Requests, Mark(r) PROVE IInv'
  <1> DEFINE stage == IF req[r].kind = "read" THEN "gate" ELSE "inject"
  <1>1. /\ req[r].at = "mark" /\ ReqOK(req[r]) /\ stage \in {"gate", "inject"}
        /\ req' = [req EXCEPT ![r] = [req[r] EXCEPT !.at = stage]]
        /\ current' = req[r].tab /\ UNCHANGED <<access, tab, focus, changes, listed>>
    BY DEF Mark, To, IInv, ReqsOK
  <1> HIDE DEF stage
  <1>2. ReqOK([req[r] EXCEPT !.at = stage])
    BY <1>1, LooksOn DEF Finding
  <1>3. WorldOK'
    BY <1>1 DEF IInv, WorldOK, ReqOK, Steady, ReqRecords
  <1>4. QED
    BY <1>1, <1>2, <1>3, TabsKept

LEMMA ListGrantsIInv == ASSUME IInv, NEW r \in Requests, ListGrants(r) PROVE IInv'
  <1> DEFINE q == [req[r] EXCEPT !.at = "query", !.grants = access]
  <1>1. /\ req[r].at = "new" /\ ReqOK(req[r]) /\ UNCHANGED Browser /\ req' = [req EXCEPT ![r] = q]
        /\ access \in [Origins -> Levels] /\ req[r].kind = "select"
    BY DEF ListGrants, IInv, ReqsOK, WorldOK
  <1>2. /\ q \in ReqRecords /\ q.at = "query" /\ q.answer = req[r].answer /\ q.tab = req[r].tab
        /\ q.performed = req[r].performed /\ q.asked = req[r].asked /\ q.pending = req[r].pending
        /\ q.attempt = req[r].attempt /\ q.kind = req[r].kind
    BY <1>1 DEF ReqOK, Steady, ReqRecords, Stages
  <1> HIDE DEF q
  <1>3. ReqOK(q)
    BY <1>1, <1>2 DEF ReqOK, Steady, Tracked, Located, Finding, Looking, Leaving
  <1>4. QED
    BY <1>1, <1>3, BrowserKept

LEMMA ResolveTabIInv == ASSUME IInv, NEW r \in Requests, ResolveTab(r) PROVE IInv'
  <1> DEFINE t == req[r].pick
             q == [req[r] EXCEPT !.at = "switch", !.tab = t, !.url = tab[t].url, !.doc = tab[t].doc]
  <1>1. req[r].at = "query" /\ ReqOK(req[r]) /\ UNCHANGED Browser /\ t \in Tabs
    BY DEF ResolveTab, IInv, ReqsOK, ReqRecords
  <1>2. CASE Answer(r, "ambiguous") \/ Answer(r, "refused")
    BY <1>1, <1>2, AnswerIInv DEF Answers
  <1>3. CASE req' = [req EXCEPT ![r] = q]
    <2> HIDE DEF t
    <2>1. tab[t].url \in Urls /\ tab[t].doc \in 0..MaxLoads
      BY <1>1 DEF IInv, WorldOK, Pages
    <2>2. q \in ReqRecords
      BY <1>1, <2>1 DEF ReqOK, Steady, ReqRecords, Stages
    <2>3. /\ q.at = "switch" /\ q.tab = t /\ q.url = tab[t].url /\ q.doc = tab[t].doc
          /\ q.answer = req[r].answer /\ q.performed = req[r].performed /\ q.asked = req[r].asked
          /\ q.attempt = req[r].attempt /\ q.kind = req[r].kind /\ q.pending = req[r].pending
      BY <1>1 DEF ReqOK, Steady, ReqRecords
    <2> HIDE DEF q
    <2>4. ReqOK(q)
      BY <1>1, <2>1, <2>2, <2>3 DEF ReqOK, Steady, Tracked, Located, Finding, Looking, Leaving
    <2>5. QED
      BY <1>1, <1>3, <2>4, BrowserKept
  <1>4. QED
    BY <1>2, <1>3 DEF ResolveTab

LEMMA GateIInv == ASSUME IInv, NEW r \in Requests, Gate(r) PROVE IInv'
  <1> DEFINE go == CASE req[r].kind = "read" -> "inject"
                     [] req[r].kind \in {"click", "blank"} -> "send"
                     [] OTHER -> "start"
             waits == go = "start"
             q == [req[r] EXCEPT !.at = go, !.grants = access, !.pending = waits, !.asked = waits]
  <1>1. /\ req[r].at = "gate" /\ ReqOK(req[r]) /\ UNCHANGED Browser /\ req[r].kind \in Kinds
        /\ access \in [Origins -> Levels]
    BY DEF Gate, IInv, ReqsOK, ReqRecords, WorldOK
  <1>2. CASE Answer(r, "refused")
    BY <1>1, <1>2, AnswerIInv DEF Answers
  <1>3. CASE req' = [req EXCEPT ![r] = q]
    <2>1. /\ go \in {"inject", "send", "start"} /\ waits \in BOOLEAN
          /\ waits <=> go = "start"
          /\ go = "start" => req[r].kind \notin Sent
          /\ go = "send" => req[r].kind \in Sent
      BY DEF Sent
    <2> HIDE DEF go, waits
    <2>2. q \in ReqRecords
      BY <1>1, <2>1 DEF ReqOK, Steady, ReqRecords, Stages
    <2>3. /\ q.at = go /\ q.tab = req[r].tab /\ q.url = req[r].url /\ q.doc = req[r].doc
          /\ q.answer = req[r].answer /\ q.performed = req[r].performed /\ q.asked = waits
          /\ q.attempt = req[r].attempt /\ q.kind = req[r].kind /\ q.pending = waits
      BY <1>1 DEF ReqOK, Steady, ReqRecords
    <2> HIDE DEF q
    <2>4. req[r].attempt = 0
      BY <1>1 DEF ReqOK, Steady, Finding
    <2>5. ReqOK(q)
      BY <1>1, <2>1, <2>2, <2>3, <2>4 DEF ReqOK, Steady, Tracked, Located, Finding, Looking, Leaving
    <2>6. QED
      BY <1>1, <1>3, <2>5, BrowserKept
  <1>4. QED
    BY <1>2, <1>3 DEF Gate
-----------------------------------------------------------------------------
(* Reading and switching *)

LEMMA SwitchTabIInv == ASSUME IInv, NEW r \in Requests, SwitchTab(r) PROVE IInv'
  <1>1. /\ req[r].at = "switch" /\ ReqOK(req[r]) /\ req[r].tab \in Tabs
        /\ UNCHANGED <<access, tab, current, changes, listed>> /\ req[r].kind = "select"
    BY DEF SwitchTab, IInv, ReqsOK, ReqOK, Steady, Located, Finding, Looking
  <1>2. CASE focus' = req[r].tab /\ To(r, "mark")
    <2>1. ReqOK([req[r] EXCEPT !.at = "mark"])
      BY <1>1, LooksOn DEF Finding
    <2>2. WorldOK'
      BY <1>1, <1>2 DEF IInv, WorldOK
    <2>3. QED
      BY <1>1, <1>2, <2>1, <2>2, TabsKept DEF To
  <1>3. CASE focus' = focus /\ Answer(r, "unreachable")
    BY <1>1, <1>3, AnswerIInv DEF Answers, Browser
  <1>4. QED
    BY <1>2, <1>3 DEF SwitchTab

\* A script is injected only into a page that is allowed.
LEMMA Injected ==
    ASSUME IInv, NEW t \in Tabs, Injectable(t), tab' = [tab EXCEPT ![t].script = TRUE],
           UNCHANGED <<access, focus, current, changes, listed>>
    PROVE  WorldOK' /\ TabsMoved /\ tab'[t].script /\ tab'[t].doc = tab[t].doc
  <1>1. /\ tab \in [Tabs -> Pages] /\ tab[t] \in Pages /\ tab'[t] = [tab[t] EXCEPT !.script = TRUE]
        /\ \A u \in Tabs \ {t} : tab'[u] = tab[u]
    BY DEF IInv, WorldOK
  <1>2. /\ tab'[t] \in Pages /\ tab'[t].url = tab[t].url /\ tab'[t].doc = tab[t].doc
        /\ tab'[t].open = tab[t].open /\ tab'[t].script /\ tab'[t].invoked = tab[t].invoked
    BY <1>1 DEF Pages
  <1>3. tab' \in [Tabs -> Pages]
    BY <1>1, <1>2
  <1>4. Origin[tab[t].url] \in listed \union Required
    BY <1>1, RequestsAssumption DEF Injectable, MayRead, IInv, WorldOK, Pages
  <1>5. WorldOK'
    BY <1>1, <1>2, <1>3, <1>4 DEF IInv, WorldOK
  <1>6. \A u \in Tabs : tab[u].doc \in Nat
    BY <1>1, RequestsAssumption DEF Pages
  <1>7. TabsMoved
    BY <1>1, <1>2, <1>6 DEF TabsMoved, Moved
  <1>8. QED
    BY <1>2, <1>5, <1>7

LEMMA InjectToReadIInv == ASSUME IInv, NEW r \in Requests, InjectToRead(r) PROVE IInv'
  <1>1. /\ req[r].at = "inject" /\ ReqOK(req[r]) /\ req[r].tab \in Tabs
        /\ UNCHANGED <<access, focus, current, changes, listed>>
    BY DEF InjectToRead, IInv, ReqsOK, ReqOK, Steady, Located, Finding, Looking
  <1>2. CASE Injectable(req[r].tab)
    <2>1. tab' = [tab EXCEPT ![req[r].tab].script = TRUE] /\ To(r, "reading")
      BY <1>2 DEF InjectToRead
    <2>2. WorldOK' /\ TabsMoved
      BY <1>1, <1>2, <2>1, Injected
    <2>3. PICK q : q = [req[r] EXCEPT !.at = "reading"]
      OBVIOUS
    <2>4. ReqOK(q)
      BY <1>1, <2>3, LooksOn DEF Finding
    <2>5. ReqOK(q)'
      BY <2>2, <2>4, ReqStays DEF IInv, WorldOK
    <2>6. QED
      BY <2>1, <2>2, <2>3, <2>5, TabsStep DEF To
  <1>3. CASE ~Injectable(req[r].tab)
    BY <1>1, <1>3, AnswerIInv DEF InjectToRead, Answers, Browser
  <1>4. QED
    BY <1>2, <1>3

LEMMA ReadPageIInv == ASSUME IInv, NEW r \in Requests, ReadPage(r) PROVE IInv'
  BY AnswerIInv DEF ReadPage, Answers
-----------------------------------------------------------------------------
(* Acting on the page *)

\* A second attempt follows only a first one that nobody heard or answered.
LEMMA AttemptsAgain ==
    ASSUME NEW q, ReqOK(q), q.at = "send", q.attempt = 0
    PROVE  ReqOK([q EXCEPT !.at = "reinject"])
  <1> DEFINE e == [q EXCEPT !.at = "reinject"]
  <1>1. q \in ReqRecords /\ "reinject" \in Stages
    BY DEF ReqOK, Steady, Stages
  <1>2. /\ e \in ReqRecords
        /\ e.at = "reinject" /\ e.kind = q.kind /\ e.answer = q.answer /\ e.tab = q.tab /\ e.url = q.url
        /\ e.doc = q.doc /\ e.attempt = q.attempt /\ e.pending = q.pending
        /\ e.performed = q.performed /\ e.asked = q.asked
    BY <1>1, StageFields
  <1> HIDE DEF e
  <1>3. Steady(e)
    BY <1>2 DEF ReqOK, Steady, Located, Finding, Looking
  <1>4. Tracked(e)
    BY <1>2 DEF ReqOK, Steady, Tracked, Located, Finding, Looking, Leaving
  <1>5. QED
    BY <1>3, <1>4 DEF ReqOK, e

LEMMA SendUnheardIInv == ASSUME IInv, NEW r \in Requests, SendUnheard(r) PROVE IInv'
  <1>1. /\ req[r].at = "send" /\ ReqOK(req[r]) /\ ~Receives(req[r].tab) /\ UNCHANGED Browser
        /\ req[r].attempt \in 0..1 /\ req[r].kind \in Sent
    BY DEF SendUnheard, IInv, ReqsOK, ReqRecords, ReqOK, Steady
  <1>2. CASE req[r].attempt = 0
    BY <1>1, <1>2, AttemptsAgain, BrowserKept DEF SendUnheard, To
  <1>3. CASE req[r].attempt = 1
    <2>1. Left(req[r])
      BY <1>1, <1>3 DEF ReqOK, Tracked, Left, Receives
    <2>2. ReqOK([req[r] EXCEPT !.at = "settle"])
      BY <1>1, <2>1, LeavesOn
    <2>3. req' = [req EXCEPT ![r] = [req[r] EXCEPT !.at = "settle"]]
      BY <1>3 DEF SendUnheard, To
    <2>4. QED
      BY <1>1, <2>2, <2>3, BrowserKept
  <1>4. QED
    BY <1>1, <1>2, <1>3

LEMMA SendHeardIInv == ASSUME IInv, NEW r \in Requests, SendHeard(r) PROVE IInv'
  <1> DEFINE doc == tab[req[r].tab].doc
             q == [req[r] EXCEPT !.at = "acting", !.pending = TRUE, !.asked = TRUE, !.acted = doc]
  <1>1. /\ req[r].at = "send" /\ ReqOK(req[r]) /\ Receives(req[r].tab) /\ UNCHANGED Browser
        /\ req' = [req EXCEPT ![r] = q] /\ req[r].kind = "click"
    BY DEF SendHeard, IInv, ReqsOK
  <1>2. req[r].tab \in Tabs /\ req[r].performed = 0
    BY <1>1 DEF ReqOK, Steady, Located, Looking
  <1>3. /\ doc \in 0..MaxLoads /\ tab[req[r].tab].script /\ doc = tab[req[r].tab].doc
        /\ req[r] \in ReqRecords /\ "acting" \in Stages
    BY <1>1, <1>2 DEF IInv, WorldOK, Pages, Receives, ReqOK, Steady, Stages
  <1> HIDE DEF doc
  <1>4. q \in ReqRecords
    BY <1>3 DEF ReqRecords
  <1>5. /\ q.at = "acting" /\ q.performed = 0 /\ q.acted = doc /\ q.pending
        /\ q.tab = req[r].tab /\ q.url = req[r].url /\ q.doc = req[r].doc
        /\ q.answer = req[r].answer /\ q.asked /\ q.kind = req[r].kind
    BY <1>1, <1>2, <1>3 DEF ReqOK, Steady, ReqRecords
  <1> HIDE DEF q
  <1>6. Steady(q)
    BY <1>1, <1>2, <1>4, <1>5 DEF ReqOK, Steady, Finding, Looking
  <1>7. Tracked(q)
    BY <1>1, <1>2, <1>3, <1>5, <1>6, RequestsAssumption
       DEF ReqOK, Steady, Tracked, Located, Finding, Looking, Leaving
  <1>8. QED
    BY <1>1, <1>6, <1>7, BrowserKept DEF ReqOK

\* An action that the page gets round to has not been performed before.
LEMMA PageActsIInv == ASSUME IInv, NEW r \in Requests, PageActs(r) PROVE IInv'
  <1> DEFINE once == req[r].performed + 1
             q == [req[r] EXCEPT !.pending = FALSE, !.performed = once]
  <1>1. /\ ReqOK(req[r]) /\ req[r].kind = "click" /\ req[r].pending /\ UNCHANGED Browser
        /\ req' = [req EXCEPT ![r] = q]
    BY DEF PageActs, IInv, ReqsOK
  <1>2. once = 1 /\ once \in 0..2 /\ req[r] \in ReqRecords
    BY <1>1 DEF ReqOK, Steady
  <1> HIDE DEF once
  <1>3. /\ q \in ReqRecords /\ q.at = req[r].at /\ q.performed = 1 /\ ~q.pending
        /\ q.answer = req[r].answer /\ q.tab = req[r].tab /\ q.url = req[r].url
        /\ q.doc = req[r].doc /\ q.attempt = req[r].attempt /\ q.acted = req[r].acted
        /\ q.asked = req[r].asked /\ q.moved = req[r].moved
        /\ q.kind = req[r].kind /\ q.saw = req[r].saw
    BY <1>2 DEF ReqRecords
  <1> HIDE DEF q
  <1>4. req[r].asked /\ req[r].at \notin Looking \union {"new", "query"}
    BY <1>1 DEF ReqOK, Steady, Finding, Looking, Sent
  <1>5. Steady(q)
    BY <1>1, <1>3, <1>4 DEF ReqOK, Steady, Located, Finding, Looking
  <1>6. Tracked(q)
    BY <1>1, <1>3 DEF ReqOK, Tracked, Located, Left
  <1>7. QED
    BY <1>1, <1>5, <1>6, BrowserKept DEF ReqOK

LEMMA SendRefusedIInv == ASSUME IInv, NEW r \in Requests, SendRefused(r) PROVE IInv'
  <1>1. req[r].at = "send" /\ ReqOK(req[r]) /\ UNCHANGED Browser
    BY DEF SendRefused, IInv, ReqsOK
  <1>2. CASE req[r].attempt = 0
    BY <1>1, <1>2, AttemptsAgain, BrowserKept DEF SendRefused, To
  <1>3. CASE req[r].attempt # 0
    BY <1>1, <1>3, AnswerIInv DEF SendRefused, Answers
  <1>4. QED
    BY <1>2, <1>3

LEMMA InjectToActIInv == ASSUME IInv, NEW r \in Requests, InjectToAct(r) PROVE IInv'
  <1>1. /\ req[r].at = "reinject" /\ ReqOK(req[r]) /\ req[r].tab \in Tabs /\ req[r].attempt = 0
        /\ UNCHANGED <<access, focus, current, changes, listed>>
    BY DEF InjectToAct, IInv, ReqsOK, ReqOK, Steady, Located, Finding, Looking
  <1>2. CASE Injectable(req[r].tab)
    <2>1. /\ tab' = [tab EXCEPT ![req[r].tab].script = TRUE]
          /\ req' = [req EXCEPT ![r] = [req[r] EXCEPT !.at = "send", !.attempt = req[r].attempt + 1]]
      BY <1>2 DEF InjectToAct
    <2>2. WorldOK' /\ TabsMoved /\ tab'[req[r].tab].script /\ tab'[req[r].tab].doc = tab[req[r].tab].doc
      BY <1>1, <1>2, <2>1, Injected
    <2>3. PICK p, q : p = req[r] /\ q = [req[r] EXCEPT !.at = "send", !.attempt = 1]
      OBVIOUS
    <2>4. ReqOK(p)'
      BY <1>1, <2>2, <2>3, ReqStays DEF IInv, WorldOK
    <2>5. /\ p.at = "reinject" /\ p.tab \in Tabs /\ tab'[p.tab].script /\ ReqOK(p)
          /\ q = [p EXCEPT !.at = "send", !.attempt = 1] /\ 1 \in 0..1
      BY <1>1, <2>2, <2>3
    <2>6. /\ q \in ReqRecords /\ q.at = "send" /\ q.answer = p.answer /\ q.tab = p.tab /\ q.url = p.url
          /\ q.doc = p.doc /\ q.performed = p.performed /\ q.asked = p.asked /\ q.pending = p.pending
          /\ q.kind = p.kind
      BY <2>5 DEF ReqOK, Steady, ReqRecords, Stages
    <2>7. Steady(q)'
      BY <2>5, <2>6 DEF ReqOK, Steady, Located, Finding, Looking
    <2>8. Tracked(q)'
      BY <2>4, <2>5, <2>6, <2>7 DEF ReqOK, Steady, Tracked, Located, Finding, Looking, Leaving
    <2>9. req' = [req EXCEPT ![r] = q]
      BY <1>1, <2>1, <2>3
    <2>10. QED
      BY <2>2, <2>7, <2>8, <2>9, TabsStep DEF ReqOK
  <1>3. CASE ~Injectable(req[r].tab)
    BY <1>1, <1>3, AnswerIInv DEF InjectToAct, Answers, Browser
  <1>4. QED
    BY <1>2, <1>3

LEMMA ActSettlesIInv == ASSUME IInv, NEW r \in Requests, ActSettles(r) PROVE IInv'
  BY AnswerIInv DEF ActSettles, Answers
\* The document that was acted on has gone, and with it the page that was found.
LEMMA ActTornDownIInv == ASSUME IInv, NEW r \in Requests, ActTornDown(r) PROVE IInv'
  <1> DEFINE q == [req[r] EXCEPT !.at = "settle", !.pending = FALSE, !.acted = 0]
  <1>1. /\ req[r].at = "acting" /\ ReqOK(req[r]) /\ ~StillThere(r) /\ UNCHANGED Browser
        /\ req' = [req EXCEPT ![r] = q]
    BY DEF ActTornDown, IInv, ReqsOK
  <1>2. req[r].tab \in Tabs /\ req[r] \in ReqRecords
    BY <1>1 DEF ReqOK, Steady, Located
  <1>3. tab[req[r].tab].doc \in Nat /\ req[r].doc \in Nat /\ req[r].acted \in Nat
    BY <1>2, RequestsAssumption DEF IInv, WorldOK, Pages, ReqRecords
  <1>4. Left(req[r]) /\ req[r].doc <= tab[req[r].tab].doc
    BY <1>1, <1>3 DEF ReqOK, Tracked, Left, StillThere, Receives, Located
  <1>5. /\ q \in ReqRecords /\ q.at = "settle" /\ ~q.pending
        /\ q.answer = req[r].answer /\ q.tab = req[r].tab /\ q.doc = req[r].doc
        /\ q.performed = req[r].performed /\ q.asked = req[r].asked /\ q.moved = req[r].moved
        /\ q.kind = req[r].kind
    <2>1. 0 \in 0..MaxLoads /\ "settle" \in Stages
      BY RequestsAssumption DEF Stages
    <2>2. QED
      BY <1>2, <2>1 DEF ReqRecords
  <1> HIDE DEF q
  <1>6. Steady(q)
    BY <1>1, <1>2, <1>5 DEF ReqOK, Steady, Located, Finding, Looking
  <1>7. Tracked(q)
    BY <1>4, <1>5 DEF Tracked, Finding, Looking, Left
  <1>8. QED
    BY <1>1, <1>6, <1>7, BrowserKept DEF ReqOK

\* After a timeout the tab is taken to have left because it shows another URL.
LEMMA ActTimesOutIInv == ASSUME IInv, NEW r \in Requests, ActTimesOut(r) PROVE IInv'
  <1> DEFINE q == [req[r] EXCEPT !.at = "settle", !.moved = TRUE]
  <1>1. /\ req[r].at \in {"acting", "reinject"} /\ ReqOK(req[r]) /\ UNCHANGED Browser
        /\ req[r] \in ReqRecords /\ "settle" \in Stages
    BY DEF ActTimesOut, TimesOutAt, IInv, ReqsOK, Stages
  <1>2. CASE Answer(r, "unreachable")
    BY <1>1, <1>2, AnswerIInv DEF Answers
  <1>3. CASE req' = [req EXCEPT ![r] = q]
    <2>1. /\ q \in ReqRecords /\ q.at = "settle" /\ q.answer = req[r].answer /\ q.tab = req[r].tab
          /\ q.doc = req[r].doc /\ q.performed = req[r].performed /\ q.asked = req[r].asked /\ q.moved
          /\ q.pending = req[r].pending /\ q.kind = req[r].kind
      BY <1>1 DEF ReqRecords
    <2> HIDE DEF q
    <2>2. Steady(q)
      BY <1>1, <2>1 DEF ReqOK, Steady, Located, Finding, Looking
    <2>3. Tracked(q)
      BY <1>1, <2>1, <2>2 DEF ReqOK, Steady, Tracked, Located, Finding, Looking, Leaving, Left
    <2>4. QED
      BY <1>1, <1>3, <2>2, <2>3, BrowserKept DEF ReqOK
  <1>4. QED
    BY <1>2, <1>3 DEF ActTimesOut, TimesOutAt

-----------------------------------------------------------------------------
(* Waiting for the page that follows *)

\* An act sent to a page that is leaving it has left.
LEMMA LeavingHasLeft ==
    ASSUME NEW q, ReqOK(q), q.at \in Leaving
    PROVE  Located(q) /\ (q.kind \in Sent => Left(q))
  BY DEF ReqOK, Steady, Tracked, Located, Leaving

LEMMA SettleIInv == ASSUME IInv, NEW r \in Requests, Settle(r) PROVE IInv'
  <1> DEFINE stage == IF ~tab[req[r].tab].open THEN "lost"
                      ELSE IF tab[req[r].tab].ready THEN "arrived" ELSE "waiting"
             q == [req[r] EXCEPT !.at = stage]
  <1>1. /\ req[r].at = "settle" /\ ReqOK(req[r]) /\ UNCHANGED Browser /\ req[r] \in ReqRecords
        /\ req' = [req EXCEPT ![r] = q]
    BY DEF Settle, To, IInv, ReqsOK
  <1>2. req[r].kind \in Sent => Left(req[r])
    BY <1>1, LeavingHasLeft DEF Leaving
  <1>3. CASE stage = "lost"
    <2>1. /\ q \in ReqRecords /\ q.at = "lost" /\ q.answer = req[r].answer /\ q.tab = req[r].tab
          /\ q.performed = req[r].performed /\ q.asked = req[r].asked /\ q.pending = req[r].pending
          /\ q.kind = req[r].kind
      BY <1>1, <1>3 DEF ReqRecords, Stages
    <2> HIDE DEF q, stage
    <2>2. ReqOK(q)
      BY <1>1, <1>2, <2>1 DEF ReqOK, Steady, Tracked, Located, Finding, Looking, Leaving
    <2>3. QED
      BY <1>1, <2>2, BrowserKept
  <1>4. CASE stage # "lost"
    <2>1. stage \in {"arrived", "waiting"}
      BY <1>4
    <2> HIDE DEF stage
    <2>2. ReqOK(q)
      BY <1>1, <1>2, <2>1, LeavesOn DEF Leaving
    <2>3. QED
      BY <1>1, <2>2, BrowserKept
  <1>5. QED
    BY <1>3, <1>4

LEMMA OverdueIInv == ASSUME IInv, NEW r \in Requests, Overdue(r) PROVE IInv'
  <1>1. req[r].at = "waiting" /\ ReqOK(req[r]) /\ UNCHANGED Browser
    BY DEF Overdue, IInv, ReqsOK
  <1>2. CASE To(r, "arrived")
    <2>1. ReqOK([req[r] EXCEPT !.at = "arrived"])
      BY <1>1, LeavingHasLeft, LeavesOn DEF Leaving
    <2>2. QED
      BY <1>1, <1>2, <2>1, BrowserKept DEF To
  <1>3. CASE Answer(r, "unreachable")
    BY <1>1, <1>3, AnswerIInv DEF Answers
  <1>4. QED
    BY <1>2, <1>3 DEF Overdue

LEMMA ArrivedIInv == ASSUME IInv, NEW r \in Requests, Arrived(r) PROVE IInv'
  <1>1. req[r].at = "arrived" /\ ReqOK(req[r]) /\ UNCHANGED Browser
    BY DEF Arrived, IInv, ReqsOK
  <1>2. Located(req[r]) /\ (req[r].kind \in Sent => Left(req[r]))
    BY <1>1, LeavingHasLeft DEF Leaving
  <1>3. Answer(r, "navigated") \/ Answer(r, "refused")
    BY DEF Arrived
  <1>4. QED
    BY <1>1, <1>2, <1>3, AnswerIInv DEF Answers

LEMMA GoTimesOutIInv == ASSUME IInv, NEW r \in Requests, GoTimesOut(r) PROVE IInv'
  BY AnswerIInv DEF GoTimesOut, Answers

\* A tab that shows another page, without a content script unless it keeps its document.
Showing(t, page) ==
    /\ tab' = [tab EXCEPT ![t] = page]
    /\ page.open = tab[t].open /\ page.doc >= tab[t].doc
    /\ page.doc = tab[t].doc => page.script = tab[t].script
    /\ page.script => Origin[page.url] \in listed \union Required
    /\ page.invoked => Origin[page.url] \in listed'

LEMMA Shows ==
    ASSUME IInv, NEW t \in Tabs, NEW page \in Pages, Showing(t, page), access' = access,
           focus' \in Tabs \union {None}, current' = current, changes' \in 0..MaxChanges,
           listed \subseteq listed', listed' \subseteq Origins
    PROVE  WorldOK' /\ TabsMoved
  <1>1. tab \in [Tabs -> Pages] /\ \A d \in Tabs : tab[d].doc \in Nat
    BY RequestsAssumption DEF IInv, WorldOK, Pages
  <1>2. tab' \in [Tabs -> Pages] /\ tab'[t] = page /\ \A d \in Tabs \ {t} : tab'[d] = tab[d]
    BY <1>1 DEF Showing
  <1>3. WorldOK'
    BY <1>2 DEF IInv, WorldOK, Showing
  <1>4. TabsMoved
    BY <1>1, <1>2 DEF TabsMoved, Moved, Showing
  <1>5. QED
    BY <1>3, <1>4

LEMMA Loads ==
    ASSUME IInv, NEW t \in Tabs, NEW u \in Urls, Load(t, u),
           access' = access, focus' \in Tabs \union {None}, current' = current,
           changes' \in 0..MaxChanges, listed' = listed
    PROVE  WorldOK' /\ TabsMoved
  <1> DEFINE next == tab[t].doc + 1
             stays == tab[t].invoked /\ Origin[u] = Origin[tab[t].url]
             page == [tab[t] EXCEPT !.url = u, !.doc = next, !.ready = FALSE, !.script = FALSE,
                                    !.invoked = stays]
  <1>1. tab \in [Tabs -> Pages] /\ tab[t] \in Pages /\ listed \subseteq Origins
    BY DEF IInv, WorldOK
  <1>2. tab[t].doc \in Nat /\ next \in 0..MaxLoads /\ next > tab[t].doc
    BY <1>1, RequestsAssumption DEF Pages, Load
  <1>3. tab' = [tab EXCEPT ![t] = page]
    BY <1>1 DEF Load
  <1>4. stays => Origin[u] \in listed
    BY DEF IInv, WorldOK
  <1>5. stays \in BOOLEAN
    OBVIOUS
  <1> HIDE DEF next, stays
  <1>6. /\ page \in Pages /\ page.open = tab[t].open /\ page.doc = next /\ ~page.script
        /\ page.url = u /\ page.invoked = stays
    BY <1>1, <1>2, <1>5 DEF Pages
  <1> HIDE DEF page
  <1>7. Showing(t, page)
    BY <1>2, <1>3, <1>4, <1>6 DEF Showing
  <1>8. QED
    BY <1>1, <1>6, <1>7, Shows

\* A page that stays in its document stays on its site.
LEMMA Slides ==
    ASSUME IInv, NEW t \in Tabs, NEW u \in Urls, Slide(t, u),
           access' = access, focus' \in Tabs \union {None}, current' = current,
           changes' \in 0..MaxChanges, listed' = listed
    PROVE  WorldOK' /\ TabsMoved
  <1> DEFINE page == [tab[t] EXCEPT !.url = u]
  <1>1. tab \in [Tabs -> Pages] /\ tab[t] \in Pages /\ listed \subseteq Origins
    BY DEF IInv, WorldOK
  <1>2. tab' = [tab EXCEPT ![t] = page] /\ Origin[u] = Origin[tab[t].url]
    BY <1>1 DEF Slide
  <1>3. tab[t].doc \in Nat
    BY <1>1, RequestsAssumption DEF Pages
  <1>4. /\ page \in Pages /\ page.open = tab[t].open /\ page.doc = tab[t].doc
        /\ page.script = tab[t].script /\ page.url = u /\ page.invoked = tab[t].invoked
    BY <1>1 DEF Pages
  <1> HIDE DEF page
  <1>5. /\ page.script => Origin[page.url] \in listed \union Required
        /\ page.invoked => Origin[page.url] \in listed
    BY <1>2, <1>4 DEF IInv, WorldOK
  <1>6. Showing(t, page)
    BY <1>2, <1>3, <1>4, <1>5 DEF Showing
  <1>7. QED
    BY <1>1, <1>4, <1>6, Shows

\* Tabs that stay as they are have moved nowhere.
LEMMA TabsStill == ASSUME WorldOK, UNCHANGED tab PROVE TabsMoved
  BY RequestsAssumption DEF WorldOK, Pages, TabsMoved, Moved

\* A request whose navigation has been carried out keeps everything else.
LEMMA NotPending ==
    ASSUME NEW q, ReqOK(q), q.at # "acting"
    PROVE  ReqOK([q EXCEPT !.pending = FALSE])
  <1> DEFINE e == [q EXCEPT !.pending = FALSE]
  <1>1. q \in ReqRecords
    BY DEF ReqOK, Steady
  <1>2. /\ e \in ReqRecords /\ e.at = q.at /\ e.answer = q.answer /\ e.tab = q.tab /\ e.url = q.url
        /\ e.doc = q.doc /\ e.attempt = q.attempt /\ e.pending = FALSE /\ e.acted = q.acted
        /\ e.performed = q.performed /\ e.asked = q.asked /\ e.moved = q.moved
        /\ e.kind = q.kind /\ e.saw = q.saw
    BY <1>1 DEF ReqRecords
  <1> HIDE DEF e
  <1>3. Steady(e)
    BY <1>2 DEF ReqOK, Steady, Located
  <1>4. Tracked(e)
    BY <1>2 DEF ReqOK, Tracked, Located, Left
  <1>5. QED
    BY <1>3, <1>4 DEF ReqOK, e

\* Chrome does what it was asked for, and a request that waited for that goes on to wait for the
\* page.
LEMMA GoEffectIInv == ASSUME IInv, NEW r \in Requests, GoEffect(r) PROVE IInv'
  <1> DEFINE t == req[r].tab
  <1>1. /\ ReqOK(req[r]) /\ req[r].pending /\ t \in Tabs /\ req[r] \in ReqRecords
        /\ UNCHANGED <<access, focus, current, changes, listed>>
        /\ req[r].kind \notin Sent /\ req[r].at # "acting" /\ req[r].performed = 0
    BY DEF GoEffect, IInv, ReqsOK, ReqOK, Steady, Sent
  <1>2. CASE tab[t].open
    <2> DEFINE stage == IF req[r].at = "start" THEN "loading" ELSE req[r].at
               url == IF req[r].kind = "reload" THEN tab[t].url ELSE req[r].target
    <2>1. /\ Load(t, url) \/ Slide(t, req[r].target) \/ UNCHANGED tab
          /\ req' = [req EXCEPT ![r] = [req[r] EXCEPT !.pending = FALSE, !.performed = 1, !.at = stage]]
      <3>1. /\ Load(t, url) \/ Slide(t, req[r].target) \/ UNCHANGED tab
            /\ req' = [req EXCEPT ![r] = [req[r] EXCEPT !.pending = FALSE, !.at = stage,
                                                       !.performed = req[r].performed + 1]]
        BY <1>2 DEF GoEffect, IInv, ReqsOK
      <3>2. req[r].performed + 1 = 1
        BY <1>1
      <3>3. QED
        BY <1>1, <3>1, <3>2 DEF ReqRecords
    <2>2. url \in Urls /\ req[r].target \in Urls
      BY <1>1 DEF IInv, WorldOK, Pages, ReqRecords
    <2> HIDE DEF url
    <2>3. WorldOK' /\ TabsMoved
      <3>1. focus' \in Tabs \union {None} /\ changes' \in 0..MaxChanges
        BY <1>1 DEF IInv, WorldOK
      <3>2. CASE Load(t, url)
        BY <1>1, <2>2, <3>1, <3>2, Loads
      <3>3. CASE Slide(t, req[r].target)
        BY <1>1, <2>2, <3>1, <3>3, Slides
      <3>4. CASE UNCHANGED tab
        BY <1>1, <3>4, TabsStill DEF IInv, WorldOK
      <3>5. QED
        BY <2>1, <3>2, <3>3, <3>4
    <2>4. PICK p, q : p = req[r] /\ q = [req[r] EXCEPT !.pending = FALSE, !.performed = 1, !.at = stage]
      OBVIOUS
    <2>5. ReqOK(p) /\ ReqOK(p)' /\ p \in ReqRecords
      BY <1>1, <2>3, <2>4, ReqStays DEF IInv, WorldOK
    <2>6. /\ q = [p EXCEPT !.pending = FALSE, !.performed = 1, !.at = IF p.at = "start" THEN "loading" ELSE p.at]
          /\ req' = [req EXCEPT ![r] = q]
          /\ p.kind \notin Sent /\ p.at # "acting" /\ p.pending
      BY <1>1, <2>1, <2>4
    <2>7. /\ q \in ReqRecords /\ q.at = (IF p.at = "start" THEN "loading" ELSE p.at)
          /\ q.answer = p.answer /\ q.tab = p.tab /\ q.url = p.url
          /\ q.doc = p.doc /\ q.attempt = p.attempt /\ q.acted = p.acted
          /\ q.performed = 1 /\ ~q.pending /\ q.asked = p.asked /\ q.moved = p.moved
          /\ q.kind = p.kind /\ q.saw = p.saw
      <3>1. 1 \in 0..2
        OBVIOUS
      <3>2. (IF p.at = "start" THEN "loading" ELSE p.at) \in Stages
        BY <2>5 DEF ReqRecords, Stages
      <3>3. QED
        BY <2>5, <2>6, <3>1, <3>2 DEF ReqRecords
    <2>8. Steady(q)'
      BY <2>5, <2>6, <2>7 DEF ReqOK, Steady, Located, Finding, Looking, Leaving
    <2>9. Tracked(q)'
      BY <2>5, <2>6, <2>7 DEF ReqOK, Tracked, Located, Finding, Looking, Leaving
    <2>10. QED
      BY <2>3, <2>6, <2>8, <2>9, TabsStep DEF ReqOK
  <1>3. CASE ~tab[t].open
    <2> DEFINE q == IF req[r].at = "start" THEN [Finished(req[r], "unreachable") EXCEPT !.pending = FALSE]
                    ELSE [req[r] EXCEPT !.pending = FALSE]
    <2>1. req' = [req EXCEPT ![r] = q] /\ UNCHANGED Browser
      BY <1>1, <1>3 DEF GoEffect, Browser, IInv, ReqsOK
    <2>2. ReqOK(Finished(req[r], "unreachable"))
      BY <1>1, FinishedOK DEF Answers
    <2>3. ReqOK(q)
      <3>1. Finished(req[r], "unreachable").at # "acting"
        BY <1>1 DEF Finished, ReqRecords
      <3>2. QED
        BY <1>1, <2>2, <3>1, NotPending
    <2>4. QED
      BY <2>1, <2>3, BrowserKept
  <1>4. QED
    BY <1>2, <1>3

-----------------------------------------------------------------------------
(* The browser and its user *)

\* Whoever waits for a tab hears that it is ready,
LEMMA InformedOK ==
    ASSUME IInv, NEW q, ReqOK(q), q.at \in {"waiting", "start", "loading"}
    PROVE  ReqOK(Informed(q))
  <1> DEFINE url == IF q.kind = "navigate" THEN tab[q.tab].url ELSE q.url
             e == [q EXCEPT !.at = "arrived", !.url = url]
  <1>1. q \in ReqRecords /\ q.tab \in Tabs /\ "arrived" \in Stages
    BY DEF ReqOK, Steady, Stages, Located, Looking, Leaving
  <1>2. url \in Urls
    BY <1>1 DEF IInv, WorldOK, Pages, ReqRecords
  <1>3. q.doc <= tab[q.tab].doc /\ (q.kind \in Sent => Left(q))
    BY DEF ReqOK, Steady, Tracked, Located, Looking, Leaving
  <1>4. e = Informed(q)
    BY DEF Informed
  <1> HIDE DEF url
  <1>5. /\ e \in ReqRecords /\ e.at = "arrived" /\ e.answer = q.answer /\ e.tab = q.tab
        /\ e.doc = q.doc /\ e.performed = q.performed /\ e.asked = q.asked /\ e.moved = q.moved
        /\ e.pending = q.pending /\ e.kind = q.kind
    BY <1>1, <1>2 DEF ReqRecords
  <1> HIDE DEF e
  <1>6. Steady(e)
    BY <1>1, <1>5 DEF ReqOK, Steady, Finding, Looking
  <1>7. Tracked(e)
    BY <1>3, <1>5 DEF Tracked, Finding, Looking, Left
  <1>8. QED
    BY <1>4, <1>6, <1>7 DEF ReqOK

\* or is given the tab itself.
LEMMA StartedIInv == ASSUME IInv, NEW r \in Requests, Started(r) PROVE IInv'
  <1>1. /\ ReqOK(req[r]) /\ req[r].at \in {"waiting", "start", "loading"}
        /\ req' = [req EXCEPT ![r] = Informed(req[r])] /\ UNCHANGED Browser
    BY DEF Started, IInv, ReqsOK
  <1>2. QED
    BY <1>1, InformedOK, BrowserKept

LEMMA HeardIInv ==
    ASSUME IInv, NEW t \in Tabs, Heard(t), WorldOK', TabsMoved
    PROVE  IInv'
  <1>1. ASSUME NEW r \in Requests PROVE ReqOK(req'[r])
    <2>1. ReqOK(req[r])
      BY DEF IInv, ReqsOK
    <2>2. CASE Waits(r, t)
      BY <2>1, <2>2, InformedOK DEF Heard, Waits
    <2>3. CASE ~Waits(r, t)
      BY <2>1, <2>3 DEF Heard
    <2>4. QED
      BY <2>2, <2>3
  <1>2. ASSUME NEW r \in Requests PROVE ReqOK(req[r])'
    <2>1. PICK q : q = req'[r]
      OBVIOUS
    <2>2. ReqOK(q)'
      BY <1>1, <2>1, ReqStays DEF IInv, WorldOK
    <2>3. QED
      BY <2>1, <2>2 DEF ReqOK, Steady, Tracked, Located, Left
  <1>3. req' = [r \in Requests |-> req'[r]]
    BY DEF Heard
  <1>4. req' \in [Requests -> ReqRecords]
    BY <1>1, <1>3 DEF ReqOK, Steady
  <1>5. QED
    BY <1>2, <1>4 DEF IInv, ReqsOK

\* What the user and the pages do leaves the requests as they are.
LEMMA WorldMoves ==
    ASSUME IInv, WorldOK', TabsMoved, UNCHANGED req
    PROVE  IInv'
  <1>1. ASSUME NEW r \in Requests PROVE ReqOK(req[r])'
    <2>1. PICK q : q = req[r]
      OBVIOUS
    <2>2. ReqOK(q)'
      BY <2>1, ReqStays DEF IInv, ReqsOK, WorldOK
    <2>3. QED
      BY <2>1, <2>2 DEF ReqOK, Steady, Tracked, Located, Left
  <1>2. QED
    BY <1>1 DEF IInv, ReqsOK

LEMMA LoadedIInv == ASSUME IInv, NEW t \in Tabs, Loaded(t) PROVE IInv'
  <1> DEFINE page == [tab[t] EXCEPT !.ready = TRUE]
  <1>1. /\ tab \in [Tabs -> Pages] /\ tab[t] \in Pages /\ Heard(t)
        /\ tab' = [tab EXCEPT ![t] = page] /\ UNCHANGED <<access, focus, current, changes, listed>>
    BY DEF Loaded, IInv, WorldOK
  <1>2. /\ page \in Pages /\ page.open = tab[t].open /\ page.url = tab[t].url /\ page.doc = tab[t].doc
        /\ page.script = tab[t].script /\ page.invoked = tab[t].invoked
    BY <1>1 DEF Pages
  <1> HIDE DEF page
  <1>3. tab' \in [Tabs -> Pages] /\ tab'[t] = page /\ \A d \in Tabs \ {t} : tab'[d] = tab[d]
    BY <1>1, <1>2
  <1>4. WorldOK'
    BY <1>1, <1>2, <1>3 DEF IInv, WorldOK
  <1>5. TabsMoved
    <2>1. \A d \in Tabs : tab[d].doc \in Nat
      BY <1>1, RequestsAssumption DEF Pages
    <2>2. QED
      BY <1>2, <1>3, <2>1 DEF TabsMoved, Moved
  <1>6. QED
    BY <1>1, <1>4, <1>5, HeardIInv

LEMMA UpdatesIInv == ASSUME IInv, NEW t \in Tabs, Updates(t) PROVE IInv'
  <1>1. Heard(t) /\ UNCHANGED Browser
    BY DEF Updates
  <1>2. WorldOK' /\ TabsMoved
    BY <1>1, TabsStill DEF IInv, WorldOK, Browser
  <1>3. QED
    BY <1>1, <1>2, HeardIInv

LEMMA NavigatesIInv == ASSUME IInv, NEW t \in Tabs, NEW u \in Urls, Navigates(t, u) PROVE IInv'
  <1>1. /\ Load(t, u) \/ Slide(t, u)
        /\ UNCHANGED <<access, focus, listed, req, current>>
        /\ changes < MaxChanges /\ changes' = changes + 1
    BY DEF Navigates, Intervenes
  <1>2. changes' \in 0..MaxChanges /\ focus' \in Tabs \union {None}
    BY <1>1, RequestsAssumption DEF IInv, WorldOK
  <1>3. WorldOK' /\ TabsMoved
    BY <1>1, <1>2, Loads, Slides
  <1>4. QED
    BY <1>1, <1>3, WorldMoves

\* Where the user has opened the extension the site is listed.
LEMMA InvokesIInv == ASSUME IInv, NEW t \in Tabs, Invokes(t) PROVE IInv'
  <1> DEFINE page == [tab[t] EXCEPT !.invoked = TRUE]
  <1>1. /\ tab \in [Tabs -> Pages] /\ tab[t] \in Pages /\ listed' = listed \union {Origin[tab[t].url]}
        /\ tab' = [tab EXCEPT ![t] = page] /\ UNCHANGED <<access, focus, req, current>>
        /\ changes < MaxChanges /\ changes' = changes + 1
    BY DEF Invokes, Intervenes, IInv, WorldOK
  <1>2. changes' \in 0..MaxChanges /\ focus' \in Tabs \union {None}
    BY <1>1, RequestsAssumption DEF IInv, WorldOK
  <1>3. listed \subseteq listed' /\ listed' \subseteq Origins
    BY <1>1, RequestsAssumption DEF IInv, WorldOK, Pages
  <1>4. tab[t].doc \in Nat
    BY <1>1, RequestsAssumption DEF Pages
  <1>5. /\ page \in Pages /\ page.open = tab[t].open /\ page.url = tab[t].url /\ page.doc = tab[t].doc
        /\ page.script = tab[t].script
    BY <1>1 DEF Pages
  <1> HIDE DEF page
  <1>6. /\ page.script => Origin[page.url] \in listed \union Required
        /\ Origin[page.url] \in listed'
    BY <1>1, <1>5 DEF IInv, WorldOK
  <1>7. Showing(t, page)
    BY <1>1, <1>4, <1>5, <1>6 DEF Showing
  <1>8. WorldOK' /\ TabsMoved
    BY <1>1, <1>2, <1>3, <1>5, <1>7, Shows
  <1>9. QED
    BY <1>1, <1>8, WorldMoves

LEMMA ClosesIInv == ASSUME IInv, NEW t \in Tabs, Closes(t) PROVE IInv'
  <1> DEFINE page == [tab[t] EXCEPT !.open = FALSE]
  <1>1. /\ tab \in [Tabs -> Pages] /\ tab[t] \in Pages /\ tab[t].open
        /\ tab' = [tab EXCEPT ![t] = page] /\ UNCHANGED <<access, listed, req, current>>
        /\ changes < MaxChanges /\ changes' = changes + 1
    BY DEF Closes, Intervenes, IInv, WorldOK
  <1>2. changes' \in 0..MaxChanges
    BY <1>1, RequestsAssumption DEF IInv, WorldOK
  <1>3. focus' \in Tabs \union {None}
    BY DEF Closes, IInv, WorldOK
  <1>4. /\ page \in Pages /\ ~page.open /\ page.url = tab[t].url /\ page.doc = tab[t].doc
        /\ page.script = tab[t].script /\ page.invoked = tab[t].invoked
    BY <1>1 DEF Pages
  <1> HIDE DEF page
  <1>5. tab' \in [Tabs -> Pages] /\ tab'[t] = page /\ \A d \in Tabs \ {t} : tab'[d] = tab[d]
    BY <1>1, <1>4
  <1>6. WorldOK'
    BY <1>1, <1>2, <1>3, <1>4, <1>5 DEF IInv, WorldOK
  <1>7. TabsMoved
    <2>1. \A d \in Tabs : tab[d].doc \in Nat
      BY <1>1, RequestsAssumption DEF Pages
    <2>2. QED
      BY <1>1, <1>4, <1>5, <2>1 DEF TabsMoved, Moved
  <1>8. QED
    BY <1>1, <1>6, <1>7, WorldMoves

LEMMA FocusesIInv == ASSUME IInv, NEW t \in Tabs, Focuses(t) PROVE IInv'
  <1>1. /\ focus' = t /\ UNCHANGED <<access, tab, listed, req, current>>
        /\ changes < MaxChanges /\ changes' = changes + 1
    BY DEF Focuses, Intervenes
  <1>2. changes' \in 0..MaxChanges
    BY <1>1, RequestsAssumption DEF IInv, WorldOK
  <1>3. WorldOK' /\ TabsMoved
    BY <1>1, <1>2, TabsStill DEF IInv, WorldOK
  <1>4. QED
    BY <1>1, <1>3, WorldMoves

\* A site that has once been allowed stays listed, so that a script it has let in may stay.
LEMMA AccessChangesIInv ==
    ASSUME IInv, NEW o \in Origins, NEW level \in Levels, AccessChanges(o, level)
    PROVE  IInv'
  <1>1. /\ access' = [access EXCEPT ![o] = level]
        /\ listed' = IF level = "none" THEN listed ELSE listed \union {o}
        /\ UNCHANGED <<tab, focus, req, current>>
        /\ changes < MaxChanges /\ changes' = changes + 1
    BY DEF AccessChanges, Intervenes
  <1>2. changes' \in 0..MaxChanges
    BY <1>1, RequestsAssumption DEF IInv, WorldOK
  <1>3. WorldOK' /\ TabsMoved
    BY <1>1, <1>2, TabsStill DEF IInv, WorldOK
  <1>4. QED
    BY <1>1, <1>3, WorldMoves

LEMMA InitIInv == ASSUME Init PROVE IInv
  <1>1. PICK t \in Tabs : focus = t
    BY DEF Init
  <1>2. Home[t] \in Urls
    BY <1>1, RequestsAssumption
  <1>3. \A u \in Urls : Page(u) \in Pages /\ ~Page(u).script /\ ~Page(u).invoked
    BY RequestsAssumption DEF Page, Pages
  <1>4. tab \in [Tabs -> Pages] /\ \A d \in Tabs : ~tab[d].script /\ ~tab[d].invoked
    BY <1>3, RequestsAssumption DEF Init
  <1>5. WorldOK
    BY <1>1, <1>4, RequestsAssumption DEF Init, WorldOK, Levels
  <1>6. ASSUME NEW q \in Asks PROVE ReqOK(q)
    <2>1. /\ (CHOOSE u \in Urls : TRUE) \in Urls
          /\ (CHOOSE u \in Tabs : TRUE) \in Tabs
      BY <1>1, <1>2
    <2>2. PICK kind \in Kinds, url \in Urls, pick \in Tabs : q = NewRequest(kind, url, pick)
      BY <2>1, <1>6, RequestsAssumption DEF Asks, Kinds
    <2>3. NoAccess \in [Origins -> Levels] /\ 0 \in 0..MaxLoads
      BY RequestsAssumption DEF NoAccess, Levels
    <2>4. /\ q \in ReqRecords /\ q.at = "new" /\ q.answer = "none" /\ q.performed = 0
          /\ q.attempt = 0 /\ ~q.asked /\ ~q.pending
      BY <2>2, <2>3 DEF NewRequest, ReqRecords, Stages, Answers
    <2>5. QED
      BY <2>4 DEF ReqOK, Steady, Tracked, Located, Finding, Looking, Leaving
  <1>7. ReqsOK
    BY <1>6 DEF Init, ReqsOK, ReqOK, Steady
  <1>8. QED
    BY <1>5, <1>7 DEF IInv

LEMMA NextIInv == ASSUME IInv, [Next]_vars PROVE IInv'
  <1>1. ASSUME NEW r \in Requests, Work(r) PROVE IInv'
    BY <1>1, FindTabIInv, MarkIInv, ListGrantsIInv, ResolveTabIInv, GateIInv, SwitchTabIInv,
       SendUnheardIInv, SendHeardIInv, SendRefusedIInv, ActTimesOutIInv, SettleIInv, OverdueIInv,
       ArrivedIInv, GoTimesOutIInv DEF Work
  <1>2. ASSUME NEW r \in Requests, PageAnswers(r) PROVE IInv'
    BY <1>2, InjectToReadIInv, ReadPageIInv, InjectToActIInv, PageActsIInv, ActSettlesIInv,
       ActTornDownIInv, GoEffectIInv, StartedIInv DEF PageAnswers
  <1>3. CASE World
    BY <1>3, LoadedIInv, UpdatesIInv, ClosesIInv, FocusesIInv, InvokesIInv, NavigatesIInv,
       AccessChangesIInv, RequestsAssumption DEF World
  <1>4. CASE UNCHANGED vars
    <2>1. WorldOK' /\ TabsMoved
      BY <1>4, TabsStill DEF vars, IInv, WorldOK
    <2>2. QED
      BY <1>4, <2>1, WorldMoves DEF vars
  <1>5. QED
    BY <1>1, <1>2, <1>3, <1>4 DEF Next

-----------------------------------------------------------------------------
(* Theorems *)

LEMMA Invariance == Spec => []IInv
  <1>1. Init => IInv
    BY InitIInv
  <1>2. IInv /\ [Next]_vars => IInv'
    BY NextIInv
  <1>3. QED
    BY <1>1, <1>2, PTL DEF Spec

\* Every step of the handlers, the browser and the user keeps every variable in its set.
THEOREM TypeCorrect == Spec => []TypeOK
  <1>1. IInv => TypeOK
    BY DEF IInv, WorldOK, ReqsOK, TypeOK, Pages, ReqRecords
  <1>2. QED
    BY <1>1, Invariance, PTL

\* However often messages are lost, sent again or timed out, no request acts twice.
THEOREM ActsOnce == Spec => []PerformedAtMostOnce
  <1>1. IInv => PerformedAtMostOnce
    BY DEF IInv, ReqsOK, ReqOK, Steady, PerformedAtMostOnce
  <1>2. QED
    BY <1>1, Invariance, PTL

\* An act that its page does not hear, or stops hearing, is answered `navigated` only when that
\* page is gone.
THEOREM NavigatedIsTrue == Spec => []NavigatedMeansLeft
  <1>1. IInv => NavigatedMeansLeft
    BY DEF IInv, ReqsOK, ReqOK, Tracked, Left, Sent, NavigatedMeansLeft
  <1>2. QED
    BY <1>1, Invariance, PTL

\* The page acted on is of a site of the manifest, or one that the user has allowed or opened the
\* extension on at some time, whatever the tab has loaded and the user has revoked since the site
\* was checked.
THEOREM OnlyListed == Spec => []OnlyListedPagesAreActedOn
  <1>1. ASSUME IInv, NEW r \in Requests, req[r].at = "acting" \/ req[r].pending, StillThere(r)
        PROVE  Origin[tab[req[r].tab].url] \in listed \union Required
    BY <1>1 DEF IInv, WorldOK, ReqsOK, ReqOK, Steady, Located, StillThere, Receives
  <1>2. IInv => OnlyListedPagesAreActedOn
    BY <1>1 DEF OnlyListedPagesAreActedOn
  <1>3. QED
    BY <1>2, Invariance, PTL

\* A request stops marking its tab by marking it.
LEMMA OnlyMark ==
    ASSUME IInv, [Next]_vars, NEW r \in Requests, req[r].at = "mark", req'[r].at # "mark"
    PROVE  Mark(r)
  <1>1. req \in [Requests -> ReqRecords]
    BY DEF IInv, ReqsOK
  <1>2. ASSUME NEW p \in Requests, Work(p), p # r PROVE FALSE
    BY <1>1, <1>2 DEF Work, FindTab, FindIn, Mark, ListGrants, ResolveTab, Gate, SwitchTab, SendUnheard,
       SendHeard, SendRefused, ActTimesOut, TimesOutAt, Settle, Overdue, Arrived, GoTimesOut, To, Answer
  <1>3. ASSUME Work(r) PROVE Mark(r)
    BY <1>3 DEF Work, FindTab, FindIn, ListGrants, ResolveTab, Gate, SwitchTab, SendUnheard,
       SendHeard, SendRefused, ActTimesOut, TimesOutAt, Settle, Overdue, Arrived, GoTimesOut
  <1>4. ASSUME NEW p \in Requests, PageAnswers(p), p # r PROVE FALSE
    BY <1>1, <1>4 DEF PageAnswers, InjectToRead, ReadPage, InjectToAct, PageActs, ActSettles, ActTornDown,
       GoEffect, Started, To, Answer
  <1>5. ASSUME PageAnswers(r) PROVE FALSE
    BY <1>1, <1>5 DEF PageAnswers, InjectToRead, ReadPage, InjectToAct, PageActs, ActSettles, ActTornDown,
       GoEffect, Started, ReqRecords
  <1>6. ASSUME World PROVE FALSE
    BY <1>1, <1>6 DEF World, Loaded, Updates, Heard, Waits, Informed, Closes, Focuses, Invokes, Navigates,
       AccessChanges, Intervenes
  <1>7. CASE UNCHANGED vars
    BY <1>7 DEF vars
  <1>8. QED
    BY <1>2, <1>3, <1>4, <1>5, <1>6, <1>7 DEF Next

\* However reads and switches overtake each other, a read moves the agent off an open tab only
\* when it had looked before that tab was recorded.
THEOREM ReadsFollow == Spec => ReadsFollowTheSwitch
  <1>1. ASSUME IInv, [Next]_vars, NEW r \in Requests,
               req[r].kind = "read", req[r].at = "mark", req'[r].at # "mark",
               current # None, tab[current].open, current' # current
        PROVE  req[r].saw # current
    <2>1. current' = req[r].tab
      BY <1>1, OnlyMark DEF Mark
    <2>2. Tracked(req[r])
      BY <1>1 DEF IInv, ReqsOK, ReqOK
    <2>3. QED
      BY <1>1, <2>1, <2>2 DEF Tracked
  <1>2. IInv /\ [Next]_vars =>
          [\A r \in Requests :
             req[r].kind = "read" /\ req[r].at = "mark" /\ req'[r].at # "mark"
             /\ current # None /\ tab[current].open /\ current' # current
               => req[r].saw # current]_vars
    BY <1>1
  <1>3. QED
    BY <1>2, Invariance, PTL DEF Spec, ReadsFollowTheSwitch

-----------------------------------------------------------------------------
(* Going on *)

LEMMA Places ==
    /\ Place["new"] = 0 /\ Place["query"] = 1 /\ Place["switch"] = 2 /\ Place["mark"] = 3
    /\ Place["gate"] = 4 /\ Place["inject"] = 5 /\ Place["reading"] = 6 /\ Place["send"] = 7
    /\ Place["reinject"] = 8 /\ Place["acting"] = 10 /\ Place["settle"] = 11
    /\ Place["start"] = 12 /\ Place["loading"] = 13 /\ Place["waiting"] = 14
    /\ Place["arrived"] = 15 /\ Place["done"] = 16 /\ Place["lost"] = 16
  BY DEF Place

LEMMA PlaceType == \A s \in Stages : Place[s] \in 0..16
  BY Places DEF Stages

\* A later stage is further on, but for a second attempt at sending that goes back to inject.
LEMMA Ahead ==
    ASSUME NEW q, NEW e, q.attempt \in 0..1, e.attempt \in 0..1, q.at \in Stages, e.at \in Stages,
           Place[e.at] > Place[q.at],
           q.at = "send" /\ e.at = "reinject" => q.attempt = 0
    PROVE  Reached(e) > Reached(q)
  <1>1. Place[q.at] \in 0..16 /\ Place[e.at] \in 0..16
    BY PlaceType
  <1>2. CASE q.at # "send"
    BY <1>1, <1>2 DEF Reached
  <1>3. CASE q.at = "send"
    <2>1. Place[q.at] = 7 /\ e.at # "send"
      BY <1>1, <1>3, Places
    <2>2. CASE e.at = "reinject"
      BY <1>3, <2>1, <2>2, Places DEF Reached
    <2>3. CASE e.at # "reinject"
      <3>1. Place[e.at] >= 10
        BY <2>1, <2>3, Places DEF Stages
      <3>2. Reached(e) = Place[e.at]
        BY <1>1, <2>1 DEF Reached
      <3>3. Reached(q) = 7 + 2 * q.attempt
        BY <1>3, <2>1 DEF Reached
      <3>4. QED
        BY <1>1, <3>1, <3>2, <3>3
    <2>4. QED
      BY <2>2, <2>3
  <1>4. QED
    BY <1>2, <1>3

\* Where a step leaves a request.
GoesOn(r) == req'[r].at # req[r].at => Reached(req'[r]) > Reached(req[r])

LEMMA AheadIn ==
    ASSUME IInv, IInv', NEW r \in Requests, Place[req'[r].at] > Place[req[r].at],
           req[r].at = "send" /\ req'[r].at = "reinject" => req[r].attempt = 0
    PROVE  GoesOn(r)
  <1>1. PICK q, e : q = req[r] /\ e = req'[r]
    OBVIOUS
  <1>2. q \in ReqRecords /\ e \in ReqRecords
    BY <1>1 DEF IInv, ReqsOK
  <1>3. /\ q.attempt \in 0..1 /\ e.attempt \in 0..1 /\ q.at \in Stages /\ e.at \in Stages
    BY <1>2 DEF ReqRecords
  <1>4. Reached(e) > Reached(q)
    BY <1>1, <1>3, Ahead
  <1>5. QED
    BY <1>1, <1>4 DEF GoesOn

LEMMA ToAt ==
    ASSUME IInv, NEW r \in Requests, NEW s, To(r, s)
    PROVE  /\ req'[r].at = s
           /\ \A p \in Requests \ {r} : req'[p] = req[p]
  BY DEF IInv, ReqsOK, ReqRecords, To

LEMMA AnswerAt ==
    ASSUME IInv, NEW r \in Requests, NEW a, Answer(r, a)
    PROVE  /\ req'[r].at = "done"
           /\ \A p \in Requests \ {r} : req'[p] = req[p]
  BY DEF IInv, ReqsOK, ReqRecords, Answer, Finished

\* Every step of a handler leaves the other requests alone,
Alone(r) == \A p \in Requests \ {r} : req'[p] = req[p]

LEMMA StepsAlone ==
    ASSUME IInv, NEW r \in Requests, Work(r) \/ PageAnswers(r)
    PROVE  Alone(r)
  <1>1. req \in [Requests -> ReqRecords]
    BY DEF IInv, ReqsOK
  <1>2. CASE Work(r)
    BY <1>1, <1>2 DEF Alone, Work, FindTab, FindIn, Mark, ListGrants, ResolveTab, Gate, SwitchTab,
       SendUnheard, SendHeard, SendRefused, ActTimesOut, TimesOutAt, Settle, Overdue, Arrived,
       GoTimesOut, To, Answer
  <1>3. CASE PageAnswers(r)
    BY <1>1, <1>3 DEF Alone, PageAnswers, InjectToRead, ReadPage, InjectToAct, PageActs, ActSettles,
       ActTornDown, GoEffect, Started, To, Answer
  <1>4. QED
    BY <1>2, <1>3

\* takes its own request on from where it is, or leaves it there.
LEMMA WorkGoesOn == ASSUME IInv, IInv', NEW r \in Requests, Work(r) PROVE GoesOn(r)
  <1>1. req[r] \in ReqRecords /\ req \in [Requests -> ReqRecords]
    BY DEF IInv, ReqsOK
  <1>2. CASE FindTab(r)
    <2>1. req[r].at = "new" /\ req'[r].at \in {"mark", "gate", "done"}
      BY <1>1, <1>2, AnswerAt DEF FindTab, FindIn, ReqRecords
    <2>2. QED
      BY <2>1, AheadIn, Places
  <1>3. CASE Mark(r)
    <2>1. req[r].at = "mark" /\ req'[r].at \in {"gate", "inject"}
      BY <1>3, ToAt DEF Mark
    <2>2. QED
      BY <2>1, AheadIn, Places
  <1>4. CASE ListGrants(r)
    <2>1. req[r].at = "new" /\ req'[r].at = "query"
      BY <1>1, <1>4 DEF ListGrants, ReqRecords
    <2>2. QED
      BY <2>1, AheadIn, Places
  <1>5. CASE ResolveTab(r)
    <2>1. req[r].at = "query" /\ req'[r].at \in {"switch", "done"}
      BY <1>1, <1>5, AnswerAt DEF ResolveTab, ReqRecords
    <2>2. QED
      BY <2>1, AheadIn, Places
  <1>6. CASE Gate(r)
    <2>1. req[r].at = "gate" /\ req'[r].at \in {"inject", "send", "start", "done"}
      BY <1>1, <1>6, AnswerAt DEF Gate, ReqRecords
    <2>2. QED
      BY <2>1, AheadIn, Places
  <1>7. CASE SwitchTab(r)
    <2>1. req[r].at = "switch" /\ req'[r].at \in {"mark", "done"}
      BY <1>7, ToAt, AnswerAt DEF SwitchTab
    <2>2. QED
      BY <2>1, AheadIn, Places
  <1>8. CASE SendUnheard(r) \/ SendRefused(r)
    <2>1. /\ req[r].at = "send" /\ req'[r].at \in {"reinject", "settle", "done"}
          /\ req'[r].at = "reinject" => req[r].attempt = 0
      BY <1>8, ToAt, AnswerAt DEF SendUnheard, SendRefused
    <2>2. QED
      BY <2>1, AheadIn, Places
  <1>9. CASE SendHeard(r)
    <2>1. req[r].at = "send" /\ req'[r].at = "acting"
      BY <1>1, <1>9 DEF SendHeard, ReqRecords
    <2>2. QED
      BY <2>1, AheadIn, Places
  <1>10. CASE ActTimesOut(r)
    <2>1. req[r].at \in {"acting", "reinject"} /\ req'[r].at \in {"settle", "done"}
      BY <1>1, <1>10, AnswerAt DEF ActTimesOut, TimesOutAt, ReqRecords
    <2>2. QED
      BY <2>1, AheadIn, Places
  <1>11. CASE Settle(r)
    <2>1. req[r].at = "settle" /\ req'[r].at \in {"lost", "arrived", "waiting"}
      BY <1>11, ToAt DEF Settle
    <2>2. QED
      BY <2>1, AheadIn, Places
  <1>12. CASE Overdue(r) \/ Arrived(r) \/ GoTimesOut(r)
    <2>1. \/ req[r].at \in {"waiting", "arrived", "start", "loading"} /\ req'[r].at = "done"
          \/ req[r].at = "waiting" /\ req'[r].at = "arrived"
      BY <1>12, ToAt, AnswerAt DEF Overdue, Arrived, GoTimesOut
    <2>2. QED
      BY <2>1, AheadIn, Places
  <1>13. QED
    BY <1>2, <1>3, <1>4, <1>5, <1>6, <1>7, <1>8, <1>9, <1>10, <1>11, <1>12 DEF Work

\* Chrome starts the navigation, or finds that there is no tab to start it in.
LEMMA GoEffectDoes ==
    ASSUME IInv, NEW r \in Requests, GoEffect(r)
    PROVE  /\ req[r].pending /\ req[r].performed = 0 /\ ~req'[r].pending
           /\ req'[r].asked = req[r].asked
           /\ \/ /\ req'[r].performed = 1 /\ req'[r].answer = req[r].answer
                 /\ req'[r].at = IF req[r].at = "start" THEN "loading" ELSE req[r].at
              \/ /\ req'[r].performed = 0 /\ req'[r].answer = req[r].answer
                 /\ req'[r].at = req[r].at
              \/ /\ req'[r].performed = 0 /\ req'[r].answer = "unreachable"
                 /\ req[r].at = "start" /\ req'[r].at = "done"
  <1>1. /\ req \in [Requests -> ReqRecords] /\ req[r] \in ReqRecords
        /\ req[r].pending /\ req[r].performed = 0
    BY DEF GoEffect, IInv, ReqsOK, ReqOK, Steady
  <1>2. CASE tab[req[r].tab].open
    <2>1. req'[r] = [req[r] EXCEPT !.pending = FALSE, !.performed = req[r].performed + 1,
                                   !.at = IF req[r].at = "start" THEN "loading" ELSE req[r].at]
      BY <1>1, <1>2 DEF GoEffect
    <2>2. QED
      BY <1>1, <2>1 DEF ReqRecords
  <1>3. CASE ~tab[req[r].tab].open /\ req[r].at = "start"
    <2>1. PICK f : f = Finished(req[r], "unreachable")
      OBVIOUS
    <2>2. req'[r] = [f EXCEPT !.pending = FALSE]
      BY <1>1, <1>3, <2>1 DEF GoEffect
    <2>3. /\ f \in ReqRecords /\ f.at = "done" /\ f.answer = "unreachable" /\ f.performed = 0
          /\ f.asked = req[r].asked
      BY <1>1, <2>1, FinishedFields DEF Answers
    <2>4. QED
      BY <1>1, <1>3, <2>2, <2>3 DEF ReqRecords
  <1>4. CASE ~tab[req[r].tab].open /\ req[r].at # "start"
    <2>1. req'[r] = [req[r] EXCEPT !.pending = FALSE]
      BY <1>1, <1>4 DEF GoEffect
    <2>2. QED
      BY <1>1, <2>1 DEF ReqRecords
  <1>5. QED
    BY <1>2, <1>3, <1>4

LEMMA PageGoesOn == ASSUME IInv, IInv', NEW r \in Requests, PageAnswers(r) PROVE GoesOn(r)
  <1>1. req[r] \in ReqRecords /\ req \in [Requests -> ReqRecords]
    BY DEF IInv, ReqsOK
  <1>2. CASE InjectToRead(r) \/ ReadPage(r)
    <2>1. \/ req[r].at = "inject" /\ req'[r].at \in {"reading", "done"}
          \/ req[r].at = "reading" /\ req'[r].at = "done"
      BY <1>2, ToAt, AnswerAt DEF InjectToRead, ReadPage
    <2>2. QED
      BY <2>1, AheadIn, Places
  <1>3. CASE InjectToAct(r)
    <2>1. req[r].at = "reinject" /\ req[r].attempt = 0
      BY <1>3 DEF InjectToAct, IInv, ReqsOK, ReqOK, Steady
    <2>2. CASE Answer(r, "unreachable")
      BY <2>1, <2>2, AnswerAt, AheadIn, Places
    <2>3. CASE req' = [req EXCEPT ![r].at = "send", ![r].attempt = @ + 1]
      <3>1. req'[r].at = "send" /\ req'[r].attempt = 1
        BY <1>1, <2>1, <2>3 DEF ReqRecords
      <3>2. Reached(req'[r]) = 9 /\ Reached(req[r]) = 8
        BY <2>1, <3>1, Places DEF Reached
      <3>3. QED
        BY <3>2 DEF GoesOn
    <2>4. QED
      BY <1>3, <2>2, <2>3 DEF InjectToAct
  <1>4. CASE PageActs(r)
    BY <1>1, <1>4 DEF PageActs, ReqRecords, GoesOn
  <1>5. CASE ActSettles(r) \/ ActTornDown(r)
    <2>1. req[r].at = "acting" /\ req'[r].at \in {"settle", "done"}
      BY <1>1, <1>5, AnswerAt DEF ActSettles, ActTornDown, ReqRecords
    <2>2. QED
      BY <2>1, AheadIn, Places
  <1>6. CASE GoEffect(r)
    <2>1. \/ req[r].at = "start" /\ req'[r].at \in {"loading", "done"}
          \/ req'[r].at = req[r].at
      BY <1>6, GoEffectDoes
    <2>2. QED
      BY <2>1, AheadIn, Places DEF GoesOn
  <1>7. CASE Started(r)
    <2>1. req[r].at \in {"start", "loading"} /\ req'[r].at = "arrived"
      BY <1>1, <1>7 DEF Started, Informed, ReqRecords
    <2>2. QED
      BY <2>1, AheadIn, Places
  <1>8. QED
    BY <1>2, <1>3, <1>4, <1>5, <1>6, <1>7 DEF PageAnswers

\* Who hears of a page goes on to it, and nothing else the world does moves a request.
LEMMA WorldGoesOn == ASSUME IInv, IInv', NEW r \in Requests, World PROVE GoesOn(r)
  <1>1. req[r] \in ReqRecords
    BY DEF IInv, ReqsOK
  <1>2. ASSUME NEW t \in Tabs, Heard(t) PROVE GoesOn(r)
    <2>1. CASE Waits(r, t)
      <3>1. req[r].at \in {"waiting", "start", "loading"} /\ req'[r].at = "arrived"
        BY <1>1, <1>2, <2>1 DEF Heard, Waits, Informed, ReqRecords
      <3>2. QED
        BY <3>1, AheadIn, Places
    <2>2. CASE ~Waits(r, t)
      BY <1>2, <2>2 DEF Heard, GoesOn
    <2>3. QED
      BY <2>1, <2>2
  <1>3. CASE UNCHANGED req
    BY <1>3 DEF GoesOn
  <1>4. QED
    BY <1>2, <1>3 DEF World, Loaded, Updates, Closes, Focuses, Invokes, Navigates, AccessChanges,
       Intervenes

\* However messages, deadlines, reloads and events of the page interleave, a request is never
\* taken back: with the places there are it makes at most sixteen moves.
THEOREM RequestsGoOn == Spec => RequestsOnlyGoOn
  <1>1. ASSUME IInv, IInv', [Next]_vars, NEW r \in Requests PROVE GoesOn(r)
    <2>1. ASSUME NEW p \in Requests, Work(p) \/ PageAnswers(p) PROVE GoesOn(r)
      <3>1. CASE p = r
        BY <1>1, <2>1, <3>1, WorkGoesOn, PageGoesOn
      <3>2. CASE p # r
        <4>1. Alone(p)
          BY <1>1, <2>1, StepsAlone
        <4>2. QED
          BY <3>2, <4>1 DEF Alone, GoesOn
      <3>3. QED
        BY <3>1, <3>2
    <2>2. CASE World
      BY <1>1, <2>2, WorldGoesOn
    <2>3. CASE UNCHANGED vars
      BY <2>3 DEF vars, GoesOn
    <2>4. QED
      BY <1>1, <2>1, <2>2, <2>3 DEF Next
  <1>2. IInv /\ IInv' /\ [Next]_vars =>
          [\A r \in Requests :
             req'[r].at # req[r].at => Reached(req'[r]) > Reached(req[r])]_vars
    BY <1>1 DEF GoesOn
  <1>3. QED
    BY <1>2, Invariance, PTL DEF Spec, RequestsOnlyGoOn

-----------------------------------------------------------------------------
(* Errands *)

\* What a step may make of one request, from q to e: nothing the agent can tell,
Rests(q, e) == Told(e) = Told(q) /\ Effect(e) = Effect(q)

\* the request for its effect, the effect, that there will be none,
AsksFor(q, e) == /\ Told(q) = "none" /\ Told(e) = "none"
                 /\ Effect(q) = "none" /\ Effect(e) = "asked"
Happens(q, e) == Told(e) = Told(q) /\ Effect(q) = "asked" /\ Effect(e) = "done"
Voids(q, e) == /\ Effect(q) = "asked" /\ Effect(e) = "void"
               /\ Told(e) = Told(q) \/ (Told(q) = "none" /\ Told(e) = "unreachable")

\* or an answer.
Tells(q, e) ==
    /\ Told(q) = "none" /\ Effect(e) = Effect(q)
    /\ \/ Effect(q) = "done" /\ Told(e) = "result"
       \/ Effect(q) = "none" /\ Told(e) \in {"page", "ambiguous"}
       \/ Told(e) \in {"navigated", "unreachable", "refused", "lost"}

Errand(q, e) == Rests(q, e) \/ AsksFor(q, e) \/ Happens(q, e) \/ Voids(q, e) \/ Tells(q, e)
GoesAbout(r) == Errand(req[r], req'[r])

\* Those steps are the abstract ones.
LEMMA ErrandOfOne ==
    ASSUME NEW r \in Requests, GoesAbout(r)
    PROVE  Agreed!Rest(r) \/ Agreed!Ask(r) \/ Agreed!Happen(r) \/ Agreed!Void(r) \/ Agreed!Tell(r)
  <1>1. CASE Rests(req[r], req'[r])
    BY <1>1 DEF Rests, Agreed!Rest, Agreed!TellsNothing
  <1>2. CASE AsksFor(req[r], req'[r])
    BY <1>2 DEF AsksFor, Agreed!Ask, Agreed!Unanswered, Agreed!Becomes, Agreed!TellsNothing
  <1>3. CASE Happens(req[r], req'[r])
    BY <1>3 DEF Happens, Agreed!Happen, Agreed!Becomes, Agreed!TellsNothing
  <1>4. CASE Voids(req[r], req'[r])
    BY <1>4 DEF Voids, Agreed!Void, Agreed!Becomes, Agreed!TellsNothing, Agreed!Tells, Agreed!Unanswered
  <1>5. CASE Tells(req[r], req'[r])
    BY <1>5 DEF Tells, Agreed!Tell, Agreed!Becomes, Agreed!Tells, Agreed!Unanswered
  <1>6. QED
    BY <1>1, <1>2, <1>3, <1>4, <1>5 DEF GoesAbout, Errand

\* A request that keeps its answer, and what became of its effect, has rested.
LEMMA RestsIf ==
    ASSUME NEW q, NEW e, e.answer = q.answer, e.pending = q.pending, e.performed = q.performed,
           e.asked = q.asked, e.at # "lost", q.at # "lost"
    PROVE  Errand(q, e)
  BY DEF Errand, Rests, Told, Effect

\* What the agent is told of a request under way: nothing yet.
LEMMA NotTold ==
    ASSUME NEW q, Steady(q), q.at \notin {"done", "lost"}
    PROVE  q.answer = "none" /\ Told(q) = "none"
  BY DEF Steady, Told

LEMMA Fields == ASSUME IInv, NEW r \in Requests
                PROVE  req \in [Requests -> ReqRecords] /\ req[r] \in ReqRecords /\ Steady(req[r])
  BY DEF IInv, ReqsOK, ReqOK

\* A handler that goes on to another stage tells nothing,
LEMMA ToGoesAbout ==
    ASSUME IInv, NEW r \in Requests, NEW s \in Stages, s # "lost", req[r].at # "lost", To(r, s)
    PROVE  GoesAbout(r)
  <1>1. PICK q, e : q = req[r] /\ e = req'[r]
    OBVIOUS
  <1>2. q \in ReqRecords /\ e = [q EXCEPT !.at = s]
    BY <1>1, Fields DEF To
  <1>3. /\ e.at = s /\ e.answer = q.answer /\ e.pending = q.pending /\ e.performed = q.performed
        /\ e.asked = q.asked
    BY <1>2, StageFields
  <1>4. Errand(q, e)
    BY <1>1, <1>3, RestsIf
  <1>5. QED
    BY <1>1, <1>4 DEF GoesAbout

\* and one that answers tells what it may tell.
LEMMA AnswerGoesAbout ==
    ASSUME IInv, NEW r \in Requests, NEW a \in Answers, Answer(r, a), a # "none",
           req[r].at \notin {"done", "lost"},
           a = "result" => Effect(req[r]) = "done",
           a \in {"page", "ambiguous"} => Effect(req[r]) = "none"
    PROVE  GoesAbout(r)
  <1>1. PICK q, e : q = req[r] /\ e = req'[r]
    OBVIOUS
  <1>2. q \in ReqRecords /\ Steady(q) /\ e = Finished(q, a)
    BY <1>1, Fields DEF Answer
  <1>3. /\ e.at = "done" /\ e.answer = a /\ e.pending = q.pending /\ e.performed = q.performed
        /\ e.asked = q.asked
    BY <1>2, FinishedFields
  <1>4. Told(q) = "none" /\ Told(e) = a /\ Effect(e) = Effect(q)
    BY <1>1, <1>2, <1>3, NotTold DEF Told, Effect
  <1>5. Errand(q, e)
    BY <1>1, <1>4 DEF Errand, Tells, Answers
  <1>6. QED
    BY <1>1, <1>5 DEF GoesAbout

\* A request that is only looking has asked for nothing.
LEMMA NothingAsked ==
    ASSUME NEW q, Steady(q), q.at \in (Looking \ {"start"}) \union {"new", "query"}
    PROVE  Effect(q) = "none"
  BY DEF Steady, Effect, ReqRecords

LEMMA FindTabErrand == ASSUME IInv, NEW r \in Requests, FindTab(r) PROVE GoesAbout(r)
  <1>1. CASE Answer(r, "unreachable")
    BY <1>1, AnswerGoesAbout DEF FindTab, FindIn, Answers
  <1>2. CASE ~Answer(r, "unreachable")
    <2>1. PICK q, e : q = req[r] /\ e = req'[r]
      OBVIOUS
    <2>2. /\ q.at = "new" /\ q \in ReqRecords /\ e.at \in {"mark", "gate"}
          /\ e.answer = q.answer /\ e.pending = q.pending /\ e.performed = q.performed
          /\ e.asked = q.asked
      BY <1>2, <2>1, Fields DEF FindTab, FindIn, ReqRecords
    <2>3. Errand(q, e)
      BY <2>2, RestsIf
    <2>4. QED
      BY <2>1, <2>3 DEF GoesAbout
  <1>3. QED
    BY <1>1, <1>2

LEMMA ListGrantsErrand == ASSUME IInv, NEW r \in Requests, ListGrants(r) PROVE GoesAbout(r)
  <1>1. PICK q, e : q = req[r] /\ e = req'[r]
    OBVIOUS
  <1>2. /\ q.at = "new" /\ q \in ReqRecords /\ e.at = "query"
        /\ e.answer = q.answer /\ e.pending = q.pending /\ e.performed = q.performed
        /\ e.asked = q.asked
    BY <1>1, Fields DEF ListGrants, ReqRecords
  <1>3. QED
    BY <1>1, <1>2, RestsIf DEF GoesAbout

LEMMA ResolveTabErrand == ASSUME IInv, NEW r \in Requests, ResolveTab(r) PROVE GoesAbout(r)
  <1>1. req[r].at = "query" /\ Effect(req[r]) = "none"
    BY Fields, NothingAsked DEF ResolveTab
  <1>2. CASE Answer(r, "ambiguous") \/ Answer(r, "refused")
    BY <1>1, <1>2, AnswerGoesAbout DEF Answers
  <1>3. CASE ~Answer(r, "ambiguous") /\ ~Answer(r, "refused")
    <2>1. PICK q, e : q = req[r] /\ e = req'[r]
      OBVIOUS
    <2>2. /\ q \in ReqRecords /\ e.at = "switch"
          /\ e.answer = q.answer /\ e.pending = q.pending /\ e.performed = q.performed
          /\ e.asked = q.asked
      BY <1>3, <2>1, Fields DEF ResolveTab, ReqRecords
    <2>3. QED
      BY <1>1, <2>1, <2>2, RestsIf DEF GoesAbout
  <1>4. QED
    BY <1>2, <1>3

\* The gate is where Chrome is asked for a navigation,
LEMMA GateErrand == ASSUME IInv, NEW r \in Requests, Gate(r) PROVE GoesAbout(r)
  <1>1. req[r].at = "gate" /\ Steady(req[r])
    BY Fields DEF Gate
  <1>2. CASE Answer(r, "refused")
    BY <1>1, <1>2, AnswerGoesAbout DEF Answers
  <1>3. CASE ~Answer(r, "refused")
    <2>1. PICK q, e : q = req[r] /\ e = req'[r]
      OBVIOUS
    <2>2. /\ q \in ReqRecords /\ q.answer = "none" /\ Told(q) = "none" /\ Effect(q) = "none"
          /\ ~q.pending /\ ~q.asked
      BY <1>1, <2>1, Fields, NotTold, NothingAsked DEF Finding, Looking, Steady
    <2>3. /\ e.at \in {"inject", "send", "start"} /\ e.pending = (e.at = "start")
          /\ e.answer = q.answer /\ e.performed = q.performed /\ e.asked = (e.at = "start")
      <3>1. PICK go \in {"inject", "send", "start"} :
              req' = [req EXCEPT ![r].at = go, ![r].grants = access,
                                 ![r].pending = go = "start", ![r].asked = go = "start"]
        BY <1>3 DEF Gate
      <3>2. e = [q EXCEPT !.at = go, !.grants = access, !.pending = (go = "start"),
                          !.asked = (go = "start")]
        BY <2>1, <3>1, Fields
      <3>3. QED
        BY <2>2, <3>2 DEF ReqRecords
    <2>4. CASE e.at = "start"
      <3>1. AsksFor(q, e)
        BY <2>2, <2>3, <2>4 DEF AsksFor, Told, Effect
      <3>2. QED
        BY <2>1, <3>1 DEF GoesAbout, Errand
    <2>5. CASE e.at # "start"
      <3>1. /\ e.pending = FALSE /\ q.pending = FALSE
            /\ e.asked = FALSE /\ q.asked = FALSE
        BY <2>2, <2>3, <2>5 DEF ReqRecords
      <3>2. q.at = "gate"
        BY <1>1, <2>1
      <3>3. Errand(q, e)
        BY <2>3, <3>1, <3>2, RestsIf
      <3>4. QED
        BY <2>1, <3>3 DEF GoesAbout
    <2>6. QED
      BY <2>4, <2>5
  <1>4. QED
    BY <1>2, <1>3

\* and the sending of the message where the page is asked for an action.
LEMMA SendHeardErrand == ASSUME IInv, NEW r \in Requests, SendHeard(r) PROVE GoesAbout(r)
  <1>1. PICK q, e : q = req[r] /\ e = req'[r]
    OBVIOUS
  <1>2. q.at = "send" /\ q \in ReqRecords /\ Steady(q)
    BY <1>1, Fields DEF SendHeard
  <1>3. e.at = "acting" /\ e.answer = q.answer /\ e.pending = TRUE
    BY <1>1, <1>2, Fields DEF SendHeard, ReqRecords
  <1>4. Told(q) = "none" /\ Effect(q) = "none" /\ q.answer = "none"
    BY <1>2, NotTold, NothingAsked DEF Looking
  <1>5. Told(e) = "none" /\ Effect(e) = "asked"
    BY <1>3, <1>4 DEF Told, Effect
  <1>6. QED
    BY <1>1, <1>4, <1>5 DEF GoesAbout, Errand, AsksFor

\* The page that performs the action makes its effect happen, whatever has been answered,
LEMMA PageActsErrand == ASSUME IInv, NEW r \in Requests, PageActs(r) PROVE GoesAbout(r)
  <1>1. PICK q, e : q = req[r] /\ e = req'[r]
    OBVIOUS
  <1>2. q.pending = TRUE /\ q \in ReqRecords /\ q.performed = 0
    BY <1>1, Fields DEF PageActs, Steady, ReqRecords
  <1>3. e = [q EXCEPT !.pending = FALSE, !.performed = q.performed + 1]
    BY <1>1, Fields DEF PageActs
  <1>4. e.at = q.at /\ e.answer = q.answer /\ e.pending = FALSE /\ e.performed = 1
    BY <1>2, <1>3 DEF ReqRecords
  <1>5. Told(e) = Told(q) /\ Effect(q) = "asked" /\ Effect(e) = "done"
    BY <1>2, <1>4 DEF Told, Effect
  <1>6. QED
    BY <1>1, <1>5 DEF GoesAbout, Errand, Happens

\* one that goes away before takes the effect with it,
LEMMA ActTornDownErrand == ASSUME IInv, NEW r \in Requests, ActTornDown(r) PROVE GoesAbout(r)
  <1>1. PICK q, e : q = req[r] /\ e = req'[r]
    OBVIOUS
  <1>2. q.at = "acting" /\ q \in ReqRecords /\ Steady(q)
    BY <1>1, Fields DEF ActTornDown
  <1>3. /\ e.at = "settle" /\ e.answer = q.answer /\ e.pending = FALSE
        /\ e.performed = q.performed /\ e.asked = q.asked
    BY <1>1, <1>2, Fields DEF ActTornDown, ReqRecords
  <1>4. Told(e) = Told(q)
    BY <1>2, <1>3 DEF Told
  <1>5. CASE q.pending
    <2>1. q.asked /\ q.performed = 0
      BY <1>2, <1>5 DEF Steady
    <2>2. Effect(q) = "asked" /\ Effect(e) = "void"
      BY <1>3, <1>5, <2>1 DEF Effect
    <2>3. QED
      BY <1>1, <1>4, <2>2 DEF GoesAbout, Errand, Voids
  <1>6. CASE ~q.pending
    <2>1. q.pending = FALSE
      BY <1>2, <1>6 DEF ReqRecords
    <2>2. Effect(e) = Effect(q)
      BY <1>3, <2>1 DEF Effect
    <2>3. QED
      BY <1>1, <1>4, <2>2 DEF GoesAbout, Errand, Rests
  <1>7. QED
    BY <1>5, <1>6

\* and a result is of an action that the page has performed.
LEMMA ActSettlesErrand == ASSUME IInv, NEW r \in Requests, ActSettles(r) PROVE GoesAbout(r)
  <1>1. req[r].at = "acting" /\ ~req[r].pending /\ Steady(req[r]) /\ Answer(r, "result")
    BY Fields DEF ActSettles
  <1>2. Effect(req[r]) = "done"
    BY <1>1 DEF Effect, Steady
  <1>3. QED
    BY <1>1, <1>2, AnswerGoesAbout DEF Answers

\* Chrome starts the navigation, or finds no tab to start it in and may have to say so.
LEMMA GoEffectErrand == ASSUME IInv, NEW r \in Requests, GoEffect(r) PROVE GoesAbout(r)
  <1>1. PICK q, e : q = req[r] /\ e = req'[r]
    OBVIOUS
  <1>2. /\ q.pending /\ q.performed = 0 /\ ~e.pending /\ q \in ReqRecords /\ Steady(q)
        /\ q.asked /\ e.asked = q.asked
        /\ \/ /\ e.performed = 1 /\ e.answer = q.answer
              /\ e.at = IF q.at = "start" THEN "loading" ELSE q.at
           \/ e.performed = 0 /\ e.answer = q.answer /\ e.at = q.at
           \/ e.performed = 0 /\ e.answer = "unreachable" /\ q.at = "start" /\ e.at = "done"
    BY <1>1, Fields, GoEffectDoes DEF Steady
  <1>3. Effect(q) = "asked" /\ Effect(e) = IF e.performed = 1 THEN "done" ELSE "void"
    BY <1>2 DEF Effect
  <1>4. CASE e.performed = 1
    <2>1. Told(e) = Told(q)
      BY <1>2, <1>4 DEF Told
    <2>2. QED
      BY <1>1, <1>3, <1>4, <2>1 DEF GoesAbout, Errand, Happens
  <1>5. CASE e.performed = 0
    <2>1. Told(e) = Told(q) \/ (Told(q) = "none" /\ Told(e) = "unreachable")
      BY <1>2, <1>5, NotTold DEF Told
    <2>2. QED
      BY <1>1, <1>3, <1>5, <2>1 DEF GoesAbout, Errand, Voids
  <1>6. QED
    BY <1>2, <1>4, <1>5

\* A tab that has been closed under an act leaves it without an answer.
LEMMA SettleErrand == ASSUME IInv, NEW r \in Requests, Settle(r) PROVE GoesAbout(r)
  <1>1. req[r].at = "settle" /\ Steady(req[r])
    BY Fields DEF Settle
  <1>2. CASE To(r, "arrived") \/ To(r, "waiting")
    BY <1>1, <1>2, ToGoesAbout DEF Stages
  <1>3. CASE To(r, "lost")
    <2>1. PICK q, e : q = req[r] /\ e = req'[r]
      OBVIOUS
    <2>2. q \in ReqRecords /\ e = [q EXCEPT !.at = "lost"] /\ Told(q) = "none"
      BY <1>1, <1>3, <2>1, Fields, NotTold DEF To
    <2>3. /\ e.at = "lost" /\ e.pending = q.pending /\ e.performed = q.performed
          /\ e.asked = q.asked
      BY <2>2, StageFields DEF Stages
    <2>4. Told(e) = "lost" /\ Effect(e) = Effect(q)
      BY <2>3 DEF Told, Effect
    <2>5. QED
      BY <2>1, <2>2, <2>4 DEF GoesAbout, Errand, Tells
  <1>4. QED
    BY <1>2, <1>3 DEF Settle

LEMMA ActTimesOutErrand == ASSUME IInv, NEW r \in Requests, ActTimesOut(r) PROVE GoesAbout(r)
  <1>1. req[r].at \in {"acting", "reinject"}
    BY DEF ActTimesOut, TimesOutAt
  <1>2. CASE Answer(r, "unreachable")
    BY <1>1, <1>2, AnswerGoesAbout DEF Answers
  <1>3. CASE ~Answer(r, "unreachable")
    <2>1. PICK q, e : q = req[r] /\ e = req'[r]
      OBVIOUS
    <2>2. /\ q \in ReqRecords /\ e.at = "settle"
          /\ e.answer = q.answer /\ e.pending = q.pending /\ e.performed = q.performed
          /\ e.asked = q.asked
      BY <1>3, <2>1, Fields DEF ActTimesOut, TimesOutAt, ReqRecords
    <2>3. Errand(q, e)
      BY <1>1, <2>1, <2>2, RestsIf
    <2>4. QED
      BY <2>1, <2>3 DEF GoesAbout
  <1>4. QED
    BY <1>2, <1>3

LEMMA InjectToActErrand == ASSUME IInv, NEW r \in Requests, InjectToAct(r) PROVE GoesAbout(r)
  <1>1. req[r].at = "reinject"
    BY DEF InjectToAct
  <1>2. CASE Answer(r, "unreachable")
    BY <1>1, <1>2, AnswerGoesAbout DEF Answers
  <1>3. CASE ~Answer(r, "unreachable")
    <2>1. PICK q, e : q = req[r] /\ e = req'[r]
      OBVIOUS
    <2>2. /\ q \in ReqRecords /\ e.at = "send"
          /\ e.answer = q.answer /\ e.pending = q.pending /\ e.performed = q.performed
          /\ e.asked = q.asked
      BY <1>3, <2>1, Fields DEF InjectToAct, ReqRecords
    <2>3. Errand(q, e)
      BY <1>1, <2>1, <2>2, RestsIf
    <2>4. QED
      BY <2>1, <2>3 DEF GoesAbout
  <1>4. QED
    BY <1>2, <1>3

\* The other steps of a handler go on, or give up.
LEMMA WorkErrand == ASSUME IInv, NEW r \in Requests, Work(r) PROVE GoesAbout(r)
  <1>1. CASE Mark(r) \/ SwitchTab(r) \/ SendUnheard(r) \/ SendRefused(r)
    <2>1. req[r].at \in {"mark", "switch", "send"}
      BY <1>1 DEF Mark, SwitchTab, SendUnheard, SendRefused
    <2>2. \/ Answer(r, "unreachable")
          \/ \E s \in {"gate", "inject", "mark", "reinject", "settle"} : To(r, s)
      BY <1>1 DEF Mark, SwitchTab, SendUnheard, SendRefused
    <2>3. QED
      BY <2>1, <2>2, ToGoesAbout, AnswerGoesAbout DEF Stages, Answers
  <1>2. CASE Overdue(r) \/ Arrived(r) \/ GoTimesOut(r)
    <2>1. req[r].at \in {"waiting", "arrived", "start", "loading"}
      BY <1>2 DEF Overdue, Arrived, GoTimesOut
    <2>2. To(r, "arrived") \/ \E a \in {"unreachable", "navigated", "refused"} : Answer(r, a)
      BY <1>2 DEF Overdue, Arrived, GoTimesOut
    <2>3. QED
      BY <2>1, <2>2, ToGoesAbout, AnswerGoesAbout DEF Stages, Answers
  <1>3. QED
    BY <1>1, <1>2, FindTabErrand, ListGrantsErrand, ResolveTabErrand, GateErrand, SendHeardErrand,
       ActTimesOutErrand, SettleErrand DEF Work

\* A request whose tab is ready at once takes its page to be the new one,
LEMMA StartedErrand == ASSUME IInv, NEW r \in Requests, Started(r) PROVE GoesAbout(r)
  <1>1. PICK q, e : q = req[r] /\ e = req'[r]
    OBVIOUS
  <1>2. /\ q.at \in {"start", "loading"} /\ q \in ReqRecords /\ e.at = "arrived"
        /\ e.answer = q.answer /\ e.pending = q.pending /\ e.performed = q.performed
        /\ e.asked = q.asked
    BY <1>1, Fields DEF Started, Informed, ReqRecords
  <1>3. QED
    BY <1>1, <1>2, RestsIf DEF GoesAbout

LEMMA PageErrand == ASSUME IInv, NEW r \in Requests, PageAnswers(r) PROVE GoesAbout(r)
  <1>1. CASE InjectToRead(r) \/ ReadPage(r)
    <2>1. req[r].at \in {"inject", "reading"} /\ Effect(req[r]) = "none"
      BY <1>1, Fields, NothingAsked DEF InjectToRead, ReadPage, Looking, Finding
    <2>2. To(r, "reading") \/ \E a \in {"unreachable", "page"} : Answer(r, a)
      BY <1>1 DEF InjectToRead, ReadPage
    <2>3. QED
      BY <2>1, <2>2, ToGoesAbout, AnswerGoesAbout DEF Stages, Answers
  <1>2. QED
    BY <1>1, InjectToActErrand, PageActsErrand, ActSettlesErrand, ActTornDownErrand, GoEffectErrand,
       StartedErrand DEF PageAnswers

\* To hear of a page is to be told nothing yet.
LEMMA WorldErrand == ASSUME IInv, NEW r \in Requests, World PROVE GoesAbout(r)
  <1>1. req[r] \in ReqRecords
    BY Fields
  <1>2. ASSUME NEW t \in Tabs, Heard(t) PROVE GoesAbout(r)
    <2>1. CASE Waits(r, t)
      <3>1. PICK q, e : q = req[r] /\ e = req'[r]
        OBVIOUS
      <3>2. /\ q.at \in {"waiting", "start", "loading"} /\ e.at = "arrived"
            /\ e.answer = q.answer /\ e.pending = q.pending /\ e.performed = q.performed
            /\ e.asked = q.asked
        BY <1>1, <1>2, <2>1, <3>1 DEF Heard, Informed, Waits, ReqRecords
      <3>3. Errand(q, e)
        BY <3>2, RestsIf
      <3>4. QED
        BY <3>1, <3>3 DEF GoesAbout
    <2>2. CASE ~Waits(r, t)
      BY <1>2, <2>2 DEF Heard, GoesAbout, Errand, Rests
    <2>3. QED
      BY <2>1, <2>2
  <1>3. CASE UNCHANGED req
    BY <1>3 DEF GoesAbout, Errand, Rests
  <1>4. QED
    BY <1>2, <1>3 DEF World, Loaded, Updates, Closes, Focuses, Invokes, Navigates, AccessChanges,
       Intervenes

LEMMA NextErrand == ASSUME IInv, [Next]_vars, NEW r \in Requests PROVE GoesAbout(r)
  <1>1. ASSUME NEW p \in Requests, Work(p) \/ PageAnswers(p) PROVE GoesAbout(r)
    <2>1. CASE p = r
      BY <1>1, <2>1, WorkErrand, PageErrand
    <2>2. CASE p # r
      <3>1. Alone(p)
        BY <1>1, StepsAlone
      <3>2. QED
        BY <2>2, <3>1 DEF Alone, GoesAbout, Errand, Rests
    <2>3. QED
      BY <2>1, <2>2
  <1>2. CASE World
    BY <1>2, WorldErrand
  <1>3. CASE UNCHANGED vars
    BY <1>3 DEF vars, GoesAbout, Errand, Rests
  <1>4. QED
    BY <1>1, <1>2, <1>3 DEF Next

LEMMA ErrandTypes == ASSUME NEW q \in ReqRecords
                     PROVE  Told(q) \in Agreed!Answers /\ Effect(q) \in Agreed!Effects
  <1>1. Told(q) \in Answers \union {"lost"}
    BY DEF Told, ReqRecords
  <1>2. Effect(q) \in {"none", "asked", "done", "void"}
    BY DEF Effect
  <1>3. QED
    BY <1>1, <1>2 DEF Answers, Agreed!Answers, Agreed!Effects

\* The handlers, with their deadlines, retries and late pages, do for each request what an
\* errand may do: its effect is asked for once and before the answer, it happens once, and a
\* result is only reported of what has happened.
THEOREM ErrandsRefinement == Spec => ImplementsErrands
  <1>1. Init => Agreed!Init
    <2>1. ASSUME Init, NEW r \in Requests PROVE Told(req[r]) = "none" /\ Effect(req[r]) = "none"
      <3>1. req[r] \in Asks
        BY <2>1 DEF Init
      <3>2. PICK kind, target, pick : req[r] = NewRequest(kind, target, pick)
        BY <3>1 DEF Asks
      <3>3. QED
        BY <3>2 DEF NewRequest, Told, Effect
    <2>2. QED
      BY <2>1 DEF Agreed!Init
  <1>2. IInv /\ IInv' /\ [Next]_vars => [Agreed!Next]_(Agreed!vars)
    <2>1. SUFFICES ASSUME IInv, IInv', [Next]_vars PROVE Agreed!Next
      OBVIOUS
    <2>2. ASSUME NEW r \in Requests
          PROVE  /\ Told(req'[r]) \in Agreed!Answers /\ Effect(req'[r]) \in Agreed!Effects
                 /\ Agreed!Rest(r) \/ Agreed!Ask(r) \/ Agreed!Happen(r) \/ Agreed!Void(r)
                      \/ Agreed!Tell(r)
      <3>1. req'[r] \in ReqRecords
        BY <2>1 DEF IInv, ReqsOK
      <3>2. GoesAbout(r)
        BY <2>1, NextErrand
      <3>3. QED
        BY <3>1, <3>2, ErrandTypes, ErrandOfOne
    <2>3. QED
      BY <2>2 DEF Agreed!Next
  <1>3. QED
    BY <1>1, <1>2, Invariance, PTL DEF Spec, ImplementsErrands, Agreed!Spec

=============================================================================
