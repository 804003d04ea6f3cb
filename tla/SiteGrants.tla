----------------------------- MODULE SiteGrants -----------------------------
(***************************************************************************)
(* The sites the user allows: the list of grants in chrome.storage.local   *)
(* and the host permissions Chrome holds, as the service worker, the popup *)
(* and the options page read and rewrite them (permissions/storage.ts,     *)
(* permissions/policy.ts, popup.ts, options.ts).  Every call of storage or *)
(* of permissions is an await: other operations run in between.            *)
(***************************************************************************)
EXTENDS Naturals, FiniteSets

CONSTANTS Origins,      \* sites
          Required,     \* those the manifest itself asks for: Chrome never takes them back
          WorkerOps,    \* operations of the service worker,
          PopupOps,     \*   of the popup
          OptionsOps,   \*   and of the options page, by the context that runs them
          Inherited,    \* the sites that may have a grant of an older version to start with
          None,         \* no grant
          Never,        \* the deadline of a permanent grant
          Choices,      \* the choices of access and timer the user makes use of
          Idle,         \* the inactivity window of a timed grant
          MaxTime,      \* bound on the clock
          MaxClicks     \* bound on what the user clicks

Ops == WorkerOps \union PopupOps \union OptionsOps
Tiers == {"read", "full"}

ASSUME GrantsAssumption ==
    /\ Required \subseteq Origins
    /\ Inherited \subseteq SUBSET Origins
    /\ Never \notin Nat
    /\ Choices \subseteq [tier : Tiers, timed : BOOLEAN]
    /\ MaxTime \in Nat
    /\ MaxClicks \in Nat
    /\ Idle \in Nat
    /\ 0 < Idle

\* A timed grant that its use does not renew has no `idle`: older versions stored those.
\* No deadline is further away than one window of inactivity.
Grants == [tier : Tiers, expiresAt : 0..(MaxTime + Idle) \union {Never}, idle : {0, Idle}]

ASSUME NoneAssumption == None \notin Grants

Lists == [Origins -> Grants \union {None}]

\* "use" is a request: it lists, decides, and goes on as "touch".
Deeds == {"list", "use", "touch", "grant", "revoke"}
Stages == {"idle", "get", "purge", "release", "save", "ask", "prompt", "undo", "drop"}

VARIABLES
    now,       \* the clock
    stored,    \* the list in storage: at most one grant for a site
    held,      \* the sites whose host permission Chrome has given
    op,        \* what every operation is doing, and the list it has read
    prompts,   \* permission prompts the user has not answered
    clicks,    \* how often the user has clicked
    wish,      \* history: the grant the user last saved for a site, or None
    mishaps    \* history: what went wrong so far (see Mishaps)

vars == <<now, stored, held, op, prompts, clicks, wish, mishaps>>

NoList == [s \in Origins |-> None]
Rest == [does |-> "list", at |-> "idle", site |-> None, grant |-> None,
         since |-> 0, list |-> NoList, gone |-> {}, fresh |-> TRUE]

(***************************************************************************)
(* The ways in which concurrent operations spoil each other's work.  They  *)
(* are recorded so that the properties can say that nothing else does.     *)
(***************************************************************************)
Mishaps == {"stale write",      \* a list was saved that had been read before another save
            "late removal",     \* a permission was removed from a site allowed again since
            "interrupted",      \* a context went away between two writes of an operation
            "rejected request", \* Chrome rejected a request for a permission, and nothing is undone
            "aborted clean-up", \* a permission that cannot be removed kept others from being removed
            "unheard decline",  \* a prompt was declined and the page that asked was gone
            "late answer"}      \* an answer to a prompt met a grant, or a permission, that had changed since

TypeOK ==
    /\ now \in 0..MaxTime
    /\ stored \in Lists
    /\ held \subseteq Origins
    /\ op \in [Ops -> [does : Deeds, at : Stages, site : Origins \union {None},
                       grant : Grants \union {None}, since : 0..MaxTime, list : Lists,
                       gone : SUBSET Origins, fresh : BOOLEAN]]
    /\ \A o \in Ops : op[o].does # "list" => op[o].site \in Origins
    /\ prompts \subseteq Origins
    /\ clicks \in Nat /\ clicks <= MaxClicks
    /\ wish \in Lists
    /\ mishaps \subseteq Mishaps

-----------------------------------------------------------------------------
\* Behaviours are followed up to their first mishap, after which nothing is promised.
Clean == mishaps = {}
At(o, stage) == Clean /\ op[o].at = stage

-----------------------------------------------------------------------------
(* policy.ts *)

Live(g) == g # None /\ (g.expiresAt = Never \/ g.expiresAt > now)

\* decideAccess
Access(list, s) == [read |-> Live(list[s]), act |-> Live(list[s]) /\ list[s].tier = "full"]

-----------------------------------------------------------------------------
(* storage.ts *)

LiveOnly(list) == [s \in Origins |-> IF Live(list[s]) THEN list[s] ELSE None]
Expired(list) == {s \in Origins : list[s] # None /\ ~Live(list[s])}

Renewable(g) == g # None /\ g.expiresAt # Never /\ g.idle > 0
RenewedOnTop(list, s, t) == [list EXCEPT ![s].expiresAt = @ + list[s].idle]
Renewed(list, s, t) == [list EXCEPT ![s].expiresAt = t + list[s].idle]

\* What an operation does once its listing is complete.
Resumed(r) ==
    CASE r.does = "list" -> Rest
      [] r.does = "use" -> IF Access(r.list, r.site).read
                           THEN [r EXCEPT !.does = "touch", !.at = "get", !.since = now]
                           ELSE Rest
      [] r.does = "touch" -> IF Renewable(r.list[r.site])
                             THEN [r EXCEPT !.at = "save", !.list = Renewed(@, r.site, r.since)]
                             ELSE Rest
      [] r.does \in {"grant", "revoke"} -> [r EXCEPT !.at = "save", !.list[r.site] = None]

\* The popup and the options page list again after what they did.
Render == [Rest EXCEPT !.at = "get"]

\* Operation o has saved and goes on as r: the lists of the others are not up to date any more.
Written(o, r) ==
    [p \in Ops |-> IF p = o THEN r
                  ELSE IF op[p].at \in {"purge", "release", "save", "ask", "prompt", "undo"}
                       THEN [op[p] EXCEPT !.fresh = FALSE]
                       ELSE op[p]]

StaleWrite(o) == IF op[o].fresh THEN {} ELSE {"stale write"}

\* saveGrants, by operation o, which goes on as r.
Write(o, list, r) ==
    /\ stored' = list
    /\ op' = Written(o, r)
    /\ mishaps' = mishaps \union StaleWrite(o)

\* permissions.remove, of a site that was meant to be without a grant.
Remove(s) ==
    /\ held' = held \ {s}
    /\ mishaps' = mishaps \union (IF stored[s] = None THEN {} ELSE {"late removal"})

\* listGrants reads storage.
Get(o) ==
    LET read == [op[o] EXCEPT !.list = LiveOnly(stored), !.gone = Expired(stored), !.fresh = TRUE]
    IN  /\ At(o, "get")
        /\ op' = [op EXCEPT ![o] = IF read.gone = {} THEN Resumed(read)
                                   ELSE [read EXCEPT !.at = "purge"]]
        /\ UNCHANGED <<now, stored, held, prompts, clicks, wish, mishaps>>

\* It drops the grants that have expired,
Purge(o) ==
    /\ At(o, "purge")
    /\ Write(o, op[o].list, [op[o] EXCEPT !.at = "release"])
    /\ UNCHANGED <<now, held, prompts, clicks, wish>>

\* and gives their permissions back, one by one.
Release(o) ==
    /\ At(o, "release")
    /\ \E s \in op[o].gone \ Required :
        LET left == [op[o] EXCEPT !.gone = @ \ {s}]
        IN  /\ Remove(s)
            /\ op' = [op EXCEPT ![o] = IF left.gone = {} THEN Resumed(left) ELSE left]
    /\ UNCHANGED <<now, stored, prompts, clicks, wish>>

\* Chrome rejects the removal of a required one, which ends the operation and with it the loop.
ReleaseRejected(o) ==
    /\ At(o, "release") /\ op[o].gone \intersect Required # {}
    /\ op' = [op EXCEPT ![o] = Rest]
    /\ mishaps' = mishaps \union
          (IF op[o].gone \subseteq Required THEN {} ELSE {"aborted clean-up"})
    /\ UNCHANGED <<now, stored, held, prompts, clicks, wish>>

TouchSaves(o) ==
    /\ At(o, "save") /\ op[o].does = "touch"
    /\ Write(o, op[o].list, Rest)
    /\ UNCHANGED <<now, held, prompts, clicks, wish>>

\* grantSite saves first and asks for the permission afterwards.
GrantSaves(o) ==
    /\ At(o, "save") /\ op[o].does = "grant"
    /\ Write(o, [op[o].list EXCEPT ![op[o].site] = op[o].grant], [op[o] EXCEPT !.at = "ask"])
    /\ wish' = [wish EXCEPT ![op[o].site] = op[o].grant]
    /\ UNCHANGED <<now, held, prompts, clicks>>

\* The permission is there already.
AskGranted(o) ==
    /\ At(o, "ask") /\ op[o].site \in held
    /\ op' = [op EXCEPT ![o] = Render]
    /\ UNCHANGED <<now, stored, held, prompts, clicks, wish, mishaps>>

\* The request is rejected: no user gesture any more, or a site that cannot be asked for.  What
\* was saved stays saved.
AskRejected(o) ==
    /\ At(o, "ask")
    /\ op' = [op EXCEPT ![o] = Rest]
    /\ mishaps' = mishaps \union (IF op[o].site \in held THEN {} ELSE {"rejected request"})
    /\ UNCHANGED <<now, stored, held, prompts, clicks, wish>>

\* Stages at which an operation has made one of its writes and not the next.
Halfway == {"release", "ask", "undo", "drop"}

\* Chrome's prompt closes the popup, with every operation it was running.
AskPrompts(o) ==
    LET closed == IF o \in PopupOps THEN PopupOps ELSE {}
        cut == {p \in closed \ {o} : op[p].at \in Halfway}
    IN  /\ At(o, "ask") /\ op[o].site \notin held
        /\ prompts' = prompts \union {op[o].site}
        /\ op' = [p \in Ops |-> IF p \in closed THEN Rest
                                ELSE IF p = o THEN [op[o] EXCEPT !.at = "prompt"]
                                ELSE op[p]]
        /\ mishaps' = mishaps \union (IF cut = {} THEN {} ELSE {"interrupted"})
        /\ UNCHANGED <<now, stored, held, clicks, wish>>

\* Who still waits for the answer to a prompt.
Asking(s) == {o \in Ops : op[o].at = "prompt" /\ op[o].site = s}

PromptAccepted(s) ==
    /\ Clean /\ s \in prompts
    /\ prompts' = prompts \ {s}
    /\ held' = held \union {s}
    /\ op' = [o \in Ops |-> IF o \in Asking(s) THEN Render ELSE op[o]]
    /\ mishaps' = mishaps \union (IF stored[s] = None THEN {"late answer"} ELSE {})
    /\ UNCHANGED <<now, stored, clicks, wish>>

PromptDeclined(s) ==
    /\ Clean /\ s \in prompts
    /\ prompts' = prompts \ {s}
    /\ op' = [o \in Ops |-> IF o \in Asking(s) THEN [op[o] EXCEPT !.at = "undo"] ELSE op[o]]
    /\ mishaps' = mishaps \union (IF Asking(s) = {} THEN {"unheard decline"} ELSE {})
    /\ UNCHANGED <<now, stored, held, clicks, wish>>

UndoForgotten(o) ==
    /\ At(o, "undo")
    /\ op' = [op EXCEPT ![o] = Rest]
    /\ wish' = [wish EXCEPT ![op[o].site] = None]
    /\ UNCHANGED <<now, stored, held, prompts, clicks, mishaps>>

\* A decline that is heard saves the other grants alone.
Undo(o) ==
    /\ At(o, "undo")
    /\ stored' = op[o].list
    /\ op' = Written(o, Rest)
    /\ mishaps' = mishaps \union StaleWrite(o)
                  \union (IF op[o].site \in held THEN {"late answer"} ELSE {})
    /\ wish' = [wish EXCEPT ![op[o].site] = None]
    /\ UNCHANGED <<now, held, prompts, clicks>>

RevokeSaves(o) ==
    /\ At(o, "save") /\ op[o].does = "revoke"
    /\ Write(o, op[o].list, [op[o] EXCEPT !.at = "drop"])
    /\ wish' = [wish EXCEPT ![op[o].site] = None]
    /\ UNCHANGED <<now, held, prompts, clicks>>

RevokeKeepsPermission(o) ==
    /\ At(o, "drop")
    /\ op' = [op EXCEPT ![o] = Render]
    /\ UNCHANGED <<now, stored, held, prompts, clicks, wish, mishaps>>

RevokeDrops(o) ==
    /\ At(o, "drop") /\ op[o].site \notin Required
    /\ Remove(op[o].site)
    /\ op' = [op EXCEPT ![o] = Render]
    /\ UNCHANGED <<now, stored, prompts, clicks, wish>>

\* A required permission stays; the page shows Chrome's error.
RevokeRejected(o) ==
    /\ At(o, "drop") /\ op[o].site \in Required
    /\ op' = [op EXCEPT ![o] = Rest]
    /\ UNCHANGED <<now, stored, held, prompts, clicks, wish, mishaps>>

-----------------------------------------------------------------------------
(* The service worker, the popup and the options page *)

Start(o, does, s, g) ==
    /\ At(o, "idle")
    /\ op' = [op EXCEPT ![o] = [Rest EXCEPT !.does = does, !.at = "get", !.site = s,
                                          !.grant = g]]
    /\ UNCHANGED <<now, stored, held, prompts, wish, mishaps>>

Click(o, does, s, g) ==
    /\ clicks < MaxClicks
    /\ clicks' = clicks + 1
    /\ Start(o, does, s, g)

\* The alarm reports the number of allowed sites, and a request uses one of them.
WorkerLists == \E o \in WorkerOps : Start(o, "list", None, None) /\ UNCHANGED clicks
WorkerUses(s) == \E o \in WorkerOps : Start(o, "use", s, None) /\ UNCHANGED clicks

\* The grant button, with the chosen access and the chosen timer.
ClickGrant(s) ==
    \E o \in PopupOps \union OptionsOps, c \in Choices :
        Click(o, "grant", s, [tier |-> c.tier,
                              expiresAt |-> IF c.timed THEN now + Idle ELSE Never,
                              idle |-> IF c.timed THEN Idle ELSE 0])

\* The button that removes a site.
ClickRevoke(s) == \E o \in PopupOps \union OptionsOps : Click(o, "revoke", s, None)

\* Chrome stops the worker, or the user closes a page: its operations end where they are.
ContextEnds ==
    \E context \in {WorkerOps, PopupOps, OptionsOps} :
        /\ Clean
        /\ \E o \in context : op[o].at # "idle"
        /\ op' = [o \in Ops |-> IF o \in context THEN Rest ELSE op[o]]
        /\ mishaps' = mishaps \union
              (IF \E o \in context : op[o].at \in Halfway THEN {"interrupted"} ELSE {})
        /\ UNCHANGED <<now, stored, held, prompts, clicks, wish>>

Tick ==
    /\ Clean /\ now < MaxTime
    /\ now' = now + 1
    /\ UNCHANGED <<stored, held, op, prompts, clicks, wish, mishaps>>

\* Grants of an older version have their permissions, and a fixed deadline.
Init ==
    /\ now = 0
    /\ \E old \in Inherited :
          stored = [s \in Origins |-> IF s \in old
                                     THEN [tier |-> "full", expiresAt |-> 1, idle |-> 0]
                                     ELSE None]
    /\ held = Required \union {s \in Origins : stored[s] # None}
    /\ op = [o \in Ops |-> Rest]
    /\ prompts = {}
    /\ clicks = 0
    /\ wish = stored
    /\ mishaps = {}

Step(o) ==
    \/ Get(o) \/ Purge(o) \/ Release(o) \/ ReleaseRejected(o) \/ TouchSaves(o) \/ GrantSaves(o)
    \/ AskGranted(o) \/ AskRejected(o) \/ AskPrompts(o) \/ Undo(o)
    \/ RevokeSaves(o) \/ RevokeDrops(o) \/ RevokeRejected(o)

Next ==
    \/ \E o \in Ops : Step(o)
    \/ WorkerLists
    \/ \E s \in Origins : \/ WorkerUses(s) \/ ClickGrant(s) \/ ClickRevoke(s)
                          \/ PromptAccepted(s) \/ PromptDeclined(s)
    \/ ContextEnds
    \/ Tick

Spec == Init /\ [][Next]_vars

-----------------------------------------------------------------------------
(* Properties *)

Quiet == prompts = {} /\ \A o \in Ops : op[o].at = "idle"

\* Unless one of the mishaps has happened, the list and the permissions agree whenever nothing is
\* under way: Chrome holds the required permissions and those of the sites with a grant, and no
\* others (storage.ts: listGrants, grantSite, revokeSite).
GrantsAndPermissionsAgree ==
    Clean /\ Quiet => held = Required \union {s \in Origins : stored[s] # None}

\* And, under way or not, the list holds what the user asked for last: no removed site is back, no
\* grant has another access or another timer than it was given, and a permanent one is not lost.
ListKeepsTheUsersWish ==
    Clean => \A s \in Origins :
        /\ stored[s] # None => /\ wish[s] # None
                               /\ stored[s].tier = wish[s].tier
                               /\ stored[s].idle = wish[s].idle
        /\ wish[s] # None /\ wish[s].expiresAt = Never => stored[s] = wish[s]

=============================================================================
