# browsight, verified

TLA+ modules, TLC runs and TLAPS proofs about browsight: the MCP server that
gives an agent one browser through a Chrome extension, over a loopback HTTP port.
Paths below are relative to the repository's root.

## 1. The system

| Component | Where | State it keeps | Operations |
|---|---|---|---|
| Bridge request path | `server/src/bridge/bridge.ts`, `extension-channel.ts`, `pending-requests.ts`, `http-router.ts` | the live stream and its waiters; the map of requests in flight with a timer each; extension version; number of allowed sites | `request`, `awaitConnection`, `attach`, detach, response / auth / access.status frames, `reloadConfig`, `close` |
| Listener | `server/src/bridge/listener.ts` | the bound server, the requested port, `listenError` | bind, `moveTo`, `close` |
| Port lease | `server/src/bridge/lazy-bridge.ts`, `start-with-retry.ts`, `server/src/lifecycle/idle.ts`, `shutdown.ts`, `server/src/index.ts` | `current`, `pendingStart`, `generation`, the idle timer, `started` | `ensure`, `release`, `reloadConfig`, idle `touch` / `stop`, shutdown |
| MCP tools | `server/src/mcp.ts`, `server/src/page/*` | none | read, act, tabs, status: one bridge call each |
| Process bookkeeping | `server/src/lifecycle/pidfile.ts`, `parent-watchdog.ts` | pid files, the watchdog's interval | record, forget, list; poll the parent |
| Command line | `scripts/*` | bridge.json, connection.json, the MCP clients' configs | setup, start, stop, doctor, serve |
| Extension connection | `extension/src/service-worker.ts`, `extension/src/transport/*` | attempt in flight, abort controller, failures, dormancy, the keepalive alarm | connect, disconnect, wakeUp, alarm, send |
| Site grants | `extension/src/permissions/*`, `popup.ts`, `options.ts` | the stored grant list, Chrome's host permissions | list, touch, grant, revoke |
| Tool handlers | `extension/src/messaging/*` | the current tab, in session storage | handleRead, handleAct, handleTabs, navigation, deadlines |
| Content script | `extension/src/content.ts`, `acting/*`, `perception/*` | the numbers of the nodes, the last complete snapshot (`basis`) | snapshot with paging, resolve, act, settle, diff |
| Shared protocol | `shared/src/*` | none | schemas |

How they interact. The MCP client starts a server process, which reads
bridge.json and binds nothing. The first browser tool call makes the lazy bridge
start a bridge, that is bind the port; another server process may have it. The
extension's service worker, revived by an alarm, posts an auth frame, opens an
event stream (`attach`) and posts the number of allowed sites. Calls go down the
stream as frames with a random id; the extension answers each with an HTTP
request of its own, which the router hands to the map of pending requests. The
number of allowed sites starts and stops the idle timer, whose firing releases the
port. `setup` rewrites the port under all of them; `browser_status` with
`reload` moves a server after it.

What is hard, and what should hold:

- **Requests.** Responses, timeouts, a dropped stream, a replaced stream, a reload and
  a close compete for the same request. Each call must end exactly once, keep no
  timer, and take no other call's answer.
- **Streams.** The close event of a replaced stream comes late; callers wait for
  a stream that may come, or never.
- **The lease.** Binds, releases and shutdowns race in one process, and processes
  race for the port. Whoever is bound must be the one the calls use.
- **Idling.** Reports from the extension, their absence and their order decide
  whether the port is ever given back.
- **The worker.** Chrome kills it at any time; concurrent connection attempts share
  module state.
- **Grants.** Three scripts read, await and write the same stored list, beside the
  permissions Chrome holds. List, permissions and what the user asked for should agree.
- **Handlers.** A tab's URL and the grants are read before several awaits and used after
  them; tabs navigate, close and lose the focus meanwhile. An act should happen at most
  once, on a page the user allowed, and be answered for what it did.
- **Pages.** A reference should stand for the control it was shown for, while nodes are
  replaced, reused and moved; paging should show each line once.

The hazards, each at its line and with the property that covers it, are in
`PROJECT.json`.

## 2. Modules

| Module | What it is |
|---|---|
| `ToolCalls` | abstract: what the bridge promises an agent about its calls |
| `ExtensionBridge` | one bridge while its port is bound, with the extension as its environment |
| `ExtensionBridgeProofs` | theorems about it, the refinement of `ToolCalls` among them |
| `PortLease` | abstract: what the lazy bridges promise about ports and the calls that need one |
| `LazyBridge` | the server processes that share the ports |
| `LazyBridgeReload` | `LazyBridge` with a history of what idle reloads promised |
| `LazyBridgeProofs` | theorems about `LazyBridge`, the refinement of `PortLease` among them |
| `WorkerConnection` | the service worker's end of the event stream |
| `WorkerConnectionProofs` | theorems about it |
| `SiteGrants` | the stored grants and Chrome's permissions under the worker, the popup and the options page |
| `SiteGrantsProofs` | theorems about it |
| `Errands` | abstract: what the agent may count on when it sends requests to the browser |
| `TabRequests` | the handlers of the service worker, over tabs that change under them |
| `TabRequestsProofs` | theorems about it, the refinement of `Errands` among them |
| `Snapshot` | the walk over a page, its windows and ordinals, as functions of the page |
| `SnapshotProofs` | what a walk, a window and a reading give, for any page |
| `PageSession` | extends `Snapshot`: the content script of one page, its numbers, basis and acts |
| `PageSessionProofs` | theorems about it |
| `MC*` | constants for TLC |

### ExtensionBridge

`phase` is where each call stands in `request()`; `waiters` is the channel's list,
`pending` the keys of the map and `timers` the armed timers, kept apart from each other
because the code keeps them apart. `stream` is the channel's `stream`; `sock` is
the server's end of every stream ever opened, so that a replaced stream can still
close. `ext` follows a call's message down the wire and its response back up.
One action is one turn of Node's event loop with the promise continuations it
queues: nothing else runs between the release of a waiter and the `track` and
`send` that follow it. The one await that lets other turns in is the shutdown of
the old listener in `moveTo`, so a reload is two actions, `ReloadMoves` and
`ReloadDone`.

Left out: tokens and schemas (a frame they refuse is one that never arrives,
`LoseResponse`), the contents of messages, a forwarded frame that repeats another's
id, and two moves of the listener at the same time. `send` cannot fail after the check
that precedes it in the same turn, so `forget` has no action.

### LazyBridge

Every process has its `current` bridge (named by its port), its start
(`stage`, `tries`, and `stale` for `generation !== startedAt`), its idle timer and
what its bridge last heard of grants. `holder` says who has a port bound and
`freeing` which listeners are on their way out. A release disowns the start under way
and closes the bridge; ports come free later. `Setup` rewrites the config, `Reload` moves
a bridge, `Exit` covers the orderly exit, the forced one and a kill, `Spawn` is the
client starting the server again. The life of a call inside a bridge is
`ExtensionBridge`'s; here it is in the bridge until it ends.

`PortLease` has of all this a lease per process and where each call stands. Under the mapping a
bind is `Take` or, when disowned, `Deny`, as is a start that fails; a release is `GiveBack`, a
reload `Move`, an exit `Leave`; retries, timers, reports and ports on their way out are stutters.

### WorkerConnection

An attempt is one call of `openConnection` with the controller and the stream it opens.
`connectionAttempt`, `activeController`, `sleeping` and `consecutiveFailures` are the
module-level variables of `connection-state.ts`; `stage` is the await at which an
attempt stands, `stream` its stream as the server left it, `waking` the `wakeUp` calls at
each of their awaits. `Connect` is shared by `Alarm` (forced while dormant), `WakeConnects`
and `Revive`, and `Fail` (`handleConnectionFailure`, with `enterSleepMode`) by the steps in
which an attempt fails. `Disconnect` does what the code does: it aborts the connection and
forgets the attempt in flight, which goes on. `Stop` is Chrome taking the worker away
with everything but the alarm; `server` is what an attempt meets, where "faulty" stands for a
missing config, a disallowed host, a refused token and unreadable grants.

Left out: the badge; the posts of `send`, whose failures are swallowed;
`activeEventSource`, which nothing sets; the rate limit of the dormant retry, which is a
choice of when `Alarm` fires. A stream cannot end before it is adopted: headers and first
bytes come before any end, and adoption follows the response in the same turn.

### SiteGrants

An operation is one call of `listGrants`, `touchGrant`, `grantSite` or `revokeSite`; `op`
is where each stands (`at`) and the list it has read. Every call of `chrome.storage` or
`chrome.permissions` is an await, so it is an action of its own: `Get`, `Purge`, `Release`
(the clean-up in `listGrants`, which every operation goes through), `TouchSaves`,
`GrantSaves`, `AskGranted` / `AskPrompts`, `PromptAccepted` / `PromptDeclined`, `Undo`,
`RevokeSaves`, `RevokeDrops`. The calls of `chrome.permissions` may reject: `AskRejected` (no
user gesture any more, or a site that is not optional), `RevokeRejected` and `ReleaseRejected`,
for the sites of `Required`, the manifest's own `host_permissions` (manifest.json:10), which Chrome
does not take back. `AskPrompts` closes the popup with all it was running;
`ContextEnds` is Chrome stopping the worker or the user closing a page.

The code has no lock, so concurrent operations do spoil each other's work. What is worth
knowing is whether anything *else* goes wrong. The module therefore names seven ways and
follows each behaviour up to the first of them (`mishaps`):

- *stale write*: a list is saved that was read before another save (storage.ts:21, 54, 68, 71, 80);
- *late removal*: a permission is removed from a site that has been allowed again;
- *interrupted*: a context goes away between two writes of an operation;
- *rejected request*: `permissions.request` rejects and the grant saved before it stays (storage.ts:68-70);
- *aborted clean-up*: a permission that cannot be removed ends the loop of storage.ts:24, and
  other expired sites keep theirs;
- *unheard decline*: a prompt is declined after the popup that asked is gone (storage.ts:69);
- *late answer*: a prompt is answered after the grant or the permission has changed.

`wish` is history: what the user last asked for. `Inherited` says which sites may have a grant of an
older version, without an `idle`, to start with. Left out: the rendering of the two pages.

### TabRequests

A request is one call of `handleRead`, `handleTabs` (with a tab to switch to) or
`handleAct`, the last with its `handleNavigate`. `at` is the await at which it stands: the gate
(`Gate`), the tab recorded in session storage (`Mark`), the injection and message of a read,
the message of an act with its second attempt (`SendUnheard`, `SendRefused`, `InjectToAct`),
the wait for the page's answer (`acting`), the waits for a page (`Settle`, `waiting`, `arrived`).
What has been asked for and has not happened yet is `pending`: an action, which the page performs
when it gets round to it (`PageActs`), and a navigation, which Chrome carries out (`GoEffect`): it loads
a page, changes the URL of the document that is there (`Slide`), or answers without a page, as for a
download. Both may happen after a deadline has ended the wait and the request has been answered, since
`withDeadline` (`ActTimesOut`, `Overdue`, `GoTimesOut`) takes nothing back. `Started` is a
navigation whose tab is ready when Chrome hands it back, which `waitForTabReady` takes for its end
(navigation.ts:61-69). `World` is the
browser and its user. `tab.doc` counts a tab's documents and `script` says whether the content
script listens in the present one. `Injectable` is Chrome's own check of an injection: the user has
allowed the site, the manifest requires it (`Required`, manifest.json:10), or the user has opened the
extension on the page (`invoked`, the `activeTab` of manifest.json:8, until the tab goes to another
site). `access` is what the user allows, here changed at will: how it is stored is `SiteGrants`.

Of Chrome, which is not in the repository, two things are assumed. A message whose listener has
returned true, as the content script's does (content.ts:93, 110), is rejected when its document goes
away; the second attempt on an undefined answer (act.ts:63-66) is therefore that of an act without a
target, which the script does not answer (`SendRefused`). And a page restored from the
back/forward cache counts as a new document.

`Errands` has of all this what each request was told and what became of its effect (nothing,
asked for, done, come to nothing); what came to nothing is not asked for again. Under the
mapping (`Told`, `Effect`) the gate of a navigation and `SendHeard` are
`Ask`, `PageActs` and a `GoEffect` on an open tab are `Happen`, a page torn down before it acts and a
navigation of a closed tab are `Void`, answers and a request left unanswered are `Tell`; finding
tabs, marking, switching, injecting, retrying and waiting are stutters.

Left out: `touchGrant` after a gate (`SiteGrants` has it), the listing of tabs that selects
none, refusals of malformed arguments. What the content script does is `PageSession`.

### Snapshot and PageSession

`Order` lists the elements a page may have, `on` those it has now. An element is a text, a control, a
heading or a frame that cannot be read, with the text flushed before it and the line of its own.
`Walk` is the state of `buildSnapshot` behind each element, a recursive function of the element's
place: `emit`'s account of produced and kept characters (`Emit`), the query filter (`Emitted`), the
flush of the text before an element (`Flush`), the marker of a control with the merging of repeated
links and the ordinals of recipes (`Control`), the heading that is left out, with what is in
it, because the marker last kept says the same (`Heading`, `Repeats`; `last` is `lastRefName`), the
line of a frame (`Own`). `Window` is its last value; a query covers the page from its beginning.
`Layout` is where each line would begin and end
were there room for all of them and no heading left out, and `Windows` is a reading from the
beginning, each window from the offset the one before named. Lengths are numbers and
`MAX_SNAPSHOT_CHARS` is `MaxChars`. A heading's own line is its direct text; the
elements in it follow with lines of their own (their text is not taken to run on into the text behind
the heading).
`PageSession` has the script's turns: `Read`, `Act`,
`ActFails`, `FillFails`, `Scroll`, `StartBatch`, `FillNext`, `FillEnds`, and `Settle`, the
snapshot that follows an act. `Numbered` is `idFor`, `basis` what `rememberSnapshot` keeps, and
`Resolve` is `resolveRef`: the stored node if it matches the recipe, or the only candidate left
by `Narrow`. The page changes by itself: `Rerender`, `Recycle`, `Attach`, `Detach`, `Reload`.
`meant` and `steady` are history.

Left out: what an act does to the DOM (one of the page's own changes stands for it), the verdict
and the diff, the choice of what to scroll, visibility, and how names are computed.

## 3. Runs

| Run | Bounds | What it shows |
|---|---|---|
| `bridge` | 2 calls, 3 streams, symmetric | the bookkeeping, waiting, orphan, close and stale-close properties |
| `bridge_live` | 2 calls, 2 streams, no grant reports | every call ends; the refinement of `ToolCalls` |
| `lease` | 2 processes (2 calls and 1 call), 2 ports, 2 attempts | listener and `current` agree, a disowned start stays out until it has ended, the idle timer is off while a site is allowed; calls are where the port is; a start that is waited for is there and goes on; every call learns of the port; the refinement of `PortLease` |
| `lease_idle` | 1 process, 2 calls | fails: a port bound after the timer fired is kept |
| `lease_busy` | 1 process, 2 calls | fails: an idle release cuts a call off |
| `lease_reload` | 1 process, 1 call | fails: the bind after an idle reload is on the old port |
| `worker` | 2 attempts, 3 failures, 3 events | the connection of record has a stream; an awake worker has the fast alarm; an idle server never puts it to sleep; without clicks and faults one attempt is alone; a serving server gets it back |
| `worker_dropped` | the same | fails: a dropped attempt becomes the connection |
| `grants` | 2 sites, one of them required, one operation of each context, 2 clicks, 2 ticks | list, permissions and wish agree up to the first mishap |
| `requests` | 2 requests of any kind, 2 tabs, 4 URLs of 3 sites, one of them required, 1 load per tab, 2 interventions | at most one action; only on pages of sites once listed or required; what `navigated` means; every act has a next step; reads follow switches; a request only goes on; the refinement of `Errands` |
| `page` | 6 elements, windows of 6 characters, 1 act at a time, 4 different reads, 2 changes | paging ends, shows every line and none twice, but for those named; references keep their control and numbers their node |
| `page_twins` | the same elements, with details two controls share, in one window | fails: a reference resolves to its twin |

Why the bounds do. Two calls are enough for one to be answered, or to wait, while the other
is timed out or rejected, and for an answer to go to the wrong one. Three
streams let a stream be replaced, its late close come, the replacement drop and a
third attach. Two processes and two ports give every contention and every move
onto a port another process holds; two attempts give one retry and the last
attempt. Calls and streams are used once, which bounds the runs without a counter.
Two attempts let one be superseded, connected or replaced while the other runs; three is the
real number of failures; three events (clicks, broken streams, stops) allow a second click
during the consequences of the first, and a stop after it. `MaxGrants` bounds the reported count; only zero and non-zero differ to the code.
Of the two sites in `grants` one is ordinary and one required, which together make every clean-up that
Chrome refuses halfway; three contexts let every pair of operations overlap, on one site and on two,
with a third that cleans up (two operations of one popup, which a prompt closes together, are
covered by the proof); two ticks let a timed grant expire, and be renewed before. Two
requests are one and whatever overtakes it; one load per tab is one document that was checked
and another that was not, and two interventions let the user revoke, close, focus or open the extension
while a page navigates or changes its URL; of the three sites one is allowed to begin with, one only
when the user says so, and one required; one of them has two URLs. In `page`, a window of six characters
splits the six elements into three windows and more, and the texts before the frame and the field are
long enough to be squeezed out. The heading repeats the link before it, so that windows differ in
whether they leave it out; two links merge, three controls share a name, one is in a frame; two changes
allow a detached element, its return, a recycled node and a re-render. The paging properties are about
every page made of the elements, not only the reachable ones.
Deadlock is not checked where the system stops: a bridge that was closed, with every call ended;
grants after their first mishap; requests that have all been answered.

Fairness. `ExtensionBridge!FairSpec` assumes only that Node fires an armed timer, and
nothing of the extension. `LazyBridge!StartsFair` assumes that `listen` reports and
the retry timer fires. `LazyBridge!FairSpec`, used where a violation is shown, adds
that idle timers fire, shutdowns end in an exit, closed listeners free their ports
and bridges end their calls, so that the counterexample is not merely a server that
was never scheduled. `WorkerConnection!Fairness` assumes that awaits end, alarms fire and
Chrome revives a stopped worker for them. `SlowAlarm` adds that the alarm eventually no longer
meets an attempt under way: its period is 24 seconds or more, an attempt is two requests to
loopback. `BackOnline` needs it. Without it two attempts could replace each other's stream
for ever, each started because the `finally` of the one before had cleared its entry.

### What the failing runs say

- `lease_idle`: the idle timer is armed at boot and again only by a report from
  the extension. Thirty minutes without a tool call use it up; the first call
  then binds the port, and if no extension ever reports, nothing releases it.
- `lease_busy`: the same timer does not know of calls, so it may fire during one.
- `lease_reload`: `browser_status` with `reload` while idle promises the new
  config; the bind uses the options read at boot.
- `worker_dropped`: a click during an attempt starts a second one beside it; both connect,
  and the one that was dropped may end up as the connection. The extension recovers
  (`BackOnline`), at the price of a replaced stream.
- `page_twins`: of three links of one name with details x, y, y, a reference to the first y
  resolves, after a re-render, to the second: `narrow` drops the link with x from the pool and
  then indexes it with an ordinal that counted all three (resolve.ts:114).

### Observed while modelling

Behaviour of the code that the properties of the passing runs allow by name, at the place
where it happens. Most of it is undocumented. Some goes against a comment, and is marked so:

- Against snapshot.ts:167-169, "a follow-up read resumes exactly where the last one stopped":
  - A text and the line behind it that both find no room, be it a control's, a heading's or a
    frame's: the line's place becomes the next offset and the text is never shown (`Squeezed`,
    snapshot.ts:208, 235, 277, 298).
  - Such a line that fits after a text that did not is shown before it, and again behind it (`Jumped`).
  - A heading that repeats the marker before it is left out, and its length not counted, only where
    that marker was kept (snapshot.ts:251, 265). In a window that begins behind the marker the
    heading counts. From there on the offsets of the two windows mean other lines, which are lost or
    come again (`OutOfStep`, `Astray`), and the controls in the heading have ordinals in one and not
    in the other (`Counted`).
  - A line as long as a window ends paging (`Fits`, snapshot.ts:184).
- Against resolve.ts:167-169, that the check of role and name rejects a recycled node: it is
  compared by name only if an attribute gives the name (resolve.ts:130), and not at all without a
  recipe.
- Against deadline.ts:2, a bound on anything that talks to a tab: reads have none (common.ts:69).
- Against storage.ts:13-14, no access held indefinitely, and storage.ts:58, nothing saved if the user
  declines: the mishaps of `SiteGrants`.
- Controls of shadow roots and frames stand behind the others when a reference is resolved, and
  in place when ordinals are counted (`InOrder`, resolve.ts:141). Controls the basis did not walk, a
  footer's or those outside the main region, are candidates too (`Uncounted`). A control that is gone
  resolves to the only other one of its name (resolve.ts:189).
- A timeout of an act is judged by the URL of the current tab, which need not be the one
  acted on, and may be another URL of the same page (`moved`, messaging/act.ts:86).
- A navigation is answered `navigated` as soon as its tab is ready, which it may be before the page
  begins to load, and is when nothing loads (navigation.ts:61-69); an event of the old page ends the
  wait, too (navigation.ts:58). `NavigatedMeansLeft` is therefore about clicks.
- A deadline ends the wait for an act and does not take the act back (messaging/deadline.ts:34): the
  page, or Chrome, may still do it after the agent has been told `frame_unreachable`, and an agent that
  then asks again has it done twice. `Errands` allows this by name (`Happen` has no `Unanswered`).
- A tab closed while an act waits for it leaves the act unanswered (`lost`, messaging/act.ts:104); the
  bridge's own timeout ends the call.
- The page acted on may be another than the one checked, and its site may have been revoked
  (messaging/act.ts:151). Chrome's permission at the time of the injection is what holds, hence
  `listed`, the sites once allowed or opened the extension on, and `Required`, the hosts of
  manifest.json:10, in `OnlyListedPagesAreActedOn`.
- A read that a switch of tabs overtakes moves the agent back (read.ts:37, `saw` in
  `ReadsFollowTheSwitch`).
- A call made while a disowned start waits to retry joins it (lazy-bridge.ts:42); it is told of the port
  in the end (`EveryCallLearnsOfThePort`).

## 4. Theorems

The seven `*Proofs` modules prove, for every number of calls, streams, processes, ports,
attempts, retries, sites, operations, requests and tabs, and for every page, window size, read
and number of changes:

- type correctness of the six modules with a state;
- every safety invariant that a passing run checks but `NoActWaitsForThePage`;
- every action property that a passing run checks: `StaleCloseRejectsNothing`,
  `DisownedStartsStayOut`, `ReadsFollowTheSwitch`, `RequestsOnlyGoOn`, `StartsOnlyGoOn`, `NumbersKeepTheirNode`,
  `ActsOnTheNamedControl`, `RerenderKeepsTheControl`;
- `IdleServerNeverDozes` and `UndisturbedAttemptsAreAlone`, which are about whole behaviours but
  safety properties;
- `Refinement`: `ExtensionBridge` implements `ToolCalls`;
- `LeaseRefinement`: `LazyBridge` implements `PortLease`;
- `ErrandsRefinement`: `TabRequests` implements `Errands`.

The assumptions are the named ASSUMEs of the modules, nothing more: the null values are no
streams, ports or processes, the bounds are numbers, every call has a client, and a page's elements
are in a sequence that repeats none.

The argument. For the bridge, the invariants of the run are nearly inductive together:
that a close settles everything, or that a drop takes its requests down, needs
`TrackedExactlyWhileSent` to say that the map and the timers hold exactly the calls
in flight. What has to be added is `LiveStreamIsUp`: the live stream has not been ended
by the server, so a close event that matches it is the peer's. `Request`,
`AwaitTimeout` and `Attach` share `Proceed`, and `ProceedKeepsTracking` states once what it does.
The refinement needs one more invariant, `UnsentIsUnknown`: the extension knows nothing
of a call not yet sent, so nothing was performed for it. Every step is then a
stutter, `Ask`, `Refuse`, `Perform`, `Answer`, or `Fail` of a set of calls (`FailingStep`).

For the lease, three facts are added. A start runs only without a bridge, and only a start
can be stale (`StartsHaveNoBridge`); a closed listener counts as its process's
until the port is free (`FreeingIsHeld`); an exited process has left nothing behind
(`ExitedHoldsNothing`), which the respawn's idle timer needs. The refinement of `PortLease` needs
nothing more: a port without a holder is no process's bridge (`FreePortIsUnleased`), a start that
ends had no bridge (`TellingDenies`). `CallsFollowThePort` is not shown of `LazyBridge` at all: it
is an invariant of `PortLease` (`LeasePromise`), which the refinement carries over.
`WaitingStartGoesOn` measures a start by `StartProgress`: a call waits only where a start is
under way, so the only steps that could reset the measure, the ends of starts, end the waiting of the
call too; everybody else leaves the start alone (`OthersLeaveStart`). It is the part of
`EveryCallLearnsOfThePort` that is no matter of fairness, and contains that a waiting call always has a
start (`EnsuringHasAStart`).

For the worker, `BudgetLeft` is added: an awake worker has a failure to spare, so the count
stays within `MaxRetries`. `FailIInv` treats every failing attempt at once. `IdleServerNeverDozes` has a
premise about every state of a behaviour; under it the only steps that could put the worker to
sleep, failures by a fault, are not enabled (`OnlyFaultsDoze`). `UndisturbedIsAlone` has one, too,
and needs `AloneInv`: an attempt under way is the recorded one and meets no connection, which only
`Disconnect` breaks, and only clicks and faults disconnect while an attempt is under way.

For the grants, nothing of the two properties is inductive. What carries them is
what each operation knows of the list it has read. As long as nobody has saved
since (`fresh`), the list stands for the stored one (`Stands`): it has the same sites, but for
those it is about to clean up and the one site a grant or a revocation has taken out
(`Exempt`), and no grant in it contradicts the user's wish (`Wished`). A save that is no mishap
therefore keeps the stored list in line (`FreshList`). `Reasons` accounts for every
disagreement between list and permissions: a grant without its permission is
being asked for or undone, a permission without its grant is required or about to be removed, and the
required ones are held. With nothing under way there is no reason left.

For the requests, `Steady` is what a request knows of itself (nothing has been asked for before the
stages `start` and `acting`, what is pending has not been performed, and no second attempt follows
one that may have acted) and `Tracked` what it knows of
its tab. Every step of the browser only moves tabs forward (`Moved`): documents are left for later
ones, closed tabs stay closed, a script leaves with its document. `ReqStays` shows once
that such a move keeps `Tracked`, for every request; `Left`, that the page found is gone, is
then stable, and holds from the stage `settle` on. A script listens only on a site that the user has at some time allowed or opened the extension on, or
that is required, and a document stays on its site however its URL changes (`WorldOK`), which gives
`OnlyListed`.
`RequestsGoOn` orders the stages (`Place`) and gives the second attempt its place behind the
injection; that a request comes to `reinject` once is in `Steady`. It is the part of "every
request ends" that needs no fairness: with as many places as there are, only being stuck could keep a
request from its end, and `NoActWaitsForThePage` says that no act is. For `ErrandsRefinement` a step of a
request is compared with the abstract one on its record alone (`Errand`), one lemma per
action: a step keeps what was told and asked (`RestsIf`, `ToGoesAbout`) or answers
(`AnswerGoesAbout`), where `Steady` says that a result is of an action performed and that a page or
a question comes before anything was asked for. The other requests rest (`StepsAlone`).

For a page there are two arguments. The first is about its numbers and references
(`PageSessionProofs`). `Numbering` says that each number below `next` stands for one node at most and
that the numbers still needed are within the bound; `Issued`, that only such numbers were shown.
`NumbersKeepTheirNode` follows from these. `BasisStands` says what the basis is worth as long as
the page has only been rendered again: each of its references is one that a snapshot of this
very page has, shown as what it is, and no other control has its number. `RerenderKeepsTheControl`
then is a matter of counting: `WindowRefs` says that an ordinal is the number of controls of the
same name before its control, which is what `narrow` counts in the order of `allInteractive`
where that is the order of the walk; two controls with equally many before them are one
(`PlacesDiffer`). That the two counts have to be of the same controls is the premise that
`page_twins` drops.

The second is about paging, of any page (`SnapshotProofs`), and is an induction over the
document and over the windows. An induction over data cannot be cited here, so each is a least
counterexample over an interval of numbers (`LeastNatural`, `UpTo`), and `Iteration` says once
that such a recursive function exists. Each visit of a walk goes on along the layout, ends the window,
or leaves a heading out (`VisitFollows`). While it follows the layout it has produced as much, and its
lines are those laid out behind the offset. If it ends the window, what the window names as next is the
beginning of the line that found no room, or of the text before it. Once it has left a heading out it
only strays (`Strayed`): of what it shows and names after that, nothing is said but that the offset does
not go back (`Onward`). `WindowShape` puts this together for a whole window. A window that is cut off
gains something as long as no line is as long as a window: the layout has a line that ends behind its
offset and no later than the next one (`ReadingGoesForward`). The ends of such lines differ from window
to window (`LaterOffsets`), and there are at most two lines per element, so a reading comes to its end
(`ReadingEnds`, by the pigeonhole principle); a line behind one offset and before the next is in the
window between, unless squeezed or astray (`ReadingShowsEveryLine`); and a line in two windows was kept
ahead of its text, or strayed, in the earlier (`ReadingRepeatsNoLine`).

Only model-checked: `NoActWaitsForThePage`, which is about ENABLED, and the liveness properties
`EveryCallSettles`, `EveryCallLearnsOfThePort` and `BackOnline`; both are out of the prover's reach.
The failing runs are counterexamples of one instance.

## 5. Plan

1. Done: all modules of section 2, each with its runs, and proofs for each component.
2. Open: `WorkerConnection` and `ExtensionBridge` composed. Does every stream the worker believes
   in have a server end, and is a leaked one always replaced?
3. Open: `TabRequests` with `SiteGrants` for its `access`, so that a gate meets a list that is
   being rewritten.
4. Open: several content scripts of one tab, that is frames with scripts of their own.

Not modelled, and why:

- the command line (`scripts/*`, but for the rewritten configuration, `LazyBridge!Setup`): it
  copies files and edits other programs' configuration, one step after the other;
- pid files: their hazard is the operating system's reuse of process ids;
- argument validation and text rendering (`mcp.ts`, `page/`), the schemas of `shared/`, request
  authentication and configuration checks: pure functions of one message;
- in the content script, the diff and the verdict (`diff.ts`), the change signature
  (`signature.ts`), accessible names (`accessibility.ts`), input events (`input.ts`), and the choice
  of what to scroll (`scroll.ts`): they compute an answer from DOM data and layout, which a model
  would have to invent;
- generated and build files.
