--------------------------- MODULE ExtensionBridge ---------------------------
(***************************************************************************)
(* One bridge, from the moment its port is bound to the moment it is       *)
(* closed: the request path of server/src/bridge/bridge.ts together with   *)
(* the stream the extension listens on (extension-channel.ts), the table   *)
(* of requests in flight (pending-requests.ts) and the frames the HTTP     *)
(* router accepts (http-router.ts).                                        *)
(*                                                                         *)
(* An action is one turn of Node's event loop together with the promise    *)
(* continuations it queues, which run before the next turn.  So a caller   *)
(* released from awaitConnection goes on in the very step that released    *)
(* it, and the only await that lets other turns in is the one in           *)
(* listener.moveTo.                                                        *)
(*                                                                         *)
(* The extension is the environment.  Requests reach it down the stream;   *)
(* its answers come back as HTTP requests of their own, so they may be     *)
(* late, overtake one another, or never come.                              *)
(***************************************************************************)
EXTENDS Naturals

CONSTANTS
    Calls,        \* tool calls; a call's randomUUID is its identity
    Streams,      \* event streams the extension may open, each used once
    NoStream,     \* the `null` of `let stream`
    MaxGrants     \* bound on the reported number of allowed sites

ASSUME NoStreamAssumption == NoStream \notin Streams
ASSUME MaxGrantsAssumption == MaxGrants \in Nat

VARIABLES
    phase,        \* [Calls -> Phases]: where request() stands for each call
    waiters,      \* calls parked in awaitConnection
    pending,      \* keys of the pending map
    timers,       \* calls whose 30 s request timer is armed
    stream,       \* the live stream, or NoStream
    sock,         \* [Streams -> Socks]: the server's end of each stream
    sentOn,       \* the stream a call's message was written to
    ext,          \* [Calls -> ExtStates]: the message and what became of it
    listener,     \* whether a reload has moved the listener
    listenError,  \* listener.error() is not null
    closed,       \* close() was called
    authed,       \* extensionVersion is not null
    activeGrants  \* the count last reported by access.status

callVars == <<phase, waiters, pending, timers>>
extVars == <<ext, sentOn>>
streamVars == <<stream, sock>>
stateVars == <<listener, listenError, closed, authed, activeGrants>>
vars == <<callVars, extVars, streamVars, stateVars>>

Failures == {"unreachable", "timedOut", "disconnected", "bridgeClosed"}
Outcomes == Failures \cup {"answered"}
Phases == {"idle", "waiting", "sent"} \cup Outcomes

\* "ended": the server called end(); "broken": the peer is gone and the
\* server's close event has not fired yet; "closed": it has.
Socks == {"new", "open", "ended", "broken", "closed"}

\* "replied": the page was acted on and the response frame is in flight;
\* "unheard": that frame never arrived; "lost": the message was never acted on.
ExtStates == {"none", "wire", "working", "replied", "received", "unheard", "lost"}

Listeners == {"boot", "moving", "moved"}

TypeOK ==
    /\ phase \in [Calls -> Phases]
    /\ waiters \subseteq Calls
    /\ pending \subseteq Calls
    /\ timers \subseteq Calls
    /\ stream \in Streams \cup {NoStream}
    /\ sock \in [Streams -> Socks]
    /\ sentOn \in [Calls -> Streams \cup {NoStream}]
    /\ ext \in [Calls -> ExtStates]
    /\ listener \in Listeners
    /\ listenError \in BOOLEAN
    /\ closed \in BOOLEAN
    /\ authed \in BOOLEAN
    /\ activeGrants \in 0 .. MaxGrants

\* A bridge as startBridgeWithRetry returns it: the port is bound.
Init ==
    /\ phase = [c \in Calls |-> "idle"]
    /\ waiters = {}
    /\ pending = {}
    /\ timers = {}
    /\ stream = NoStream
    /\ sock = [s \in Streams |-> "new"]
    /\ sentOn = [c \in Calls |-> NoStream]
    /\ ext = [c \in Calls |-> "none"]
    /\ listener = "boot"
    /\ listenError = FALSE
    /\ closed = FALSE
    /\ authed = FALSE
    /\ activeGrants = 0

-----------------------------------------------------------------------------
\* Calls

\* The promises of C end with this outcome.
SettleAll(C, outcome) ==
    [c \in Calls |-> IF c \in C THEN outcome ELSE phase[c]]

\* A mutant: the entry goes into the map without its timer.
TrackWithoutTimer(C, s) ==
    /\ phase' = SettleAll(C, "sent")
    /\ pending' = pending \cup C
    /\ ext' = [c \in Calls |-> IF c \in C THEN "wire" ELSE ext[c]]
    /\ sentOn' = [c \in Calls |-> IF c \in C THEN s ELSE sentOn[c]]
    /\ UNCHANGED timers

\* pending.track and channel.send for every call of C, on stream s.
TrackAndSend(C, s) ==
    /\ phase' = SettleAll(C, "sent")
    /\ pending' = pending \cup C
    /\ timers' = timers \cup C
    /\ ext' = [c \in Calls |-> IF c \in C THEN "wire" ELSE ext[c]]
    /\ sentOn' = [c \in Calls |-> IF c \in C THEN s ELSE sentOn[c]]

\* The rest of request() once a call need not wait, or has done waiting, with
\* s attached: fail if there is nothing to send on, otherwise track and send.
Proceed(C, s) ==
    IF listenError \/ s = NoStream
    THEN /\ phase' = SettleAll(C, "unreachable")
         /\ UNCHANGED <<pending, timers, ext, sentOn>>
    ELSE TrackAndSend(C, s)

\* request() entered by a tool, or by an HTTP client whose frame is forwarded.
Request(c) ==
    /\ ~closed
    /\ phase[c] = "idle"
    /\ IF ~listenError /\ stream = NoStream
       THEN /\ phase' = [phase EXCEPT ![c] = "waiting"]
            /\ waiters' = waiters \cup {c}
            /\ UNCHANGED <<pending, timers, ext, sentOn>>
       ELSE Proceed({c}, stream) /\ UNCHANGED waiters
    /\ UNCHANGED <<streamVars, stateVars>>

\* The extension did not come within EXTENSION_WAIT_MS.
AwaitTimeout(c) ==
    /\ c \in waiters
    /\ waiters' = waiters \ {c}
    /\ Proceed({c}, stream)
    /\ UNCHANGED <<streamVars, stateVars>>

\* REQUEST_TIMEOUT_MS passed.
RequestTimeout(c) ==
    /\ c \in timers
    /\ timers' = timers \ {c}
    /\ pending' = pending \ {c}
    /\ phase' = SettleAll({c}, "timedOut")
    /\ UNCHANGED <<waiters, extVars, streamVars, stateVars>>

-----------------------------------------------------------------------------
\* The stream

\* A mutant: attach as it was before waiters were released on it.
AttachKeepsWaiters(s) ==
    /\ ~closed
    /\ sock[s] = "new"
    /\ sock' = [t \in Streams |-> IF t = s THEN "open"
                                  ELSE IF t = stream THEN "ended" ELSE sock[t]]
    /\ stream' = s
    /\ UNCHANGED <<callVars, extVars, stateVars>>

\* A second stream retires the first; whoever waited for one goes on at once.
Attach(s) ==
    /\ ~closed
    /\ sock[s] = "new"
    /\ sock' = [t \in Streams |-> IF t = s THEN "open"
                                  ELSE IF t = stream THEN "ended" ELSE sock[t]]
    /\ stream' = s
    /\ waiters' = {}
    /\ Proceed(waiters, s)
    /\ UNCHANGED stateVars

\* A mutant: onDetach forgets the requests the lost stream carried.
DetachKeepsPending ==
    /\ stream' = NoStream
    /\ authed' = FALSE
    /\ activeGrants' = 0
    /\ UNCHANGED <<phase, pending, timers>>

\* onDetach.
Detach ==
    /\ stream' = NoStream
    /\ authed' = FALSE
    /\ activeGrants' = 0
    /\ phase' = SettleAll(pending, "disconnected")
    /\ pending' = {}
    /\ timers' = {}

\* A mutant: handleDisconnect without the `stream === res` test.
StreamClosedUnguarded(s) ==
    /\ sock[s] \in {"ended", "broken"}
    /\ sock' = [sock EXCEPT ![s] = "closed"]
    /\ Detach
    /\ UNCHANGED <<waiters, extVars, listener, listenError, closed>>

\* The close event of a stream's socket; only the live stream's counts.
StreamClosed(s) ==
    /\ sock[s] \in {"ended", "broken"}
    /\ sock' = [sock EXCEPT ![s] = "closed"]
    /\ IF stream = s
       THEN Detach
       ELSE UNCHANGED <<stream, authed, activeGrants, phase, pending, timers>>
    /\ UNCHANGED <<waiters, extVars, listener, listenError, closed>>

-----------------------------------------------------------------------------
\* Frames from the extension

\* Mutants: responses matched to requests in arrival order instead of by id,
\* and a resolved request whose entry and timer stay behind.
ReceiveInOrder(c) ==
    /\ ~closed
    /\ ext[c] = "replied"
    /\ ext' = [ext EXCEPT ![c] = "received"]
    /\ IF pending = {}
       THEN UNCHANGED <<phase, pending, timers>>
       ELSE \E p \in pending :
                /\ phase' = SettleAll({p}, "answered")
                /\ pending' = pending \ {p}
                /\ timers' = timers \ {p}
    /\ UNCHANGED <<waiters, sentOn, streamVars, stateVars>>

ReceiveLeavesTimer(c) ==
    /\ ~closed
    /\ ext[c] = "replied"
    /\ ext' = [ext EXCEPT ![c] = "received"]
    /\ phase' = SettleAll({c} \cap pending, "answered")
    /\ pending' = pending \ {c}
    /\ UNCHANGED <<waiters, timers, sentOn, streamVars, stateVars>>

\* A response frame: pending.settle, a no-op when nobody waits for it.
Receive(c) ==
    /\ ~closed
    /\ ext[c] = "replied"
    /\ ext' = [ext EXCEPT ![c] = "received"]
    /\ phase' = SettleAll({c} \cap pending, "answered")
    /\ pending' = pending \ {c}
    /\ timers' = timers \ {c}
    /\ UNCHANGED <<waiters, sentOn, streamVars, stateVars>>

\* An auth frame, posted before the stream is opened.
Auth ==
    /\ ~closed
    /\ ~authed
    /\ authed' = TRUE
    /\ UNCHANGED <<callVars, extVars, streamVars,
                   listener, listenError, closed, activeGrants>>

\* A mutant: the reports are added up.
AccessStatusAccumulates(n) ==
    /\ ~closed
    /\ activeGrants' = activeGrants + n
    /\ UNCHANGED <<callVars, extVars, streamVars,
                   listener, listenError, closed, authed>>

\* An access.status frame; its own HTTP request, so it may come at any time.
AccessStatus(n) ==
    /\ ~closed
    /\ n # activeGrants
    /\ activeGrants' = n
    /\ UNCHANGED <<callVars, extVars, streamVars,
                   listener, listenError, closed, authed>>

-----------------------------------------------------------------------------
\* The listener: reload and close

\* An accept error on the server startListener created.  A server that moveTo
\* bound has no error handler left, so only the first one can record this.
ListenerError ==
    /\ listener = "boot"
    /\ ~closed
    /\ ~listenError
    /\ listenError' = TRUE
    /\ UNCHANGED <<callVars, extVars, streamVars, listener, closed, authed, activeGrants>>

\* reloadConfig found another port on disk and bound it; the old listener is
\* still shutting down.  Every other outcome of reloadConfig leaves this state
\* alone.  One move at a time is modelled.
ReloadMoves ==
    /\ ~closed
    /\ listener # "moving"
    /\ listener' = "moving"
    /\ UNCHANGED <<callVars, extVars, streamVars, listenError, closed, authed, activeGrants>>

\* The live stream as end() leaves it.
EndStream == [s \in Streams |-> IF s = stream THEN "ended" ELSE sock[s]]

\* The await in moveTo is over: channel.close(), and the version is forgotten.
\* The requests in flight and the grant count are not touched.
ReloadDone ==
    /\ listener = "moving"
    /\ listener' = "moved"
    /\ listenError' = FALSE
    /\ stream' = NoStream
    /\ sock' = EndStream
    /\ waiters' = {}
    /\ phase' = SettleAll(waiters, "unreachable")
    /\ authed' = FALSE
    /\ UNCHANGED <<pending, timers, extVars, closed, activeGrants>>

\* A mutant: close() without rejectAll.
CloseKeepsPending ==
    /\ ~closed
    /\ closed' = TRUE
    /\ stream' = NoStream
    /\ sock' = EndStream
    /\ waiters' = {}
    /\ phase' = SettleAll(waiters, "unreachable")
    /\ UNCHANGED <<pending, timers, extVars, listener, listenError, authed, activeGrants>>

\* close(): the waiters are released, everything in flight is rejected.
Close ==
    /\ ~closed
    /\ closed' = TRUE
    /\ stream' = NoStream
    /\ sock' = EndStream
    /\ waiters' = {}
    /\ phase' = [c \in Calls |-> IF c \in waiters THEN "unreachable"
                                 ELSE IF c \in pending THEN "bridgeClosed"
                                 ELSE phase[c]]
    /\ pending' = {}
    /\ timers' = {}
    /\ UNCHANGED <<extVars, listener, listenError, authed, activeGrants>>

-----------------------------------------------------------------------------
\* The extension and the network between

\* A frame is read off the stream and its handler started.
Deliver(c) ==
    /\ ext[c] = "wire"
    /\ ext' = [ext EXCEPT ![c] = "working"]
    /\ UNCHANGED <<callVars, sentOn, streamVars, stateVars>>

\* The handler has done its work in the page and posts the response.
Perform(c) ==
    /\ ext[c] = "working"
    /\ ext' = [ext EXCEPT ![c] = "replied"]
    /\ UNCHANGED <<callVars, sentOn, streamVars, stateVars>>

\* send() failed, or the server refused the frame: the extension only logs it.
LoseResponse(c) ==
    /\ ext[c] = "replied"
    /\ ext' = [ext EXCEPT ![c] = "unheard"]
    /\ UNCHANGED <<callVars, sentOn, streamVars, stateVars>>

\* The peer of stream s goes away, with whatever it had not read.
StreamBreaks(s) ==
    /\ sock[s] \in {"open", "ended"}
    /\ sock' = [sock EXCEPT ![s] = "broken"]
    /\ ext' = [c \in Calls |-> IF ext[c] = "wire" /\ sentOn[c] = s
                               THEN "lost" ELSE ext[c]]
    /\ UNCHANGED <<callVars, sentOn, stream, stateVars>>

\* Chrome stops the service worker: its handlers and its streams die with it.
WorkerStops ==
    /\ \/ \E s \in Streams : sock[s] = "open"
       \/ \E c \in Calls : ext[c] = "working"
    /\ sock' = [s \in Streams |-> IF sock[s] \in {"open", "ended"}
                                  THEN "broken" ELSE sock[s]]
    /\ ext' = [c \in Calls |-> IF ext[c] \in {"wire", "working"}
                               THEN "lost" ELSE ext[c]]
    /\ UNCHANGED <<callVars, sentOn, stream, stateVars>>

-----------------------------------------------------------------------------
CallStep(c) ==
    \/ Request(c) \/ AwaitTimeout(c) \/ RequestTimeout(c)
    \/ Deliver(c) \/ Perform(c) \/ Receive(c) \/ LoseResponse(c)

StreamStep(s) == Attach(s) \/ StreamBreaks(s) \/ StreamClosed(s)

BridgeStep ==
    \/ Auth
    \/ \E n \in 0 .. MaxGrants : AccessStatus(n)
    \/ ListenerError \/ ReloadMoves \/ ReloadDone \/ Close \/ WorkerStops

Next ==
    \/ \E c \in Calls : CallStep(c)
    \/ \E s \in Streams : StreamStep(s)
    \/ BridgeStep

Spec == Init /\ [][Next]_vars

\* Node fires an armed timer; nothing is assumed of the extension.
Fairness == \A c \in Calls : WF_vars(AwaitTimeout(c)) /\ WF_vars(RequestTimeout(c))

FairSpec == Spec /\ Fairness
-----------------------------------------------------------------------------
\* Properties

(* A settled request always has its timer cleared and its entry removed, and *)
(* an unsettled one has both: pending-requests.ts states it, and it has to   *)
(* hold through the response, timeout, disconnect, reload and close paths.   *)
TrackedExactlyWhileSent ==
    /\ pending = {c \in Calls : phase[c] = "sent"}
    /\ timers = pending
    /\ waiters = {c \in Calls : phase[c] = "waiting"}

(* Nobody waits for a connection that is there: a caller that arrived before *)
(* the extension goes on the moment the extension attaches, and does not sit *)
(* out the whole window (the fault releaseWaiters was written for).          *)
NoWaitWhileConnected == stream # NoStream => waiters = {}

(* A request waits for an answer with no extension attached only when a      *)
(* reload moved the port under it; a stream that drops, however it drops,    *)
(* takes its requests down with it (onDetach, rejectAll).                    *)
NoOrphansUnlessMoved == pending # {} /\ stream = NoStream => listener # "boot"

(* Closing the bridge leaves no caller hanging and nothing attached, even    *)
(* when a reload was moving the port at the time.                            *)
CloseSettlesEverything ==
    closed => /\ \A c \in Calls : phase[c] \in {"idle"} \cup Outcomes
              /\ stream = NoStream

(* A call is failed as disconnected only by the loss of the live stream: the *)
(* late close event of a stream that a newer one replaced rejects nothing    *)
(* (handleDisconnect).                                                       *)
StaleCloseRejectsNothing ==
    [][(\E c \in Calls : phase[c] # "disconnected" /\ phase'[c] = "disconnected")
        => /\ stream # NoStream
           /\ sock[stream] = "broken" /\ sock'[stream] = "closed"]_vars

(* Every call ends, whatever the extension does: each path arms a timer or   *)
(* settles the call itself (request, awaitConnection, track).                *)
EveryCallSettles ==
    \A c \in Calls : phase[c] \in {"waiting", "sent"} ~> phase[c] \in Outcomes

-----------------------------------------------------------------------------
\* What the agent can see of this, and the browser's part in it

agentStatus ==
    [c \in Calls |->
        CASE phase[c] = "idle" -> "unasked"
          [] phase[c] \in {"waiting", "sent"} -> "open"
          [] phase[c] = "answered" -> "answered"
          [] OTHER -> "failed"]

browserPerformed == {c \in Calls : ext[c] \in {"replied", "received", "unheard"}}

Agent == INSTANCE ToolCalls WITH status <- agentStatus, performed <- browserPerformed

(* The bridge keeps the promise ToolCalls states: one outcome per call, an   *)
(* answer only from the browser's own work on that call, at most one         *)
(* performance of it, through timeouts, late responses and replaced streams. *)
ImplementsToolCalls == Agent!Spec
=============================================================================
