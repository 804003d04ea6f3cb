----------------------------- MODULE LazyBridge -----------------------------
(***************************************************************************)
(* Who holds the loopback port, and for how long: several server           *)
(* processes, one per MCP client, that share the port `setup` wrote to     *)
(* bridge.json.  Each binds it when a browser tool is first called         *)
(* (bridge/lazy-bridge.ts), retries while another process still has it     *)
(* (bridge/start-with-retry.ts), gives it back when its idle timer fires   *)
(* (lifecycle/idle.ts, index.ts), can be told to move to a rewritten       *)
(* config (bridge.ts, reloadConfig), and releases it on its way out        *)
(* (lifecycle/shutdown.ts).                                                *)
(*                                                                         *)
(* What a bridge does with a call once it holds the port is                *)
(* ExtensionBridge's; here such a call is in the bridge until it ends.     *)
(***************************************************************************)
EXTENDS Naturals

CONSTANTS
    Procs,        \* server processes
    Calls,        \* tool calls that may be open at a time
    Client,       \* [Calls -> Procs]: the process each call is made to
    Ports,        \* ports `setup` may pick
    NoPort,       \* no bridge: `current` is null
    Nobody,       \* holder of a free port
    Attempts,     \* ATTEMPTS of start-with-retry.ts
    IdleEnabled   \* FALSE under --idle-timeout 0

ASSUME ClientAssumption == Client \in [Calls -> Procs]
ASSUME NoPortAssumption == NoPort \notin Ports
ASSUME NobodyAssumption == Nobody \notin Procs
ASSUME AttemptsAssumption == Attempts \in Nat \ {0}
ASSUME IdleEnabledAssumption == IdleEnabled \in BOOLEAN

VARIABLES
    proc,         \* [Procs -> ProcStates]
    bootPort,     \* the port in the options each process was started with
    diskPort,     \* the port bridge.json and connection.json now name
    holder,       \* [Ports -> Procs or Nobody]: who has the port bound
    freeing,      \* ports whose listener was closed and is going away
    current,      \* the lazy bridge's `current`, named by the port it is on
    stage,        \* the start behind `pendingStart`
    tries,        \* attempts that start has used up
    stale,        \* generation # startedAt: a release disowned that start
    call,         \* [Calls -> CallStates]
    attached,     \* an extension's stream is on the current bridge
    grants,       \* the current bridge's activeGrants
    armed         \* the idle timer is running

procVars == <<proc, bootPort, diskPort>>
portVars == <<holder, freeing>>
startVars == <<stage, tries, stale>>
bridgeVars == <<attached, grants>>
vars == <<procVars, portVars, current, startVars, call, bridgeVars, armed>>

ProcStates == {"running", "stopping", "exited"}
Stages == {"none", "binding", "retrying"}
CallStates == {"none", "ensuring", "inBridge"}

TypeOK ==
    /\ proc \in [Procs -> ProcStates]
    /\ bootPort \in [Procs -> Ports]
    /\ diskPort \in Ports
    /\ holder \in [Ports -> Procs \cup {Nobody}]
    /\ freeing \subseteq Ports
    /\ current \in [Procs -> Ports \cup {NoPort}]
    /\ stage \in [Procs -> Stages]
    /\ tries \in [Procs -> 0 .. Attempts - 1]
    /\ stale \in [Procs -> BOOLEAN]
    /\ call \in [Calls -> CallStates]
    /\ attached \in [Procs -> BOOLEAN]
    /\ grants \in [Procs -> {0, 1}]
    /\ armed \in [Procs -> BOOLEAN]

\* Every process has read its config; nothing is bound.  createIdleController
\* starts the idle timer at once.
Init ==
    /\ proc = [p \in Procs |-> "running"]
    /\ diskPort \in Ports
    /\ bootPort = [p \in Procs |-> diskPort]
    /\ holder = [q \in Ports |-> Nobody]
    /\ freeing = {}
    /\ current = [p \in Procs |-> NoPort]
    /\ stage = [p \in Procs |-> "none"]
    /\ tries = [p \in Procs |-> 0]
    /\ stale = [p \in Procs |-> FALSE]
    /\ call = [c \in Calls |-> "none"]
    /\ attached = [p \in Procs |-> FALSE]
    /\ grants = [p \in Procs |-> 0]
    /\ armed = [p \in Procs |-> IdleEnabled]

-----------------------------------------------------------------------------
\* Every call of p that is in state s goes to state t.
MoveCalls(p, s, t) ==
    [c \in Calls |-> IF Client[c] = p /\ call[c] = s THEN t ELSE call[c]]

\* ensure(): use the bridge there is, join the start under way, or begin one.
Call(p, c) ==
    /\ proc[p] # "exited"
    /\ Client[c] = p
    /\ call[c] = "none"
    /\ IF current[p] # NoPort
       THEN /\ call' = [call EXCEPT ![c] = "inBridge"]
            /\ UNCHANGED stage
       ELSE /\ call' = [call EXCEPT ![c] = "ensuring"]
            /\ stage' = [stage EXCEPT ![p] = IF @ = "none" THEN "binding" ELSE @]
    /\ UNCHANGED <<procVars, portVars, current, tries, stale, bridgeVars, armed>>

\* pendingStart = null, and the start's own variables with it.
StartOver(p) ==
    /\ stage' = [stage EXCEPT ![p] = "none"]
    /\ tries' = [tries EXCEPT ![p] = 0]
    /\ stale' = [stale EXCEPT ![p] = FALSE]

\* A mutant: the generation test is missing from ensure's continuation.
BindIgnoresGeneration(p) ==
    /\ stage[p] = "binding"
    /\ holder[bootPort[p]] = Nobody
    /\ holder' = [holder EXCEPT ![bootPort[p]] = p]
    /\ StartOver(p)
    /\ current' = [current EXCEPT ![p] = bootPort[p]]
    /\ call' = MoveCalls(p, "ensuring", "inBridge")
    /\ attached' = [attached EXCEPT ![p] = FALSE]
    /\ grants' = [grants EXCEPT ![p] = 0]
    /\ UNCHANGED <<procVars, freeing, armed>>

\* A mutant: the bridge that lost the race is thrown away without closing it.
BindLeaksListener(p) ==
    /\ stage[p] = "binding"
    /\ holder[bootPort[p]] = Nobody
    /\ holder' = [holder EXCEPT ![bootPort[p]] = p]
    /\ StartOver(p)
    /\ IF stale[p]
       THEN /\ call' = MoveCalls(p, "ensuring", "none")
            /\ UNCHANGED <<current, bridgeVars>>
       ELSE /\ current' = [current EXCEPT ![p] = bootPort[p]]
            /\ call' = MoveCalls(p, "ensuring", "inBridge")
            /\ attached' = [attached EXCEPT ![p] = FALSE]
            /\ grants' = [grants EXCEPT ![p] = 0]
    /\ UNCHANGED <<procVars, freeing, armed>>

\* The port of the options is free: the bridge becomes current, unless a
\* release came in meanwhile; then it is closed and its callers are told so.
BindSucceeds(p) ==
    /\ stage[p] = "binding"
    /\ holder[bootPort[p]] = Nobody
    /\ holder' = [holder EXCEPT ![bootPort[p]] = p]
    /\ StartOver(p)
    /\ IF stale[p]
       THEN /\ freeing' = freeing \cup {bootPort[p]}
            /\ call' = MoveCalls(p, "ensuring", "none")
            /\ UNCHANGED <<current, bridgeVars>>
       ELSE /\ current' = [current EXCEPT ![p] = bootPort[p]]
            /\ call' = MoveCalls(p, "ensuring", "inBridge")
            /\ attached' = [attached EXCEPT ![p] = FALSE]
            /\ grants' = [grants EXCEPT ![p] = 0]
            /\ UNCHANGED freeing
    /\ UNCHANGED <<procVars, armed>>

\* A mutant: contention is retried for ever.
BindRetriesForever(p) ==
    /\ stage[p] = "binding"
    /\ holder[bootPort[p]] # Nobody
    /\ stage' = [stage EXCEPT ![p] = "retrying"]
    /\ UNCHANGED <<procVars, portVars, current, tries, stale, call, bridgeVars,
                   armed>>

\* A mutant: one attempt too many.
BindContendedOffByOne(p) ==
    /\ stage[p] = "binding"
    /\ holder[bootPort[p]] # Nobody
    /\ IF tries[p] + 1 <= Attempts
       THEN /\ stage' = [stage EXCEPT ![p] = "retrying"]
            /\ tries' = [tries EXCEPT ![p] = @ + 1]
            /\ UNCHANGED <<stale, call>>
       ELSE /\ StartOver(p)
            /\ call' = MoveCalls(p, "ensuring", "none")
    /\ UNCHANGED <<procVars, portVars, current, bridgeVars, armed>>

\* EADDRINUSE: worth another attempt, up to Attempts of them.
BindContended(p) ==
    /\ stage[p] = "binding"
    /\ holder[bootPort[p]] # Nobody
    /\ IF tries[p] + 1 < Attempts
       THEN /\ stage' = [stage EXCEPT ![p] = "retrying"]
            /\ tries' = [tries EXCEPT ![p] = @ + 1]
            /\ UNCHANGED <<stale, call>>
       ELSE /\ StartOver(p)
            /\ call' = MoveCalls(p, "ensuring", "none")
    /\ UNCHANGED <<procVars, portVars, current, bridgeVars, armed>>

\* A mutant: pendingStart is cleared and the error swallowed.
BindDeniedSilently(p) ==
    /\ stage[p] = "binding"
    /\ StartOver(p)
    /\ UNCHANGED <<procVars, portVars, current, call, bridgeVars, armed>>

\* Any other listen error is final.
BindDenied(p) ==
    /\ stage[p] = "binding"
    /\ StartOver(p)
    /\ call' = MoveCalls(p, "ensuring", "none")
    /\ UNCHANGED <<procVars, portVars, current, bridgeVars, armed>>

\* RETRY_MS later.
Retry(p) ==
    /\ stage[p] = "retrying"
    /\ stage' = [stage EXCEPT ![p] = "binding"]
    /\ UNCHANGED <<procVars, portVars, current, tries, stale, call, bridgeVars,
                   armed>>

\* The bridge answered a call, or gave up on it.
End(c) ==
    /\ call[c] = "inBridge"
    /\ call' = [call EXCEPT ![c] = "none"]
    /\ UNCHANGED <<procVars, portVars, current, startVars, bridgeVars, armed>>

-----------------------------------------------------------------------------
\* A mutant: the calls of the bridge that is closed are left open.
ReleaseKeepsCalls(p) ==
    /\ stale' = [stale EXCEPT ![p] = stage[p] # "none"]
    /\ call' = call
    /\ IF current[p] = NoPort
       THEN UNCHANGED <<current, freeing, bridgeVars>>
       ELSE /\ current' = [current EXCEPT ![p] = NoPort]
            /\ freeing' = freeing \cup {current[p]}
            /\ attached' = [attached EXCEPT ![p] = FALSE]
            /\ grants' = [grants EXCEPT ![p] = 0]

\* What release() does: disown a start under way, and close the bridge there
\* is.  channel.close() clears the stream first, so no onDetach follows and
\* the idle timer is left as it was.
Release(p) ==
    /\ stale' = [stale EXCEPT ![p] = stage[p] # "none"]
    /\ IF current[p] = NoPort
       THEN UNCHANGED <<current, freeing, call, bridgeVars>>
       ELSE /\ current' = [current EXCEPT ![p] = NoPort]
            /\ freeing' = freeing \cup {current[p]}
            /\ call' = MoveCalls(p, "inBridge", "none")
            /\ attached' = [attached EXCEPT ![p] = FALSE]
            /\ grants' = [grants EXCEPT ![p] = 0]

\* The closed listener lets go of its port.
PortFreed(q) ==
    /\ q \in freeing
    /\ freeing' = freeing \ {q}
    /\ holder' = [holder EXCEPT ![q] = Nobody]
    /\ UNCHANGED <<procVars, current, startVars, call, bridgeVars, armed>>

\* The idle timer fires, once; only touch() arms it again.
IdleFires(p) ==
    /\ armed[p]
    /\ armed' = [armed EXCEPT ![p] = FALSE]
    /\ Release(p)
    /\ UNCHANGED <<procVars, holder, stage, tries>>

\* The extension opens its stream on the port its connection.json names.
Attach(p) ==
    /\ current[p] = diskPort
    /\ ~attached[p]
    /\ attached' = [attached EXCEPT ![p] = TRUE]
    /\ UNCHANGED <<procVars, portVars, current, startVars, call, grants, armed>>

\* A mutant: a report of allowed sites does not stop the idle timer.
AccessStatusNeverStops(p, n) ==
    /\ current[p] = diskPort
    /\ grants' = [grants EXCEPT ![p] = n]
    /\ armed' = [armed EXCEPT ![p] = IdleEnabled]
    /\ UNCHANGED <<procVars, portVars, current, startVars, call, attached>>

\* access.status reaches the current bridge, perhaps after its stream dropped;
\* onGrantCountChanged stops the idle timer or starts it over.
AccessStatus(p, n) ==
    /\ current[p] = diskPort
    /\ grants' = [grants EXCEPT ![p] = n]
    /\ armed' = [armed EXCEPT ![p] = (n = 0) /\ IdleEnabled]
    /\ UNCHANGED <<procVars, portVars, current, startVars, call, attached>>

\* The stream drops: onDetach reports no access, and what it carried fails.
Detach(p) ==
    /\ attached[p]
    /\ attached' = [attached EXCEPT ![p] = FALSE]
    /\ grants' = [grants EXCEPT ![p] = 0]
    /\ armed' = [armed EXCEPT ![p] = IdleEnabled]
    /\ call' = MoveCalls(p, "inBridge", "none")
    /\ UNCHANGED <<procVars, portVars, current, startVars>>

-----------------------------------------------------------------------------
\* `browsight setup --new-port`, which keeps the token.
Setup(q) ==
    /\ q # diskPort
    /\ diskPort' = q
    /\ UNCHANGED <<proc, bootPort, portVars, current, startVars, call, bridgeVars, armed>>

\* A mutant: a move that found the port taken counts as done.
ReloadAnyway(p) ==
    /\ proc[p] # "exited"
    /\ current[p] \notin {NoPort, diskPort}
    /\ freeing' = freeing \cup {current[p]}
    /\ current' = [current EXCEPT ![p] = diskPort]
    /\ attached' = [attached EXCEPT ![p] = FALSE]
    /\ UNCHANGED <<procVars, holder, startVars, call, grants, armed>>

\* reloadConfig with a bridge: move to the port on disk if it can be bound,
\* stay put if not.  The options the next bind uses are not touched.
Reload(p) ==
    /\ proc[p] # "exited"
    /\ current[p] \notin {NoPort, diskPort}
    /\ holder[diskPort] = Nobody
    /\ holder' = [holder EXCEPT ![diskPort] = p]
    /\ freeing' = freeing \cup {current[p]}
    /\ current' = [current EXCEPT ![p] = diskPort]
    /\ attached' = [attached EXCEPT ![p] = FALSE]
    /\ UNCHANGED <<procVars, startVars, call, grants, armed>>

-----------------------------------------------------------------------------
\* The first of the shutdown triggers; later ones find `started` set.
Shutdown(p) ==
    /\ proc[p] = "running"
    /\ proc' = [proc EXCEPT ![p] = "stopping"]
    /\ armed' = [armed EXCEPT ![p] = FALSE]
    /\ Release(p)
    /\ UNCHANGED <<bootPort, diskPort, holder, stage, tries>>

\* The process ends: after close(), at the force-exit timer, or by a kill at
\* any time.  The system takes back its ports, and its client's calls are gone.
Exit(p) ==
    /\ proc[p] # "exited"
    /\ proc' = [proc EXCEPT ![p] = "exited"]
    /\ holder' = [q \in Ports |-> IF holder[q] = p THEN Nobody ELSE holder[q]]
    /\ freeing' = {q \in freeing : holder[q] # p}
    /\ current' = [current EXCEPT ![p] = NoPort]
    /\ StartOver(p)
    /\ call' = [c \in Calls |-> IF Client[c] = p THEN "none" ELSE call[c]]
    /\ attached' = [attached EXCEPT ![p] = FALSE]
    /\ grants' = [grants EXCEPT ![p] = 0]
    /\ armed' = [armed EXCEPT ![p] = FALSE]
    /\ UNCHANGED <<bootPort, diskPort>>

\* The MCP client spawns the server again: main() reads the config afresh.
Spawn(p) ==
    /\ proc[p] = "exited"
    /\ proc' = [proc EXCEPT ![p] = "running"]
    /\ bootPort' = [bootPort EXCEPT ![p] = diskPort]
    /\ armed' = [armed EXCEPT ![p] = IdleEnabled]
    /\ UNCHANGED <<diskPort, portVars, current, startVars, call, bridgeVars>>

-----------------------------------------------------------------------------
StartStep(p) ==
    BindSucceeds(p) \/ BindContended(p) \/ BindDenied(p) \/ Retry(p)

ServerStep(p) ==
    \/ StartStep(p)
    \/ \E c \in Calls : Call(p, c)
    \/ IdleFires(p) \/ Reload(p)
    \/ Shutdown(p) \/ Exit(p) \/ Spawn(p)

ExtensionStep(p) ==
    Attach(p) \/ Detach(p) \/ \E n \in {0, 1} : AccessStatus(p, n)

Next ==
    \/ \E p \in Procs : ServerStep(p) \/ ExtensionStep(p)
    \/ \E q \in Ports : PortFreed(q) \/ Setup(q)
    \/ \E c \in Calls : End(c)

Spec == Init /\ [][Next]_vars

\* A start goes on: listen() reports, and the retry timer fires.  Nothing is
\* assumed of the other processes.
StartsFair == Spec /\ \A p \in Procs : WF_vars(StartStep(p))

\* The exit a shutdown leads to, by close() or by the force-exit timer.
ExitAfterShutdown(p) == proc[p] = "stopping" /\ Exit(p)

\* Besides, idle timers fire, shutdowns finish, closed listeners let go of
\* their ports, and a bridge ends its calls (ExtensionBridge!EveryCallSettles).
FairSpec ==
    /\ StartsFair
    /\ \A p \in Procs : WF_vars(IdleFires(p)) /\ WF_vars(ExitAfterShutdown(p))
    /\ \A q \in Ports : WF_vars(PortFreed(q))
    /\ \A c \in Calls : WF_vars(End(c))
-----------------------------------------------------------------------------
\* Properties

(* A listener that is up is its process's current bridge, and the other way  *)
(* round: tool calls never go to a bridge that lost its port, and no bind    *)
(* that lost a race, no reload and no release leaves a listener behind.      *)
ListenersAreCurrent ==
    \A p \in Procs, q \in Ports :
        current[p] = q <=> holder[q] = p /\ q \notin freeing

(* A start that a release overtook stays disowned until it has ended, and    *)
(* does not end as the current bridge: a bind that finishes after the idle   *)
(* release or the shutdown it raced gives the port back, also when another   *)
(* release or another attempt comes in between (generation,                  *)
(* lazy-bridge.ts:45).                                                       *)
DisownedStartsStayOut ==
    [][\A p \in Procs : stale[p] =>
         /\ current'[p] = NoPort
         /\ stale'[p] \/ stage'[p] = "none"]_vars

(* No caller waits for a start nobody is running: pendingStart is cleared    *)
(* exactly when its callers are told the outcome.                            *)
EnsuringHasAStart ==
    \A c \in Calls : call[c] = "ensuring" => stage[Client[c]] # "none"

(* The idle timer is never running while the bridge knows of an allowed site *)
(* (onGrantCountChanged), whatever releases, rebinds, detaches and reports   *)
(* came in between: an idle release cannot cut off a site in use.            *)
NoIdleTimerWhileAllowed ==
    \A p \in Procs : armed[p] => grants[p] = 0

(* Every call that needs the port gets an answer about it: another client    *)
(* that keeps the port cannot hang a tool call (Attempts).                   *)
EveryCallLearnsOfThePort ==
    \A c \in Calls : call[c] = "ensuring" ~> call[c] # "ensuring"

\* How far the start of p has come, of 2 * Attempts - 1 steps at most.
StartProgress(p) == 2 * tries[p] + IF stage[p] = "binding" THEN 1 ELSE 0

(* What bounds that wait: as long as a call waits, there is a start it waits *)
(* for, which never falls back, and each of its steps takes it nearer to the *)
(* last of its Attempts, whatever releases, shutdowns and rivals do.         *)
StartsOnlyGoOn ==
    [][\A c \in Calls : call[c] = "ensuring" /\ call'[c] = "ensuring"
         => LET p == Client[c]
            IN  /\ stage'[p] # "none"
                /\ StartProgress(p)' \in StartProgress(p) .. 2 * Attempts - 1
                /\ StartStep(p) => StartProgress(p)' > StartProgress(p)]_vars

-----------------------------------------------------------------------------
(* The lease as the agents see it *)

\* How a call in state s stands.
Seen(s) == CASE s = "ensuring" -> "waiting"
             [] s = "inBridge" -> "served"
             [] OTHER -> "none"

callStatus == [c \in Calls |-> Seen(call[c])]

Lease == INSTANCE PortLease WITH lease <- current, status <- callStatus

(* Whatever binds, retries, releases, reloads and exits do, in however many  *)
(* processes, it amounts to PortLease: a port is taken when nobody has it    *)
(* and given back with its calls ended, and who waited for it is served or   *)
(* refused at that moment (lazy-bridge.ts, ensure and release).              *)
ImplementsPortLease == Lease!Spec

(* No two processes use one port.  A call that is in a bridge has a process  *)
(* that holds its port, one that waits for a bridge a process without one:   *)
(* no release leaves a call behind, no bind forgets one (lazy-bridge.ts:39). *)
CallsFollowThePort == Lease!Promise

-----------------------------------------------------------------------------
\* The port is held, no site is allowed and no call is open.
HoldsIdlePort(p) ==
    /\ current[p] # NoPort
    /\ grants[p] = 0
    /\ \A c \in Calls : Client[c] = p => call[c] = "none"

(* lazy-bridge.ts:8 and README.md:216: the port is released again once the   *)
(* bridge goes idle.  No process holds it for good with no site allowed and  *)
(* no tool call to serve.                                                    *)
IdlePortIsReleased == \A p \in Procs : []<>~HoldsIdlePort(p)

(* idle.ts:2: the port is released after a stretch with nothing to do.  An   *)
(* idle release does not cut off a call the bridge is serving.               *)
IdleCutsNoCall ==
    [][\A p \in Procs :
        armed[p] /\ ~armed'[p] /\ current[p] # NoPort /\ current'[p] = NoPort
            /\ proc'[p] = "running"
            => \A c \in Calls : Client[c] = p => call[c] # "inBridge"]_vars
=============================================================================
