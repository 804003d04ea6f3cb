-------------------------- MODULE WorkerConnection --------------------------
(***************************************************************************)
(* The extension's end of the event stream: the service worker connects    *)
(* at start, on an alarm and on a click (service-worker.ts,                *)
(* transport/client.ts, transport/sse.ts), goes dormant after repeated     *)
(* genuine failures (transport/dormancy.ts), and loses all its state when  *)
(* Chrome stops it.  ExtensionBridge is the other end.                     *)
(*                                                                         *)
(* A step is what runs between two awaits.  An attempt is one call of      *)
(* openConnection together with the controller and the stream it opens.    *)
(***************************************************************************)
EXTENDS Naturals

CONSTANTS
    Attempts,     \* attempts that may be under way, or hold a stream, at once
    NoAttempt,    \* null
    MaxRetries,   \* MAX_CONNECTION_RETRIES of dormancy.ts
    MaxEvents     \* bound: clicks, broken streams and stops of the worker

ASSUME NoAttemptAssumption == NoAttempt \notin Attempts
ASSUME MaxRetriesAssumption == MaxRetries \in Nat \ {0}
ASSUME MaxEventsAssumption == MaxEvents \in Nat

VARIABLES
    alive,                \* the worker is running
    consecutiveFailures, sleeping,
    connectionAttempt,    \* the attempt of record, cleared by disconnect()
    activeController,     \* the attempt whose stream is the connection
    stage,                \* where each attempt waits
    stream,               \* its stream; "ended" until the reader notices
    waking,               \* wakeUp() calls at each of their two awaits
    period,               \* of the keepalive alarm, which Chrome keeps
    server,               \* what an attempt meets
    events                \* bounded disturbances so far

attemptVars == <<connectionAttempt, activeController, stage, stream>>
dormancyVars == <<consecutiveFailures, sleeping, period>>
envVars == <<server, events>>
vars == <<alive, attemptVars, dormancyVars, waking, envVars>>

\* "restoring": about to reset the alarm; "dozing": in enterSleepMode.
Stages == {"idle", "authenticating", "opening", "restoring", "reporting", "dozing"}
StreamStates == {"none", "open", "ended"}
WakeStages == {"clearing", "restoring"}
\* "faulty": connection.json, the token or the stored grants are not usable.
Servers == {"closed", "serving", "faulty"}

TypeOK ==
    /\ alive \in BOOLEAN
    /\ sleeping \in BOOLEAN
    /\ consecutiveFailures \in 0 .. MaxRetries
    /\ connectionAttempt \in Attempts \cup {NoAttempt}
    /\ activeController \in Attempts \cup {NoAttempt}
    /\ stage \in [Attempts -> Stages]
    /\ stream \in [Attempts -> StreamStates]
    /\ waking \in [WakeStages -> Nat]
    /\ period \in {"responsive", "dormant"}
    /\ server \in Servers
    /\ events \in 0 .. MaxEvents

\* Everything at module level is as a fresh evaluation has it.
Idle == [a \in Attempts |-> "idle"]
NoStreams == [a \in Attempts |-> "none"]
NotWaking == [w \in WakeStages |-> 0]

Init ==
    /\ alive = FALSE
    /\ consecutiveFailures = 0 /\ sleeping = FALSE
    /\ connectionAttempt = NoAttempt /\ activeController = NoAttempt
    /\ stage = Idle /\ stream = NoStreams /\ waking = NotWaking
    /\ period = "responsive"
    /\ server \in Servers
    /\ events = 0

-----------------------------------------------------------------------------
(* disconnect() and what is built on it                                    *)

\* Aborting the connection ends its stream; its onDisconnect finds another
\* controller in place, or none, and does nothing.
Aborted(s) == [a \in Attempts |-> IF a = activeController THEN "none" ELSE s[a]]

\* What is in flight is forgotten, not cancelled.
Disconnect(s) ==
    /\ connectionAttempt' = NoAttempt
    /\ activeController' = NoAttempt
    /\ stream' = Aborted(s)

Settle(a, s) == stage' = [stage EXCEPT ![a] = s]

\* The mistake of counting an idle server as a failure.
CountsAll(genuine) == ~sleeping

\* What is not reachable is not counted, nor a retry while dormant.
Counts(genuine) == ~sleeping /\ genuine

\* The off-by-one of going dormant a failure late.
OverBudgetLate(failures) == failures > MaxRetries

OverBudget(failures) == failures >= MaxRetries

\* a ends in handleConnectionFailure; s is what it leaves of the streams.
Fail(a, genuine, s) ==
    /\ Disconnect(s)
    /\ IF ~Counts(genuine)
       THEN Settle(a, "idle") /\ UNCHANGED dormancyVars
       ELSE /\ consecutiveFailures' = consecutiveFailures + 1
            /\ IF OverBudget(consecutiveFailures + 1)
               THEN sleeping' = TRUE /\ period' = "dormant" /\ Settle(a, "dozing")
               ELSE UNCHANGED <<sleeping, period>> /\ Settle(a, "idle")
    /\ UNCHANGED <<alive, waking, envVars>>

-----------------------------------------------------------------------------
(* Attempts                                                                *)

\* The mistake of looking only for a connection, not for an attempt.
MayConnectBesides(force) == (~sleeping \/ force) /\ activeController = NoAttempt

MayConnect(force) ==
    /\ ~sleeping \/ force
    /\ activeController = NoAttempt
    /\ connectionAttempt = NoAttempt

Connect(a, force) ==
    /\ MayConnect(force)
    /\ stage[a] = "idle" /\ stream[a] = "none"
    /\ Settle(a, "authenticating")
    /\ connectionAttempt' = a
    /\ UNCHANGED <<activeController, stream>>

Authenticated(a) ==
    /\ stage[a] = "authenticating"
    /\ server # "closed"
    /\ Settle(a, "opening")
    /\ UNCHANGED <<alive, connectionAttempt, activeController, stream, dormancyVars, waking, envVars>>

\* No config, a refused token, or nothing listening.
NotAuthenticated(a) ==
    /\ stage[a] = "authenticating"
    /\ server # "serving"
    /\ Fail(a, server = "faulty", stream)

\* The server attaches the new stream and ends the one it replaces.
ServerAttaches(a) ==
    /\ stage[a] = "opening" /\ stream[a] = "none"
    /\ server # "closed"
    /\ stream' = [b \in Attempts |->
                    IF b = a THEN "open"
                    ELSE IF stream[b] = "open" THEN "ended" ELSE stream[b]]
    /\ UNCHANGED <<alive, connectionAttempt, activeController, stage, dormancyVars, waking, envVars>>

\* fetch rejects: the port is gone, perhaps with the response on its way.
OpenFails(a) ==
    /\ stage[a] = "opening"
    /\ server = "closed"
    /\ Fail(a, FALSE, [stream EXCEPT ![a] = "none"])

\* /events is refused: the connection is forgotten, whosever it is.
OpenRefused(a) ==
    /\ stage[a] = "opening" /\ stream[a] = "none"
    /\ server = "faulty"
    /\ Settle(a, "idle")
    /\ connectionAttempt' = NoAttempt
    /\ activeController' = NoAttempt
    /\ UNCHANGED <<alive, stream, dormancyVars, waking, envVars>>

\* The mistake of forgetting that the alarm was slowed.
OpenedForgetsAlarm(a) ==
    /\ stage[a] = "opening" /\ stream[a] # "none"
    /\ activeController' = a
    /\ consecutiveFailures' = 0
    /\ sleeping' = FALSE
    /\ Settle(a, "reporting")
    /\ UNCHANGED <<alive, connectionAttempt, stream, period, waking, envVars>>

\* The response is here: this stream is the connection from now on.
Opened(a) ==
    /\ stage[a] = "opening" /\ stream[a] # "none"
    /\ activeController' = a
    /\ consecutiveFailures' = 0
    /\ sleeping' = FALSE
    /\ Settle(a, IF sleeping THEN "restoring" ELSE "reporting")
    /\ UNCHANGED <<alive, connectionAttempt, stream, period, waking, envVars>>

Restored(a) ==
    /\ stage[a] = "restoring"
    /\ period' = "responsive"
    /\ Settle(a, "reporting")
    /\ UNCHANGED <<alive, connectionAttempt, activeController, stream,
                   consecutiveFailures, sleeping, waking, envVars>>

\* The finally of connect clears the entry, whosever it is by now.
Finished(a) ==
    /\ stage[a] \in {"reporting", "dozing"}
    /\ Settle(a, "idle")
    /\ connectionAttempt' = NoAttempt
    /\ UNCHANGED <<alive, activeController, stream, dormancyVars, waking, envVars>>

\* reportAccessStatus throws when the grants cannot be read.
ReportFails(a) ==
    /\ stage[a] = "reporting"
    /\ server = "faulty"
    /\ Fail(a, TRUE, stream)

Step(a) ==
    \/ Authenticated(a) \/ NotAuthenticated(a)
    \/ ServerAttaches(a) \/ OpenFails(a) \/ OpenRefused(a) \/ Opened(a)
    \/ Restored(a) \/ Finished(a) \/ ReportFails(a)

\* The mistake of leaving the controller of an ended stream in place.
StreamEndsUnnoticed(a) ==
    /\ stream[a] = "ended" /\ stage[a] # "opening"
    /\ stream' = [stream EXCEPT ![a] = "none"]
    /\ UNCHANGED <<alive, connectionAttempt, activeController, stage, dormancyVars, waking, envVars>>

\* The reader meets the end of the stream and calls onDisconnect.
StreamEnds(a) ==
    /\ stream[a] = "ended" /\ stage[a] # "opening"
    /\ stream' = [stream EXCEPT ![a] = "none"]
    /\ activeController' = IF activeController = a THEN NoAttempt ELSE activeController
    /\ UNCHANGED <<alive, connectionAttempt, stage, dormancyVars, waking, envVars>>

-----------------------------------------------------------------------------
(* What starts attempts                                                    *)

\* The mistake of letting dormancy block the alarm as well.
AlarmUnforced ==
    /\ alive
    /\ \E a \in Attempts : Connect(a, FALSE)
    /\ UNCHANGED <<alive, dormancyVars, waking, envVars>>

\* Forced while dormant, at most once per interval.
Alarm ==
    /\ alive
    /\ \E a \in Attempts : Connect(a, sleeping)
    /\ UNCHANGED <<alive, dormancyVars, waking, envVars>>

\* A click on the toolbar or a message of the popup: leaveSleepMode.
WakeUp ==
    /\ alive /\ events < MaxEvents
    /\ consecutiveFailures' = 0
    /\ sleeping' = FALSE
    /\ Disconnect(stream)
    /\ waking' = [waking EXCEPT !["clearing"] = @ + 1]
    /\ events' = events + 1
    /\ UNCHANGED <<alive, stage, period, server>>

WakeRestores ==
    /\ waking["clearing"] > 0
    /\ waking' = [waking EXCEPT !["clearing"] = @ - 1, !["restoring"] = @ + 1]
    /\ period' = "responsive"
    /\ UNCHANGED <<alive, attemptVars, consecutiveFailures, sleeping, envVars>>

WakeConnects ==
    /\ waking["restoring"] > 0
    /\ waking' = [waking EXCEPT !["restoring"] = @ - 1]
    /\ \/ \E a \in Attempts : Connect(a, FALSE)
       \/ ~MayConnect(FALSE) /\ UNCHANGED attemptVars
    /\ UNCHANGED <<alive, dormancyVars, envVars>>

\* Chrome evaluates the worker again, for an alarm or any other event.
Revive ==
    /\ ~alive
    /\ alive' = TRUE
    /\ period' = "responsive"
    /\ \E a \in Attempts : Connect(a, FALSE)
    /\ UNCHANGED <<consecutiveFailures, sleeping, waking, envVars>>

-----------------------------------------------------------------------------
(* Chrome and the server                                                   *)

\* Chrome stops the worker; the alarm is all that stays.
Stop ==
    /\ alive /\ events < MaxEvents
    /\ alive' = FALSE
    /\ consecutiveFailures' = 0 /\ sleeping' = FALSE
    /\ connectionAttempt' = NoAttempt /\ activeController' = NoAttempt
    /\ stage' = Idle /\ stream' = NoStreams /\ waking' = NotWaking
    /\ events' = events + 1
    /\ UNCHANGED <<period, server>>

StreamBreaks(a) ==
    /\ events < MaxEvents
    /\ stream[a] = "open"
    /\ stream' = [stream EXCEPT ![a] = "ended"]
    /\ events' = events + 1
    /\ UNCHANGED <<alive, connectionAttempt, activeController, stage, dormancyVars, waking, server>>

\* A server that closes its port ends the streams on it.
ServerChanges ==
    /\ server' \in Servers \ {server}
    /\ stream' = [a \in Attempts |->
                    IF server' = "closed" /\ stream[a] = "open" THEN "ended" ELSE stream[a]]
    /\ UNCHANGED <<alive, connectionAttempt, activeController, stage, dormancyVars, waking, events>>

Next ==
    \/ \E a \in Attempts : Step(a) \/ StreamEnds(a) \/ StreamBreaks(a)
    \/ Alarm \/ WakeUp \/ WakeRestores \/ WakeConnects
    \/ Revive \/ Stop \/ ServerChanges

Spec == Init /\ [][Next]_vars

\* Awaits end, alarms fire, a stopped worker is revived.
Fairness ==
    /\ \A a \in Attempts : WF_vars(Step(a)) /\ WF_vars(StreamEnds(a))
    /\ WF_vars(Alarm) /\ WF_vars(Revive)
    /\ WF_vars(WakeRestores) /\ WF_vars(WakeConnects)

\* The alarm is slower than an attempt: 24 seconds at the least
\* (keepalive.ts:15), against two requests to loopback.  Sooner or later it
\* no longer meets an attempt under way.
SlowAlarm == <>[][Alarm => stage = Idle]_vars

FairSpec == Spec /\ Fairness /\ SlowAlarm

-----------------------------------------------------------------------------
(* Properties                                                              *)

\* "Connection state is never left claiming a stream that has gone"
\* (sse.ts:6): the connection of record has a stream, or one whose end the
\* reader has still to report, in whatever order attempts, aborts and ends
\* come.
NoGhostConnection ==
    activeController # NoAttempt => stream[activeController] # "none"

RestoreDue ==
    \/ waking["clearing"] > 0
    \/ \E a \in Attempts : stage[a] = "restoring"

\* "Coming back from dormant, restore the responsive keepalive interval"
\* (client.ts:125): an awake worker is never left on the slow alarm,
\* whichever way it came back and whatever raced with it.
AwakeIsResponsive ==
    alive /\ ~sleeping => period = "responsive" \/ RestoreDue

\* "Finding nothing listening is browsight's normal resting state rather
\* than a fault" (dormancy.ts:4): with nothing genuinely wrong, the worker
\* never goes dormant, however long the port stays closed.
IdleServerNeverDozes == [](server # "faulty") => []~sleeping

Alone ==
    /\ \A a \in Attempts : stage[a] # "idle" => connectionAttempt = a
    /\ \A a \in Attempts :
         stream[a] = "open" => stage[a] = "opening" \/ activeController = a

\* "Connect, unless one is already live or in flight" (client.ts:136): with no
\* click and nothing faulty, alarms, revivals, broken streams and a server
\* that comes and goes never make two attempts overlap, and no open stream
\* is left that is neither the connection nor about to be.
UndisturbedAttemptsAreAlone ==
    [](server # "faulty" /\ waking = NotWaking) => []Alone

Connected ==
    /\ activeController # NoAttempt
    /\ stream[activeController] = "open"

\* Once the server serves for good, the worker gets back to it and stays,
\* with no click, from dormancy too (keepalive.ts:5).
BackOnline == <>[](server = "serving") => <>[]Connected

\* "Drop the current connection and any attempt in flight"
\* (connection-state.ts:74): only the attempt of record becomes the
\* connection.  The code forgets the attempt, which goes on and connects.
DroppedAttemptsNeverConnect ==
    [][activeController' \notin {activeController, NoAttempt}
         => connectionAttempt = activeController']_vars
=============================================================================
