------------------------ MODULE ExtensionBridgeProofs ------------------------
(***************************************************************************)
(* Theorems about ExtensionBridge, for any number of calls and streams.    *)
(***************************************************************************)
EXTENDS ExtensionBridge, TLAPS

\* The live stream has not been ended by the server, and its close event is
\* still to come.
LiveStreamIsUp == stream # NoStream => sock[stream] \in {"open", "broken"}

\* The inductive invariant.  NoOrphansUnlessMoved and CloseSettlesEverything
\* rest on the bookkeeping of TrackedExactlyWhileSent.
IInv ==
    /\ TypeOK
    /\ TrackedExactlyWhileSent
    /\ NoWaitWhileConnected
    /\ NoOrphansUnlessMoved
    /\ CloseSettlesEverything
    /\ LiveStreamIsUp

\* What Request, AwaitTimeout and Attach share: calls not in flight so far go
\* on as Proceed says, and the table of requests in flight follows them.
LEMMA ProceedKeepsTracking ==
    ASSUME TypeOK,
           pending = {c \in Calls : phase[c] = "sent"}, timers = pending,
           NEW C \in SUBSET Calls, \A c \in C : phase[c] # "sent",
           NEW s \in Streams \cup {NoStream},
           Proceed(C, s)
    PROVE  /\ phase' \in [Calls -> Phases]
           /\ pending' = {c \in Calls : phase'[c] = "sent"}
           /\ timers' = pending'
           /\ ext' \in [Calls -> ExtStates]
           /\ sentOn' \in [Calls -> Streams \cup {NoStream}]
           /\ \A c \in Calls \ C : phase'[c] = phase[c]
           /\ \A c \in C : phase'[c] \in {"sent", "unreachable"}
           /\ s = NoStream => pending' = pending
<1>1. CASE listenError \/ s = NoStream
  BY <1>1 DEF TypeOK, Proceed, SettleAll, Phases, Outcomes, Failures
<1>2. CASE ~(listenError \/ s = NoStream)
  <2>1. TrackAndSend(C, s)
    BY <1>2 DEF Proceed
  <2> QED
    BY <1>2, <2>1 DEF TypeOK, TrackAndSend, SettleAll, Phases, ExtStates
<1> QED
  BY <1>1, <1>2

\* Calls that leave the phase "sent", or never were in it, leave the table.
LEMMA SettleKeepsTracking ==
    ASSUME TypeOK,
           NEW C \in SUBSET Calls, NEW outcome \in Outcomes
    PROVE  /\ SettleAll(C, outcome) \in [Calls -> Phases]
           /\ \A c \in C : SettleAll(C, outcome)[c] = outcome
           /\ \A c \in Calls \ C : SettleAll(C, outcome)[c] = phase[c]
  BY DEF TypeOK, SettleAll, Phases

LEMMA InitImpliesIInv == Init => IInv
<1> SUFFICES ASSUME Init PROVE IInv
  OBVIOUS
<1>1. TypeOK
  <2>1. 0 \in 0 .. MaxGrants
    BY MaxGrantsAssumption
  <2> QED
    BY <2>1 DEF Init, TypeOK, Phases, Socks, ExtStates, Listeners
<1>2. TrackedExactlyWhileSent
  BY DEF Init, TrackedExactlyWhileSent
<1>3. NoWaitWhileConnected /\ NoOrphansUnlessMoved /\ LiveStreamIsUp
  BY DEF Init, NoWaitWhileConnected, NoOrphansUnlessMoved, LiveStreamIsUp
<1>4. CloseSettlesEverything
  BY DEF Init, CloseSettlesEverything
<1> QED
  BY <1>1, <1>2, <1>3, <1>4 DEF IInv

LEMMA CallStepKeepsIInv ==
    ASSUME IInv, NEW c \in Calls, CallStep(c)
    PROVE  IInv'
<1> USE DEF IInv
<1>1. CASE Request(c)
  <2> USE DEF Request, streamVars, stateVars
  <2>1. CASE ~listenError /\ stream = NoStream
    BY <1>1, <2>1
    DEF TypeOK, TrackedExactlyWhileSent, NoWaitWhileConnected,
        NoOrphansUnlessMoved, CloseSettlesEverything, LiveStreamIsUp, Phases
  <2>2. CASE ~(~listenError /\ stream = NoStream)
    <3>1. Proceed({c}, stream) /\ UNCHANGED waiters
      BY <1>1, <2>2
    <3>2. /\ phase' \in [Calls -> Phases]
          /\ pending' = {d \in Calls : phase'[d] = "sent"}
          /\ timers' = pending'
          /\ ext' \in [Calls -> ExtStates]
          /\ sentOn' \in [Calls -> Streams \cup {NoStream}]
          /\ \A d \in Calls \ {c} : phase'[d] = phase[d]
          /\ phase'[c] \in {"sent", "unreachable"}
          /\ stream = NoStream => pending' = pending
      BY <1>1, <3>1, ProceedKeepsTracking DEF TypeOK, TrackedExactlyWhileSent
    <3>3. TypeOK'
      BY <1>1, <3>1, <3>2 DEF TypeOK
    <3>4. TrackedExactlyWhileSent'
      BY <1>1, <3>1, <3>2 DEF TypeOK, TrackedExactlyWhileSent
    <3> QED
      BY <1>1, <3>1, <3>2, <3>3, <3>4
      DEF NoWaitWhileConnected, NoOrphansUnlessMoved, CloseSettlesEverything,
          LiveStreamIsUp
  <2> QED
    BY <2>1, <2>2
<1>2. CASE AwaitTimeout(c)
  <2> USE DEF AwaitTimeout, streamVars, stateVars
  <2>1. phase[c] = "waiting"
    BY <1>2 DEF TrackedExactlyWhileSent
  <2>2. /\ phase' \in [Calls -> Phases]
        /\ pending' = {d \in Calls : phase'[d] = "sent"}
        /\ timers' = pending'
        /\ ext' \in [Calls -> ExtStates]
        /\ sentOn' \in [Calls -> Streams \cup {NoStream}]
        /\ \A d \in Calls \ {c} : phase'[d] = phase[d]
        /\ phase'[c] \in {"sent", "unreachable"}
        /\ stream = NoStream => pending' = pending
    BY <1>2, <2>1, ProceedKeepsTracking DEF TypeOK, TrackedExactlyWhileSent
  <2>3. TypeOK'
    BY <1>2, <2>2 DEF TypeOK
  <2>4. TrackedExactlyWhileSent'
    BY <1>2, <2>2 DEF TypeOK, TrackedExactlyWhileSent
  <2>5. ~closed
    BY <2>1 DEF CloseSettlesEverything, Outcomes, Failures
  <2> QED
    BY <1>2, <2>2, <2>3, <2>4, <2>5
    DEF NoWaitWhileConnected, NoOrphansUnlessMoved, CloseSettlesEverything,
        LiveStreamIsUp
<1>3. CASE RequestTimeout(c)
  BY <1>3, SettleKeepsTracking
  DEF RequestTimeout, TypeOK, TrackedExactlyWhileSent, NoWaitWhileConnected,
      NoOrphansUnlessMoved, CloseSettlesEverything, LiveStreamIsUp,
      Outcomes, Failures, extVars, streamVars, stateVars
<1>4. CASE Deliver(c) \/ Perform(c) \/ LoseResponse(c)
  BY <1>4
  DEF Deliver, Perform, LoseResponse, TypeOK, TrackedExactlyWhileSent,
      NoWaitWhileConnected, NoOrphansUnlessMoved, CloseSettlesEverything,
      LiveStreamIsUp, ExtStates, callVars, streamVars, stateVars
<1>5. CASE Receive(c)
  <2> USE DEF Receive, streamVars, stateVars
  <2>1. /\ phase' \in [Calls -> Phases]
        /\ \A d \in {c} \cap pending : phase'[d] = "answered"
        /\ \A d \in Calls \ ({c} \cap pending) : phase'[d] = phase[d]
    BY <1>5, SettleKeepsTracking DEF Outcomes
  <2>2. TypeOK'
    BY <1>5, <2>1 DEF TypeOK, ExtStates
  <2>3. TrackedExactlyWhileSent'
    BY <1>5, <2>1 DEF TypeOK, TrackedExactlyWhileSent
  <2> QED
    BY <1>5, <2>1, <2>2, <2>3
    DEF NoWaitWhileConnected, NoOrphansUnlessMoved, CloseSettlesEverything,
        LiveStreamIsUp
<1> QED
  BY <1>1, <1>2, <1>3, <1>4, <1>5 DEF CallStep

LEMMA StreamStepKeepsIInv ==
    ASSUME IInv, NEW s \in Streams, StreamStep(s)
    PROVE  IInv'
<1> USE DEF IInv
<1>1. CASE Attach(s)
  <2> USE DEF Attach, stateVars
  <2>1. s # NoStream
    BY NoStreamAssumption
  <2>2. /\ phase' \in [Calls -> Phases]
        /\ pending' = {d \in Calls : phase'[d] = "sent"}
        /\ timers' = pending'
        /\ ext' \in [Calls -> ExtStates]
        /\ sentOn' \in [Calls -> Streams \cup {NoStream}]
        /\ \A d \in Calls \ waiters : phase'[d] = phase[d]
        /\ \A d \in waiters : phase'[d] \in {"sent", "unreachable"}
    BY <1>1, ProceedKeepsTracking DEF TypeOK, TrackedExactlyWhileSent
  <2>3. TypeOK'
    BY <1>1, <2>2 DEF TypeOK, Socks
  <2>4. TrackedExactlyWhileSent'
    BY <1>1, <2>2 DEF TypeOK, TrackedExactlyWhileSent
  <2>5. LiveStreamIsUp'
    BY <1>1 DEF TypeOK, LiveStreamIsUp
  <2> QED
    BY <1>1, <2>1, <2>3, <2>4, <2>5
    DEF NoWaitWhileConnected, NoOrphansUnlessMoved, CloseSettlesEverything
<1>2. CASE StreamBreaks(s)
  BY <1>2
  DEF StreamBreaks, TypeOK, TrackedExactlyWhileSent, NoWaitWhileConnected,
      NoOrphansUnlessMoved, CloseSettlesEverything, LiveStreamIsUp,
      ExtStates, Socks, callVars, stateVars
<1>3. CASE StreamClosed(s)
  <2> USE DEF StreamClosed, extVars
  <2>1. CASE stream = s
    <3>1. /\ phase' \in [Calls -> Phases]
          /\ \A d \in pending : phase'[d] = "disconnected"
          /\ \A d \in Calls \ pending : phase'[d] = phase[d]
      BY <1>3, <2>1, SettleKeepsTracking DEF Detach, TypeOK, Outcomes, Failures
    <3>2. TypeOK'
      <4>1. 0 \in 0 .. MaxGrants
        BY MaxGrantsAssumption
      <4> QED
        BY <1>3, <2>1, <3>1, <4>1 DEF Detach, TypeOK, Socks
    <3>3. TrackedExactlyWhileSent'
      BY <1>3, <2>1, <3>1 DEF Detach, TypeOK, TrackedExactlyWhileSent
    <3> QED
      BY <1>3, <2>1, <3>1, <3>2, <3>3
      DEF Detach, NoWaitWhileConnected, NoOrphansUnlessMoved,
          CloseSettlesEverything, LiveStreamIsUp, TypeOK, Outcomes, Failures
  <2>2. CASE stream # s
    BY <1>3, <2>2
    DEF TypeOK, TrackedExactlyWhileSent, NoWaitWhileConnected,
        NoOrphansUnlessMoved, CloseSettlesEverything, LiveStreamIsUp, Socks
  <2> QED
    BY <2>1, <2>2
<1> QED
  BY <1>1, <1>2, <1>3 DEF StreamStep

LEMMA BridgeStepKeepsIInv ==
    ASSUME IInv, BridgeStep
    PROVE  IInv'
<1> USE DEF IInv, TypeOK, TrackedExactlyWhileSent, NoWaitWhileConnected,
            NoOrphansUnlessMoved, CloseSettlesEverything, LiveStreamIsUp
<1>1. CASE Auth
  BY <1>1 DEF Auth, callVars, extVars, streamVars
<1>2. CASE \E n \in 0 .. MaxGrants : AccessStatus(n)
  BY <1>2 DEF AccessStatus, callVars, extVars, streamVars
<1>3. CASE ListenerError
  BY <1>3 DEF ListenerError, callVars, extVars, streamVars
<1>4. CASE ReloadMoves
  BY <1>4 DEF ReloadMoves, Listeners, callVars, extVars, streamVars
<1>5. CASE ReloadDone
  <2> USE DEF ReloadDone, extVars
  <2>1. /\ phase' \in [Calls -> Phases]
        /\ \A d \in waiters : phase'[d] = "unreachable"
        /\ \A d \in Calls \ waiters : phase'[d] = phase[d]
    BY <1>5, SettleKeepsTracking DEF Outcomes, Failures
  <2>2. TypeOK'
    BY <1>5, <2>1 DEF EndStream, Socks, Listeners
  <2>3. TrackedExactlyWhileSent'
    BY <1>5, <2>1
  <2> QED
    BY <1>5, <2>1, <2>2, <2>3 DEF Outcomes, Failures
<1>6. CASE Close
  <2> USE DEF Close, extVars
  <2>1. phase' \in [Calls -> Phases]
    BY <1>6 DEF Phases, Outcomes, Failures
  <2>2. TypeOK'
    BY <1>6, <2>1 DEF EndStream, Socks
  <2>3. \A d \in Calls : phase'[d] \in {"idle"} \cup Outcomes
    BY <1>6 DEF Phases, Outcomes, Failures
  <2>4. TrackedExactlyWhileSent'
    BY <1>6, <2>3 DEF Outcomes, Failures
  <2> QED
    BY <1>6, <2>2, <2>3, <2>4
<1>7. CASE WorkerStops
  BY <1>7 DEF WorkerStops, ExtStates, Socks, callVars, stateVars
<1> QED
  BY <1>1, <1>2, <1>3, <1>4, <1>5, <1>6, <1>7 DEF BridgeStep

LEMMA StutterKeepsIInv == IInv /\ UNCHANGED vars => IInv'
  BY DEF IInv, TypeOK, TrackedExactlyWhileSent, NoWaitWhileConnected,
         NoOrphansUnlessMoved, CloseSettlesEverything, LiveStreamIsUp,
         vars, callVars, extVars, streamVars, stateVars

THEOREM IInvHolds == Spec => []IInv
<1>1. IInv /\ [Next]_vars => IInv'
  BY CallStepKeepsIInv, StreamStepKeepsIInv, BridgeStepKeepsIInv, StutterKeepsIInv
  DEF Next
<1> QED
  BY <1>1, InitImpliesIInv, PTL DEF Spec

\* The theorems the runs check on small instances.

(* Every variable keeps its type, whatever the calls and streams.            *)
THEOREM TypeCorrect == Spec => []TypeOK
  BY IInvHolds, PTL DEF IInv

(* pending-requests.ts: settled requests, and only those, are out of the     *)
(* table and have no timer; whoever waits for a connection is a waiter.      *)
THEOREM Bookkeeping == Spec => []TrackedExactlyWhileSent
  BY IInvHolds, PTL DEF IInv

(* extension-channel.ts: nobody waits while an extension is attached.        *)
THEOREM NobodyWaitsWhileConnected == Spec => []NoWaitWhileConnected
  BY IInvHolds, PTL DEF IInv

(* bridge.ts: only a reload leaves a request without the stream it was sent on. *)
THEOREM DropTakesRequestsDown == Spec => []NoOrphansUnlessMoved
  BY IInvHolds, PTL DEF IInv

(* bridge.ts: close() settles every call and detaches the extension.         *)
THEOREM CloseSettles == Spec => []CloseSettlesEverything
  BY IInvHolds, PTL DEF IInv
-----------------------------------------------------------------------------
\* The bridge implements ToolCalls.

\* A call not handed to the stream yet is unknown to the extension.
UnsentIsUnknown ==
    \A c \in Calls : phase[c] \in {"idle", "waiting"} => ext[c] = "none"

LEMMA UnsentStep ==
    ASSUME IInv, UnsentIsUnknown, [Next]_vars
    PROVE  UnsentIsUnknown'
<1> USE DEF IInv, TypeOK, TrackedExactlyWhileSent, UnsentIsUnknown
<1>1. ASSUME NEW c \in Calls, CallStep(c) PROVE UnsentIsUnknown'
  BY <1>1
  DEF CallStep, Request, AwaitTimeout, RequestTimeout, Deliver, Perform,
      Receive, LoseResponse, Proceed, TrackAndSend, SettleAll, callVars,
      extVars, streamVars, stateVars
<1>2. ASSUME NEW s \in Streams, StreamStep(s) PROVE UnsentIsUnknown'
  BY <1>2
  DEF StreamStep, Attach, StreamBreaks, StreamClosed, Detach, Proceed,
      TrackAndSend, SettleAll, callVars, extVars, streamVars, stateVars
<1>3. ASSUME BridgeStep PROVE UnsentIsUnknown'
  BY <1>3
  DEF BridgeStep, Auth, AccessStatus, ListenerError, ReloadMoves, ReloadDone,
      Close, WorkerStops, SettleAll, callVars, extVars, streamVars, stateVars
<1>4. ASSUME UNCHANGED vars PROVE UnsentIsUnknown'
  BY <1>4 DEF vars, callVars, extVars
<1> QED
  BY <1>1, <1>2, <1>3, <1>4 DEF Next

\* The status the agent sees, phase by phase.
LEMMA StatusOfPhase ==
    /\ agentStatus = [c \in Calls |-> agentStatus[c]]
    /\ \A c \in Calls :
        /\ phase[c] = "idle" => agentStatus[c] = "unasked"
        /\ phase[c] \in {"waiting", "sent"} => agentStatus[c] = "open"
        /\ phase[c] = "answered" => agentStatus[c] = "answered"
        /\ phase[c] \in Failures => agentStatus[c] = "failed"
  BY Zenon DEF agentStatus, Failures

LEMMA StatusOfPhaseNext ==
    /\ agentStatus' = [c \in Calls |-> agentStatus'[c]]
    /\ \A c \in Calls :
        /\ phase'[c] = "idle" => agentStatus'[c] = "unasked"
        /\ phase'[c] \in {"waiting", "sent"} => agentStatus'[c] = "open"
        /\ phase'[c] = "answered" => agentStatus'[c] = "answered"
        /\ phase'[c] \in Failures => agentStatus'[c] = "failed"
  BY Zenon DEF agentStatus, Failures

\* Steps that change no call's standing and nothing the browser did.
LEMMA SamePhases ==
    ASSUME TypeOK, TypeOK',
           \A c \in Calls : \/ phase'[c] = phase[c]
                            \/ {phase[c], phase'[c]} \subseteq {"waiting", "sent"}
    PROVE  agentStatus' = agentStatus
<1>1. \A c \in Calls : agentStatus'[c] = agentStatus[c]
  BY StatusOfPhase, StatusOfPhaseNext DEF TypeOK, Phases, Outcomes
<1> QED
  BY <1>1, StatusOfPhase, StatusOfPhaseNext

\* Steps in which the calls of C, all open, fail.
LEMMA FailingStep ==
    ASSUME TypeOK, TypeOK', UNCHANGED browserPerformed,
           NEW C \in SUBSET Calls,
           \A c \in C : phase[c] \in {"waiting", "sent"} /\ phase'[c] \in Failures,
           \A c \in Calls \ C : phase'[c] = phase[c]
    PROVE  [Agent!Next]_(Agent!vars)
<1>1. CASE C = {}
  <2>1. agentStatus' = agentStatus
    BY <1>1, SamePhases
  <2> QED
    BY <2>1 DEF Agent!vars
<1>2. CASE C # {}
  <2>1. \A c \in C : agentStatus[c] = "open" /\ agentStatus'[c] = "failed"
    BY StatusOfPhase, StatusOfPhaseNext
  <2>2. \A c \in Calls \ C : agentStatus'[c] = agentStatus[c]
    BY StatusOfPhase, StatusOfPhaseNext DEF TypeOK, Phases, Outcomes
  <2>3. agentStatus' = [c \in Calls |-> IF c \in C THEN "failed" ELSE agentStatus[c]]
    BY <2>1, <2>2, StatusOfPhaseNext
  <2>4. Agent!Fail(C)
    BY <1>2, <2>1, <2>3 DEF Agent!Fail
  <2> QED
    BY <2>4 DEF Agent!Next
<1> QED
  BY <1>1, <1>2

\* A step that touches one call, from idle or open, in the abstract.
LEMMA CallStepRefines ==
    ASSUME IInv, IInv', UnsentIsUnknown, NEW c \in Calls, CallStep(c)
    PROVE  [Agent!Next]_(Agent!vars)
<1> USE DEF IInv
<1>1. CASE Request(c)
  <2>1. phase[c] = "idle" /\ phase'[c] \in {"waiting", "sent", "unreachable"}
    BY <1>1 DEF Request, Proceed, TrackAndSend, SettleAll, TypeOK
  <2>2. \A d \in Calls \ {c} : phase'[d] = phase[d]
    BY <1>1 DEF Request, Proceed, TrackAndSend, SettleAll, TypeOK
  <2>3. UNCHANGED browserPerformed
    BY <1>1, <2>1 DEF Request, Proceed, TrackAndSend, SettleAll, TypeOK,
                      browserPerformed, UnsentIsUnknown
  <2>4. /\ agentStatus[c] = "unasked"
        /\ agentStatus'[c] \in {"open", "failed"}
        /\ \A d \in Calls \ {c} : agentStatus'[d] = agentStatus[d]
    BY <2>1, <2>2, StatusOfPhase, StatusOfPhaseNext
    DEF TypeOK, Phases, Outcomes, Failures
  <2>5. Agent!Ask(c) \/ Agent!Refuse(c)
    BY <2>3, <2>4, StatusOfPhase, StatusOfPhaseNext DEF Agent!Ask, Agent!Refuse
  <2> QED
    BY <2>5 DEF Agent!Next
<1>2. CASE AwaitTimeout(c)
  <2>1. phase[c] = "waiting" /\ phase'[c] \in {"sent", "unreachable"}
    BY <1>2 DEF AwaitTimeout, Proceed, TrackAndSend, SettleAll, TypeOK,
                TrackedExactlyWhileSent
  <2>2. \A d \in Calls \ {c} : phase'[d] = phase[d]
    BY <1>2 DEF AwaitTimeout, Proceed, TrackAndSend, SettleAll, TypeOK
  <2>3. UNCHANGED browserPerformed
    BY <1>2, <2>1 DEF AwaitTimeout, Proceed, TrackAndSend, SettleAll, TypeOK,
                      browserPerformed, UnsentIsUnknown
  <2>4. CASE phase'[c] = "sent"
    <3>1. agentStatus' = agentStatus
      BY <2>1, <2>2, <2>4, SamePhases
    <3> QED
      BY <3>1, <2>3 DEF Agent!vars
  <2>5. CASE phase'[c] = "unreachable"
    <3> DEFINE C == {c}
    <3>1. /\ C \in SUBSET Calls
          /\ \A d \in C : phase[d] \in {"waiting", "sent"} /\ phase'[d] \in Failures
          /\ \A d \in Calls \ C : phase'[d] = phase[d]
      BY <2>1, <2>2, <2>5 DEF Failures
    <3> QED
      BY <3>1, <2>3, FailingStep
  <2> QED
    BY <2>1, <2>4, <2>5
<1>3. CASE RequestTimeout(c)
  <2> DEFINE C == {c}
  <2>1. /\ C \in SUBSET Calls
        /\ \A d \in C : phase[d] \in {"waiting", "sent"} /\ phase'[d] \in Failures
        /\ \A d \in Calls \ C : phase'[d] = phase[d]
    BY <1>3
    DEF RequestTimeout, SettleAll, TypeOK, TrackedExactlyWhileSent, Failures
  <2>2. UNCHANGED browserPerformed
    BY <1>3 DEF RequestTimeout, extVars, browserPerformed
  <2> QED
    BY <2>1, <2>2, FailingStep
<1>4. CASE Deliver(c) \/ LoseResponse(c)
  <2>1. UNCHANGED <<phase, browserPerformed>>
    BY <1>4 DEF Deliver, LoseResponse, callVars, TypeOK, browserPerformed
  <2>2. agentStatus' = agentStatus
    BY <2>1, SamePhases
  <2> QED
    BY <2>1, <2>2 DEF Agent!vars
<1>5. CASE Perform(c)
  <2>1. c \notin browserPerformed /\ browserPerformed' = browserPerformed \cup {c}
    BY <1>5 DEF Perform, TypeOK, browserPerformed
  <2>2. phase' = phase /\ phase[c] # "idle"
    BY <1>5 DEF Perform, callVars, UnsentIsUnknown
  <2>3. agentStatus' = agentStatus /\ agentStatus[c] # "unasked"
    BY <2>2, SamePhases, StatusOfPhase DEF TypeOK, Phases, Outcomes
  <2>4. Agent!Perform(c)
    BY <2>1, <2>3 DEF Agent!Perform
  <2> QED
    BY <2>4 DEF Agent!Next
<1>6. CASE Receive(c)
  <2>1. c \in browserPerformed /\ UNCHANGED browserPerformed
    BY <1>6 DEF Receive, TypeOK, browserPerformed
  <2>2. CASE c \in pending
    <3>1. /\ phase[c] = "sent" /\ phase'[c] = "answered"
          /\ \A d \in Calls \ {c} : phase'[d] = phase[d]
      BY <1>6, <2>2 DEF Receive, SettleAll, TypeOK, TrackedExactlyWhileSent
    <3>2. /\ agentStatus[c] = "open" /\ agentStatus'[c] = "answered"
          /\ \A d \in Calls \ {c} : agentStatus'[d] = agentStatus[d]
      BY <3>1, StatusOfPhase, StatusOfPhaseNext DEF TypeOK, Phases, Outcomes
    <3>3. Agent!Answer(c)
      BY <2>1, <3>2, StatusOfPhase, StatusOfPhaseNext DEF Agent!Answer
    <3> QED
      BY <3>3 DEF Agent!Next
  <2>3. CASE c \notin pending
    <3>1. \A d \in Calls : phase'[d] = phase[d]
      BY <1>6, <2>3 DEF Receive, SettleAll, TypeOK
    <3>2. agentStatus' = agentStatus
      BY <3>1, SamePhases
    <3> QED
      BY <2>1, <3>2 DEF Agent!vars
  <2> QED
    BY <2>2, <2>3
<1> QED
  BY <1>1, <1>2, <1>3, <1>4, <1>5, <1>6 DEF CallStep

LEMMA StreamStepRefines ==
    ASSUME IInv, IInv', UnsentIsUnknown, NEW s \in Streams, StreamStep(s)
    PROVE  [Agent!Next]_(Agent!vars)
<1> USE DEF IInv
<1>1. CASE Attach(s)
  <2>1. \A c \in waiters : phase[c] = "waiting" /\ ext[c] = "none"
    BY DEF TrackedExactlyWhileSent, UnsentIsUnknown
  <2>2. \A c \in Calls \ waiters : phase'[c] = phase[c]
    BY <1>1 DEF Attach, Proceed, TrackAndSend, SettleAll, TypeOK
  <2>3. UNCHANGED browserPerformed
    BY <1>1, <2>1 DEF Attach, Proceed, TrackAndSend, SettleAll, TypeOK,
                      browserPerformed
  <2>4. CASE listenError
    <3>1. \A c \in waiters : phase'[c] \in Failures
      BY <1>1, <2>4 DEF Attach, Proceed, SettleAll, TypeOK, Failures
    <3> QED
      BY <2>1, <2>2, <2>3, <3>1, FailingStep DEF TypeOK
  <2>5. CASE ~listenError
    <3>1. \A c \in waiters : phase'[c] = "sent"
      BY <1>1, <2>5, NoStreamAssumption
      DEF Attach, Proceed, TrackAndSend, SettleAll, TypeOK
    <3>2. agentStatus' = agentStatus
      BY <2>1, <2>2, <3>1, SamePhases
    <3> QED
      BY <2>3, <3>2 DEF Agent!vars
  <2> QED
    BY <2>4, <2>5
<1>2. CASE StreamBreaks(s)
  <2>1. UNCHANGED <<phase, browserPerformed>>
    BY <1>2 DEF StreamBreaks, callVars, TypeOK, browserPerformed
  <2>2. agentStatus' = agentStatus
    BY <2>1, SamePhases
  <2> QED
    BY <2>1, <2>2 DEF Agent!vars
<1>3. CASE StreamClosed(s)
  <2>1. UNCHANGED browserPerformed
    BY <1>3 DEF StreamClosed, extVars, browserPerformed
  <2>2. CASE stream = s
    <3>1. /\ \A c \in pending : phase[c] = "sent" /\ phase'[c] \in Failures
          /\ \A c \in Calls \ pending : phase'[c] = phase[c]
      BY <1>3, <2>2 DEF StreamClosed, Detach, SettleAll, TypeOK,
                        TrackedExactlyWhileSent, Failures
    <3> QED
      BY <2>1, <3>1, FailingStep DEF TypeOK
  <2>3. CASE stream # s
    <3>1. agentStatus' = agentStatus
      BY <1>3, <2>3, SamePhases DEF StreamClosed
    <3> QED
      BY <2>1, <3>1 DEF Agent!vars
  <2> QED
    BY <2>2, <2>3
<1> QED
  BY <1>1, <1>2, <1>3 DEF StreamStep

LEMMA BridgeStepRefines ==
    ASSUME IInv, IInv', UnsentIsUnknown, BridgeStep
    PROVE  [Agent!Next]_(Agent!vars)
<1> USE DEF IInv
<1>1. CASE \/ Auth
           \/ \E n \in 0 .. MaxGrants : AccessStatus(n)
           \/ ListenerError \/ ReloadMoves \/ WorkerStops
  <2>1. UNCHANGED <<phase, browserPerformed>>
    BY <1>1 DEF Auth, AccessStatus, ListenerError, ReloadMoves, WorkerStops,
                callVars, extVars, TypeOK, browserPerformed
  <2>2. agentStatus' = agentStatus
    BY <2>1, SamePhases
  <2> QED
    BY <2>1, <2>2 DEF Agent!vars
<1>2. CASE ReloadDone
  <2>1. /\ \A c \in waiters : phase[c] = "waiting" /\ phase'[c] \in Failures
        /\ \A c \in Calls \ waiters : phase'[c] = phase[c]
    BY <1>2 DEF ReloadDone, SettleAll, TypeOK, TrackedExactlyWhileSent, Failures
  <2>2. UNCHANGED browserPerformed
    BY <1>2 DEF ReloadDone, extVars, browserPerformed
  <2> QED
    BY <2>1, <2>2, FailingStep DEF TypeOK
<1>3. CASE Close
  <2> DEFINE C == waiters \cup pending
  <2>1. /\ C \in SUBSET Calls
        /\ \A c \in C : phase[c] \in {"waiting", "sent"} /\ phase'[c] \in Failures
        /\ \A c \in Calls \ C : phase'[c] = phase[c]
    BY <1>3 DEF Close, TypeOK, TrackedExactlyWhileSent, Failures
  <2>2. UNCHANGED browserPerformed
    BY <1>3 DEF Close, extVars, browserPerformed
  <2> QED
    BY <2>1, <2>2, FailingStep
<1> QED
  BY <1>1, <1>2, <1>3 DEF BridgeStep

(* Every behaviour of the bridge is one ToolCalls allows: one outcome per    *)
(* call, an answer only from the browser's work on that very call, and at    *)
(* most one performance of it (bridge.ts, request and pending.settle).       *)
THEOREM Refinement == Spec => ImplementsToolCalls
<1>1. Init => Agent!Init /\ UnsentIsUnknown
  <2> SUFFICES ASSUME Init PROVE Agent!Init /\ UnsentIsUnknown
    OBVIOUS
  <2>1. \A c \in Calls : phase[c] = "idle" /\ ext[c] = "none"
    BY DEF Init
  <2>2. agentStatus = [c \in Calls |-> "unasked"]
    BY <2>1, StatusOfPhase
  <2>3. browserPerformed = {}
    BY <2>1 DEF browserPerformed
  <2> QED
    BY <2>1, <2>2, <2>3 DEF Agent!Init, UnsentIsUnknown
<1>2. IInv /\ UnsentIsUnknown /\ [Next]_vars => UnsentIsUnknown'
  BY UnsentStep
<1>3. IInv /\ IInv' /\ UnsentIsUnknown /\ [Next]_vars => [Agent!Next]_(Agent!vars)
  <2> SUFFICES ASSUME IInv, IInv', UnsentIsUnknown, [Next]_vars
               PROVE  [Agent!Next]_(Agent!vars)
    OBVIOUS
  <2>1. CASE Next
    BY <2>1, CallStepRefines, StreamStepRefines, BridgeStepRefines DEF Next
  <2>2. CASE UNCHANGED vars
    <3>1. UNCHANGED <<phase, browserPerformed>>
      BY <2>2 DEF vars, callVars, extVars, browserPerformed
    <3>2. agentStatus' = agentStatus
      BY <3>1, SamePhases DEF IInv
    <3> QED
      BY <3>1, <3>2 DEF Agent!vars
  <2> QED
    BY <2>1, <2>2
<1> QED
  BY <1>1, <1>2, <1>3, IInvHolds, PTL DEF Spec, ImplementsToolCalls, Agent!Spec
-----------------------------------------------------------------------------
(* extension-channel.ts, handleDisconnect: only the close event of the live  *)
(* stream rejects calls as disconnected.                                     *)
THEOREM StaleCloseIsHarmless == Spec => StaleCloseRejectsNothing
<1> DEFINE Rejects == \E c \in Calls :
                          phase[c] # "disconnected" /\ phase'[c] = "disconnected"
           LiveDrops == /\ stream # NoStream
                        /\ sock[stream] = "broken" /\ sock'[stream] = "closed"
<1>1. IInv /\ [Next]_vars => [Rejects => LiveDrops]_vars
  <2> SUFFICES ASSUME IInv, Next, NEW c \in Calls,
                      phase[c] # "disconnected", phase'[c] = "disconnected"
               PROVE  LiveDrops
    OBVIOUS
  <2> USE DEF IInv, TypeOK, SettleAll
  <2>1. ASSUME NEW d \in Calls, CallStep(d) PROVE FALSE
    BY <2>1
    DEF CallStep, Request, AwaitTimeout, RequestTimeout, Deliver, Perform,
                Receive, LoseResponse, Proceed, TrackAndSend, callVars
  <2>2. ASSUME NEW s \in Streams, StreamStep(s) PROVE LiveDrops
    BY <2>2, NoStreamAssumption
    DEF StreamStep, Attach, StreamBreaks, StreamClosed, Detach, Proceed,
        TrackAndSend, callVars, LiveStreamIsUp
  <2>3. ASSUME BridgeStep PROVE FALSE
    BY <2>3 DEF BridgeStep, Auth, AccessStatus, ListenerError, ReloadMoves,
                ReloadDone, Close, WorkerStops, callVars
  <2> QED
    BY <2>1, <2>2, <2>3 DEF Next
<1> QED
  BY <1>1, IInvHolds, PTL DEF Spec, StaleCloseRejectsNothing
=============================================================================
