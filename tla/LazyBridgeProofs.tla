--------------------------- MODULE LazyBridgeProofs ---------------------------
(***************************************************************************)
(* Theorems about LazyBridge, for any number of processes, calls, ports    *)
(* and attempts.                                                           *)
(***************************************************************************)
EXTENDS LazyBridge, TLAPS

\* A start runs only while there is no bridge, and only a start is disowned.
StartsHaveNoBridge ==
    \A p \in Procs :
        /\ stage[p] # "none" => current[p] = NoPort
        /\ stale[p] => stage[p] # "none"

\* A closed listener still counts as its process's until its port is free.
FreeingIsHeld == \A q \in freeing : holder[q] # Nobody

\* An exited process has left nothing behind that a respawned one would find.
ExitedHoldsNothing ==
    \A p \in Procs :
        proc[p] = "exited" => current[p] = NoPort /\ stage[p] = "none" /\ grants[p] = 0

\* The inductive invariant: the first two facts above are what a bind that
\* finishes, and a port that is let go, need to keep holder and current in step;
\* the third is what a respawn needs to start its idle timer.
IInv ==
    /\ TypeOK
    /\ StartsHaveNoBridge
    /\ FreeingIsHeld
    /\ ExitedHoldsNothing
    /\ ListenersAreCurrent
    /\ EnsuringHasAStart
    /\ NoIdleTimerWhileAllowed

LEMMA InitImpliesIInv == Init => IInv
<1> SUFFICES ASSUME Init PROVE IInv
  OBVIOUS
<1>1. TypeOK
  <2>1. 0 \in 0 .. Attempts - 1
    BY AttemptsAssumption
  <2>2. \A p \in Procs : armed[p] \in BOOLEAN
    BY IdleEnabledAssumption DEF Init
  <2> QED
    BY <2>1, <2>2 DEF Init, TypeOK, ProcStates, Stages, CallStates
<1>2. StartsHaveNoBridge /\ ExitedHoldsNothing
  BY DEF Init, StartsHaveNoBridge, ExitedHoldsNothing
<1>3. FreeingIsHeld /\ ListenersAreCurrent
  BY NobodyAssumption, NoPortAssumption
  DEF Init, FreeingIsHeld, ListenersAreCurrent
<1>4. EnsuringHasAStart /\ NoIdleTimerWhileAllowed
  BY DEF Init, EnsuringHasAStart, NoIdleTimerWhileAllowed
<1> QED
  BY <1>1, <1>2, <1>3, <1>4 DEF IInv

LEMMA MoveCallsType ==
    ASSUME TypeOK, NEW p \in Procs, NEW s, NEW t \in CallStates
    PROVE  MoveCalls(p, s, t) \in [Calls -> CallStates]
  BY DEF TypeOK, MoveCalls

LEMMA StartStepKeepsIInv ==
    ASSUME IInv, NEW p \in Procs, StartStep(p)
    PROVE  IInv'
<1> USE ClientAssumption, NoPortAssumption, NobodyAssumption, AttemptsAssumption
        DEF IInv, procVars, portVars, startVars, bridgeVars
<1>1. CASE BindSucceeds(p)
  <2> USE <1>1 DEF BindSucceeds, StartOver, MoveCalls
  <2>1. 0 \in 0 .. Attempts - 1
    OBVIOUS
  <2>2. TypeOK'
    <3>1. /\ proc' \in [Procs -> ProcStates]
          /\ bootPort' \in [Procs -> Ports] /\ diskPort' \in Ports
          /\ armed' \in [Procs -> BOOLEAN]
      BY DEF TypeOK
    <3>2. /\ holder' \in [Ports -> Procs \cup {Nobody}]
          /\ freeing' \subseteq Ports
          /\ current' \in [Procs -> Ports \cup {NoPort}]
      BY DEF TypeOK
    <3>3. /\ stage' \in [Procs -> Stages]
          /\ tries' \in [Procs -> 0 .. Attempts - 1]
      BY <2>1 DEF TypeOK, Stages
    <3>6. stale' \in [Procs -> BOOLEAN]
      BY DEF TypeOK
    <3>4. call' \in [Calls -> CallStates]
      BY DEF TypeOK, CallStates
    <3>5. /\ attached' \in [Procs -> BOOLEAN]
          /\ grants' \in [Procs -> {0, 1}]
      BY DEF TypeOK
    <3> QED
      BY <3>1, <3>2, <3>3, <3>4, <3>5, <3>6 DEF TypeOK
  <2>3. StartsHaveNoBridge' /\ ExitedHoldsNothing'
    BY DEF TypeOK, StartsHaveNoBridge, ExitedHoldsNothing
  <2>4. FreeingIsHeld'
    BY DEF TypeOK, FreeingIsHeld
  <2>5. ListenersAreCurrent'
    BY DEF TypeOK, StartsHaveNoBridge, FreeingIsHeld, ListenersAreCurrent
  <2>6. EnsuringHasAStart'
    BY DEF TypeOK, EnsuringHasAStart
  <2>7. NoIdleTimerWhileAllowed'
    BY DEF TypeOK, NoIdleTimerWhileAllowed
  <2> QED
    BY <2>2, <2>3, <2>4, <2>5, <2>6, <2>7
<1>2. CASE BindContended(p)
  <2> USE <1>2 DEF BindContended, StartOver, MoveCalls
  <2>1. 0 \in 0 .. Attempts - 1
    OBVIOUS
  <2>2. tries'[p] \in 0 .. Attempts - 1
    BY <2>1 DEF TypeOK
  <2>3. TypeOK'
    BY <2>2 DEF TypeOK, Stages, CallStates
  <2>4. StartsHaveNoBridge' /\ ExitedHoldsNothing' /\ EnsuringHasAStart'
    BY DEF TypeOK, StartsHaveNoBridge, ExitedHoldsNothing,
           EnsuringHasAStart
  <2>5. FreeingIsHeld' /\ ListenersAreCurrent' /\ NoIdleTimerWhileAllowed'
    BY DEF FreeingIsHeld, ListenersAreCurrent, NoIdleTimerWhileAllowed
  <2> QED
    BY <2>3, <2>4, <2>5
<1>3. CASE BindDenied(p)
  BY <1>3
  DEF BindDenied, StartOver, MoveCalls, TypeOK, StartsHaveNoBridge,
      ExitedHoldsNothing, FreeingIsHeld, ListenersAreCurrent,
      EnsuringHasAStart, NoIdleTimerWhileAllowed, ProcStates, Stages, CallStates
<1>4. CASE Retry(p)
  BY <1>4
  DEF Retry, TypeOK, StartsHaveNoBridge, ExitedHoldsNothing, FreeingIsHeld,
      ListenersAreCurrent, EnsuringHasAStart,
      NoIdleTimerWhileAllowed, ProcStates, Stages, CallStates
<1> QED
  BY <1>1, <1>2, <1>3, <1>4 DEF StartStep

LEMMA ReleaseKeepsIInv ==
    ASSUME IInv, NEW p \in Procs, Release(p),
           proc' \in [Procs -> ProcStates],
           \A q \in Procs : proc'[q] = "exited" => proc[q] = "exited",
           armed' = [armed EXCEPT ![p] = FALSE],
           UNCHANGED <<bootPort, diskPort, holder, stage, tries>>
    PROVE  IInv'
<1> USE ClientAssumption, NoPortAssumption, NobodyAssumption
    DEF IInv, Release, bridgeVars
<1>1. TypeOK'
  <2>1. /\ stale' \in [Procs -> BOOLEAN] /\ armed' \in [Procs -> BOOLEAN]
    BY DEF TypeOK
  <2>2. call' \in [Calls -> CallStates]
    BY MoveCallsType DEF TypeOK, CallStates
  <2>3. /\ current' \in [Procs -> Ports \cup {NoPort}]
        /\ freeing' \subseteq Ports
    BY DEF TypeOK
  <2>4. /\ attached' \in [Procs -> BOOLEAN]
        /\ grants' \in [Procs -> {0, 1}]
    BY DEF TypeOK
  <2> QED
    BY <2>1, <2>2, <2>3, <2>4 DEF TypeOK
<1>2. StartsHaveNoBridge' /\ ExitedHoldsNothing'
  BY DEF TypeOK, StartsHaveNoBridge, ExitedHoldsNothing
<1>3. FreeingIsHeld'
  BY DEF TypeOK, FreeingIsHeld, ListenersAreCurrent
<1>4. ListenersAreCurrent'
  BY DEF TypeOK, ListenersAreCurrent
<1>5. EnsuringHasAStart'
  BY DEF TypeOK, EnsuringHasAStart, MoveCalls
<1>6. NoIdleTimerWhileAllowed'
  BY DEF TypeOK, NoIdleTimerWhileAllowed
<1> QED
  BY <1>1, <1>2, <1>3, <1>4, <1>5, <1>6

LEMMA ServerStepKeepsIInv ==
    ASSUME IInv, NEW p \in Procs, ServerStep(p)
    PROVE  IInv'
<1> USE ClientAssumption, NoPortAssumption, NobodyAssumption
    DEF IInv, procVars, portVars, startVars, bridgeVars
<1>1. ASSUME NEW c \in Calls, Call(p, c) PROVE IInv'
  <2> USE <1>1 DEF Call
  <2>1. TypeOK'
    BY DEF TypeOK, Stages, CallStates
  <2>2. StartsHaveNoBridge' /\ ExitedHoldsNothing'
    BY DEF TypeOK, StartsHaveNoBridge, ExitedHoldsNothing
  <2>3. EnsuringHasAStart'
    BY DEF TypeOK, EnsuringHasAStart
  <2>4. FreeingIsHeld' /\ ListenersAreCurrent' /\ NoIdleTimerWhileAllowed'
    BY DEF FreeingIsHeld, ListenersAreCurrent, NoIdleTimerWhileAllowed
  <2> QED
    BY <2>1, <2>2, <2>3, <2>4
<1>2. CASE IdleFires(p)
  BY <1>2, ReleaseKeepsIInv DEF IdleFires, TypeOK
<1>3. CASE Reload(p)
  <2> USE <1>3 DEF Reload
  <2>1. TypeOK'
    BY DEF TypeOK
  <2>2. StartsHaveNoBridge' /\ ExitedHoldsNothing'
    BY DEF TypeOK, StartsHaveNoBridge, ExitedHoldsNothing
  <2>3. FreeingIsHeld' /\ ListenersAreCurrent'
    BY DEF TypeOK, FreeingIsHeld, ListenersAreCurrent
  <2>4. EnsuringHasAStart' /\ NoIdleTimerWhileAllowed'
    BY DEF EnsuringHasAStart, NoIdleTimerWhileAllowed
  <2> QED
    BY <2>1, <2>2, <2>3, <2>4
<1>4. CASE Shutdown(p)
  <2>1. /\ proc' \in [Procs -> ProcStates]
        /\ \A q \in Procs : proc'[q] = "exited" => proc[q] = "exited"
    BY <1>4 DEF Shutdown, TypeOK, ProcStates
  <2> QED
    BY <1>4, <2>1, ReleaseKeepsIInv DEF Shutdown
<1>5. CASE Exit(p)
  <2> USE <1>5 DEF Exit, StartOver
  <2>1. TypeOK'
    <3>1. 0 \in 0 .. Attempts - 1
      BY AttemptsAssumption
    <3>2. /\ stage' \in [Procs -> Stages]
          /\ tries' \in [Procs -> 0 .. Attempts - 1]
          /\ stale' \in [Procs -> BOOLEAN]
      BY <3>1 DEF TypeOK, Stages
    <3>3. /\ proc' \in [Procs -> ProcStates]
          /\ bootPort' \in [Procs -> Ports] /\ diskPort' \in Ports
          /\ holder' \in [Ports -> Procs \cup {Nobody}]
          /\ freeing' \subseteq Ports
          /\ current' \in [Procs -> Ports \cup {NoPort}]
      BY DEF TypeOK, ProcStates
    <3>4. /\ call' \in [Calls -> CallStates]
          /\ attached' \in [Procs -> BOOLEAN]
          /\ grants' \in [Procs -> {0, 1}]
          /\ armed' \in [Procs -> BOOLEAN]
      BY DEF TypeOK, CallStates
    <3> QED
      BY <3>2, <3>3, <3>4 DEF TypeOK
  <2>2. StartsHaveNoBridge' /\ ExitedHoldsNothing'
    BY DEF TypeOK, StartsHaveNoBridge, ExitedHoldsNothing
  <2>3. FreeingIsHeld' /\ ListenersAreCurrent'
    BY DEF TypeOK, FreeingIsHeld, ListenersAreCurrent
  <2>4. EnsuringHasAStart'
    BY DEF TypeOK, EnsuringHasAStart
  <2>5. NoIdleTimerWhileAllowed'
    BY DEF TypeOK, NoIdleTimerWhileAllowed
  <2> QED
    BY <2>1, <2>2, <2>3, <2>4, <2>5
<1>6. CASE Spawn(p)
  <2> USE <1>6 DEF Spawn
  <2>1. TypeOK'
    <3>1. armed' \in [Procs -> BOOLEAN]
      BY IdleEnabledAssumption, Zenon DEF TypeOK
    <3>2. /\ proc' \in [Procs -> ProcStates]
          /\ bootPort' \in [Procs -> Ports]
      BY DEF TypeOK, ProcStates
    <3> QED
      BY <3>1, <3>2 DEF TypeOK
  <2> QED
    BY <2>1
    DEF TypeOK, StartsHaveNoBridge, ExitedHoldsNothing,
        FreeingIsHeld,
        ListenersAreCurrent, EnsuringHasAStart, NoIdleTimerWhileAllowed
<1> QED
  BY <1>1, <1>2, <1>3, <1>4, <1>5, <1>6, StartStepKeepsIInv DEF ServerStep

LEMMA ExtensionStepKeepsIInv ==
    ASSUME IInv, NEW p \in Procs, ExtensionStep(p)
    PROVE  IInv'
<1> USE NoPortAssumption
    DEF IInv, procVars, portVars, startVars, bridgeVars, StartsHaveNoBridge,
        FreeingIsHeld, ExitedHoldsNothing, ListenersAreCurrent
<1>1. CASE Attach(p)
  BY <1>1 DEF Attach, TypeOK, EnsuringHasAStart, NoIdleTimerWhileAllowed
<1>2. ASSUME NEW n \in {0, 1}, AccessStatus(p, n) PROVE IInv'
  <2> USE <1>2 DEF AccessStatus
  <2>1. armed' \in [Procs -> BOOLEAN]
    BY Zenon DEF TypeOK
  <2>2. TypeOK'
    BY <2>1 DEF TypeOK
  <2>3. ExitedHoldsNothing'
    BY DEF TypeOK
  <2>4. NoIdleTimerWhileAllowed'
    BY DEF TypeOK, NoIdleTimerWhileAllowed
  <2> QED
    BY <2>2, <2>3, <2>4 DEF EnsuringHasAStart
<1>3. CASE Detach(p)
  <2> USE <1>3 DEF Detach
  <2>1. armed' \in [Procs -> BOOLEAN]
    BY IdleEnabledAssumption, Zenon DEF TypeOK
  <2>2. call' \in [Calls -> CallStates]
    BY MoveCallsType DEF CallStates
  <2>3. TypeOK'
    BY <2>1, <2>2 DEF TypeOK
  <2>4. EnsuringHasAStart'
    BY DEF TypeOK, EnsuringHasAStart, MoveCalls
  <2>5. NoIdleTimerWhileAllowed' /\ ExitedHoldsNothing'
    BY DEF TypeOK, NoIdleTimerWhileAllowed
  <2> QED
    BY <2>3, <2>4, <2>5
<1> QED
  BY <1>1, <1>2, <1>3 DEF ExtensionStep

LEMMA PortStepKeepsIInv ==
    ASSUME IInv, NEW q \in Ports, PortFreed(q) \/ Setup(q)
    PROVE  IInv'
  BY NobodyAssumption
  DEF IInv, PortFreed, Setup, TypeOK, StartsHaveNoBridge, FreeingIsHeld,
      ExitedHoldsNothing, ListenersAreCurrent,
      EnsuringHasAStart, NoIdleTimerWhileAllowed,
      procVars, portVars, startVars, bridgeVars

LEMMA EndKeepsIInv ==
    ASSUME IInv, NEW c \in Calls, End(c)
    PROVE  IInv'
  BY DEF IInv, End, TypeOK, CallStates, StartsHaveNoBridge, FreeingIsHeld,
         ExitedHoldsNothing, ListenersAreCurrent,
         EnsuringHasAStart, NoIdleTimerWhileAllowed,
         procVars, portVars, startVars, bridgeVars

LEMMA StutterKeepsIInv == IInv /\ UNCHANGED vars => IInv'
  BY DEF IInv, vars, TypeOK, StartsHaveNoBridge, FreeingIsHeld,
         ExitedHoldsNothing, ListenersAreCurrent,
         EnsuringHasAStart, NoIdleTimerWhileAllowed,
         procVars, portVars, startVars, bridgeVars

THEOREM IInvHolds == Spec => []IInv
<1>1. IInv /\ [Next]_vars => IInv'
  BY ServerStepKeepsIInv, ExtensionStepKeepsIInv, PortStepKeepsIInv, EndKeepsIInv,
     StutterKeepsIInv
  DEF Next
<1> QED
  BY <1>1, InitImpliesIInv, PTL DEF Spec
-----------------------------------------------------------------------------
(* Every variable keeps its type, for any number of servers and attempts.    *)
THEOREM TypeCorrect == Spec => []TypeOK
  BY IInvHolds, PTL DEF IInv

(* lazy-bridge.ts, `current`: a process's live listener is the bridge its    *)
(* tool calls use, however binds, releases, reloads and exits interleave.    *)
THEOREM ListenerIsCurrent == Spec => []ListenersAreCurrent
  BY IInvHolds, PTL DEF IInv

(* lazy-bridge.ts, `pendingStart`: nobody waits for a start nobody runs.     *)
THEOREM EveryWaiterHasAStart == Spec => []EnsuringHasAStart
  BY IInvHolds, PTL DEF IInv

(* index.ts, onGrantCountChanged: an armed idle timer means no allowed site. *)
THEOREM IdleTimerMeansNoGrants == Spec => []NoIdleTimerWhileAllowed
  BY IInvHolds, PTL DEF IInv
-----------------------------------------------------------------------------
(* What becomes of a start that a release overtook. *)

StaysOut(p) == stale[p] => /\ current'[p] = NoPort
                           /\ stale'[p] \/ stage'[p] = "none"

\* A disowned start is a start, of a process that has no bridge.
LEMMA DisownedMeansStarting ==
    ASSUME IInv, NEW p \in Procs, stale[p]
    PROVE  stage[p] # "none" /\ current[p] = NoPort
  BY DEF IInv, StartsHaveNoBridge

LEMMA StartStepStaysOut ==
    ASSUME IInv, NEW p \in Procs, NEW s \in Procs, StartStep(s)
    PROVE  StaysOut(p)
<1> SUFFICES ASSUME stale[p]
             PROVE  current'[p] = NoPort /\ (stale'[p] \/ stage'[p] = "none")
  BY DEF StaysOut
<1>1. current[p] = NoPort
  BY DisownedMeansStarting
<1> USE DEF IInv, TypeOK, StartOver, procVars, portVars, startVars, bridgeVars
<1>2. CASE BindSucceeds(s)
  BY <1>1, <1>2 DEF BindSucceeds
<1>3. CASE BindContended(s)
  BY <1>1, <1>3 DEF BindContended
<1>4. CASE BindDenied(s)
  BY <1>1, <1>4 DEF BindDenied
<1>5. CASE Retry(s)
  BY <1>1, <1>5 DEF Retry
<1> QED
  BY <1>2, <1>3, <1>4, <1>5 DEF StartStep

\* Another release finds the start under way and disowns it again.
LEMMA ReleaseStaysOut ==
    ASSUME IInv, NEW p \in Procs, NEW s \in Procs, Release(s), UNCHANGED stage
    PROVE  StaysOut(p)
  BY DisownedMeansStarting DEF StaysOut, Release, IInv, TypeOK

LEMMA ServerStepStaysOut ==
    ASSUME IInv, NEW p \in Procs, NEW s \in Procs, ServerStep(s)
    PROVE  StaysOut(p)
<1>1. CASE IdleFires(s) \/ Shutdown(s)
  BY <1>1, ReleaseStaysOut DEF IdleFires, Shutdown
<1>2. CASE (\E c \in Calls : Call(s, c)) \/ Spawn(s)
  BY <1>2, DisownedMeansStarting
  DEF StaysOut, Call, Spawn, procVars, portVars, startVars
<1>3. CASE Reload(s)
  BY <1>3, DisownedMeansStarting DEF StaysOut, Reload, IInv, TypeOK, startVars
<1>4. CASE Exit(s)
  BY <1>4, DisownedMeansStarting DEF StaysOut, Exit, StartOver, IInv, TypeOK
<1> QED
  BY <1>1, <1>2, <1>3, <1>4, StartStepStaysOut DEF ServerStep

LEMMA OtherStepsStayOut ==
    ASSUME IInv, NEW p \in Procs,
           \/ \E s \in Procs : ExtensionStep(s)
           \/ \E q \in Ports : PortFreed(q) \/ Setup(q)
           \/ \E c \in Calls : End(c)
    PROVE  StaysOut(p)
<1>1. UNCHANGED <<current, startVars>>
  BY DEF ExtensionStep, Attach, Detach, AccessStatus, PortFreed, Setup, End, startVars
<1> QED
  BY <1>1, DisownedMeansStarting DEF StaysOut, startVars

(* lazy-bridge.ts:45, `generation`: in no step, of whichever process, does a *)
(* disowned start become the bridge or stop being disowned before its end.   *)
THEOREM DisownedStartNeverServes == Spec => DisownedStartsStayOut
<1>1. IInv /\ [Next]_vars => [\A p \in Procs : StaysOut(p)]_vars
  BY ServerStepStaysOut, OtherStepsStayOut DEF Next
<1>2. IInv /\ [Next]_vars => [\A p \in Procs : stale[p] =>
                                 /\ current'[p] = NoPort
                                 /\ stale'[p] \/ stage'[p] = "none"]_vars
  BY <1>1 DEF StaysOut
<1> QED
  BY <1>2, IInvHolds, PTL DEF Spec, DisownedStartsStayOut
-----------------------------------------------------------------------------
(* The refinement of PortLease. *)

LEMMA SeenStates ==
    /\ \A s \in CallStates : Seen(s) = "none" <=> s = "none"
    /\ \A s \in CallStates : Seen(s) = "waiting" <=> s = "ensuring"
    /\ \A s \in CallStates : Seen(s) = "served" <=> s = "inBridge"
  BY DEF Seen, CallStates

\* Calls that go from one state to another together do so for the agents.
LEMMA CallsBecome ==
    ASSUME TypeOK, NEW C \in SUBSET Calls, NEW s \in CallStates,
           call' = [c \in Calls |-> IF c \in C THEN s ELSE call[c]]
    PROVE  Lease!Become(C, Seen(s))
<1>1. callStatus' = [c \in Calls |-> Seen(call'[c])]
  BY DEF callStatus
<1>2. \A c \in Calls : call'[c] = IF c \in C THEN s ELSE call[c]
  OBVIOUS
<1>3. \A c \in Calls : callStatus[c] = Seen(call[c])
  BY DEF callStatus
<1>4. \A c \in Calls : Seen(call'[c]) = IF c \in C THEN Seen(s) ELSE callStatus[c]
  BY <1>2, <1>3
<1> QED
  BY <1>1, <1>4 DEF Lease!Become

LEMMA CallsMove ==
    ASSUME TypeOK, NEW p \in Procs, NEW s \in CallStates, NEW t \in CallStates,
           call' = MoveCalls(p, s, t)
    PROVE  Lease!Become(Lease!At(p, Seen(s)), Seen(t))
<1> DEFINE C == {c \in Calls : Client[c] = p /\ call[c] = s}
<1>1. \A c \in Calls : call[c] \in CallStates /\ (call[c] = s <=> Seen(call[c]) = Seen(s))
  BY SeenStates DEF TypeOK, CallStates
<1>2. \A c \in Calls : callStatus[c] = Seen(call[c])
  BY DEF callStatus
<1>3. C = Lease!At(p, Seen(s))
  BY <1>1, <1>2 DEF Lease!At, Lease!CallsOf
<1>4. call' = [c \in Calls |-> IF c \in C THEN t ELSE call[c]]
  BY DEF MoveCalls
<1> HIDE DEF C
<1>5. C \in SUBSET Calls
  BY DEF C
<1>6. Lease!Become(C, Seen(t))
  BY <1>4, <1>5, CallsBecome
<1> QED
  BY <1>3, <1>6

\* A port without a listener is nobody's.
LEMMA FreePortIsUnleased ==
    ASSUME IInv, NEW q \in Ports, holder[q] = Nobody
    PROVE  Lease!Unleased(q)
  BY NobodyAssumption DEF IInv, ListenersAreCurrent, Lease!Unleased

LEMMA StatesSeen ==
    Seen("none") = "none" /\ Seen("ensuring") = "waiting" /\ Seen("inBridge") = "served"
  BY SeenStates DEF CallStates

LeaseStep == [Lease!Next]_(Lease!vars)

LEMMA SameLease ==
    ASSUME UNCHANGED <<current, call>>
    PROVE  LeaseStep
  BY DEF LeaseStep, Lease!vars, callStatus

\* A release gives back the port there is, and else changes nothing.
LEMMA ReleaseGivesBack ==
    ASSUME IInv, NEW p \in Procs, Release(p)
    PROVE  LeaseStep
<1>1. CASE current[p] = NoPort
  <2>1. current' = current /\ call' = call
    BY <1>1 DEF Release, bridgeVars
  <2> QED
    BY <2>1, SameLease
<1>2. CASE current[p] # NoPort
  <2>1. call' = MoveCalls(p, "inBridge", "none") /\ current' = [current EXCEPT ![p] = NoPort]
    BY <1>2 DEF Release
  <2>2. Lease!Become(Lease!At(p, "served"), "none")
    BY <2>1, CallsMove, StatesSeen DEF IInv, CallStates
  <2>3. Lease!GiveBack(p)
    BY <1>2, <2>1, <2>2 DEF Lease!GiveBack
  <2> QED
    BY <2>3 DEF LeaseStep, Lease!Next
<1> QED
  BY <1>1, <1>2

\* The callers of a start that fails are told, and had no bridge.
LEMMA TellingDenies ==
    ASSUME IInv, NEW p \in Procs, stage[p] # "none",
           call' = MoveCalls(p, "ensuring", "none"), current' = current
    PROVE  LeaseStep
<1>1. current[p] = NoPort
  BY DEF IInv, StartsHaveNoBridge
<1>2. Lease!Become(Lease!At(p, "waiting"), "none")
  BY CallsMove, StatesSeen DEF IInv, CallStates
<1>3. Lease!Deny(p)
  BY <1>1, <1>2 DEF Lease!Deny
<1> QED
  BY <1>3 DEF LeaseStep, Lease!Next

LEMMA StartStepRefines ==
    ASSUME IInv, NEW p \in Procs, StartStep(p)
    PROVE  LeaseStep
<1>1. CASE BindSucceeds(p) /\ stale[p]
  <2>1. stage[p] # "none" /\ call' = MoveCalls(p, "ensuring", "none") /\ current' = current
    BY <1>1 DEF BindSucceeds
  <2> QED
    BY <2>1, TellingDenies
<1>2. CASE BindSucceeds(p) /\ ~stale[p]
  <2>1. /\ stage[p] # "none" /\ holder[bootPort[p]] = Nobody
        /\ call' = MoveCalls(p, "ensuring", "inBridge")
        /\ current' = [current EXCEPT ![p] = bootPort[p]]
    BY <1>2 DEF BindSucceeds
  <2>2. bootPort[p] \in Ports /\ current[p] = NoPort
    BY <2>1 DEF IInv, TypeOK, StartsHaveNoBridge
  <2>3. Lease!Unleased(bootPort[p])
    BY <2>1, <2>2, FreePortIsUnleased
  <2>4. Lease!Become(Lease!At(p, "waiting"), "served")
    BY <2>1, CallsMove, StatesSeen DEF IInv, CallStates
  <2>5. Lease!Take(p, bootPort[p])
    BY <2>1, <2>2, <2>3, <2>4 DEF Lease!Take
  <2> QED
    BY <2>2, <2>5 DEF LeaseStep, Lease!Next
<1>3. CASE BindContended(p)
  <2>1. stage[p] # "none" /\ current' = current
    BY <1>3 DEF BindContended
  <2>2. call' = call \/ call' = MoveCalls(p, "ensuring", "none")
    BY <1>3 DEF BindContended
  <2> QED
    BY <2>1, <2>2, SameLease, TellingDenies
<1>4. CASE BindDenied(p)
  <2>1. stage[p] # "none" /\ call' = MoveCalls(p, "ensuring", "none") /\ current' = current
    BY <1>4 DEF BindDenied
  <2> QED
    BY <2>1, TellingDenies
<1>5. CASE Retry(p)
  BY <1>5, SameLease DEF Retry
<1> QED
  BY <1>1, <1>2, <1>3, <1>4, <1>5 DEF StartStep

LEMMA CallRefines ==
    ASSUME IInv, NEW p \in Procs, NEW c \in Calls, Call(p, c)
    PROVE  LeaseStep
<1> DEFINE s == IF current[p] = NoPort THEN "ensuring" ELSE "inBridge"
<1>1. call' = [d \in Calls |-> IF d \in {c} THEN s ELSE call[d]] /\ current' = current
  BY DEF Call, IInv, TypeOK
<1>2. s \in CallStates /\ Seen(s) = IF current[p] = NoPort THEN "waiting" ELSE "served"
  BY StatesSeen DEF CallStates
<1> HIDE DEF s
<1>3. Lease!Become({c}, Seen(s))
  BY <1>1, <1>2, CallsBecome DEF IInv
<1>4. callStatus[c] = "none" /\ Client[c] = p
  BY StatesSeen DEF Call, callStatus
<1>5. c \in Lease!At(p, "none")
  BY <1>4 DEF Lease!At, Lease!CallsOf
<1>6. Lease!Ask(p, c)
  BY <1>1, <1>2, <1>3, <1>5 DEF Lease!Ask
<1> QED
  BY <1>6 DEF LeaseStep, Lease!Next

LEMMA ReloadMoves ==
    ASSUME IInv, NEW p \in Procs, Reload(p)
    PROVE  LeaseStep
<1>1. diskPort \in Ports /\ holder[diskPort] = Nobody /\ current[p] # NoPort
  BY DEF Reload, IInv, TypeOK
<1>2. current' = [current EXCEPT ![p] = diskPort] /\ callStatus' = callStatus
  BY DEF Reload, callStatus
<1>3. Lease!Move(p, diskPort)
  BY <1>1, <1>2, FreePortIsUnleased DEF Lease!Move
<1> QED
  BY <1>1, <1>3 DEF LeaseStep, Lease!Next

LEMMA ExitLeaves ==
    ASSUME IInv, NEW p \in Procs, Exit(p)
    PROVE  LeaseStep
<1>1. call' = [c \in Calls |-> IF c \in Lease!CallsOf(p) THEN "none" ELSE call[c]]
  BY DEF Exit, Lease!CallsOf
<1>2. Lease!CallsOf(p) \in SUBSET Calls /\ "none" \in CallStates
  BY DEF Lease!CallsOf, CallStates
<1>3. Lease!Become(Lease!CallsOf(p), "none")
  BY <1>1, <1>2, CallsBecome, StatesSeen DEF IInv
<1>4. Lease!Leave(p)
  BY <1>3 DEF Lease!Leave, Exit
<1> QED
  BY <1>4 DEF LeaseStep, Lease!Next

LEMMA ServerStepRefines ==
    ASSUME IInv, NEW p \in Procs, ServerStep(p)
    PROVE  LeaseStep
<1>1. CASE IdleFires(p) \/ Shutdown(p)
  BY <1>1, ReleaseGivesBack DEF IdleFires, Shutdown
<1>2. CASE Spawn(p)
  BY <1>2, SameLease DEF Spawn
<1> QED
  BY <1>1, <1>2, StartStepRefines, CallRefines, ReloadMoves, ExitLeaves DEF ServerStep

\* A stream that drops, or an answer, ends calls and leaves the port.
LEMMA EndingRefines ==
    ASSUME IInv, NEW p \in Procs, current' = current,
           NEW C \in SUBSET Lease!At(p, "served"),
           call' = [c \in Calls |-> IF c \in C THEN "none" ELSE call[c]]
    PROVE  LeaseStep
<1>1. C \in SUBSET Calls
  BY DEF Lease!At, Lease!CallsOf
<1>2. Lease!Become(C, "none")
  BY <1>1, CallsBecome, StatesSeen DEF IInv, CallStates
<1>3. Lease!End(p, C)
  BY <1>2 DEF Lease!End
<1> QED
  BY <1>1, <1>3 DEF LeaseStep, Lease!Next

LEMMA ServedSeen ==
    ASSUME IInv, NEW p \in Procs
    PROVE  Lease!At(p, "served") = {c \in Calls : Client[c] = p /\ call[c] = "inBridge"}
  BY SeenStates DEF IInv, TypeOK, callStatus, Lease!At, Lease!CallsOf

LEMMA ExtensionStepRefines ==
    ASSUME IInv, NEW p \in Procs, ExtensionStep(p)
    PROVE  LeaseStep
<1>1. CASE Detach(p)
  <2>1. current' = current /\ call' = MoveCalls(p, "inBridge", "none")
    BY <1>1 DEF Detach
  <2>2. call' = [c \in Calls |-> IF c \in Lease!At(p, "served") THEN "none" ELSE call[c]]
    BY <2>1, ServedSeen DEF MoveCalls
  <2> QED
    BY <2>1, <2>2, EndingRefines
<1>2. CASE Attach(p) \/ \E n \in {0, 1} : AccessStatus(p, n)
  BY <1>2, SameLease DEF Attach, AccessStatus
<1> QED
  BY <1>1, <1>2 DEF ExtensionStep

LEMMA EndRefines ==
    ASSUME IInv, NEW c \in Calls, End(c)
    PROVE  LeaseStep
<1>1. Client[c] \in Procs
  BY ClientAssumption
<1>2. {c} \in SUBSET Lease!At(Client[c], "served")
  BY <1>1, ServedSeen DEF End
<1>3. current' = current /\ call' = [d \in Calls |-> IF d \in {c} THEN "none" ELSE call[d]]
  BY DEF End, IInv, TypeOK
<1> QED
  BY <1>1, <1>2, <1>3, EndingRefines

(* lazy-bridge.ts, ensure and release: the lazy bridges of any number of     *)
(* processes keep what PortLease promises about ports and calls.             *)
THEOREM LeaseRefinement == Spec => ImplementsPortLease
<1>1. Init => Lease!Init
  BY StatesSeen DEF Init, Lease!Init, callStatus
<1>2. IInv /\ [Next]_vars => [Lease!Next]_(Lease!vars)
  <2> SUFFICES ASSUME IInv, [Next]_vars PROVE LeaseStep
    BY DEF LeaseStep
  <2>1. CASE \E q \in Ports : PortFreed(q) \/ Setup(q)
    BY <2>1, SameLease DEF PortFreed, Setup
  <2>2. CASE UNCHANGED vars
    BY <2>2, SameLease DEF vars
  <2> QED
    BY <2>1, <2>2, ServerStepRefines, ExtensionStepRefines, EndRefines DEF Next
<1> QED
  BY <1>1, <1>2, IInvHolds, PTL DEF Spec, ImplementsPortLease, Lease!Spec
-----------------------------------------------------------------------------
(* What PortLease promises holds of it, and so of what implements it. *)

LEMMA LeaseStepKeepsPromise ==
    ASSUME Lease!TypeOK, Lease!Promise, LeaseStep
    PROVE  Lease!TypeOK' /\ Lease!Promise'
<1> USE ClientAssumption, NoPortAssumption
        DEF Lease!TypeOK, Lease!Promise, Lease!Status, Lease!Become, Lease!At, Lease!CallsOf,
            Lease!Unleased
<1>1. ASSUME NEW p \in Procs, NEW c \in Calls, Lease!Ask(p, c)
      PROVE  Lease!TypeOK' /\ Lease!Promise'
  BY <1>1 DEF Lease!Ask
<1>2. ASSUME NEW p \in Procs, NEW q \in Ports, Lease!Take(p, q)
      PROVE  Lease!TypeOK' /\ Lease!Promise'
  BY <1>2 DEF Lease!Take
<1>3. ASSUME NEW p \in Procs, NEW q \in Ports, Lease!Move(p, q)
      PROVE  Lease!TypeOK' /\ Lease!Promise'
  BY <1>3 DEF Lease!Move
<1>4. ASSUME NEW p \in Procs, NEW C \in SUBSET Calls, Lease!End(p, C)
      PROVE  Lease!TypeOK' /\ Lease!Promise'
  BY <1>4 DEF Lease!End
<1>5. ASSUME NEW p \in Procs, Lease!Deny(p)
      PROVE  Lease!TypeOK' /\ Lease!Promise'
  BY <1>5 DEF Lease!Deny
<1>6. ASSUME NEW p \in Procs, Lease!GiveBack(p) \/ Lease!Leave(p)
      PROVE  Lease!TypeOK' /\ Lease!Promise'
  BY <1>6 DEF Lease!GiveBack, Lease!Leave
<1>7. CASE UNCHANGED Lease!vars
  BY <1>7 DEF Lease!vars
<1> QED
  BY <1>1, <1>2, <1>3, <1>4, <1>5, <1>6, <1>7 DEF LeaseStep, Lease!Next

THEOREM LeasePromise == Lease!Spec => []Lease!Promise
<1>1. Lease!Init => Lease!TypeOK /\ Lease!Promise
  BY ClientAssumption DEF Lease!Init, Lease!TypeOK, Lease!Promise, Lease!Status
<1>2. /\ Lease!TypeOK /\ Lease!Promise /\ [Lease!Next]_(Lease!vars)
      => Lease!TypeOK' /\ Lease!Promise'
  BY LeaseStepKeepsPromise DEF LeaseStep
<1> QED
  BY <1>1, <1>2, PTL DEF Lease!Spec

(* lazy-bridge.ts, `current`: no two processes use one port; a call in a     *)
(* bridge has one that holds its port, a call that waits has none.           *)
THEOREM CallsAreWhereThePortIs == Spec => []CallsFollowThePort
  BY LeaseRefinement, LeasePromise, PTL DEF ImplementsPortLease, CallsFollowThePort
-----------------------------------------------------------------------------
(* What bounds the wait for the port. *)

\* A start that runs has a place on the way to its last attempt.
LEMMA ProgressBound ==
    ASSUME TypeOK, NEW p \in Procs
    PROVE  StartProgress(p) \in 0 .. 2 * Attempts - 1
<1>1. Attempts \in Nat /\ tries[p] \in Nat /\ tries[p] <= Attempts - 1
  BY AttemptsAssumption DEF TypeOK
<1> QED
  BY <1>1 DEF StartProgress

LEMMA ProgressBoundNext ==
    ASSUME TypeOK', NEW p \in Procs
    PROVE  StartProgress(p)' \in 0 .. 2 * Attempts - 1
<1>1. Attempts \in Nat /\ tries'[p] \in Nat /\ tries'[p] <= Attempts - 1
  BY AttemptsAssumption DEF TypeOK
<1> QED
  BY <1>1 DEF StartProgress

\* A start that did not move is where it was.
LEMMA SameProgress ==
    ASSUME TypeOK, NEW p \in Procs, stage'[p] = stage[p], tries'[p] = tries[p]
    PROVE  StartProgress(p)' = StartProgress(p)
  BY DEF StartProgress

\* As long as a caller waits, only the start's own steps move it.
LEMMA OthersLeaveStart ==
    ASSUME IInv, [Next]_vars, NEW c \in Calls, NEW p \in Procs, Client[c] = p,
           call[c] = "ensuring", call'[c] = "ensuring", ~StartStep(p)
    PROVE  stage'[p] = stage[p] /\ tries'[p] = tries[p]
<1> USE DEF IInv, TypeOK, startVars
<1>1. ASSUME NEW q \in Procs, StartStep(q)
      PROVE  stage'[p] = stage[p] /\ tries'[p] = tries[p]
  <2>1. q # p
    BY <1>1
  <2> QED
    BY <1>1, <2>1 DEF StartStep, BindSucceeds, BindContended, BindDenied, Retry, StartOver
<1>2. ASSUME NEW q \in Procs, NEW d \in Calls, Call(q, d)
      PROVE  stage'[p] = stage[p] /\ tries'[p] = tries[p]
  <2>1. stage[p] # "none"
    BY DEF EnsuringHasAStart
  <2> QED
    BY <1>2, <2>1 DEF Call
<1>3. ASSUME NEW q \in Procs, IdleFires(q) \/ Reload(q) \/ Shutdown(q) \/ Spawn(q)
      PROVE  stage'[p] = stage[p] /\ tries'[p] = tries[p]
  BY <1>3 DEF IdleFires, Reload, Shutdown, Spawn
<1>4. ASSUME NEW q \in Procs, Exit(q)
      PROVE  stage'[p] = stage[p] /\ tries'[p] = tries[p]
  <2>1. q # p
    BY <1>4 DEF Exit
  <2> QED
    BY <1>4, <2>1 DEF Exit, StartOver
<1>5. ASSUME NEW q \in Procs, ExtensionStep(q)
      PROVE  stage'[p] = stage[p] /\ tries'[p] = tries[p]
  BY <1>5 DEF ExtensionStep, Attach, Detach, AccessStatus
<1>6. ASSUME NEW q \in Ports, PortFreed(q) \/ Setup(q)
      PROVE  stage'[p] = stage[p] /\ tries'[p] = tries[p]
  BY <1>6 DEF PortFreed, Setup
<1>7. ASSUME NEW d \in Calls, End(d)
      PROVE  stage'[p] = stage[p] /\ tries'[p] = tries[p]
  BY <1>7 DEF End
<1>8. CASE UNCHANGED vars
  BY <1>8 DEF vars
<1> QED
  BY <1>1, <1>2, <1>3, <1>4, <1>5, <1>6, <1>7, <1>8 DEF Next, ServerStep

\* A step of a start that leaves a caller waiting takes it one further.
LEMMA StartStepsOn ==
    ASSUME TypeOK, NEW p \in Procs, StartStep(p),
           NEW c \in Calls, Client[c] = p, call[c] = "ensuring", call'[c] = "ensuring"
    PROVE  StartProgress(p)' = StartProgress(p) + 1
<1>1. tries[p] \in Nat
  BY AttemptsAssumption DEF TypeOK
<1>2. CASE BindSucceeds(p) \/ BindDenied(p)
  BY <1>2 DEF BindSucceeds, BindDenied, MoveCalls
<1>3. CASE BindContended(p)
  <2>1. /\ stage[p] = "binding" /\ stage'[p] = "retrying"
        /\ tries'[p] = tries[p] + 1
    BY <1>3 DEF BindContended, MoveCalls, TypeOK
  <2> QED
    BY <1>1, <2>1 DEF StartProgress
<1>4. CASE Retry(p)
  <2>1. /\ stage[p] = "retrying" /\ stage'[p] = "binding"
        /\ tries'[p] = tries[p]
    BY <1>4 DEF Retry, TypeOK
  <2> QED
    BY <1>1, <2>1 DEF StartProgress
<1> QED
  BY <1>2, <1>3, <1>4 DEF StartStep

\* One step of the system, as a caller that waits sees it.
LEMMA WaitingStep ==
    ASSUME IInv, IInv', [Next]_vars, NEW c \in Calls, NEW p \in Procs, Client[c] = p,
           call[c] = "ensuring", call'[c] = "ensuring"
    PROVE  /\ stage'[p] # "none"
           /\ StartProgress(p)' \in StartProgress(p) .. 2 * Attempts - 1
           /\ StartStep(p) => StartProgress(p)' > StartProgress(p)
<1>1. /\ StartProgress(p) \in 0 .. 2 * Attempts - 1
      /\ StartProgress(p)' \in 0 .. 2 * Attempts - 1
  <2>1. StartProgress(p) \in 0 .. 2 * Attempts - 1
    BY ProgressBound DEF IInv
  <2>2. StartProgress(p)' \in 0 .. 2 * Attempts - 1
    BY ProgressBoundNext DEF IInv
  <2> QED
    BY <2>1, <2>2
<1>2. stage'[p] # "none"
  BY DEF IInv, EnsuringHasAStart
<1>3. CASE StartStep(p)
  <2>1. StartProgress(p)' = StartProgress(p) + 1
    BY <1>3, StartStepsOn DEF IInv
  <2> QED
    BY <1>1, <1>2, <2>1, AttemptsAssumption
<1>4. CASE ~StartStep(p)
  <2>1. StartProgress(p)' = StartProgress(p)
    BY <1>4, OthersLeaveStart, SameProgress DEF IInv
  <2> QED
    BY <1>1, <1>2, <1>4, <2>1, AttemptsAssumption
<1> QED
  BY <1>3, <1>4

(* start-with-retry.ts, Attempts: while a call waits there is a start for    *)
(* it, each of its steps takes it nearer to its end, and nothing takes it    *)
(* back: at most 2 * Attempts - 1 steps, for any number of rivals.           *)
THEOREM WaitingStartGoesOn == Spec => StartsOnlyGoOn
<1>1. IInv /\ IInv' /\ [Next]_vars
      => [\A c \in Calls : call[c] = "ensuring" /\ call'[c] = "ensuring"
            => LET p == Client[c]
               IN  /\ stage'[p] # "none"
                   /\ StartProgress(p)' \in StartProgress(p) .. 2 * Attempts - 1
                   /\ StartStep(p) => StartProgress(p)' > StartProgress(p)]_vars
  BY WaitingStep, ClientAssumption
<1> QED
  BY <1>1, IInvHolds, PTL DEF Spec, StartsOnlyGoOn
=============================================================================
